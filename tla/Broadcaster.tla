---------------------------- MODULE Broadcaster ----------------------------
(***************************************************************************)
(* utils/broadcast: one goroutine, run, owns the set of subscribed         *)
(* channels.  Submit, Register and Unregister reach it over channels, the  *)
(* first with a buffer; it hands each message to one subscriber after the  *)
(* other and does nothing else meanwhile.                                  *)
(*                                                                         *)
(* A subscriber owns one unbuffered channel.  One goroutine of its own     *)
(* reads it until it stops for good; another calls Register and Unregister *)
(* in turn.                                                                *)
(***************************************************************************)
EXTENDS Naturals, Sequences, SequencesExt, FiniteSets

CONSTANTS
    Subscribers,  \* and their channels
    Submitters,   \* goroutines that call Submit
    BufLens,      \* possible lengths of the input buffer
    MaxMsgs       \* bound: messages in all

VARIABLES
    bufLen,     \* the length of the input buffer
    input,      \* messages in the buffer
    at,         \* where run is
    current,    \* the message it broadcasts
    todo,       \* the channels it has not sent it to
    outputs,    \* b.outputs
    regClosed,  \* b.reg is closed
    pos,        \* where each caller is
    said,       \* messages each submitter has begun to submit
    stopped,    \* subscribers that do not read any more
    got,        \* history: what each subscriber received
    due,        \* history: what was broadcast while it was registered
    crashed     \* a send on, or a close of, the closed channel b.reg

vars == <<bufLen, input, at, current, todo, outputs, regClosed, pos, said,
          stopped, got, due, crashed>>

Init ==
    /\ bufLen \in BufLens
    /\ input = <<>>
    /\ at = "select"
    /\ current = <<>> /\ todo = {}
    /\ outputs = {}
    /\ regClosed = FALSE
    /\ pos = [g \in Subscribers \cup Submitters |-> "out"]
    /\ said = [p \in Submitters |-> 0]
    /\ stopped = {}
    /\ got = [s \in Subscribers |-> <<>>]
    /\ due = got
    /\ crashed = FALSE
-----------------------------------------------------------------------------
(* The callers *)

Messages == Submitters \X (1 .. MaxMsgs)   \* a submitter, and which of its own

BeginSubmit(p) ==
    /\ pos[p] = "out"
    /\ Cardinality({m \in Messages : m[2] <= said[m[1]]}) < MaxMsgs
    /\ said' = [said EXCEPT ![p] = @ + 1]
    /\ pos' = [pos EXCEPT ![p] = "submit"]
    /\ UNCHANGED <<bufLen, input, at, current, todo, outputs, regClosed,
                   stopped, got, due, crashed>>

\* Mutant: the queue has no bound.
SubmitUnbounded(p) ==
    /\ pos[p] = "submit"
    /\ input' = Append(input, <<p, said[p]>>)
    /\ pos' = [pos EXCEPT ![p] = "out"]
    /\ UNCHANGED <<bufLen, at, current, todo, outputs, regClosed, said,
                   stopped, got, due, crashed>>

\* b.input <- m, into the buffer
Submit(p) ==
    /\ pos[p] = "submit"
    /\ Len(input) < bufLen
    /\ input' = Append(input, <<p, said[p]>>)
    /\ pos' = [pos EXCEPT ![p] = "out"]
    /\ UNCHANGED <<bufLen, at, current, todo, outputs, regClosed, said,
                   stopped, got, due, crashed>>

BeginRegister(s) ==
    /\ pos[s] = "out"
    /\ pos' = [pos EXCEPT ![s] = "register"]
    /\ UNCHANGED <<bufLen, input, at, current, todo, outputs, regClosed, said,
                   stopped, got, due, crashed>>

\* b.reg <- newch on the closed channel
RegisterClosed(s) ==
    /\ pos[s] = "register"
    /\ regClosed
    /\ crashed' = TRUE
    /\ UNCHANGED <<bufLen, input, at, current, todo, outputs, regClosed, pos,
                   said, stopped, got, due>>

BeginUnregister(s) ==
    /\ pos[s] = "in"
    /\ pos' = [pos EXCEPT ![s] = "unregister"]
    /\ UNCHANGED <<bufLen, input, at, current, todo, outputs, regClosed, said,
                   stopped, got, due, crashed>>

\* The second call panics.
Close ==
    /\ regClosed' = TRUE
    /\ crashed' = regClosed
    /\ UNCHANGED <<bufLen, input, at, current, todo, outputs, pos, said,
                   stopped, got, due>>

StopReading(s) ==
    /\ s \notin stopped
    /\ stopped' = stopped \cup {s}
    /\ UNCHANGED <<bufLen, input, at, current, todo, outputs, regClosed, pos,
                   said, got, due, crashed>>
-----------------------------------------------------------------------------
(* run *)

\* The broadcast of m begins.  Callers that have returned from Register and
\* not from Unregister expect it.
Broadcast(m) ==
    /\ at = "select"
    /\ current' = m
    /\ at' = "broadcast"
    /\ todo' = outputs
    /\ due' = [s \in Subscribers |->
                 IF pos[s] \in {"in", "unregister"} THEN Append(due[s], m)
                                                    ELSE due[s]]
    /\ UNCHANGED <<bufLen, outputs, regClosed, said, stopped, got, crashed>>

\* m := <-b.input, from the buffer
TakeInput ==
    /\ input # <<>>
    /\ input' = Tail(input)
    /\ Broadcast(Head(input))
    /\ UNCHANGED pos

\* The same without a buffer: run and a submitter meet.
Meet(p) ==
    /\ bufLen = 0
    /\ pos[p] = "submit"
    /\ pos' = [pos EXCEPT ![p] = "out"]
    /\ Broadcast(<<p, said[p]>>)
    /\ UNCHANGED input

\* ch <- m meets a subscriber that reads.
Send(s) ==
    /\ at = "broadcast"
    /\ s \in todo
    /\ s \notin stopped
    /\ got' = [got EXCEPT ![s] = Append(@, current)]
    /\ todo' = todo \ {s}
    /\ UNCHANGED <<bufLen, input, at, current, outputs, regClosed, pos, said,
                   stopped, due, crashed>>

\* Mutant: run returns after a broadcast.
BroadcastEndReturns ==
    /\ at = "broadcast"
    /\ todo = {}
    /\ at' = "ended"
    /\ UNCHANGED <<bufLen, input, current, todo, outputs, regClosed, pos, said,
                   stopped, got, due, crashed>>

BroadcastEnd ==
    /\ at = "broadcast"
    /\ todo = {}
    /\ at' = "select"
    /\ current' = <<>>
    /\ UNCHANGED <<bufLen, input, todo, outputs, regClosed, pos, said,
                   stopped, got, due, crashed>>

\* ch, ok := <-b.reg
Register(s) ==
    /\ at = "select"
    /\ pos[s] = "register"
    /\ ~regClosed
    /\ outputs' = outputs \cup {s}
    /\ pos' = [pos EXCEPT ![s] = "in"]
    /\ UNCHANGED <<bufLen, input, at, current, todo, regClosed, said, stopped,
                   got, due, crashed>>

\* Mutant: a goroutine deletes the channel while run may be in a broadcast.
UnregisterAnytime(s) ==
    /\ pos[s] = "unregister"
    /\ outputs' = outputs \ {s}
    /\ pos' = [pos EXCEPT ![s] = "out"]
    /\ todo' = todo \ {s}
    /\ UNCHANGED <<bufLen, input, at, current, regClosed, said, stopped, got,
                   due, crashed>>

\* ch := <-b.unreg
Unregister(s) ==
    /\ at = "select"
    /\ pos[s] = "unregister"
    /\ outputs' = outputs \ {s}
    /\ pos' = [pos EXCEPT ![s] = "out"]
    /\ UNCHANGED <<bufLen, input, at, current, todo, regClosed, said, stopped,
                   got, due, crashed>>

\* b.reg is closed: run returns, maybe with messages in the buffer.
RunEnds ==
    /\ at = "select"
    /\ regClosed
    /\ at' = "ended"
    /\ UNCHANGED <<bufLen, input, current, todo, outputs, regClosed, pos, said,
                   stopped, got, due, crashed>>
-----------------------------------------------------------------------------
CallerStep ==
    \/ \E p \in Submitters : BeginSubmit(p) \/ Submit(p)
    \/ \E s \in Subscribers :
         BeginRegister(s) \/ RegisterClosed(s) \/ BeginUnregister(s)
         \/ StopReading(s)
    \/ Close

RunStep ==
    \/ TakeInput
    \/ \E p \in Submitters : Meet(p)
    \/ \E s \in Subscribers : Send(s) \/ Register(s) \/ Unregister(s)
    \/ BroadcastEnd
    \/ RunEnds

\* A panic ends the process.
Next == ~crashed /\ (CallerStep \/ RunStep)

Spec == Init /\ [][Next]_vars

\* The call of g meets run, or the buffer.
Serve(g) ==
    \/ g \in Submitters /\ (Submit(g) \/ Meet(g))
    \/ g \in Subscribers /\ (Register(g) \/ Unregister(g))

\* run goes on; of the ready cases of its select, which Go chooses at random,
\* none is passed over for ever; submitters wait for the buffer in turn.
Fairness ==
    /\ WF_vars(~crashed /\ RunStep)
    /\ SF_vars(~crashed /\ TakeInput)
    /\ \A g \in Submitters \cup Subscribers : SF_vars(~crashed /\ Serve(g))
-----------------------------------------------------------------------------
TypeOK ==
    /\ bufLen \in BufLens
    /\ input \in Seq(Messages) /\ Len(input) <= bufLen
    /\ at \in {"select", "broadcast", "ended"}
    /\ current \in Messages \cup {<<>>}
    /\ todo \in SUBSET outputs
    /\ outputs \in SUBSET Subscribers
    /\ pos \in [Subscribers \cup Submitters ->
                  {"out", "submit", "register", "in", "unregister"}]
    /\ said \in [Submitters -> 0 .. MaxMsgs]
    /\ stopped \in SUBSET Subscribers
    /\ got \in [Subscribers -> Seq(Messages)]
    /\ due \in [Subscribers -> Seq(Messages)]
    /\ regClosed \in BOOLEAN /\ crashed \in BOOLEAN

(***************************************************************************)
(* A subscriber receives each message whose broadcast begins between the   *)
(* return of its Register and the return of its Unregister, and no other,  *)
(* once, in the order of the broadcasts, in which the messages of one      *)
(* submitter are in the order of its calls.  While a broadcast is under    *)
(* way the subscribers still to come miss only its message.                *)
(***************************************************************************)
ExactDelivery ==
    \A s \in Subscribers :
        /\ got[s] = IF at = "broadcast" /\ s \in todo THEN Front(due[s])
                                                      ELSE due[s]
        /\ \A i, j \in DOMAIN due[s] :
             i < j /\ due[s][i][1] = due[s][j][1] =>
                 due[s][i][2] < due[s][j][2]

(***************************************************************************)
(* As long as every subscriber reads and nobody closes the broadcaster,    *)
(* every call returns, also that of a subscriber run is just sending to.   *)
(***************************************************************************)
CallsReturn ==
    \A g \in Subscribers \cup Submitters :
        pos[g] \in {"submit", "register", "unregister"}
            ~> pos[g] \in {"out", "in"} \/ stopped # {} \/ regClosed
=============================================================================
