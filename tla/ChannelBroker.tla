--------------------------- MODULE ChannelBroker ---------------------------
(***************************************************************************)
(* The in-process broker of broker/channel: one buffered Go channel for    *)
(* each queue of each subject, kept in a map under a sync.RWMutex.         *)
(*                                                                         *)
(* Publish walks the channels of a subject while it holds the read lock    *)
(* and may block in a send until its timer fires; SubscribeWithChannel,    *)
(* Unsubscribe and CloseConnection take the write lock; one delivery       *)
(* goroutine per SubscribeWithChannel moves messages from the queue's      *)
(* channel to the channel the subscriber reads.                            *)
(***************************************************************************)
EXTENDS Naturals, Sequences, FiniteSets, SequencesExt, Functions

CONSTANTS
    Subjects,     \* the subjects that are published to
    Queues,       \* the queue names that are subscribed
    Callers,      \* goroutines that call Publish
    Forwarders,   \* goroutines started by PublishWithChannel
    Managers,     \* goroutines that subscribe, unsubscribe or close
    NoOne,        \* nobody: the write lock is not asked for
    BufferSize,   \* Options.SingleChannelBufferSize
    MaxMsgs,      \* bound: MaxMsgs[p] messages are sent by publisher p
    MaxSubs       \* bound: calls of SubscribeWithChannel

ASSUME BrokerAssumption ==
    /\ Subjects # {}
    /\ BufferSize \in Nat \ {0}
    /\ MaxMsgs \in [Callers \cup Forwarders -> Nat]
    /\ MaxSubs \in Nat
    /\ Callers \cap Forwarders = {}
    /\ Callers \cap Managers = {}
    /\ Forwarders \cap Managers = {}
    /\ NoOne \notin Callers \cup Forwarders \cup Managers

Publishers == Callers \cup Forwarders
Threads == Publishers \cup Managers
Chans == 1 .. MaxSubs          \* a call makes at most one channel
Deliveries == 1 .. MaxSubs     \* and starts one delivery goroutine
Msgs == UNION {{p} \X (1 .. MaxMsgs[p]) : p \in Publishers}

NoChan == 0                 \* a missing map entry

\* What a manager asks for.
NoRequest == [op |-> "none"]
Requests ==
    [op : {"subscribe"}, subject : Subjects, queue : Queues]
    \cup [op : {"unsubscribe"}, subject : Subjects]
    \cup [op : {"close"}]

VARIABLES
    storage,    \* storage[s][q]: the channel of queue q of subject s
    nchan,      \* channels made so far, 1 .. nchan
    closed,     \* the closed channels
    buf,        \* the contents of each channel
    readers,    \* RWMutex: holders of the read lock
    rqueue,     \* RWMutex: readers parked behind a writer
    writer,     \* RWMutex: the writer that is announced or inside
    pc,         \* where each thread is
    request,    \* the request a manager is serving
    subject,    \* the subject a publisher publishes to
    sent,       \* how many messages a publisher has begun to publish
    todo,       \* Publish: channels its loop has not visited
    good,       \* Publish: successList
    failed,     \* Publish: failedList
    ndel,       \* delivery goroutines started so far, 1 .. ndel
    source,     \* the channel a delivery goroutine ranges over
    dstate,     \* where each delivery goroutine is
    hand,       \* the message it has received and not passed on
    gone,       \* delivery goroutines whose subscriber stopped reading
    accepted,   \* history: every message put in a channel, in order
    received,   \* history: every message a subscriber got, in order
    panicked    \* a send on, or a close of, a closed channel happened

lockVars == <<readers, rqueue, writer>>
chanVars == <<storage, nchan, closed>>
pubVars == <<subject, sent, todo, good, failed>>
delVars == <<ndel, source, dstate, hand, gone, received>>
vars == <<chanVars, buf, lockVars, pc, request, pubVars, delVars,
          accepted, panicked>>
-----------------------------------------------------------------------------
Init ==
    /\ storage = [s \in Subjects |-> [q \in Queues |-> NoChan]]
    /\ nchan = 0
    /\ closed = {}
    /\ buf = [c \in Chans |-> <<>>]
    /\ readers = {}
    /\ rqueue = {}
    /\ writer = NoOne
    /\ pc = [t \in Threads |-> IF t \in Forwarders THEN "off" ELSE "idle"]
    /\ request = [m \in Managers |-> NoRequest]
    /\ subject = [p \in Publishers |-> CHOOSE s \in Subjects : TRUE]
    /\ sent = [p \in Publishers |-> 0]
    /\ todo = [p \in Publishers |-> {}]
    /\ good = [p \in Publishers |-> {}]
    /\ failed = [p \in Publishers |-> {}]
    /\ ndel = 0
    /\ source = [d \in Deliveries |-> NoChan]
    /\ dstate = [d \in Deliveries |-> "off"]
    /\ hand = [d \in Deliveries |-> <<>>]
    /\ gone = {}
    /\ accepted = [c \in Chans |-> <<>>]
    /\ received = [d \in Deliveries |-> <<>>]
    /\ panicked = FALSE

\* The channels stored for a subject, and all that are stored.
Stored(s) == {storage[s][q] : q \in Queues} \ {NoChan}
AllStored == UNION {Stored(s) : s \in Subjects}

\* sync.RWMutex.RLock: a reader that meets an announced writer is parked.
RLock(p) ==
    /\ IF writer = NoOne
       THEN readers' = readers \cup {p} /\ UNCHANGED rqueue
       ELSE rqueue' = rqueue \cup {p} /\ UNCHANGED readers
    /\ UNCHANGED writer

RUnlock(p) ==
    /\ readers' = readers \ {p}
    /\ UNCHANGED <<rqueue, writer>>

\* sync.RWMutex.Unlock: every parked reader gets in before another writer.
Unlock ==
    /\ writer' = NoOne
    /\ readers' = rqueue
    /\ rqueue' = {}
-----------------------------------------------------------------------------
(* Publish and PublishWithChannel *)

\* The message publisher p is publishing.
Current(p) == <<p, sent[p]>>

BeginPublish(p) ==
    /\ pc[p] = "idle"
    /\ sent[p] < MaxMsgs[p]
    /\ sent' = [sent EXCEPT ![p] = @ + 1]
    /\ pc' = [pc EXCEPT ![p] = "rlock"]
    /\ RLock(p)

\* A goroutine calls Publish.
CallPublish(p, s) ==
    /\ BeginPublish(p)
    /\ subject' = [subject EXCEPT ![p] = s]
    /\ UNCHANGED <<chanVars, buf, request, todo, good, failed, delVars,
                   accepted, panicked>>

PublishWithChannel(f, s) ==
    /\ pc[f] = "off"
    /\ pc' = [pc EXCEPT ![f] = "idle"]
    /\ subject' = [subject EXCEPT ![f] = s]
    /\ UNCHANGED <<chanVars, buf, lockVars, request, sent, todo, good, failed,
                   delVars, accepted, panicked>>

\* The forwarder's range statement yields a message, which it publishes.
ForwardNext(f) ==
    /\ BeginPublish(f)
    /\ UNCHANGED <<chanVars, buf, request, subject, todo, good, failed,
                   delVars, accepted, panicked>>

\* The caller closed the channel the forwarder ranges over.
ForwardEnd(f) ==
    /\ pc[f] = "idle"
    /\ pc' = [pc EXCEPT ![f] = "off"]
    /\ UNCHANGED <<chanVars, buf, lockVars, request, pubVars, delVars,
                   accepted, panicked>>

\* Mutant: the lock only guards the look-up and is released before the loop.
PublishEnterUnlocked(p) ==
    /\ pc[p] = "rlock"
    /\ p \in readers
    /\ pc' = [pc EXCEPT ![p] = "loop"]
    /\ todo' = [todo EXCEPT ![p] = Stored(subject[p])]
    /\ RUnlock(p)
    /\ UNCHANGED <<chanVars, buf, request, subject, sent, good, failed,
                   delVars, accepted, panicked>>

\* With the read lock held: the range over h.storage[subject] begins.
PublishEnter(p) ==
    /\ pc[p] = "rlock"
    /\ p \in readers
    /\ pc' = [pc EXCEPT ![p] = "loop"]
    /\ todo' = [todo EXCEPT ![p] = Stored(subject[p])]
    /\ UNCHANGED <<chanVars, buf, lockVars, request, subject, sent, good,
                   failed, delVars, accepted, panicked>>

\* Mutant: a full channel drops its oldest message.
PublishSendEvicting(p, c) ==
    /\ pc[p] = "loop"
    /\ c \in todo[p]
    /\ buf' = [buf EXCEPT ![c] =
                 Append(IF Len(@) < BufferSize THEN @ ELSE Tail(@), Current(p))]
    /\ accepted' = [accepted EXCEPT ![c] = Append(@, Current(p))]
    /\ todo' = [todo EXCEPT ![p] = @ \ {c}]
    /\ good' = [good EXCEPT ![p] = @ \cup {c}]
    /\ UNCHANGED <<chanVars, lockVars, pc, request, subject, sent, failed,
                   delVars, panicked>>

\* case ch <- message: the map is ranged over in any order.
PublishSend(p, c) ==
    /\ pc[p] = "loop"
    /\ c \in todo[p]
    /\ c \in closed \/ Len(buf[c]) < BufferSize
    /\ IF c \in closed
       THEN panicked' = TRUE /\ UNCHANGED <<buf, accepted>>
       ELSE /\ buf' = [buf EXCEPT ![c] = Append(@, Current(p))]
            /\ accepted' = [accepted EXCEPT ![c] = Append(@, Current(p))]
            /\ UNCHANGED panicked
    /\ todo' = [todo EXCEPT ![p] = @ \ {c}]
    /\ good' = [good EXCEPT ![p] = @ \cup {c}]
    /\ UNCHANGED <<chanVars, lockVars, pc, request, subject, sent, failed,
                   delVars>>

\* Mutant: a queue that timed out is forgotten.
PublishTimeoutSilent(p, c) ==
    /\ pc[p] = "loop"
    /\ c \in todo[p]
    /\ c \notin closed
    /\ Len(buf[c]) = BufferSize
    /\ todo' = [todo EXCEPT ![p] = @ \ {c}]
    /\ UNCHANGED <<chanVars, buf, lockVars, pc, request, subject, sent, good,
                   failed, delVars, accepted, panicked>>

\* Mutant: the send has no timer.
PublishTimeoutNever(p, c) == FALSE

\* case <-time.After(h.PublishToChannelDelay): the send was never possible.
PublishTimeout(p, c) ==
    /\ pc[p] = "loop"
    /\ c \in todo[p]
    /\ c \notin closed
    /\ Len(buf[c]) = BufferSize
    /\ todo' = [todo EXCEPT ![p] = @ \ {c}]
    /\ failed' = [failed EXCEPT ![p] = @ \cup {c}]
    /\ UNCHANGED <<chanVars, buf, lockVars, pc, request, subject, sent, good,
                   delVars, accepted, panicked>>

\* The loop is over: the result is built and the read lock released.
PublishReturn(p) ==
    /\ pc[p] = "loop"
    /\ todo[p] = {}
    /\ pc' = [pc EXCEPT ![p] = "idle"]
    /\ RUnlock(p)
    /\ good' = [good EXCEPT ![p] = {}]
    /\ failed' = [failed EXCEPT ![p] = {}]
    /\ UNCHANGED <<chanVars, buf, request, subject, sent, todo, delVars,
                   accepted, panicked>>
-----------------------------------------------------------------------------
(* SubscribeWithChannel, Unsubscribe and CloseConnection *)

\* A manager calls an operation and queues for the write lock.
Call(m, r) ==
    /\ pc[m] = "idle"
    /\ request' = [request EXCEPT ![m] = r]
    /\ pc' = [pc EXCEPT ![m] = "lock"]
    /\ UNCHANGED <<chanVars, buf, lockVars, pubVars, delVars, accepted,
                   panicked>>

\* sync.RWMutex.Lock, first half: readers that come later are parked.
Announce(m) ==
    /\ pc[m] = "lock"
    /\ writer = NoOne
    /\ writer' = m
    /\ pc' = [pc EXCEPT ![m] = "drain"]
    /\ UNCHANGED <<chanVars, buf, readers, rqueue, request, pubVars, delVars,
                   accepted, panicked>>

\* Second half: the readers have left and the body runs alone.
Locked(m, op) ==
    /\ pc[m] = "drain"
    /\ readers = {}
    /\ request[m].op = op
    /\ pc' = [pc EXCEPT ![m] = "idle"]
    /\ request' = [request EXCEPT ![m] = NoRequest]
    /\ Unlock

\* Mutant: the channel of a queue that exists is made again.
SubscribeAnew(m) ==
    /\ Locked(m, "subscribe")
    /\ LET d == ndel + 1
       IN  /\ nchan + 1 \in Chans
           /\ d \in Deliveries
           /\ storage' = [storage EXCEPT
                            ![request[m].subject][request[m].queue] = nchan + 1]
           /\ nchan' = nchan + 1
           /\ ndel' = d
           /\ source' = [source EXCEPT ![d] = nchan + 1]
           /\ dstate' = [dstate EXCEPT ![d] = "recv"]
    /\ UNCHANGED <<closed, buf, pubVars, hand, gone, received, accepted,
                   panicked>>

\* Mutant: the channel is made and no delivery goroutine is started.
SubscribeOnly(m) ==
    /\ Locked(m, "subscribe")
    /\ nchan + 1 \in Chans
    /\ storage' = [storage EXCEPT
                     ![request[m].subject][request[m].queue] = nchan + 1]
    /\ nchan' = nchan + 1
    /\ UNCHANGED <<closed, buf, pubVars, delVars, accepted, panicked>>

SubscribeWithChannel(m) ==
    /\ Locked(m, "subscribe")
    /\ LET s == request[m].subject
           q == request[m].queue
           c == IF storage[s][q] = NoChan THEN nchan + 1 ELSE storage[s][q]
           d == ndel + 1
       IN  /\ c \in Chans
           /\ d \in Deliveries
           /\ storage' = [storage EXCEPT ![s][q] = c]
           /\ nchan' = IF storage[s][q] = NoChan THEN nchan + 1 ELSE nchan
           /\ ndel' = d
           /\ source' = [source EXCEPT ![d] = c]
           /\ dstate' = [dstate EXCEPT ![d] = "recv"]
    /\ UNCHANGED <<closed, buf, pubVars, hand, gone, received, accepted,
                   panicked>>

\* Close and delete every channel of the given subjects.
CloseAll(S) ==
    LET cs == UNION {Stored(s) : s \in S}
    IN  /\ panicked' = (panicked \/ cs \cap closed # {})
        /\ closed' = closed \cup cs
        /\ storage' = [s \in Subjects |->
                         IF s \in S THEN [q \in Queues |-> NoChan]
                                    ELSE storage[s]]

\* Mutant: a non-blocking receive asks whether the channel is closed already,
\* and takes a message instead of closing.
UnsubscribeProbing(m) ==
    /\ Locked(m, "unsubscribe")
    /\ LET cs == Stored(request[m].subject)
           full == {c \in cs : buf[c] # <<>>}
       IN  /\ closed' = closed \cup (cs \ full)
           /\ buf' = [c \in Chans |-> IF c \in full THEN Tail(buf[c]) ELSE buf[c]]
    /\ storage' = [storage EXCEPT ![request[m].subject] =
                     [q \in Queues |-> NoChan]]
    /\ UNCHANGED <<nchan, pubVars, delVars, accepted, panicked>>

Unsubscribe(m) ==
    /\ Locked(m, "unsubscribe")
    /\ CloseAll({request[m].subject})
    /\ UNCHANGED <<nchan, buf, pubVars, delVars, accepted>>

CloseConnection(m) ==
    /\ Locked(m, "close")
    /\ CloseAll(Subjects)
    /\ UNCHANGED <<nchan, buf, pubVars, delVars, accepted>>
-----------------------------------------------------------------------------
(* The delivery goroutines and the subscribers behind them *)

\* for message := range c: a message is taken from the queue's channel.
Receive(d) ==
    /\ dstate[d] = "recv"
    /\ buf[source[d]] # <<>>
    /\ hand' = [hand EXCEPT ![d] = <<Head(buf[source[d]])>>]
    /\ buf' = [buf EXCEPT ![source[d]] = Tail(@)]
    /\ dstate' = [dstate EXCEPT ![d] = "send"]
    /\ UNCHANGED <<chanVars, lockVars, pc, request, pubVars, ndel, source,
                   gone, received, accepted, panicked>>

\* msgch <- message meets a subscriber that reads.
Deliver(d) ==
    /\ dstate[d] = "send"
    /\ d \notin gone
    /\ received' = [received EXCEPT ![d] = @ \o hand[d]]
    /\ hand' = [hand EXCEPT ![d] = <<>>]
    /\ dstate' = [dstate EXCEPT ![d] = "recv"]
    /\ UNCHANGED <<chanVars, buf, lockVars, pc, request, pubVars, ndel,
                   source, gone, accepted, panicked>>

\* Mutant: a bare receive in an endless loop, which a closed channel feeds.
DeliverySpin(d) ==
    /\ dstate[d] = "recv"
    /\ source[d] \in closed
    /\ buf[source[d]] = <<>>
    /\ UNCHANGED vars

\* The channel is closed and drained: the range statement ends.
DeliveryEnd(d) ==
    /\ dstate[d] = "recv"
    /\ source[d] \in closed
    /\ buf[source[d]] = <<>>
    /\ dstate' = [dstate EXCEPT ![d] = "done"]
    /\ UNCHANGED <<chanVars, buf, lockVars, pc, request, pubVars, ndel,
                   source, hand, gone, received, accepted, panicked>>

\* The subscriber has stopped reading msgch for good: it makes a difference
\* once a message waits for it.
StopReading(d) ==
    /\ dstate[d] = "send"
    /\ d \notin gone
    /\ gone' = gone \cup {d}
    /\ UNCHANGED <<chanVars, buf, lockVars, pc, request, pubVars, ndel,
                   source, dstate, hand, received, accepted, panicked>>
-----------------------------------------------------------------------------
PublishLoop(p) ==
    \/ PublishEnter(p)
    \/ \E c \in Chans : PublishSend(p, c) \/ PublishTimeout(p, c)
    \/ PublishReturn(p)

Body(m) == SubscribeWithChannel(m) \/ Unsubscribe(m) \/ CloseConnection(m)

\* The bound on subscriptions: every waiting manager may be about to start one.
Affordable(r) ==
    r.op = "subscribe" =>
        ndel + Cardinality({m \in Managers : pc[m] # "idle"}) < MaxSubs

Next ==
    \/ \E p \in Callers, s \in Subjects : CallPublish(p, s)
    \/ \E f \in Forwarders, s \in Subjects : PublishWithChannel(f, s)
    \/ \E f \in Forwarders : ForwardNext(f) \/ ForwardEnd(f)
    \/ \E p \in Publishers : PublishLoop(p)
    \/ \E m \in Managers, r \in Requests : Affordable(r) /\ Call(m, r)
    \/ \E m \in Managers : Announce(m) \/ Body(m)
    \/ \E d \in Deliveries :
         Receive(d) \/ Deliver(d) \/ DeliveryEnd(d) \/ StopReading(d)

Spec == Init /\ [][Next]_vars

(***************************************************************************)
(* Go schedules every runnable goroutine, so its enabled steps are weakly  *)
(* fair.  A sync.Mutex hands itself to a waiter after a millisecond, so    *)
(* the queue for the write lock is strongly fair.  Nobody has to call, and *)
(* nobody has to stop reading; one who has not stopped reads on.           *)
(***************************************************************************)
Fairness ==
    /\ \A p \in Publishers : WF_vars(PublishLoop(p))
    /\ \A m \in Managers : SF_vars(Announce(m)) /\ WF_vars(Body(m))
    /\ \A d \in Deliveries :
         WF_vars(Receive(d)) /\ WF_vars(Deliver(d)) /\ WF_vars(DeliveryEnd(d))

FairSpec == Spec /\ Fairness
-----------------------------------------------------------------------------
TypeOK ==
    /\ storage \in [Subjects -> [Queues -> Chans \cup {NoChan}]]
    /\ nchan \in 0 .. ndel
    /\ closed \in SUBSET (1 .. nchan)
    /\ buf \in [Chans -> Seq(Msgs)]
    /\ readers \in SUBSET Publishers
    /\ rqueue \in SUBSET Publishers
    /\ writer \in Managers \cup {NoOne}
    /\ pc \in [Threads -> {"off", "idle", "rlock", "loop", "lock",
                           "drain"}]
    /\ request \in [Managers -> Requests \cup {NoRequest}]
    /\ subject \in [Publishers -> Subjects]
    /\ sent \in [Publishers -> Nat]
    /\ \A p \in Publishers : sent[p] \in 0 .. MaxMsgs[p]
    /\ todo \in [Publishers -> SUBSET Chans]
    /\ good \in [Publishers -> SUBSET Chans]
    /\ failed \in [Publishers -> SUBSET Chans]
    /\ ndel \in 0 .. MaxSubs
    /\ source \in [Deliveries -> Chans \cup {NoChan}]
    /\ dstate \in [Deliveries -> {"off", "recv", "send", "done"}]
    /\ hand \in [Deliveries -> Seq(Msgs)]
    /\ gone \in SUBSET Deliveries
    /\ accepted \in [Chans -> Seq(Msgs)]
    /\ received \in [Deliveries -> Seq(Msgs)]
    /\ panicked \in BOOLEAN

(***************************************************************************)
(* No goroutine sends on a closed channel and no channel is closed twice:  *)
(* the comment in CloseConnection, for every interleaving of Publish,      *)
(* Unsubscribe and CloseConnection.                                        *)
(***************************************************************************)
NoPanic == ~panicked

(***************************************************************************)
(* A channel that was made is either closed or stored under exactly one    *)
(* subject and queue: no open channel is lost from the map, where nothing  *)
(* could close it and its delivery goroutine would never end, and no       *)
(* closed channel stays in it.                                             *)
(***************************************************************************)
ChannelsTracked ==
    \A c \in 1 .. nchan :
        LET places == {sq \in Subjects \X Queues : storage[sq[1]][sq[2]] = c}
        IN  Cardinality(places) = IF c \in closed THEN 0 ELSE 1

\* The delivery goroutines of a channel, and what has left the channel.
Of(c) == {d \in 1 .. ndel : source[d] = c}
Got(d) == ToSet(received[d]) \cup ToSet(hand[d])

\* The messages of one publisher are in the order in which they were published.
InSendOrder(s) ==
    \A i, j \in DOMAIN s : i < j /\ s[i][1] = s[j][1] => s[i][2] < s[j][2]

(***************************************************************************)
(* What a channel accepted is what its subscribers got, what their         *)
(* delivery goroutines hold and what is still buffered, nothing twice and  *)
(* nothing lost, whatever was closed meanwhile; and a subscriber gets the  *)
(* messages of one publisher in the order they were published, even when   *)
(* several goroutines share the queue.                                     *)
(***************************************************************************)
ExactlyOnceInOrder ==
    /\ \A c \in 1 .. nchan :
         /\ IsInjective(accepted[c]) /\ IsInjective(buf[c])
         /\ ToSet(accepted[c]) = ToSet(buf[c]) \cup UNION {Got(d) : d \in Of(c)}
         /\ \A d \in Of(c) :
              /\ IsInjective(received[d] \o hand[d])
              /\ Got(d) \cap ToSet(buf[c]) = {}
              /\ \A e \in Of(c) \ {d} : Got(d) \cap Got(e) = {}
    /\ \A d \in 1 .. ndel : InSendOrder(received[d])

(***************************************************************************)
(* When the loop of Publish is over, and before the lock is released, a    *)
(* queue is in successList exactly when its channel took the message, in   *)
(* failedList otherwise, and every queue now subscribed is in one of them: *)
(* a nil error means that no subscriber of the subject missed it.          *)
(***************************************************************************)
PublishReport ==
    \A p \in Publishers :
        pc[p] = "loop" /\ todo[p] = {} =>
            /\ good[p] \cap failed[p] = {}
            /\ good[p] \cup failed[p] = Stored(subject[p])
            /\ \A c \in Stored(subject[p]) :
                 c \in good[p] <=> Contains(accepted[c], Current(p))

(***************************************************************************)
(* Every call returns, also when subscribers stop reading and the buffers  *)
(* stay full: a publisher leaves the read lock after its timers, and the   *)
(* announced writer keeps new readers out.                                 *)
(***************************************************************************)
CallsReturn ==
    /\ \A p \in Publishers : pc[p] = "rlock" ~> pc[p] = "idle"
    /\ \A m \in Managers : pc[m] = "lock" ~> pc[m] = "idle"

\* A delivery goroutine whose channel was closed ends, as long as its
\* subscriber goes on reading what was buffered.
DeliveryEnds ==
    \A d \in Deliveries :
        source[d] \in closed ~> dstate[d] = "done" \/ d \in gone

(***************************************************************************)
(* The promise of Unsubscribe (broker/channel/channel.go, broker/README.md)*)
(* that closing the queue channels ends the delivery goroutines, whatever  *)
(* the subscriber does.                                                    *)
(***************************************************************************)
UnsubscribeEndsDelivery ==
    \A d \in Deliveries : source[d] \in closed ~> dstate[d] = "done"
-----------------------------------------------------------------------------
\* What has left a channel, in the order in which it left.
Taken == [c \in Chans |->
            SubSeq(accepted[c], 1, Len(accepted[c]) - Len(buf[c]))]

Mail == INSTANCE Mailboxes WITH
            Boxes <- Chans, Capacity <- BufferSize,
            made <- 1 .. nchan, open <- AllStored, box <- buf, taken <- Taken

(***************************************************************************)
(* The broker implements mailboxes: each queue is a bounded FIFO that      *)
(* accepts only while it is subscribed, never opens again once closed, and *)
(* still hands over what it holds after that.                              *)
(***************************************************************************)
ImplementsMailboxes == Mail!Spec
=============================================================================
