----------------------------- MODULE NatsBroker ----------------------------
(***************************************************************************)
(* The broker over NATS, broker/nats.  The client library runs one         *)
(* goroutine per subscription, which calls the callback of the handler for *)
(* each message.  Subscribe waits for one message on a wait group that all *)
(* calls share; SubscribeWithChannel records its subscription so that      *)
(* Unsubscribe can find it; PublishWithChannel forwards until the context  *)
(* of the handler is cancelled.                                            *)
(*                                                                         *)
(* A subscription has the name of the goroutine that made it.              *)
(***************************************************************************)
EXTENDS Integers, FiniteSets

CONSTANTS
    Subjects,      \* the subjects that are subscribed
    Waiters,       \* goroutines that call Subscribe
    Streams,       \* goroutines that call SubscribeWithChannel
    Unsubscribers, \* goroutines that call Unsubscribe
    Forwarders,    \* goroutines started by PublishWithChannel
    MaxMsgs        \* bound: messages that arrive from elsewhere

Subscriptions == Waiters \cup Streams
Goroutines == Subscriptions \cup Unsubscribers \cup Forwarders

ASSUME NatsAssumption ==
    /\ IsFiniteSet(Waiters)
    /\ Waiters \cap Streams = {}
    /\ Subscriptions \cap (Unsubscribers \cup Forwarders) = {}
    /\ Unsubscribers \cap Forwarders = {}
    /\ MaxMsgs \in Nat

VARIABLES
    conn,       \* the connection: "open", "cancelled" or "closed"
    arrived,    \* messages that arrived
    pc,         \* where each goroutine is
    topic,      \* the subject of a subscription, or of an Unsubscribe
    sub,        \* a subscription in the client library
    limit,      \* waiters for which AutoUnsubscribe has been called
    pending,    \* messages it has not given to its callback
    fired,      \* messages the callback of a waiter was called for
    blocked,    \* streams whose callback is at msgch <- &parsed
    wg,         \* the wait group's counter
    parked,     \* the waiters asleep in wg.Wait
    items,      \* n.subs: the subscriptions recorded for each subject
    taken,      \* those an Unsubscribe has yet to tear down
    owed,       \* history: those it must have torn down when it returns
    panicked    \* the wait group panicked, and the process with it

clientVars == <<sub, limit, pending, fired, blocked>>
waitVars == <<wg, parked>>
tableVars == <<items, taken, owed>>
vars == <<conn, arrived, pc, topic, clientVars, waitVars, tableVars, panicked>>

Init ==
    /\ conn = "open"
    /\ arrived = 0
    /\ pc = [g \in Goroutines |-> "off"]
    /\ topic \in [Subscriptions \cup Unsubscribers -> Subjects]
    /\ sub = [c \in Subscriptions |-> "none"]
    /\ limit = {}
    /\ pending = [c \in Subscriptions |-> 0]
    /\ fired = [c \in Waiters |-> 0]
    /\ blocked = {}
    /\ wg = 0 /\ parked = {}
    /\ items = [s \in Subjects |-> {}]
    /\ taken = [u \in Unsubscribers |-> {}]
    /\ owed = [u \in Unsubscribers |-> {}]
    /\ panicked = FALSE
-----------------------------------------------------------------------------
(* The client library *)

\* A message is published for subject s: each queue group hands it to one of
\* its members, so any set of the subject's subscriptions may get it.
Arrive(s, S) ==
    /\ conn # "closed"
    /\ arrived < MaxMsgs
    /\ \A c \in S : sub[c] = "open" /\ topic[c] = s
    /\ arrived' = arrived + 1
    /\ pending' = [c \in Subscriptions |->
                     IF c \in S THEN pending[c] + 1 ELSE pending[c]]
    /\ UNCHANGED <<conn, pc, topic, sub, limit, fired, blocked, waitVars,
                   tableVars, panicked>>

\* The goroutine of a subscription takes its next message.
TakeMessage(c) ==
    /\ sub[c] = "open"
    /\ pending[c] > 0
    /\ pending' = [pending EXCEPT ![c] = @ - 1]

\* wg.Done: at zero every waiter is woken, below zero it panics.
WgDone ==
    /\ wg' = wg - 1
    /\ parked' = IF wg = 1 THEN {} ELSE parked
    /\ panicked' = (wg = 0)
-----------------------------------------------------------------------------
(* Subscribe *)

\* n.wg.Add(1)
Subscribe(c, s) ==
    /\ pc[c] = "off"
    /\ pc' = [pc EXCEPT ![c] = "adding"]
    /\ topic' = [topic EXCEPT ![c] = s]
    /\ wg' = wg + 1
    /\ UNCHANGED <<conn, arrived, clientVars, parked, tableVars, panicked>>

\* Mutant: the error path calls Done, and a deferred Done runs too.
SubscribeFailsTwice(c) ==
    /\ pc[c] = "adding"
    /\ pc' = [pc EXCEPT ![c] = "failed"]
    /\ wg' = wg - 2
    /\ parked' = IF wg = 2 THEN {} ELSE parked
    /\ panicked' = (wg < 2)
    /\ UNCHANGED <<conn, arrived, topic, clientVars, tableVars>>

\* QueueSubscribe fails: Done balances the Add.
SubscribeFails(c) ==
    /\ pc[c] = "adding"
    /\ pc' = [pc EXCEPT ![c] = "failed"]
    /\ WgDone
    /\ UNCHANGED <<conn, arrived, topic, clientVars, tableVars>>

\* QueueSubscribe succeeds: from here on the callback may run.
SubscribeMade(c) ==
    /\ pc[c] = "adding"
    /\ conn # "closed"
    /\ pc' = [pc EXCEPT ![c] = "made"]
    /\ sub' = [sub EXCEPT ![c] = "open"]
    /\ UNCHANGED <<conn, arrived, topic, limit, pending, fired, blocked,
                   waitVars, tableVars, panicked>>

\* sub.AutoUnsubscribe(1), whose error is ignored.
AutoUnsubscribe(c) ==
    /\ pc[c] = "made"
    /\ pc' = [pc EXCEPT ![c] = "limited"]
    /\ limit' = limit \cup {c}
    /\ sub' = [sub EXCEPT ![c] = IF fired[c] >= 1 THEN "closed" ELSE @]
    /\ UNCHANGED <<conn, arrived, topic, pending, fired, blocked, waitVars,
                   tableVars, panicked>>

\* n.wg.Wait: it returns at once, or the waiter goes to sleep.
Wait(c) ==
    /\ pc[c] = "limited"
    /\ IF wg = 0
       THEN pc' = [pc EXCEPT ![c] = "returned"] /\ UNCHANGED parked
       ELSE pc' = [pc EXCEPT ![c] = "asleep"] /\ parked' = parked \cup {c}
    /\ UNCHANGED <<conn, arrived, topic, clientVars, wg, tableVars, panicked>>

\* A waiter that was woken: the wait group must not be in use again.
Wake(c) ==
    /\ pc[c] = "asleep"
    /\ c \notin parked
    /\ pc' = [pc EXCEPT ![c] = "returned"]
    /\ panicked' = (wg # 0)
    /\ UNCHANGED <<conn, arrived, topic, clientVars, waitVars, tableVars>>

\* The callback of Subscribe: the message is copied and Done called; it is the
\* last one after AutoUnsubscribe.
Copy(c) ==
    /\ TakeMessage(c)
    /\ fired' = [fired EXCEPT ![c] = @ + 1]
    /\ sub' = [sub EXCEPT ![c] = IF c \in limit THEN "closed" ELSE @]
    /\ WgDone
    /\ UNCHANGED <<conn, arrived, pc, topic, limit, blocked, tableVars>>
-----------------------------------------------------------------------------
(* SubscribeWithChannel *)

StreamSubscribe(c, s) ==
    /\ pc[c] = "off"
    /\ topic' = [topic EXCEPT ![c] = s]
    /\ \/ pc' = [pc EXCEPT ![c] = "failed"] /\ UNCHANGED sub
       \/ /\ conn # "closed"
          /\ pc' = [pc EXCEPT ![c] = "made"]
          /\ sub' = [sub EXCEPT ![c] = "open"]
    /\ UNCHANGED <<conn, arrived, limit, pending, fired, blocked, waitVars,
                   tableVars, panicked>>

\* Mutant: only the last subscription of a subject is kept.
RecordLast(c) ==
    /\ pc[c] = "made"
    /\ pc' = [pc EXCEPT ![c] = "returned"]
    /\ items' = [items EXCEPT ![topic[c]] = {c}]
    /\ UNCHANGED <<conn, arrived, topic, clientVars, waitVars, taken, owed,
                   panicked>>

\* n.subs.add
Record(c) ==
    /\ pc[c] = "made"
    /\ pc' = [pc EXCEPT ![c] = "returned"]
    /\ items' = [items EXCEPT ![topic[c]] = @ \cup {c}]
    /\ UNCHANGED <<conn, arrived, topic, clientVars, waitVars, taken, owed,
                   panicked>>

\* The callback: the message cannot be decoded, or is sent on.
Forward(c) ==
    /\ c \notin blocked
    /\ TakeMessage(c)
    /\ blocked' = blocked \cup {c} \/ UNCHANGED blocked
    /\ UNCHANGED <<conn, arrived, pc, topic, sub, limit, fired, waitVars, tableVars,
                   panicked>>

\* msgch <- &parsed meets a subscriber that reads.
Received(c) ==
    /\ c \in blocked
    /\ blocked' = blocked \ {c}
    /\ UNCHANGED <<conn, arrived, pc, topic, sub, limit, pending, fired,
                   waitVars, tableVars, panicked>>
-----------------------------------------------------------------------------
(* Unsubscribe and CloseConnection *)

\* n.subs.take
Unsubscribe(u, s) ==
    /\ pc[u] \in {"off", "returned"}
    /\ pc' = [pc EXCEPT ![u] = "tearing"]
    /\ topic' = [topic EXCEPT ![u] = s]
    /\ taken' = [taken EXCEPT ![u] = items[s]]
    /\ items' = [items EXCEPT ![s] = {}]
    /\ owed' = [owed EXCEPT ![u] =
                  {c \in Streams : pc[c] = "returned" /\ topic[c] = s
                                   /\ \A v \in Unsubscribers : c \notin taken[v]}]
    /\ UNCHANGED <<conn, arrived, clientVars, waitVars, panicked>>

\* sub.Unsubscribe, whose errors are collected; what is pending is dropped.
TearDown(u, c) ==
    /\ pc[u] = "tearing"
    /\ c \in taken[u]
    /\ taken' = [taken EXCEPT ![u] = @ \ {c}]
    /\ sub' = [sub EXCEPT ![c] = "closed"]
    /\ UNCHANGED <<conn, arrived, pc, topic, limit, pending, fired, blocked,
                   waitVars, items, owed, panicked>>

UnsubscribeReturn(u) ==
    /\ pc[u] = "tearing"
    /\ taken[u] = {}
    /\ pc' = [pc EXCEPT ![u] = "returned"]
    /\ UNCHANGED <<conn, arrived, topic, clientVars, waitVars, tableVars,
                   panicked>>

\* n.cancel()
Cancel ==
    /\ conn = "open"
    /\ conn' = "cancelled"
    /\ UNCHANGED <<arrived, pc, topic, clientVars, waitVars, tableVars,
                   panicked>>

\* n.nc.Close(): the library closes every subscription.
CloseConnection ==
    /\ conn = "cancelled"
    /\ conn' = "closed"
    /\ sub' = [c \in Subscriptions |->
                 IF sub[c] = "open" THEN "closed" ELSE sub[c]]
    /\ UNCHANGED <<arrived, pc, topic, limit, pending, fired, blocked,
                   waitVars, tableVars, panicked>>
-----------------------------------------------------------------------------
(* PublishWithChannel *)

PublishWithChannel(f) ==
    /\ pc[f] = "off"
    /\ pc' = [pc EXCEPT ![f] = "select"]
    /\ UNCHANGED <<conn, arrived, topic, clientVars, waitVars, tableVars,
                   panicked>>

\* case msg := <-msgch
ForwarderTakes(f) ==
    /\ pc[f] = "select"
    /\ pc' = [pc EXCEPT ![f] = "publish"]
    /\ UNCHANGED <<conn, arrived, topic, clientVars, waitVars, tableVars,
                   panicked>>

\* n.Publish, whose error is logged: the message goes to the server, and may
\* arrive from there like any other.
ForwarderPublishes(f) ==
    /\ pc[f] = "publish"
    /\ pc' = [pc EXCEPT ![f] = "select"]
    /\ UNCHANGED <<conn, arrived, topic, clientVars, waitVars, tableVars,
                   panicked>>

\* msgch is closed, or the context is done.
ForwarderEnds(f) ==
    /\ pc[f] = "select"
    /\ pc' = [pc EXCEPT ![f] = "ended"]
    /\ UNCHANGED <<conn, arrived, topic, clientVars, waitVars, tableVars,
                   panicked>>
-----------------------------------------------------------------------------
WaiterStep(c) ==
    \/ \E s \in Subjects : Subscribe(c, s)
    \/ SubscribeFails(c)
    \/ SubscribeMade(c)
    \/ AutoUnsubscribe(c)
    \/ Wait(c)
    \/ Wake(c)
    \/ Copy(c)

StreamStep(c) ==
    \/ \E s \in Subjects : StreamSubscribe(c, s)
    \/ Record(c)
    \/ Forward(c)
    \/ Received(c)

UnsubscriberStep(u) ==
    \/ \E s \in Subjects : Unsubscribe(u, s)
    \/ \E c \in Streams : TearDown(u, c)
    \/ UnsubscribeReturn(u)

ForwarderStep(f) ==
    \/ PublishWithChannel(f)
    \/ ForwarderTakes(f)
    \/ ForwarderPublishes(f)
    \/ ForwarderEnds(f)

\* A panic ends the process.
Next ==
    /\ ~panicked
    /\ \/ \E s \in Subjects, S \in SUBSET Subscriptions : Arrive(s, S)
       \/ \E c \in Waiters : WaiterStep(c)
       \/ \E c \in Streams : StreamStep(c)
       \/ \E u \in Unsubscribers : UnsubscriberStep(u)
       \/ \E f \in Forwarders : ForwarderStep(f)
       \/ Cancel
       \/ CloseConnection

Spec == Init /\ [][Next]_vars
-----------------------------------------------------------------------------
TypeOK ==
    /\ conn \in {"open", "cancelled", "closed"}
    /\ arrived \in 0 .. MaxMsgs
    /\ pc \in [Goroutines -> {"off", "adding", "failed", "made", "limited",
                              "asleep", "returned", "tearing", "select",
                              "publish", "ended"}]
    /\ topic \in [Subscriptions \cup Unsubscribers -> Subjects]
    /\ sub \in [Subscriptions -> {"none", "open", "closed"}]
    /\ limit \in SUBSET Waiters
    /\ pending \in [Subscriptions -> Nat]
    /\ fired \in [Waiters -> Nat]
    /\ blocked \in SUBSET Streams
    /\ wg \in Int
    /\ parked \in SUBSET Waiters
    /\ items \in [Subjects -> SUBSET Streams]
    /\ taken \in [Unsubscribers -> SUBSET Streams]
    /\ owed \in [Unsubscribers -> SUBSET Streams]
    /\ panicked \in BOOLEAN

(***************************************************************************)
(* Although all calls of Subscribe share one wait group, a call returns    *)
(* only when its own message has been copied, whatever fails or overlaps,  *)
(* unless the callback of some call ran twice.                             *)
(***************************************************************************)
OwnMessage ==
    \A c \in Waiters :
        pc[c] = "returned" =>
            fired[c] >= 1 \/ \E d \in Waiters : fired[d] > 1

(***************************************************************************)
(* When Unsubscribe returns, every subscription of the subject whose       *)
(* SubscribeWithChannel had returned before is torn down, except those an  *)
(* overlapping Unsubscribe had already taken and tears down itself.        *)
(***************************************************************************)
UnsubscribeComplete ==
    \A u \in Unsubscribers :
        pc[u] = "returned" => \A c \in owed[u] : sub[c] = "closed"

(***************************************************************************)
(* Subscribe is single-shot (broker/nats/nats.go): a later message cannot  *)
(* fire its callback again.                                                *)
(***************************************************************************)
SingleShot == \A c \in Waiters : fired[c] <= 1
=============================================================================
