------------------------ MODULE ChannelBroker_proofs ------------------------
(***************************************************************************)
(* Theorems about the in-process broker, for every set of subjects,        *)
(* queues, publishers and managers and every buffer size: its safety, that *)
(* it implements the mailboxes of module Mailboxes, and that its map never *)
(* loses a channel.                                                        *)
(***************************************************************************)
EXTENDS ChannelBroker, FiniteSetTheorems, TLAPS

(***************************************************************************)
(* The inductive invariant.  NoPanic is not inductive: a publisher in its  *)
(* loop must be known to hold the read lock, the channels it has left to   *)
(* visit must be known to be stored still, and a stored channel to be open.*)
(***************************************************************************)
LockInv ==
    /\ \A p \in Publishers :
         /\ pc[p] = "loop" => p \in readers
         /\ p \in readers => pc[p] \in {"rlock", "loop"}
         /\ p \in rqueue => pc[p] = "rlock" /\ p \notin readers
         /\ pc[p] \in {"rlock", "loop"} => sent[p] >= 1
    /\ \A m \in Managers : pc[m] = "drain" => writer = m

StoreInv ==
    /\ \A s \in Subjects, q \in Queues :
         storage[s][q] # NoChan => storage[s][q] \in (1 .. nchan) \ closed
    /\ \A s, s2 \in Subjects : \A q, q2 \in Queues :
         storage[s][q] # NoChan /\ storage[s][q] = storage[s2][q2]
           => s = s2 /\ q = q2
    /\ \A c \in 1 .. nchan :
         c \notin closed => \E s \in Subjects, q \in Queues : storage[s][q] = c

LoopInv ==
    \A p \in Publishers :
        pc[p] = "loop" => todo[p] \subseteq Stored(subject[p])

DeliveryInv ==
    \A d \in Deliveries :
        dstate[d] \in {"recv", "send"} => source[d] \in 1 .. nchan

IInv == TypeOK /\ LockInv /\ StoreInv /\ LoopInv /\ DeliveryInv /\ NoPanic
-----------------------------------------------------------------------------
\* What the fields of a request hold, by its kind.
LEMMA RequestFields ==
    ASSUME NEW r \in Requests \cup {NoRequest}
    PROVE  /\ r.op = "subscribe" => r.subject \in Subjects /\ r.queue \in Queues
           /\ r.op = "unsubscribe" => r.subject \in Subjects
BY DEF Requests, NoRequest

\* The channels of a subject are channels that were made and are open.
LEMMA StoredOpen ==
    ASSUME StoreInv, NEW s \in Subjects
    PROVE  Stored(s) \subseteq (1 .. nchan) \ closed
BY DEF StoreInv, Stored

LEMMA MadeChans == ASSUME TypeOK PROVE 1 .. nchan \subseteq Chans
BY BrokerAssumption DEF TypeOK, Chans, BrokerAssumption

\* The message a publisher is publishing is a message.
LEMMA CurrentMsg ==
    ASSUME TypeOK, BrokerAssumption, NEW p \in Publishers, sent[p] >= 1
    PROVE  Current(p) \in Msgs
BY DEF TypeOK, BrokerAssumption, Current, Msgs, Publishers

LEMMA TypeInit == Init => TypeOK
<1> SUFFICES ASSUME Init PROVE TypeOK
  OBVIOUS
<1> USE DEF Init
<1>1. /\ storage \in [Subjects -> [Queues -> Chans \cup {NoChan}]]
      /\ pc \in [Threads -> {"off", "idle", "rlock", "loop", "lock", "drain"}]
      /\ subject \in [Publishers -> Subjects]
  BY BrokerAssumption DEF BrokerAssumption, Threads, Publishers
<1>2. /\ buf \in [Chans -> Seq(Msgs)]
      /\ accepted \in [Chans -> Seq(Msgs)]
      /\ hand \in [Deliveries -> Seq(Msgs)]
      /\ received \in [Deliveries -> Seq(Msgs)]
  OBVIOUS
<1>3. \A p \in Publishers : sent[p] \in 0 .. MaxMsgs[p]
  BY BrokerAssumption DEF BrokerAssumption, Publishers
<1>4. ndel \in 0 .. MaxSubs /\ nchan \in 0 .. ndel
  BY BrokerAssumption DEF BrokerAssumption
<1> QED
  BY <1>1, <1>2, <1>3, <1>4 DEF TypeOK

\* Closing the channels of some subjects.
LEMMA CloseAllType ==
    ASSUME TypeOK, StoreInv, NEW S \in SUBSET Subjects, CloseAll(S)
    PROVE  /\ closed' \in SUBSET (1 .. nchan)
           /\ storage' \in [Subjects -> [Queues -> Chans \cup {NoChan}]]
           /\ panicked' \in BOOLEAN
<1>1. UNION {Stored(s) : s \in S} \subseteq 1 .. nchan
  BY StoredOpen
<1> QED
  BY <1>1 DEF CloseAll, TypeOK
-----------------------------------------------------------------------------
(* Type correctness: one step for each action. *)

LEMMA TypeStep ==
    ASSUME IInv, [Next]_vars
    PROVE  TypeOK'
<1> USE BrokerAssumption DEF IInv, TypeOK, LockInv, BrokerAssumption,
      chanVars, lockVars, pubVars, delVars, Publishers, Threads, Chans,
      Deliveries, NoChan
<1>1. ASSUME NEW p \in Callers, NEW s \in Subjects, CallPublish(p, s) PROVE TypeOK'
  <2>1. sent' \in [Publishers -> Nat]
        /\ \A x \in Publishers : sent'[x] \in 0 .. MaxMsgs[x]
    BY <1>1 DEF CallPublish, BeginPublish
  <2>2. readers' \in SUBSET Publishers /\ rqueue' \in SUBSET Publishers
        /\ writer' = writer
    BY <1>1 DEF CallPublish, BeginPublish, RLock
  <2>3. /\ pc' \in [Threads -> {"off", "idle", "rlock", "loop", "lock", "drain"}]
        /\ subject' \in [Publishers -> Subjects]
    BY <1>1 DEF CallPublish, BeginPublish
  <2> QED
    BY <1>1, <2>1, <2>2, <2>3 DEF CallPublish
<1>2. ASSUME NEW f \in Forwarders, NEW s \in Subjects, PublishWithChannel(f, s) PROVE TypeOK'
  BY <1>2 DEF PublishWithChannel
<1>3. ASSUME NEW f \in Forwarders, ForwardNext(f) PROVE TypeOK'
  <2>1. sent' \in [Publishers -> Nat]
        /\ \A x \in Publishers : sent'[x] \in 0 .. MaxMsgs[x]
    BY <1>3 DEF ForwardNext, BeginPublish
  <2>2. readers' \in SUBSET Publishers /\ rqueue' \in SUBSET Publishers
        /\ writer' = writer
    BY <1>3 DEF ForwardNext, BeginPublish, RLock
  <2>3. pc' \in [Threads -> {"off", "idle", "rlock", "loop", "lock", "drain"}]
    BY <1>3 DEF ForwardNext, BeginPublish
  <2> QED
    BY <1>3, <2>1, <2>2, <2>3 DEF ForwardNext
<1>4. ASSUME NEW f \in Forwarders, ForwardEnd(f) PROVE TypeOK'
  BY <1>4 DEF ForwardEnd
<1>5. ASSUME NEW p \in Publishers, PublishEnter(p) PROVE TypeOK'
  <2>1. Stored(subject[p]) \subseteq Chans
    BY StoredOpen, MadeChans
  <2> QED
    BY <1>5, <2>1 DEF PublishEnter
<1>6. ASSUME NEW p \in Publishers, NEW c \in Chans, PublishSend(p, c) PROVE TypeOK'
  <2>1. Current(p) \in Msgs
    BY <1>6, CurrentMsg DEF PublishSend
  <2>2. buf' \in [Chans -> Seq(Msgs)] /\ accepted' \in [Chans -> Seq(Msgs)]
    <3>1. /\ buf \in [Chans -> Seq(Msgs)] /\ accepted \in [Chans -> Seq(Msgs)]
          /\ Append(buf[c], Current(p)) \in Seq(Msgs)
          /\ Append(accepted[c], Current(p)) \in Seq(Msgs)
      BY <2>1
    <3>2. \/ UNCHANGED <<buf, accepted>>
          \/ /\ buf' = [buf EXCEPT ![c] = Append(buf[c], Current(p))]
             /\ accepted' = [accepted EXCEPT ![c] =
                                Append(accepted[c], Current(p))]
      BY <1>6 DEF PublishSend
    <3> HIDE DEF IInv, TypeOK, LockInv
    <3> QED
      BY <3>1, <3>2
  <2>3. /\ todo' \in [Publishers -> SUBSET Chans]
        /\ good' \in [Publishers -> SUBSET Chans]
        /\ panicked' \in BOOLEAN
    BY <1>6 DEF PublishSend
  <2> QED
    BY <1>6, <2>2, <2>3 DEF PublishSend
<1>7. ASSUME NEW p \in Publishers, NEW c \in Chans, PublishTimeout(p, c) PROVE TypeOK'
  <2>1. /\ todo' \in [Publishers -> SUBSET Chans]
        /\ failed' \in [Publishers -> SUBSET Chans]
    <3>1. /\ todo \in [Publishers -> SUBSET Chans]
          /\ failed \in [Publishers -> SUBSET Chans]
      OBVIOUS
    <3>2. /\ todo' = [todo EXCEPT ![p] = @ \ {c}]
          /\ failed' = [failed EXCEPT ![p] = @ \cup {c}]
      BY <1>7 DEF PublishTimeout
    <3> HIDE DEF IInv, TypeOK, LockInv
    <3> QED
      BY <3>1, <3>2
  <2> QED
    BY <1>7, <2>1 DEF PublishTimeout
<1>8. ASSUME NEW p \in Publishers, PublishReturn(p) PROVE TypeOK'
  BY <1>8 DEF PublishReturn, RUnlock
<1>9. ASSUME NEW m \in Managers, NEW r \in Requests, Call(m, r) PROVE TypeOK'
  BY <1>9 DEF Call
<1>10. ASSUME NEW m \in Managers, Announce(m) PROVE TypeOK'
  BY <1>10 DEF Announce
<1>11. ASSUME NEW m \in Managers, SubscribeWithChannel(m) PROVE TypeOK'
  <2>1. request[m].subject \in Subjects /\ request[m].queue \in Queues
    BY <1>11, RequestFields DEF SubscribeWithChannel, Locked
  <2>2. PICK c \in Chans :
          /\ storage' = [storage EXCEPT ![request[m].subject][request[m].queue] = c]
          /\ nchan' \in {nchan, nchan + 1}
          /\ ndel' = ndel + 1
          /\ ndel + 1 \in Deliveries
          /\ source' = [source EXCEPT ![ndel + 1] = c]
          /\ dstate' = [dstate EXCEPT ![ndel + 1] = "recv"]
    BY <1>11 DEF SubscribeWithChannel
  <2>3. storage' \in [Subjects -> [Queues -> Chans \cup {NoChan}]]
    BY <2>1, <2>2
  <2>4. /\ source' \in [Deliveries -> Chans \cup {NoChan}]
        /\ dstate' \in [Deliveries -> {"off", "recv", "send", "done"}]
    BY <2>2
  <2>5. nchan' \in 0 .. ndel' /\ ndel' \in 0 .. MaxSubs
        /\ closed \in SUBSET (1 .. nchan')
    BY <2>2
  <2>6. /\ readers' = rqueue /\ rqueue' = {} /\ writer' = NoOne
        /\ pc' \in [Threads -> {"off", "idle", "rlock", "loop", "lock", "drain"}]
        /\ request' \in [Managers -> Requests \cup {NoRequest}]
    BY <1>11 DEF SubscribeWithChannel, Locked, Unlock
  <2> QED
    BY <1>11, <2>3, <2>4, <2>5, <2>6 DEF SubscribeWithChannel
<1>12. ASSUME NEW m \in Managers, Unsubscribe(m) PROVE TypeOK'
  <2>1. {request[m].subject} \subseteq Subjects
    BY <1>12, RequestFields DEF Unsubscribe, Locked
  <2>2. /\ closed' \in SUBSET (1 .. nchan)
        /\ storage' \in [Subjects -> [Queues -> Chans \cup {NoChan}]]
        /\ panicked' \in BOOLEAN
    BY <1>12, <2>1, CloseAllType DEF Unsubscribe
  <2>3. /\ readers' = rqueue /\ rqueue' = {} /\ writer' = NoOne
        /\ pc' \in [Threads -> {"off", "idle", "rlock", "loop", "lock", "drain"}]
        /\ request' \in [Managers -> Requests \cup {NoRequest}]
    BY <1>12 DEF Unsubscribe, Locked, Unlock
  <2> QED
    BY <1>12, <2>2, <2>3 DEF Unsubscribe
<1>13. ASSUME NEW m \in Managers, CloseConnection(m) PROVE TypeOK'
  <2>1. Subjects \subseteq Subjects
    BY <1>13, RequestFields DEF CloseConnection, Locked
  <2>2. /\ closed' \in SUBSET (1 .. nchan)
        /\ storage' \in [Subjects -> [Queues -> Chans \cup {NoChan}]]
        /\ panicked' \in BOOLEAN
    BY <1>13, <2>1, CloseAllType DEF CloseConnection
  <2>3. /\ readers' = rqueue /\ rqueue' = {} /\ writer' = NoOne
        /\ pc' \in [Threads -> {"off", "idle", "rlock", "loop", "lock", "drain"}]
        /\ request' \in [Managers -> Requests \cup {NoRequest}]
    BY <1>13 DEF CloseConnection, Locked, Unlock
  <2> QED
    BY <1>13, <2>2, <2>3 DEF CloseConnection
<1>14. ASSUME NEW d \in Deliveries, Receive(d) PROVE TypeOK'
  <2>1. source[d] \in Chans
    BY <1>14, MadeChans DEF Receive, DeliveryInv
  <2>2. buf[source[d]] \in Seq(Msgs) /\ buf[source[d]] # <<>>
    BY <1>14, <2>1 DEF Receive
  <2>3. Head(buf[source[d]]) \in Msgs /\ Tail(buf[source[d]]) \in Seq(Msgs)
    BY <2>2
  <2>4. /\ hand' \in [Deliveries -> Seq(Msgs)]
        /\ buf' \in [Chans -> Seq(Msgs)]
    <3>1. /\ hand \in [Deliveries -> Seq(Msgs)]
          /\ hand' = [hand EXCEPT ![d] = <<Head(buf[source[d]])>>]
          /\ buf \in [Chans -> Seq(Msgs)]
          /\ buf' = [buf EXCEPT ![source[d]] = Tail(buf[source[d]])]
      BY <1>14 DEF Receive
    <3>2. <<Head(buf[source[d]])>> \in Seq(Msgs)
      BY <2>3
    <3> HIDE DEF IInv, TypeOK, LockInv
    <3> QED
      BY <2>1, <2>3, <3>1, <3>2
  <2>5. dstate' \in [Deliveries -> {"off", "recv", "send", "done"}]
    BY <1>14 DEF Receive
  <2> QED
    BY <1>14, <2>4, <2>5 DEF Receive
<1>15. ASSUME NEW d \in Deliveries, Deliver(d) PROVE TypeOK'
  <2>1. received[d] \o hand[d] \in Seq(Msgs)
    OBVIOUS
  <2>2. received' \in [Deliveries -> Seq(Msgs)]
    <3>1. /\ received \in [Deliveries -> Seq(Msgs)]
          /\ received' = [received EXCEPT ![d] = received[d] \o hand[d]]
      BY <1>15 DEF Deliver
    <3> HIDE DEF IInv, TypeOK, LockInv
    <3> QED
      BY <2>1, <3>1
  <2>3. /\ hand' \in [Deliveries -> Seq(Msgs)]
        /\ dstate' \in [Deliveries -> {"off", "recv", "send", "done"}]
    <3>1. /\ hand \in [Deliveries -> Seq(Msgs)]
          /\ hand' = [hand EXCEPT ![d] = <<>>]
          /\ dstate \in [Deliveries -> {"off", "recv", "send", "done"}]
          /\ dstate' = [dstate EXCEPT ![d] = "recv"]
      BY <1>15 DEF Deliver
    <3>2. <<>> \in Seq(Msgs)
      OBVIOUS
    <3> HIDE DEF IInv, TypeOK, LockInv
    <3> QED
      BY <3>1, <3>2
  <2> QED
    BY <1>15, <2>2, <2>3 DEF Deliver
<1>16. ASSUME NEW d \in Deliveries, DeliveryEnd(d) PROVE TypeOK'
  BY <1>16 DEF DeliveryEnd
<1>17. ASSUME NEW d \in Deliveries, StopReading(d) PROVE TypeOK'
  BY <1>17 DEF StopReading
<1>18. CASE UNCHANGED vars
  BY <1>18 DEF vars
<1> QED
  BY <1>1, <1>2, <1>3, <1>4, <1>5, <1>6, <1>7, <1>8, <1>9, <1>10, <1>11, <1>12, <1>13, <1>14, <1>15, <1>16, <1>17, <1>18 DEF Next, PublishLoop, Body
-----------------------------------------------------------------------------
(* The lock: who is in the loop holds the read lock. *)

LEMMA LockStep ==
    ASSUME IInv, [Next]_vars
    PROVE  LockInv'
<1> USE BrokerAssumption DEF IInv, TypeOK, LockInv, BrokerAssumption,
      chanVars, lockVars, pubVars, delVars, Publishers, Threads
<1>1. ASSUME NEW p \in Publishers, BeginPublish(p) PROVE LockInv'
  BY <1>1 DEF BeginPublish, RLock
<1>2. ASSUME NEW f \in Forwarders, NEW s \in Subjects,
             PublishWithChannel(f, s) \/ ForwardEnd(f)
      PROVE  LockInv'
  BY <1>2 DEF PublishWithChannel, ForwardEnd
<1>3. ASSUME NEW p \in Publishers, PublishEnter(p) PROVE LockInv'
  BY <1>3 DEF PublishEnter
<1>4. ASSUME NEW p \in Publishers, PublishReturn(p) PROVE LockInv'
  BY <1>4 DEF PublishReturn, RUnlock
<1>5. ASSUME NEW m \in Managers, NEW r \in Requests, Call(m, r) PROVE LockInv'
  BY <1>5 DEF Call
<1>6. ASSUME NEW m \in Managers, Announce(m) PROVE LockInv'
  BY <1>6 DEF Announce
<1>7. ASSUME NEW m \in Managers, NEW op, Locked(m, op), UNCHANGED sent
      PROVE  LockInv'
  BY <1>7 DEF Locked, Unlock
<1>8. ASSUME UNCHANGED <<pc, lockVars, sent>> PROVE LockInv'
  BY <1>8
<1> HIDE DEF IInv, TypeOK, LockInv
<1>9. ASSUME NEW p \in Publishers, PublishLoop(p) PROVE LockInv'
  BY <1>9, <1>3, <1>4, <1>8 DEF PublishLoop, PublishSend, PublishTimeout
<1>10. ASSUME NEW m \in Managers, Body(m) PROVE LockInv'
  BY <1>10, <1>7
    DEF Body, SubscribeWithChannel, Unsubscribe, CloseConnection
<1>11. ASSUME NEW d \in Deliveries,
              Receive(d) \/ Deliver(d) \/ DeliveryEnd(d) \/ StopReading(d)
       PROVE  LockInv'
  BY <1>11, <1>8 DEF Receive, Deliver, DeliveryEnd, StopReading
<1> QED
  BY <1>1, <1>2, <1>5, <1>6, <1>8, <1>9, <1>10, <1>11
    DEF Next, CallPublish, ForwardNext, vars
-----------------------------------------------------------------------------
(* The map: what is stored is open, in one place, and nothing open is lost. *)

LEMMA SubscribeStore ==
    ASSUME TypeOK, StoreInv, NEW m \in Managers, SubscribeWithChannel(m)
    PROVE  StoreInv'
<1> DEFINE s == request[m].subject
           q == request[m].queue
<1>1. s \in Subjects /\ q \in Queues
  BY RequestFields DEF SubscribeWithChannel, Locked, TypeOK
<1>2. CASE storage[s][q] # NoChan
  <2>1. storage' = storage /\ nchan' = nchan /\ closed' = closed
    BY <1>1, <1>2 DEF SubscribeWithChannel, TypeOK
  <2> QED
    BY <2>1 DEF StoreInv
<1>3. CASE storage[s][q] = NoChan
  <2>1. /\ storage' = [storage EXCEPT ![s][q] = nchan + 1]
        /\ nchan' = nchan + 1 /\ closed' = closed
    BY <1>3 DEF SubscribeWithChannel
  <2>2. /\ storage \in [Subjects -> [Queues -> Chans \cup {NoChan}]]
        /\ nchan \in Nat /\ closed \in SUBSET (1 .. nchan)
    BY DEF TypeOK
  <2> HIDE DEF s, q
  <2>3. /\ storage'[s][q] = nchan + 1
        /\ \A s2 \in Subjects, q2 \in Queues :
             s2 # s \/ q2 # q => storage'[s2][q2] = storage[s2][q2]
    BY <1>1, <2>1, <2>2
  <2> QED
    BY <1>1, <1>3, <2>1, <2>2, <2>3 DEF StoreInv, NoChan
<1> QED
  BY <1>2, <1>3

LEMMA CloseAllStore ==
    ASSUME TypeOK, StoreInv, NEW S \in SUBSET Subjects, CloseAll(S),
           nchan' = nchan
    PROVE  StoreInv'
<1> DEFINE cs == UNION {Stored(s) : s \in S}
<1>1. closed' = closed \cup cs
  BY DEF CloseAll
<1>2. \A s \in Subjects, q \in Queues :
        storage'[s][q] = IF s \in S THEN NoChan ELSE storage[s][q]
  BY DEF CloseAll
<1>3. \A c : c \in cs <=> c # NoChan
                          /\ \E s \in S, q \in Queues : storage[s][q] = c
  BY DEF Stored
<1> HIDE DEF cs
<1> QED
  BY <1>1, <1>2, <1>3 DEF StoreInv

LEMMA StoreStep ==
    ASSUME IInv, [Next]_vars
    PROVE  StoreInv'
<1>1. ASSUME NEW m \in Managers, Unsubscribe(m) PROVE StoreInv'
  <2>1. {request[m].subject} \subseteq Subjects
    BY <1>1, RequestFields DEF Unsubscribe, Locked, IInv, TypeOK
  <2> QED
    BY <1>1, <2>1, CloseAllStore DEF Unsubscribe, IInv
<1>2. ASSUME NEW m \in Managers, CloseConnection(m) PROVE StoreInv'
  BY <1>2, CloseAllStore DEF CloseConnection, IInv
<1>3. ASSUME NEW m \in Managers, SubscribeWithChannel(m) PROVE StoreInv'
  BY <1>3, SubscribeStore DEF IInv
<1>4. ASSUME UNCHANGED chanVars PROVE StoreInv'
  BY <1>4 DEF chanVars, StoreInv, IInv
<1> QED
  BY <1>1, <1>2, <1>3, <1>4
    DEF Next, Body, PublishLoop, vars, CallPublish, PublishWithChannel,
        ForwardNext, ForwardEnd, PublishEnter, PublishSend, PublishTimeout,
        PublishReturn, Call, Announce, Receive, Deliver, DeliveryEnd,
        StopReading
-----------------------------------------------------------------------------
(* The loop of Publish: what it has left to visit is still stored. *)

LEMMA LoopStep ==
    ASSUME IInv, [Next]_vars
    PROVE  LoopInv'
<1> USE DEF chanVars, pubVars
<1>1. ASSUME NEW p \in Publishers, PublishEnter(p) PROVE LoopInv'
  BY <1>1 DEF PublishEnter, LoopInv, IInv, TypeOK, Stored
<1>2. ASSUME NEW p \in Publishers, NEW c \in Chans,
             PublishSend(p, c) \/ PublishTimeout(p, c)
      PROVE  LoopInv'
  <2>1. /\ todo \in [Publishers -> SUBSET Chans]
        /\ todo' = [todo EXCEPT ![p] = @ \ {c}]
        /\ storage' = storage /\ pc' = pc /\ subject' = subject
    BY <1>2 DEF PublishSend, PublishTimeout, IInv, TypeOK
  <2>2. \A x \in Publishers : todo'[x] \subseteq todo[x]
    BY <2>1
  <2> QED
    BY <2>1, <2>2 DEF LoopInv, IInv, Stored
<1>3. ASSUME UNCHANGED <<storage, todo>>,
             \A p \in Publishers :
                pc'[p] = "loop" => pc[p] = "loop" /\ subject'[p] = subject[p]
      PROVE  LoopInv'
  BY <1>3 DEF LoopInv, IInv, Stored
<1>4. ASSUME NEW p \in Callers, NEW s \in Subjects, CallPublish(p, s)
      PROVE  LoopInv'
  BY <1>4, <1>3 DEF CallPublish, BeginPublish, IInv, TypeOK, Publishers, Threads
<1>5. ASSUME NEW f \in Forwarders,
             \/ \E s \in Subjects : PublishWithChannel(f, s)
             \/ ForwardNext(f) \/ ForwardEnd(f)
      PROVE  LoopInv'
  BY <1>5, <1>3 DEF PublishWithChannel, ForwardNext, ForwardEnd, BeginPublish,
                    IInv, TypeOK, Publishers, Threads
<1>6. ASSUME NEW p \in Publishers, PublishReturn(p) PROVE LoopInv'
  BY <1>6, <1>3 DEF PublishReturn, IInv, TypeOK, Publishers, Threads
<1>7. ASSUME NEW m \in Managers,
             (\E r \in Requests : Call(m, r)) \/ Announce(m)
      PROVE  LoopInv'
  BY <1>7, <1>3 DEF Call, Announce, IInv, TypeOK, Threads
<1>8. ASSUME NEW m \in Managers, NEW op, Locked(m, op) PROVE LoopInv'
  BY <1>8, BrokerAssumption DEF Locked, LoopInv, IInv, LockInv, TypeOK,
                                Publishers, Threads, BrokerAssumption
<1>9. ASSUME UNCHANGED <<storage, todo, pc, subject>> PROVE LoopInv'
  BY <1>9, <1>3
<1>10. ASSUME NEW p \in Publishers, PublishLoop(p) PROVE LoopInv'
  BY <1>1, <1>2, <1>6, <1>10 DEF PublishLoop
<1>11. ASSUME NEW m \in Managers, Body(m) PROVE LoopInv'
  BY <1>8, <1>11
    DEF Body, SubscribeWithChannel, Unsubscribe, CloseConnection
<1>12. ASSUME NEW d \in Deliveries,
              Receive(d) \/ Deliver(d) \/ DeliveryEnd(d) \/ StopReading(d)
       PROVE  LoopInv'
  BY <1>9, <1>12 DEF Receive, Deliver, DeliveryEnd, StopReading
<1> QED
  BY <1>4, <1>5, <1>7, <1>9, <1>10, <1>11, <1>12 DEF Next, vars
-----------------------------------------------------------------------------
(* The delivery goroutines range over channels that were made. *)

LEMMA DeliveryStep ==
    ASSUME IInv, [Next]_vars
    PROVE  DeliveryInv'
<1> USE DEF DeliveryInv, IInv, TypeOK, chanVars, delVars
<1>1. ASSUME NEW m \in Managers, SubscribeWithChannel(m) PROVE DeliveryInv'
  <2>1. \/ /\ nchan' = nchan + 1
           /\ source' = [source EXCEPT ![ndel + 1] = nchan + 1]
        \/ /\ nchan' = nchan
           /\ storage[request[m].subject][request[m].queue] \in 1 .. nchan
           /\ source' = [source EXCEPT ![ndel + 1] =
                           storage[request[m].subject][request[m].queue]]
    BY <1>1, RequestFields DEF SubscribeWithChannel, Locked, StoreInv
  <2>2. dstate' = [dstate EXCEPT ![ndel + 1] = "recv"]
    BY <1>1 DEF SubscribeWithChannel
  <2> QED
    BY <2>1, <2>2
<1>2. ASSUME NEW d \in Deliveries,
             Receive(d) \/ Deliver(d) \/ DeliveryEnd(d) \/ StopReading(d)
      PROVE  DeliveryInv'
  BY <1>2 DEF Receive, Deliver, DeliveryEnd, StopReading
<1>3. ASSUME UNCHANGED <<nchan, source, dstate>> PROVE DeliveryInv'
  BY <1>3
<1> HIDE DEF DeliveryInv, IInv, TypeOK
<1>4. ASSUME NEW p \in Publishers, PublishLoop(p) PROVE DeliveryInv'
  BY <1>3, <1>4 DEF PublishLoop, PublishEnter, PublishSend, PublishTimeout,
                    PublishReturn
<1>5. ASSUME NEW m \in Managers, Announce(m) \/ Body(m) PROVE DeliveryInv'
  BY <1>1, <1>3, <1>5 DEF Announce, Body, Unsubscribe, CloseConnection
<1>6. ASSUME NEW t \in Threads,
             \/ \E s \in Subjects : CallPublish(t, s) \/ PublishWithChannel(t, s)
             \/ ForwardNext(t) \/ ForwardEnd(t)
             \/ \E r \in Requests : Call(t, r)
      PROVE  DeliveryInv'
  BY <1>3, <1>6 DEF CallPublish, PublishWithChannel, ForwardNext, ForwardEnd,
                    Call
<1> QED
  BY <1>2, <1>3, <1>4, <1>5, <1>6 DEF Next, vars, Threads, Publishers
-----------------------------------------------------------------------------
(* No panic: a send meets a stored channel, and so does a close. *)

LEMMA PanicStep ==
    ASSUME IInv, [Next]_vars
    PROVE  NoPanic'
<1>1. ASSUME NEW p \in Publishers, NEW c \in Chans, PublishSend(p, c)
      PROVE  NoPanic'
  <2>1. c \in Stored(subject[p])
    BY <1>1 DEF PublishSend, IInv, LoopInv
  <2>2. c \notin closed
    BY <2>1, StoredOpen DEF IInv, TypeOK
  <2> QED
    BY <1>1, <2>2 DEF PublishSend, IInv, NoPanic
<1>2. ASSUME NEW S \in SUBSET Subjects, CloseAll(S) PROVE NoPanic'
  <2>1. \A s \in S : Stored(s) \cap closed = {}
    BY StoredOpen DEF IInv
  <2> QED
    BY <1>2, <2>1 DEF CloseAll, IInv, NoPanic
<1>3. ASSUME NEW m \in Managers, Unsubscribe(m) PROVE NoPanic'
  <2>1. {request[m].subject} \subseteq Subjects
    BY <1>3, RequestFields DEF Unsubscribe, Locked, IInv, TypeOK
  <2> QED
    BY <1>2, <1>3, <2>1 DEF Unsubscribe
<1>4. ASSUME NEW m \in Managers, CloseConnection(m) PROVE NoPanic'
  BY <1>2, <1>4 DEF CloseConnection
<1>5. ASSUME UNCHANGED panicked PROVE NoPanic'
  BY <1>5 DEF NoPanic, IInv
<1> QED
  BY <1>1, <1>3, <1>4, <1>5
    DEF Next, Body, PublishLoop, vars, CallPublish, PublishWithChannel,
        ForwardNext, ForwardEnd, PublishEnter, PublishTimeout, PublishReturn,
        Call, Announce, SubscribeWithChannel, Receive, Deliver, DeliveryEnd,
        StopReading
-----------------------------------------------------------------------------
LEMMA IInvInit == Init => IInv
<1> SUFFICES ASSUME Init PROVE IInv
  OBVIOUS
<1>1. TypeOK
  BY TypeInit
<1>2. LockInv
  BY BrokerAssumption DEF Init, LockInv, Threads, Publishers, BrokerAssumption
<1>3. StoreInv /\ LoopInv /\ DeliveryInv /\ NoPanic
  BY BrokerAssumption DEF Init, StoreInv, LoopInv, DeliveryInv, NoPanic, NoChan,
      Threads, Publishers, BrokerAssumption
<1> QED
  BY <1>1, <1>2, <1>3 DEF IInv

\* IInv holds in every reachable state.
THEOREM Invariance == Spec => []IInv
<1>1. IInv /\ [Next]_vars => IInv'
  BY TypeStep, LockStep, StoreStep, LoopStep, DeliveryStep, PanicStep DEF IInv
<1> QED
  BY IInvInit, <1>1, PTL DEF Spec

\* Every variable keeps its type, for every number of actors.
THEOREM TypeCorrect == Spec => []TypeOK
<1>1. IInv => TypeOK
  BY DEF IInv
<1> QED
  BY Invariance, <1>1, PTL

\* No interleaving of Publish, Unsubscribe and CloseConnection sends on a
\* closed channel or closes one twice.
THEOREM PanicFree == Spec => []NoPanic
<1>1. IInv => NoPanic
  BY DEF IInv
<1> QED
  BY Invariance, <1>1, PTL
-----------------------------------------------------------------------------
\* Sequence b is the end of sequence a.
IsEnd(b, a) ==
    /\ Len(b) <= Len(a)
    /\ \A i \in 1 .. Len(b) : b[i] = a[Len(a) - Len(b) + i]

HeadPart(a, b) == SubSeq(a, 1, Len(a) - Len(b))

(***************************************************************************)
(* What a channel holds is the end of what it accepted: the strengthening  *)
(* the refinement mapping needs.                                           *)
(***************************************************************************)
BufInv == \A c \in Chans : IsEnd(buf[c], accepted[c])
-----------------------------------------------------------------------------
LEMMA EndAppend ==
    ASSUME NEW S, NEW a \in Seq(S), NEW b \in Seq(S), NEW m \in S, IsEnd(b, a)
    PROVE  /\ IsEnd(Append(b, m), Append(a, m))
           /\ HeadPart(Append(a, m), Append(b, m)) = HeadPart(a, b)
<1>1. /\ Len(Append(a, m)) = Len(a) + 1 /\ Len(Append(b, m)) = Len(b) + 1
      /\ \A i \in 1 .. Len(a) : Append(a, m)[i] = a[i]
      /\ \A i \in 1 .. Len(b) : Append(b, m)[i] = b[i]
      /\ Append(a, m)[Len(a) + 1] = m /\ Append(b, m)[Len(b) + 1] = m
      /\ Len(a) \in Nat /\ Len(b) \in Nat
  OBVIOUS
<1>2. IsEnd(Append(b, m), Append(a, m))
  <2>1. ASSUME NEW i \in 1 .. Len(b) + 1
        PROVE  Append(b, m)[i] = Append(a, m)[Len(a) - Len(b) + i]
    <3> DEFINE n == Len(b)
               k == Len(a) - Len(b)
    <3>1. n \in Nat /\ k \in Nat /\ k + n = Len(a) /\ i \in Int
      BY <1>1 DEF IsEnd
    <3>2. CASE i = n + 1
      <4>1. k + i = Len(a) + 1
        BY <3>1, <3>2
      <4> QED
        BY <1>1, <3>2, <4>1
    <3>3. CASE i \in 1 .. n
      <4>1. b[i] = a[k + i] /\ k + i \in 1 .. Len(a)
        BY <3>1, <3>3 DEF IsEnd
      <4> QED
        BY <1>1, <3>3, <4>1
    <3>4. i = n + 1 \/ i \in 1 .. n
      BY <3>1
    <3> QED
      BY <3>2, <3>3, <3>4
  <2>2. Len(Append(a, m)) - Len(Append(b, m)) = Len(a) - Len(b)
        /\ Len(Append(b, m)) <= Len(Append(a, m))
    BY <1>1 DEF IsEnd
  <2>3. \A i \in 1 .. Len(Append(b, m)) :
          Append(b, m)[i] =
            Append(a, m)[Len(Append(a, m)) - Len(Append(b, m)) + i]
    BY <1>1, <2>1, <2>2
  <2> QED
    BY <2>2, <2>3 DEF IsEnd
<1>3. HeadPart(Append(a, m), Append(b, m)) = HeadPart(a, b)
  BY <1>1 DEF HeadPart, IsEnd
<1> QED
  BY <1>2, <1>3

LEMMA EndTail ==
    ASSUME NEW S, NEW a \in Seq(S), NEW b \in Seq(S), IsEnd(b, a), b # <<>>
    PROVE  /\ IsEnd(Tail(b), a)
           /\ HeadPart(a, Tail(b)) = Append(HeadPart(a, b), Head(b))
<1>1. /\ Len(Tail(b)) = Len(b) - 1 /\ Len(b) >= 1
      /\ \A i \in 1 .. Len(b) - 1 : Tail(b)[i] = b[i + 1]
      /\ Head(b) = b[1]
      /\ Len(a) \in Nat /\ Len(b) \in Nat
  OBVIOUS
<1>2. IsEnd(Tail(b), a)
  BY <1>1 DEF IsEnd
<1>3. HeadPart(a, Tail(b)) = Append(HeadPart(a, b), Head(b))
  <2>1. Head(b) = a[Len(a) - Len(b) + 1] /\ Len(b) <= Len(a)
    BY <1>1 DEF IsEnd
  <2> DEFINE k == Len(a) - Len(b)
  <2>2. k \in Nat /\ k + 1 \in 1 .. Len(a) /\ Len(a) - Len(Tail(b)) = k + 1
    BY <1>1, <2>1
  <2>3. SubSeq(a, 1, k + 1) = Append(SubSeq(a, 1, k), a[k + 1])
    BY <2>2
  <2> QED
    BY <2>1, <2>2, <2>3 DEF HeadPart
<1> QED
  BY <1>2, <1>3
-----------------------------------------------------------------------------
LEMMA BufInit == Init => BufInv
BY DEF Init, BufInv, IsEnd

\* What the steps that touch a channel's contents do to it.
LEMMA SendBuf ==
    ASSUME IInv, BufInv, NEW p \in Publishers, NEW c \in Chans,
           PublishSend(p, c)
    PROVE  /\ BufInv'
           /\ Taken' = Taken
           /\ c \in AllStored /\ Len(buf[c]) < BufferSize
           /\ Current(p) \in Msgs
           /\ buf' = [buf EXCEPT ![c] = Append(@, Current(p))]
<1>1. Current(p) \in Msgs
  BY CurrentMsg, BrokerAssumption DEF PublishSend, IInv, LockInv
<1>2. c \in Stored(subject[p])
  BY DEF PublishSend, IInv, LoopInv
<1>3. subject[p] \in Subjects
  BY DEF IInv, TypeOK
<1>4. c \in AllStored /\ c \notin closed
  BY <1>2, <1>3, StoredOpen DEF IInv, AllStored
<1>5. /\ buf' = [buf EXCEPT ![c] = Append(buf[c], Current(p))]
      /\ accepted' = [accepted EXCEPT ![c] = Append(accepted[c], Current(p))]
      /\ Len(buf[c]) < BufferSize
  BY <1>4 DEF PublishSend
<1>6. buf \in [Chans -> Seq(Msgs)] /\ accepted \in [Chans -> Seq(Msgs)]
  BY DEF IInv, TypeOK
<1>7. /\ IsEnd(buf'[c], accepted'[c])
      /\ HeadPart(accepted'[c], buf'[c]) = HeadPart(accepted[c], buf[c])
  BY <1>1, <1>5, <1>6, EndAppend DEF BufInv
<1>8. \A x \in Chans \ {c} : buf'[x] = buf[x] /\ accepted'[x] = accepted[x]
  BY <1>5, <1>6
<1>9. BufInv'
  BY <1>7, <1>8 DEF BufInv
<1>10. Taken' = Taken
  BY <1>7, <1>8 DEF Taken, HeadPart
<1> QED
  BY <1>1, <1>4, <1>5, <1>9, <1>10

LEMMA ReceiveBuf ==
    ASSUME IInv, BufInv, NEW d \in Deliveries, Receive(d)
    PROVE  LET c == source[d]
           IN  /\ BufInv'
               /\ c \in Chans /\ buf[c] # <<>>
               /\ Taken' = [Taken EXCEPT ![c] = Append(@, Head(buf[c]))]
               /\ buf' = [buf EXCEPT ![c] = Tail(@)]
<1> DEFINE c == source[d]
<1>1. c \in Chans
  BY MadeChans DEF Receive, IInv, DeliveryInv
<1>2. /\ buf' = [buf EXCEPT ![c] = Tail(buf[c])]
      /\ accepted' = accepted
      /\ buf[c] # <<>>
  BY DEF Receive
<1>3. buf \in [Chans -> Seq(Msgs)] /\ accepted \in [Chans -> Seq(Msgs)]
  BY DEF IInv, TypeOK
<1>4. /\ IsEnd(buf'[c], accepted'[c])
      /\ HeadPart(accepted'[c], buf'[c])
           = Append(HeadPart(accepted[c], buf[c]), Head(buf[c]))
  BY <1>1, <1>2, <1>3, EndTail DEF BufInv
<1>5. \A x \in Chans \ {c} : buf'[x] = buf[x] /\ accepted'[x] = accepted[x]
  BY <1>2, <1>3
<1>6. BufInv'
  BY <1>4, <1>5 DEF BufInv
<1>7. Taken' = [Taken EXCEPT ![c] = Append(@, Head(buf[c]))]
  BY <1>1, <1>4, <1>5 DEF Taken, HeadPart
<1> QED
  BY <1>1, <1>2, <1>6, <1>7

LEMMA OtherBuf ==
    ASSUME BufInv, UNCHANGED <<buf, accepted>>
    PROVE  BufInv' /\ Taken' = Taken
BY DEF BufInv, Taken
-----------------------------------------------------------------------------
(* The map's changes, as the abstract specification sees them. *)

LEMMA SubscribeOpens ==
    ASSUME IInv, NEW m \in Managers, SubscribeWithChannel(m)
    PROVE  \/ nchan' = nchan /\ AllStored' = AllStored
           \/ /\ nchan' = nchan + 1 /\ nchan + 1 \in Chans
              /\ AllStored' = AllStored \cup {nchan + 1}
<1> DEFINE s == request[m].subject
           q == request[m].queue
<1>1. s \in Subjects /\ q \in Queues
  BY RequestFields DEF SubscribeWithChannel, Locked, IInv, TypeOK
<1>2. CASE storage[s][q] # NoChan
  <2>1. storage' = storage /\ nchan' = nchan
    BY <1>1, <1>2 DEF SubscribeWithChannel, IInv, TypeOK
  <2> QED
    BY <2>1 DEF AllStored, Stored
<1>3. CASE storage[s][q] = NoChan
  <2>1. /\ storage' = [storage EXCEPT ![s][q] = nchan + 1]
        /\ nchan' = nchan + 1 /\ nchan + 1 \in Chans
    BY <1>3 DEF SubscribeWithChannel
  <2>2. storage \in [Subjects -> [Queues -> Chans \cup {NoChan}]]
    BY DEF IInv, TypeOK
  <2> HIDE DEF s, q
  <2>3. /\ storage'[s][q] = nchan + 1
        /\ \A s2 \in Subjects, q2 \in Queues :
             s2 # s \/ q2 # q => storage'[s2][q2] = storage[s2][q2]
    BY <1>1, <2>1, <2>2
  <2>4. nchan + 1 # NoChan
    BY <2>1 DEF Chans, NoChan
  <2>5. \A x : x \in AllStored' <=> x \in AllStored \cup {nchan + 1}
    BY <1>1, <1>3, <2>3, <2>4 DEF AllStored, Stored
  <2> QED
    BY <2>1, <2>5
<1> QED
  BY <1>2, <1>3

LEMMA CloseAllCloses ==
    ASSUME IInv, NEW S \in SUBSET Subjects, CloseAll(S)
    PROVE  \E B \in SUBSET Chans :
              B \subseteq AllStored /\ AllStored' = AllStored \ B
<1> DEFINE B == UNION {Stored(s) : s \in S}
<1>1. B \subseteq AllStored /\ B \in SUBSET Chans
  BY StoredOpen, MadeChans DEF AllStored, IInv
<1>2. \A s \in Subjects, q \in Queues :
        storage'[s][q] = IF s \in S THEN NoChan ELSE storage[s][q]
  BY DEF CloseAll
<1>3. \A x : x \in AllStored' <=>
               \E s \in Subjects \ S, q \in Queues :
                  storage[s][q] = x /\ x # NoChan
  BY <1>2 DEF AllStored, Stored
<1>4. \A x : x \in AllStored \ B <=>
               \E s \in Subjects \ S, q \in Queues :
                  storage[s][q] = x /\ x # NoChan
  BY DEF AllStored, Stored, IInv, StoreInv
<1>5. AllStored' = AllStored \ B
  BY <1>3, <1>4
<1> HIDE DEF B
<1> QED
  BY <1>1, <1>5
-----------------------------------------------------------------------------
LEMMA MailInit == Init => Mail!Init
<1> SUFFICES ASSUME Init PROVE Mail!Init
  OBVIOUS
<1>1. 1 .. nchan = {} /\ AllStored = {} /\ buf = [c \in Chans |-> <<>>]
  BY DEF Init, AllStored, Stored
<1>2. Taken = [c \in Chans |-> <<>>]
  BY DEF Init, Taken
<1> QED
  BY <1>1, <1>2 DEF Mail!Init

LEMMA MailStep ==
    ASSUME IInv, BufInv, [Next]_vars
    PROVE  BufInv' /\ [Mail!Next]_(Mail!mailVars)
<1> USE DEF Mail!mailVars
<1>1. ASSUME NEW p \in Publishers, NEW c \in Chans, PublishSend(p, c)
      PROVE  BufInv' /\ [Mail!Next]_(Mail!mailVars)
  <2>1. nchan' = nchan /\ AllStored' = AllStored
    BY <1>1 DEF PublishSend, chanVars, AllStored, Stored
  <2>2. Mail!Put(c, Current(p))
    BY <1>1, <2>1, SendBuf DEF Mail!Put
  <2> QED
    BY <1>1, <2>2, SendBuf DEF Mail!Next
<1>2. ASSUME NEW d \in Deliveries, Receive(d)
      PROVE  BufInv' /\ [Mail!Next]_(Mail!mailVars)
  <2>1. nchan' = nchan /\ AllStored' = AllStored
    BY <1>2 DEF Receive, chanVars, AllStored, Stored
  <2>2. Mail!Take(source[d])
    BY <1>2, <2>1, ReceiveBuf DEF Mail!Take
  <2> QED
    BY <1>2, <2>2, ReceiveBuf DEF Mail!Next
<1>3. ASSUME NEW m \in Managers, SubscribeWithChannel(m)
      PROVE  BufInv' /\ [Mail!Next]_(Mail!mailVars)
  <2>1. BufInv' /\ Taken' = Taken /\ buf' = buf
    BY <1>3, OtherBuf DEF SubscribeWithChannel
  <2>2. CASE nchan' = nchan /\ AllStored' = AllStored
    BY <2>1, <2>2
  <2>3. CASE /\ nchan' = nchan + 1 /\ nchan + 1 \in Chans
             /\ AllStored' = AllStored \cup {nchan + 1}
    <3>1. nchan + 1 \notin 1 .. nchan
          /\ 1 .. nchan' = (1 .. nchan) \cup {nchan + 1}
      BY <2>3 DEF IInv, TypeOK
    <3> QED
      BY <2>1, <2>3, <3>1 DEF Mail!Make, Mail!Next
  <2> QED
    BY <1>3, <2>2, <2>3, SubscribeOpens
<1>4. ASSUME NEW m \in Managers, Unsubscribe(m) \/ CloseConnection(m)
      PROVE  BufInv' /\ [Mail!Next]_(Mail!mailVars)
  <2>1. BufInv' /\ Taken' = Taken /\ buf' = buf /\ nchan' = nchan
    BY <1>4, OtherBuf DEF Unsubscribe, CloseConnection
  <2>2. PICK S \in SUBSET Subjects : CloseAll(S)
    <3>1. CASE Unsubscribe(m)
      <4>1. {request[m].subject} \in SUBSET Subjects
        BY <3>1, RequestFields DEF Unsubscribe, Locked, IInv, TypeOK
      <4> QED
        BY <3>1, <4>1 DEF Unsubscribe
    <3>2. CASE CloseConnection(m)
      BY <3>2 DEF CloseConnection
    <3> QED
      BY <1>4, <3>1, <3>2
  <2>3. PICK B \in SUBSET Chans :
          B \subseteq AllStored /\ AllStored' = AllStored \ B
    BY <2>2, CloseAllCloses
  <2> QED
    BY <2>1, <2>3 DEF Mail!Close, Mail!Next
<1>5. ASSUME UNCHANGED <<chanVars, buf, accepted>>
      PROVE  BufInv' /\ [Mail!Next]_(Mail!mailVars)
  <2>1. nchan' = nchan /\ AllStored' = AllStored
    BY <1>5 DEF chanVars, AllStored, Stored
  <2> QED
    BY <1>5, <2>1, OtherBuf
<1>6. ASSUME NEW p \in Publishers, PublishLoop(p)
      PROVE  BufInv' /\ [Mail!Next]_(Mail!mailVars)
  BY <1>1, <1>5, <1>6
    DEF PublishLoop, PublishEnter, PublishTimeout, PublishReturn
<1>7. ASSUME NEW m \in Managers, Announce(m) \/ Body(m)
      PROVE  BufInv' /\ [Mail!Next]_(Mail!mailVars)
  BY <1>3, <1>4, <1>5, <1>7 DEF Announce, Body
<1>8. ASSUME NEW d \in Deliveries,
             Receive(d) \/ Deliver(d) \/ DeliveryEnd(d) \/ StopReading(d)
      PROVE  BufInv' /\ [Mail!Next]_(Mail!mailVars)
  BY <1>2, <1>5, <1>8 DEF Deliver, DeliveryEnd, StopReading
<1>9. ASSUME NEW t \in Threads,
             \/ \E s \in Subjects : CallPublish(t, s) \/ PublishWithChannel(t, s)
             \/ ForwardNext(t) \/ ForwardEnd(t)
             \/ \E r \in Requests : Call(t, r)
      PROVE  BufInv' /\ [Mail!Next]_(Mail!mailVars)
  BY <1>5, <1>9 DEF CallPublish, PublishWithChannel, ForwardNext, ForwardEnd,
                    Call
<1>10. CASE UNCHANGED vars
  BY <1>5, <1>10 DEF vars
<1> QED
  BY <1>6, <1>7, <1>8, <1>9, <1>10 DEF Next, Threads, Publishers

\* Every behaviour of the broker is one of the mailboxes.
THEOREM Refinement == Spec => ImplementsMailboxes
<1>1. BufInv /\ IInv /\ [Next]_vars => BufInv' /\ [Mail!Next]_(Mail!mailVars)
  BY MailStep
<1> QED
  BY Invariance, BufInit, MailInit, <1>1, PTL
    DEF Spec, ImplementsMailboxes, Mail!Spec
-----------------------------------------------------------------------------
\* A made channel is stored exactly once, or closed and not stored.
THEOREM Tracked == Spec => []ChannelsTracked
<1>1. IInv => ChannelsTracked
  <2> SUFFICES ASSUME IInv, NEW c \in 1 .. nchan
               PROVE  LET places == {sq \in Subjects \X Queues :
                                       storage[sq[1]][sq[2]] = c}
                      IN  Cardinality(places) = IF c \in closed THEN 0 ELSE 1
    BY DEF ChannelsTracked
  <2> DEFINE places == {sq \in Subjects \X Queues : storage[sq[1]][sq[2]] = c}
  <2>0. c # NoChan
    BY DEF NoChan
  <2>1. CASE c \in closed
    <3>1. places = {}
      BY <2>0, <2>1 DEF IInv, StoreInv
    <3> QED
      BY <2>1, <3>1, FS_EmptySet
  <2>2. CASE c \notin closed
    <3>1. PICK s \in Subjects, q \in Queues : storage[s][q] = c
      BY <2>2 DEF IInv, StoreInv
    <3>2. places = {<<s, q>>}
      BY <2>0, <3>1 DEF IInv, StoreInv
    <3> QED
      BY <2>2, <3>2, FS_Singleton
  <2> QED
    BY <2>1, <2>2
<1> QED
  BY Invariance, <1>1, PTL

-----------------------------------------------------------------------------
(***************************************************************************)
(* What Publish reports and what the subscribers get, for every value of   *)
(* the constants.                                                          *)
(***************************************************************************)
(***************************************************************************)
(* PublishReport needs to know at every step of the loop what it says of   *)
(* its end: the stored channels are those left to visit, those that took   *)
(* the message and those that timed out, and no channel has a message      *)
(* whose publisher has not reached its loop.                               *)
(***************************************************************************)
ReportInv ==
    \A p \in Publishers :
        /\ pc[p] # "loop" => good[p] = {} /\ failed[p] = {}
        /\ pc[p] = "rlock" =>
             \A c \in Chans : Current(p) \notin ToSet(accepted[c])
        /\ pc[p] = "loop" =>
             /\ todo[p] \cup good[p] \cup failed[p] = Stored(subject[p])
             /\ todo[p] \cap (good[p] \cup failed[p]) = {}
             /\ good[p] \cap failed[p] = {}
             /\ \A c \in Chans :
                  Current(p) \in ToSet(accepted[c]) <=> c \in good[p]

\* What was accepted had been sent.
SentInv == \A c \in Chans : \A m \in ToSet(accepted[c]) : m[2] <= sent[m[1]]

\* A goroutine that was started has a channel, and holds a message only while
\* it hands it on; one that was not has got nothing.
HandInv ==
    \A d \in Deliveries :
        /\ IF d <= ndel THEN source[d] \in Chans ELSE dstate[d] = "off"
        /\ dstate[d] = "off" => received[d] = <<>>
        /\ dstate[d] # "send" => hand[d] = <<>>
        /\ dstate[d] = "send" => Len(hand[d]) = 1

(***************************************************************************)
(* The order in which a publisher sends is kept in what a channel accepts, *)
(* in what it holds and in what a delivery goroutine takes; and what was   *)
(* taken is earlier than what is held, which makes the next message taken  *)
(* a later one.                                                            *)
(***************************************************************************)
OrderInv ==
    /\ \A c \in Chans : InSendOrder(accepted[c]) /\ InSendOrder(buf[c])
    /\ \A d \in Deliveries : InSendOrder(received[d] \o hand[d])
    /\ \A d \in 1 .. ndel : \A x \in Got(d), y \in ToSet(buf[source[d]]) :
         x[1] = y[1] => x[2] < y[2]

\* Nothing accepted is lost, and no two goroutines have the same message.
FlowInv ==
    /\ \A c \in Chans :
         ToSet(accepted[c]) = ToSet(buf[c]) \cup UNION {Got(d) : d \in Of(c)}
    /\ \A d, e \in 1 .. ndel :
         d # e /\ source[d] = source[e] => Got(d) \cap Got(e) = {}

DInv == ReportInv /\ SentInv /\ HandInv /\ OrderInv /\ FlowInv
-----------------------------------------------------------------------------
(* Sequences of messages *)

LEMMA ToSetAppend ==
    ASSUME NEW S, NEW s \in Seq(S), NEW m
    PROVE  ToSet(Append(s, m)) = ToSet(s) \cup {m}
<1>1. /\ DOMAIN Append(s, m) = 1 .. Len(s) + 1 /\ DOMAIN s = 1 .. Len(s)
      /\ \A i \in 1 .. Len(s) : Append(s, m)[i] = s[i]
      /\ Append(s, m)[Len(s) + 1] = m
      /\ Len(s) \in Nat
  OBVIOUS
<1> QED
  BY <1>1 DEF ToSet

LEMMA ToSetTail ==
    ASSUME NEW S, NEW s \in Seq(S), s # <<>>
    PROVE  ToSet(s) = {Head(s)} \cup ToSet(Tail(s))
<1>1. /\ DOMAIN s = 1 .. Len(s) /\ Len(s) \in Nat \ {0}
      /\ DOMAIN Tail(s) = 1 .. Len(s) - 1
      /\ \A i \in 1 .. Len(s) - 1 : Tail(s)[i] = s[i + 1]
      /\ Head(s) = s[1]
  OBVIOUS
<1>2. \A i \in DOMAIN s : i = 1 \/ i - 1 \in DOMAIN Tail(s)
  BY <1>1
<1> QED
  BY <1>1, <1>2 DEF ToSet

LEMMA ToSetConcat ==
    ASSUME NEW S, NEW s \in Seq(S), NEW t \in Seq(S)
    PROVE  ToSet(s \o t) = ToSet(s) \cup ToSet(t)
<1>1. /\ DOMAIN s = 1 .. Len(s) /\ DOMAIN t = 1 .. Len(t)
      /\ DOMAIN (s \o t) = 1 .. Len(s) + Len(t)
      /\ Len(s) \in Nat /\ Len(t) \in Nat
      /\ \A i \in 1 .. Len(s) : (s \o t)[i] = s[i]
      /\ \A i \in 1 .. Len(t) : (s \o t)[Len(s) + i] = t[i]
  OBVIOUS
<1>2. \A i \in 1 .. Len(s) + Len(t) :
        i \in 1 .. Len(s) \/ (i - Len(s) \in 1 .. Len(t) /\ i = Len(s) + (i - Len(s)))
  BY <1>1
<1>3. ToSet(s \o t) \subseteq ToSet(s) \cup ToSet(t)
  BY <1>1, <1>2 DEF ToSet
<1>4. \A i \in 1 .. Len(t) : Len(s) + i \in DOMAIN (s \o t)
  BY <1>1
<1>5. ToSet(t) \subseteq ToSet(s \o t)
  BY <1>1, <1>4 DEF ToSet
<1>6. ToSet(s) \subseteq ToSet(s \o t)
  BY <1>1 DEF ToSet
<1> QED
  BY <1>3, <1>5, <1>6

LEMMA OrderAppend ==
    ASSUME NEW s \in Seq(Msgs), NEW m \in Msgs, InSendOrder(s),
           \A x \in ToSet(s) : x[1] = m[1] => x[2] < m[2]
    PROVE  InSendOrder(Append(s, m))
<1>1. /\ DOMAIN Append(s, m) = 1 .. Len(s) + 1 /\ DOMAIN s = 1 .. Len(s)
      /\ \A i \in 1 .. Len(s) : Append(s, m)[i] = s[i]
      /\ Append(s, m)[Len(s) + 1] = m
      /\ Len(s) \in Nat
  OBVIOUS
<1>2. \A i \in 1 .. Len(s) : s[i] \in ToSet(s)
  BY <1>1 DEF ToSet
<1> QED
  BY <1>1, <1>2 DEF InSendOrder

LEMMA OrderTail ==
    ASSUME NEW s \in Seq(Msgs), s # <<>>, InSendOrder(s)
    PROVE  /\ InSendOrder(Tail(s))
           /\ \A y \in ToSet(Tail(s)) : Head(s)[1] = y[1] => Head(s)[2] < y[2]
<1>1. /\ DOMAIN s = 1 .. Len(s) /\ Len(s) \in Nat \ {0}
      /\ DOMAIN Tail(s) = 1 .. Len(s) - 1
      /\ \A i \in 1 .. Len(s) - 1 : Tail(s)[i] = s[i + 1]
      /\ Head(s) = s[1]
  OBVIOUS
<1>2. InSendOrder(Tail(s))
  BY <1>1 DEF InSendOrder
<1>3. \A i \in 1 .. Len(s) - 1 :
        Head(s)[1] = Tail(s)[i][1] => Head(s)[2] < Tail(s)[i][2]
  BY <1>1 DEF InSendOrder
<1> QED
  BY <1>1, <1>2, <1>3 DEF ToSet

LEMMA OrderPrefix ==
    ASSUME NEW s \in Seq(Msgs), NEW t \in Seq(Msgs), InSendOrder(s \o t)
    PROVE  InSendOrder(s)
<1>1. /\ DOMAIN s = 1 .. Len(s) /\ DOMAIN (s \o t) = 1 .. Len(s) + Len(t)
      /\ Len(s) \in Nat /\ Len(t) \in Nat
      /\ \A i \in 1 .. Len(s) : (s \o t)[i] = s[i]
  OBVIOUS
<1> QED
  BY <1>1 DEF InSendOrder

\* A sequence in the order of sending repeats nothing.
LEMMA OrderInjective ==
    ASSUME NEW s \in Seq(Msgs), InSendOrder(s)
    PROVE  IsInjective(s)
<1>1. \A i \in DOMAIN s : s[i] \in Msgs
  OBVIOUS
<1>2. \A m \in Msgs : m[2] \in Nat
  BY BrokerAssumption DEF Msgs, BrokerAssumption, Publishers
<1>3. \A i \in DOMAIN s : s[i][2] \in Nat
  BY <1>1, <1>2
<1>4. \A i, j \in DOMAIN s : i < j => s[i] # s[j]
  BY <1>3 DEF InSendOrder
<1>5. DOMAIN s \subseteq Nat
  OBVIOUS
<1> QED
  BY <1>4, <1>5 DEF IsInjective
-----------------------------------------------------------------------------
(* The report of Publish *)

LEMMA CurrentInjective ==
    ASSUME TypeOK, NEW p \in Publishers
    PROVE  /\ Current(p)[1] = p /\ Current(p)[2] = sent[p] /\ sent[p] \in Nat
           /\ \A q \in Publishers : q # p => Current(q) # Current(p)
BY DEF Current, TypeOK

\* What a send in the loop of Publish does: the channel is open.
LEMMA SendEffect ==
    ASSUME IInv, NEW p \in Publishers, NEW c \in Chans, PublishSend(p, c)
    PROVE  /\ Current(p) \in Msgs
           /\ buf' = [buf EXCEPT ![c] = Append(buf[c], Current(p))]
           /\ accepted' = [accepted EXCEPT ![c] = Append(accepted[c], Current(p))]
           /\ ToSet(accepted'[c]) = ToSet(accepted[c]) \cup {Current(p)}
           /\ ToSet(buf'[c]) = ToSet(buf[c]) \cup {Current(p)}
           /\ \A x \in Chans \ {c} : accepted'[x] = accepted[x] /\ buf'[x] = buf[x]
<1>1. Current(p) \in Msgs
  BY CurrentMsg, BrokerAssumption DEF PublishSend, IInv, LockInv
<1>2. c \in Stored(subject[p]) /\ subject[p] \in Subjects
  BY DEF PublishSend, IInv, LoopInv, TypeOK
<1>3. c \notin closed
  BY <1>2, StoredOpen DEF IInv
<1>4. /\ buf' = [buf EXCEPT ![c] = Append(buf[c], Current(p))]
      /\ accepted' = [accepted EXCEPT ![c] = Append(accepted[c], Current(p))]
  BY <1>3 DEF PublishSend
<1>5. buf \in [Chans -> Seq(Msgs)] /\ accepted \in [Chans -> Seq(Msgs)]
  BY DEF IInv, TypeOK
<1>6. /\ accepted'[c] = Append(accepted[c], Current(p))
      /\ buf'[c] = Append(buf[c], Current(p))
      /\ \A x \in Chans \ {c} : accepted'[x] = accepted[x] /\ buf'[x] = buf[x]
  BY <1>4, <1>5
<1> QED
  BY <1>1, <1>4, <1>5, <1>6, ToSetAppend

LEMMA SentStep ==
    ASSUME IInv, SentInv, [Next]_vars
    PROVE  SentInv'
<1> USE DEF SentInv, chanVars, pubVars, lockVars
<1>1. ASSUME NEW p \in Publishers, NEW c \in Chans, PublishSend(p, c)
      PROVE  SentInv'
  <2>1. sent' = sent
    BY <1>1 DEF PublishSend
  <2>2. Current(p)[2] <= sent[Current(p)[1]]
    BY CurrentInjective DEF IInv
  <2> QED
    BY <1>1, <2>1, <2>2, SendEffect
<1>2. ASSUME NEW p \in Publishers, BeginPublish(p), accepted' = accepted
      PROVE  SentInv'
  <2>1. sent \in [Publishers -> Nat] /\ accepted \in [Chans -> Seq(Msgs)]
    BY DEF IInv, TypeOK
  <2>2. \A q \in Publishers : sent'[q] \in Nat /\ sent[q] <= sent'[q]
    BY <1>2, <2>1 DEF BeginPublish
  <2>3. \A c \in Chans : \A m \in ToSet(accepted[c]) : m \in Msgs
    BY <2>1 DEF ToSet
  <2>4. \A m \in Msgs : m[1] \in Publishers /\ m[2] \in Nat
    BY BrokerAssumption DEF Msgs, Publishers, BrokerAssumption
  <2> QED
    BY <1>2, <2>1, <2>2, <2>3, <2>4
<1>3. ASSUME UNCHANGED <<sent, accepted>> PROVE SentInv'
  BY <1>3
<1> HIDE DEF SentInv
<1>4. ASSUME NEW p \in Publishers, PublishLoop(p) PROVE SentInv'
  BY <1>1, <1>3, <1>4
    DEF PublishLoop, PublishEnter, PublishTimeout, PublishReturn
<1>5. ASSUME NEW m \in Managers, Announce(m) \/ Body(m) PROVE SentInv'
  BY <1>3, <1>5
    DEF Announce, Body, SubscribeWithChannel, Unsubscribe, CloseConnection
<1>6. ASSUME NEW d \in Deliveries,
             Receive(d) \/ Deliver(d) \/ DeliveryEnd(d) \/ StopReading(d)
      PROVE  SentInv'
  BY <1>3, <1>6 DEF Receive, Deliver, DeliveryEnd, StopReading
<1> QED
  BY <1>2, <1>3, <1>4, <1>5, <1>6
    DEF Next, vars, CallPublish, ForwardNext, PublishWithChannel, ForwardEnd,
        Call, Publishers

LEMMA ReportStep ==
    ASSUME IInv, ReportInv, SentInv, [Next]_vars
    PROVE  ReportInv'
<1> USE DEF chanVars, pubVars, lockVars
<1> DEFINE Report(p) ==
      /\ pc[p] # "loop" => good[p] = {} /\ failed[p] = {}
      /\ pc[p] = "rlock" =>
           \A c \in Chans : Current(p) \notin ToSet(accepted[c])
      /\ pc[p] = "loop" =>
           /\ todo[p] \cup good[p] \cup failed[p] = Stored(subject[p])
           /\ todo[p] \cap (good[p] \cup failed[p]) = {}
           /\ good[p] \cap failed[p] = {}
           /\ \A c \in Chans :
                Current(p) \in ToSet(accepted[c]) <=> c \in good[p]
<1>0. \A p \in Publishers : Report(p)
  BY DEF ReportInv
<1>t. /\ sent \in [Publishers -> Nat] /\ todo \in [Publishers -> SUBSET Chans]
      /\ good \in [Publishers -> SUBSET Chans]
      /\ failed \in [Publishers -> SUBSET Chans]
      /\ accepted \in [Chans -> Seq(Msgs)]
      /\ subject \in [Publishers -> Subjects]
      /\ pc \in [Threads -> {"off", "idle", "rlock", "loop", "lock", "drain"}]
      /\ Publishers \subseteq Threads
  BY DEF IInv, TypeOK, Threads
<1> SUFFICES ASSUME NEW q \in Publishers PROVE Report(q)'
  BY DEF ReportInv
<1>1. ASSUME NEW p \in Publishers, BeginPublish(p),
             UNCHANGED <<accepted, good, failed, todo, storage>>,
             p # q => subject'[q] = subject[q]
      PROVE  Report(q)'
  <2>1. CASE q = p
    <3>1. /\ pc[p] = "idle" /\ pc'[p] = "rlock"
          /\ sent'[p] = sent[p] + 1
      BY <1>1, <1>t DEF BeginPublish
    <3>2. \A c \in Chans : <<p, sent[p] + 1>> \notin ToSet(accepted[c])
      BY <1>t DEF SentInv
    <3>3. good[p] = {} /\ failed[p] = {}
      BY <1>0, <3>1
    <3> QED
      BY <1>1, <2>1, <3>1, <3>2, <3>3 DEF Current
  <2>2. CASE q # p
    <3>1. pc'[q] = pc[q] /\ sent'[q] = sent[q]
      BY <1>1, <1>t, <2>2 DEF BeginPublish
    <3> QED
      BY <1>0, <1>1, <2>2, <3>1 DEF Current, Stored
  <2> QED
    BY <2>1, <2>2
<1>2. ASSUME NEW p \in Publishers, PublishEnter(p) PROVE Report(q)'
  <2>1. CASE q = p
    <3>1. /\ pc[p] = "rlock" /\ pc'[p] = "loop" /\ todo'[p] = Stored(subject[p])
          /\ UNCHANGED <<sent, good, failed, accepted, subject, storage>>
      BY <1>2, <1>t DEF PublishEnter
    <3> QED
      BY <1>0, <2>1, <3>1 DEF Current, Stored
  <2>2. CASE q # p
    <3>1. /\ pc'[q] = pc[q] /\ todo'[q] = todo[q]
          /\ UNCHANGED <<sent, good, failed, accepted, subject, storage>>
      BY <1>2, <1>t, <2>2 DEF PublishEnter
    <3> QED
      BY <1>0, <3>1 DEF Current, Stored
  <2> QED
    BY <2>1, <2>2
<1>3. ASSUME NEW p \in Publishers, NEW c \in Chans, PublishSend(p, c)
      PROVE  Report(q)'
  <2>1. /\ pc[p] = "loop" /\ c \in todo[p]
        /\ UNCHANGED <<pc, sent, failed, subject, storage>>
        /\ todo'[p] = todo[p] \ {c} /\ good'[p] = good[p] \cup {c}
        /\ q # p => todo'[q] = todo[q] /\ good'[q] = good[q]
    BY <1>3, <1>t DEF PublishSend
  <2>2. Current(q)' = Current(q) /\ Stored(subject[q])' = Stored(subject[q])
    BY <2>1 DEF Current, Stored
  <2>3. /\ ToSet(accepted'[c]) = ToSet(accepted[c]) \cup {Current(p)}
        /\ \A x \in Chans \ {c} : accepted'[x] = accepted[x]
    BY <1>3, SendEffect
  <2>4. CASE q = p
    BY <1>0, <2>1, <2>2, <2>3, <2>4
  <2>5. CASE q # p
    <3>1. Current(q) # Current(p)
      BY <2>5, CurrentInjective DEF IInv
    <3> QED
      BY <1>0, <2>1, <2>2, <2>3, <2>5, <3>1
  <2> QED
    BY <2>4, <2>5
<1>4. ASSUME NEW p \in Publishers, NEW c \in Chans, PublishTimeout(p, c)
      PROVE  Report(q)'
  <2>1. /\ pc[p] = "loop" /\ c \in todo[p]
        /\ UNCHANGED <<pc, sent, good, accepted, subject, storage>>
        /\ todo'[p] = todo[p] \ {c} /\ failed'[p] = failed[p] \cup {c}
        /\ q # p => todo'[q] = todo[q] /\ failed'[q] = failed[q]
    BY <1>4, <1>t DEF PublishTimeout
  <2>2. Current(q)' = Current(q) /\ Stored(subject[q])' = Stored(subject[q])
    BY <2>1 DEF Current, Stored
  <2> QED
    BY <1>0, <2>1, <2>2
<1>5. ASSUME NEW p \in Publishers, PublishReturn(p) PROVE Report(q)'
  <2>1. /\ UNCHANGED <<sent, todo, accepted, subject, storage>>
        /\ q = p => pc'[q] = "idle" /\ good'[q] = {} /\ failed'[q] = {}
        /\ q # p => /\ pc'[q] = pc[q] /\ good'[q] = good[q]
                    /\ failed'[q] = failed[q]
    BY <1>5, <1>t DEF PublishReturn
  <2> QED
    BY <1>0, <2>1 DEF Current, Stored
<1>6. ASSUME UNCHANGED <<sent, todo, good, failed, accepted>>,
             pc[q] # "loop", pc'[q] \in {pc[q], "off", "idle"}
      PROVE  Report(q)'
  BY <1>0, <1>6 DEF Current
<1>7. ASSUME UNCHANGED <<sent, todo, good, failed, accepted, storage>>,
             pc'[q] = pc[q], subject'[q] = subject[q]
      PROVE  Report(q)'
  BY <1>0, <1>7 DEF Current, Stored
<1> HIDE DEF Report
<1>8. ASSUME NEW f \in Forwarders,
             ForwardEnd(f) \/ \E s \in Subjects : PublishWithChannel(f, s)
      PROVE  Report(q)'
  <2>1. CASE q = f
    BY <1>6, <1>8, <1>t, <2>1 DEF ForwardEnd, PublishWithChannel
  <2>2. CASE q # f
    BY <1>7, <1>8, <1>t, <2>2 DEF ForwardEnd, PublishWithChannel
  <2> QED
    BY <2>1, <2>2
<1>9. ASSUME NEW m \in Managers,
             Announce(m) \/ \E r \in Requests : Call(m, r)
      PROVE  Report(q)'
  <2>1. q # m
    BY BrokerAssumption DEF BrokerAssumption, Publishers
  <2> QED
    BY <1>7, <1>9, <1>t, <2>1 DEF Announce, Call
<1>10. ASSUME NEW m \in Managers, Body(m) PROVE Report(q)'
  <2>1. PICK op : Locked(m, op)
    BY <1>10 DEF Body, SubscribeWithChannel, Unsubscribe, CloseConnection
  <2>2. pc[q] # "loop" /\ q # m
    BY <2>1, BrokerAssumption
      DEF Locked, IInv, LockInv, BrokerAssumption, Publishers
  <2>3. pc'[q] = pc[q]
    BY <2>1, <2>2, <1>t DEF Locked
  <2>4. UNCHANGED <<sent, todo, good, failed, accepted>>
    BY <1>10 DEF Body, SubscribeWithChannel, Unsubscribe, CloseConnection
  <2> QED
    BY <1>6, <2>2, <2>3, <2>4
<1>11. ASSUME NEW p \in Callers, NEW s \in Subjects, CallPublish(p, s)
       PROVE  Report(q)'
  <2>1. p # q => subject'[q] = subject[q]
    BY <1>11, <1>t DEF CallPublish, Publishers
  <2> QED
    BY <1>1, <1>11, <2>1 DEF CallPublish, Publishers
<1>12. ASSUME NEW f \in Forwarders, ForwardNext(f) PROVE Report(q)'
  BY <1>1, <1>12 DEF ForwardNext, Publishers
<1>13. ASSUME NEW p \in Publishers, PublishLoop(p) PROVE Report(q)'
  BY <1>2, <1>3, <1>4, <1>5, <1>13 DEF PublishLoop
<1>14. ASSUME NEW d \in Deliveries,
              Receive(d) \/ Deliver(d) \/ DeliveryEnd(d) \/ StopReading(d)
       PROVE  Report(q)'
  BY <1>7, <1>14 DEF Receive, Deliver, DeliveryEnd, StopReading
<1>15. CASE UNCHANGED vars
  BY <1>7, <1>15 DEF vars
<1> QED
  BY <1>8, <1>9, <1>10, <1>11, <1>12, <1>13, <1>14, <1>15 DEF Next
-----------------------------------------------------------------------------
(* What the subscribers get *)

LEMMA HandStep ==
    ASSUME IInv, HandInv, [Next]_vars
    PROVE  HandInv'
<1> USE DEF HandInv, chanVars, delVars
<1>t. /\ ndel \in Nat /\ Deliveries \subseteq Nat
      /\ dstate \in [Deliveries -> {"off", "recv", "send", "done"}]
      /\ source \in [Deliveries -> Chans \cup {NoChan}]
      /\ hand \in [Deliveries -> Seq(Msgs)]
      /\ received \in [Deliveries -> Seq(Msgs)]
  BY BrokerAssumption DEF IInv, TypeOK, Deliveries, BrokerAssumption
<1>1. ASSUME NEW m \in Managers, SubscribeWithChannel(m) PROVE HandInv'
  <2>1. /\ ndel + 1 \in Deliveries /\ ndel' = ndel + 1
        /\ dstate' = [dstate EXCEPT ![ndel + 1] = "recv"]
        /\ UNCHANGED <<hand, received>>
        /\ source' = [source EXCEPT ![ndel + 1] = source'[ndel + 1]]
        /\ source'[ndel + 1] \in Chans
    BY <1>1, <1>t DEF SubscribeWithChannel
  <2> QED
    BY <1>t, <2>1
<1>2. ASSUME NEW d \in Deliveries, Receive(d) PROVE HandInv'
  <2>1. Len(<<Head(buf[source[d]])>>) = 1
    OBVIOUS
  <2> QED
    BY <1>2, <1>t, <2>1 DEF Receive
<1>3. ASSUME NEW d \in Deliveries, Deliver(d) PROVE HandInv'
  BY <1>3, <1>t DEF Deliver
<1>4. ASSUME NEW d \in Deliveries, DeliveryEnd(d) PROVE HandInv'
  BY <1>4, <1>t DEF DeliveryEnd
<1>5. ASSUME UNCHANGED <<ndel, source, dstate, hand, received>> PROVE HandInv'
  BY <1>5
<1> HIDE DEF HandInv
<1> QED
  BY <1>1, <1>2, <1>3, <1>4, <1>5
    DEF Next, vars, Body, PublishLoop, CallPublish, PublishWithChannel,
        ForwardNext, ForwardEnd, PublishEnter, PublishSend, PublishTimeout,
        PublishReturn, Call, Announce, Unsubscribe, CloseConnection,
        StopReading

\* An element appended is a sequence of one put behind.
LEMMA AppendConcat ==
    ASSUME NEW S, NEW s \in Seq(S), NEW x \in S
    PROVE  Append(s, x) = s \o <<x>>
OBVIOUS

\* A goroutine that runs takes from a channel.
LEMMA SourceIn ==
    ASSUME HandInv, 1 .. ndel \subseteq Deliveries, NEW d \in 1 .. ndel, ndel \in Nat
    PROVE  source[d] \in Chans
BY DEF HandInv

\* What a goroutine got, once from its channel and once handed on.
LEMMA GotIs ==
    ASSUME TypeOK, NEW d \in Deliveries
    PROVE  Got(d) = ToSet(received[d] \o hand[d])
BY ToSetConcat DEF TypeOK, Got

\* Order and Flow speak of these variables only.
LEMMA FlowFrame ==
    ASSUME OrderInv, FlowInv,
           UNCHANGED <<buf, accepted, received, hand, ndel, source>>
    PROVE  OrderInv' /\ FlowInv'
<1>1. \A d : Got(d)' = Got(d)
  BY DEF Got
<1>2. \A c : Of(c)' = Of(c)
  BY DEF Of
<1>3. OrderInv'
  BY <1>1 DEF OrderInv
<1>4. FlowInv'
  <2>1. \A c : UNION {Got(d)' : d \in Of(c)'} = UNION {Got(d) : d \in Of(c)}
    BY <1>1, <1>2
  <2> QED
    BY <1>1, <2>1 DEF FlowInv
<1> QED
  BY <1>3, <1>4

\* A message accepted earlier from the same publisher has a lower number.
LEMMA FlowSend ==
    ASSUME IInv, DInv, NEW p \in Publishers, NEW c \in Chans, PublishSend(p, c)
    PROVE  OrderInv' /\ FlowInv'
<1> DEFINE x == Current(p)
<1>t. /\ buf \in [Chans -> Seq(Msgs)] /\ accepted \in [Chans -> Seq(Msgs)]
      /\ received \in [Deliveries -> Seq(Msgs)]
      /\ hand \in [Deliveries -> Seq(Msgs)]
      /\ 1 .. ndel \subseteq Deliveries /\ ndel \in Nat
      /\ UNCHANGED <<received, hand, ndel, source>>
  BY BrokerAssumption
    DEF IInv, TypeOK, Deliveries, BrokerAssumption, PublishSend, delVars
<1>1. \A y \in ToSet(accepted[c]) : y \in Msgs
  BY <1>t DEF ToSet
<1>2. \A y \in Msgs : y[2] \in Nat /\ y = <<y[1], y[2]>>
  BY BrokerAssumption DEF Msgs, BrokerAssumption, Publishers
<1>3. x \notin ToSet(accepted[c])
  BY DEF PublishSend, DInv, ReportInv
<1>4. \A y \in ToSet(accepted[c]) : y[1] = x[1] => y[2] < x[2]
  <2> SUFFICES ASSUME NEW y \in ToSet(accepted[c]), y[1] = p
               PROVE  y[2] < sent[p]
    BY CurrentInjective DEF IInv
  <2>1. y[2] <= sent[p]
    BY DEF DInv, SentInv
  <2>2. y[2] # sent[p]
    BY <1>1, <1>2, <1>3 DEF Current
  <2> QED
    BY <1>1, <1>2, <2>1, <2>2, CurrentInjective DEF IInv
<1>5. ToSet(buf[c]) \subseteq ToSet(accepted[c])
      /\ \A d \in 1 .. ndel : source[d] = c => Got(d) \subseteq ToSet(accepted[c])
  BY DEF DInv, FlowInv, Of
<1>6. /\ x \in Msgs
      /\ accepted'[c] = Append(accepted[c], x)
      /\ buf'[c] = Append(buf[c], x)
      /\ ToSet(accepted'[c]) = ToSet(accepted[c]) \cup {x}
      /\ ToSet(buf'[c]) = ToSet(buf[c]) \cup {x}
      /\ \A b \in Chans \ {c} : accepted'[b] = accepted[b] /\ buf'[b] = buf[b]
  BY <1>t, SendEffect
<1>7. \A d \in 1 .. ndel : Got(d)' = Got(d)
  BY <1>t DEF Got
<1> HIDE DEF x
<1>8. OrderInv'
  <2>1. /\ \A b \in Chans : InSendOrder(accepted[b]) /\ InSendOrder(buf[b])
        /\ \A d \in Deliveries : InSendOrder(received[d] \o hand[d])
        /\ \A d \in 1 .. ndel : \A y \in Got(d), z \in ToSet(buf[source[d]]) :
             y[1] = z[1] => y[2] < z[2]
    BY DEF DInv, OrderInv
  <2>2. InSendOrder(Append(accepted[c], x))
    BY <1>4, <1>6, <1>t, <2>1, OrderAppend
  <2>3. InSendOrder(Append(buf[c], x))
    BY <1>4, <1>5, <1>6, <1>t, <2>1, OrderAppend
  <2>4. \A b \in Chans : InSendOrder(accepted'[b]) /\ InSendOrder(buf'[b])
    BY <1>6, <2>1, <2>2, <2>3
  <2>5. \A d \in Deliveries : InSendOrder(received'[d] \o hand'[d])
    BY <1>t, <2>1
  <2>6. ASSUME NEW d \in 1 .. ndel, NEW y \in Got(d),
               NEW z \in ToSet(buf'[source[d]]), y[1] = z[1]
        PROVE  y[2] < z[2]
    <3>1. CASE source[d] = c
      <4>1. y \in ToSet(accepted[c]) /\ y \in Got(d)
        BY <1>5, <3>1
      <4>2. CASE z = x
        BY <1>4, <2>6, <4>1, <4>2
      <4>3. CASE z \in ToSet(buf[source[d]])
        BY <2>1, <2>6, <4>1, <4>3
      <4> QED
        BY <1>6, <3>1, <4>2, <4>3
    <3>2. CASE source[d] # c
      <4>1. source[d] \in Chans
        BY <1>t, SourceIn DEF DInv
      <4>2. buf'[source[d]] = buf[source[d]]
        BY <1>6, <3>2, <4>1
      <4> QED
        BY <2>1, <2>6, <4>2
    <3> QED
      BY <3>1, <3>2
  <2>7. \A d \in 1 .. ndel' : Got(d)' = Got(d) /\ source'[d] = source[d]
    BY <1>t, <1>7
  <2>8. \A d \in 1 .. ndel' : \A y \in Got(d)', z \in ToSet(buf'[source'[d]]) :
          y[1] = z[1] => y[2] < z[2]
    BY <1>t, <2>6, <2>7
  <2> QED
    BY <2>4, <2>5, <2>8 DEF OrderInv, InSendOrder, ToSet
<1>9. FlowInv'
  <2>1. \A b \in Chans : Of(b)' = Of(b) /\ Of(b) \subseteq 1 .. ndel
    BY <1>t DEF Of
  <2>2. \A b \in Chans : UNION {Got(d)' : d \in Of(b)'} = UNION {Got(d) : d \in Of(b)}
    BY <1>7, <2>1
  <2> QED
    BY <1>6, <1>7, <1>t, <2>2 DEF DInv, FlowInv
<1> QED
  BY <1>8, <1>9

\* The head of the channel moves to the goroutine that receives it.
LEMMA FlowReceive ==
    ASSUME IInv, DInv, NEW d \in Deliveries, Receive(d)
    PROVE  OrderInv' /\ FlowInv'
<1> DEFINE c == source[d]
           h == Head(buf[c])
<1>t. /\ buf \in [Chans -> Seq(Msgs)]
      /\ received \in [Deliveries -> Seq(Msgs)]
      /\ hand \in [Deliveries -> Seq(Msgs)]
      /\ 1 .. ndel \subseteq Deliveries /\ ndel \in Nat /\ d \in Nat
      /\ UNCHANGED <<accepted, received, ndel, source>>
  BY BrokerAssumption
    DEF IInv, TypeOK, Deliveries, BrokerAssumption, Receive
<1>1. /\ d \in 1 .. ndel /\ c \in Chans /\ buf[c] # <<>> /\ hand[d] = <<>>
      /\ \A e \in 1 .. ndel : source[e] \in Chans
  BY <1>t DEF Receive, DInv, HandInv, Deliveries
<1>2. /\ hand'[d] = <<h>> /\ buf'[c] = Tail(buf[c])
      /\ \A e \in Deliveries \ {d} : hand'[e] = hand[e]
      /\ \A b \in Chans \ {c} : buf'[b] = buf[b]
  BY <1>1, <1>t DEF Receive
<1>3. /\ ToSet(buf[c]) = {h} \cup ToSet(Tail(buf[c]))
      /\ InSendOrder(Tail(buf[c]))
      /\ \A y \in ToSet(Tail(buf[c])) : h[1] = y[1] => h[2] < y[2]
      /\ h \in Msgs /\ Tail(buf[c]) \in Seq(Msgs)
  <2>1. buf[c] \in Seq(Msgs) /\ InSendOrder(buf[c])
    BY <1>1, <1>t DEF DInv, OrderInv
  <2> QED
    BY <1>1, <2>1, ToSetTail, OrderTail
<1>4. \A e \in Deliveries \ {d} : Got(e)' = Got(e)
  BY <1>2, <1>t DEF Got
<1>5. Got(d)' = Got(d) \cup {h}
  <2>1. ToSet(<<h>>) = {h} /\ ToSet(<<>>) = {}
    BY DEF ToSet
  <2> QED
    BY <1>1, <1>2, <1>t, <2>1 DEF Got
<1>6. /\ \A b \in Chans : InSendOrder(accepted[b]) /\ InSendOrder(buf[b])
      /\ \A e \in Deliveries : InSendOrder(received[e] \o hand[e])
      /\ \A e \in 1 .. ndel : \A x \in Got(e), y \in ToSet(buf[source[e]]) :
           x[1] = y[1] => x[2] < y[2]
      /\ \A b \in Chans :
           ToSet(accepted[b]) = ToSet(buf[b]) \cup UNION {Got(e) : e \in Of(b)}
      /\ \A e, f \in 1 .. ndel :
           e # f /\ source[e] = source[f] => Got(e) \cap Got(f) = {}
  BY DEF DInv, OrderInv, FlowInv
<1>7. \A e \in 1 .. ndel : \A x \in Got(e) :
        source[e] = c /\ x[1] = h[1] => x[2] < h[2]
  BY <1>3, <1>6
<1>8. \A e \in 1 .. ndel : source[e] = c => h \notin Got(e)
  <2>1. h[2] \in Nat
    BY <1>3, BrokerAssumption DEF Msgs, BrokerAssumption, Publishers
  <2> QED
    BY <1>7, <2>1
<1> HIDE DEF c, h
<1>9. InSendOrder(received'[d] \o hand'[d])
  <2>1. received[d] \o hand[d] = received[d] /\ received[d] \in Seq(Msgs)
    BY <1>1, <1>t
  <2>2. Append(received[d], h) = received[d] \o <<h>>
    BY <1>3, <2>1, AppendConcat
  <2>3. ToSet(received[d]) \subseteq Got(d)
    BY DEF Got
  <2>4. InSendOrder(received[d]) /\ source[d] = c
    BY <1>6, <2>1 DEF c
  <2>5. \A x \in ToSet(received[d]) : x[1] = h[1] => x[2] < h[2]
    BY <1>1, <1>7, <2>3, <2>4
  <2>6. InSendOrder(Append(received[d], h))
    BY <1>3, <2>1, <2>4, <2>5, OrderAppend
  <2> QED
    BY <1>2, <1>t, <2>2, <2>6
<1>10. OrderInv'
  <2>1. \A b \in Chans : InSendOrder(accepted'[b]) /\ InSendOrder(buf'[b])
    BY <1>2, <1>3, <1>6, <1>t
  <2>2. \A e \in Deliveries : InSendOrder(received'[e] \o hand'[e])
    BY <1>2, <1>6, <1>9, <1>t
  <2>3. ASSUME NEW e \in 1 .. ndel, NEW x \in Got(e)',
               NEW y \in ToSet(buf'[source[e]]), x[1] = y[1]
        PROVE  x[2] < y[2]
    <3>1. y \in ToSet(buf[source[e]])
      BY <1>1, <1>2, <1>3
    <3>2. CASE x \in Got(e)
      BY <1>6, <2>3, <3>1, <3>2
    <3>3. CASE e = d /\ x = h
      BY <1>2, <1>3, <2>3, <3>3 DEF c
    <3> QED
      BY <1>4, <1>5, <1>t, <3>2, <3>3
  <2> QED
    BY <1>t, <2>1, <2>2, <2>3 DEF OrderInv
<1>11. FlowInv'
  <2>1. ASSUME NEW b \in Chans
        PROVE  ToSet(accepted'[b]) =
                 ToSet(buf'[b]) \cup UNION {Got(e)' : e \in Of(b)'}
    <3>1. Of(b)' = Of(b) /\ Of(b) \subseteq 1 .. ndel
      BY <1>t DEF Of
    <3>2. CASE b = c
      <4>1. d \in Of(b)
        BY <1>1, <3>2 DEF Of, c
      <4>2. UNION {Got(e)' : e \in Of(b)} = {h} \cup UNION {Got(e) : e \in Of(b)}
        BY <1>4, <1>5, <1>t, <3>1, <4>1
      <4> QED
        BY <1>2, <1>3, <1>6, <1>t, <3>1, <3>2, <4>2
    <3>3. CASE b # c
      <4>1. d \notin Of(b)
        BY <3>3 DEF Of, c
      <4>2. UNION {Got(e)' : e \in Of(b)} = UNION {Got(e) : e \in Of(b)}
        BY <1>4, <1>t, <3>1, <4>1
      <4> QED
        BY <1>2, <1>6, <1>t, <3>1, <3>3, <4>2
    <3> QED
      BY <3>2, <3>3
  <2>2. \A e, f \in 1 .. ndel :
          e # f /\ source[e] = source[f] => Got(e)' \cap Got(f)' = {}
    <3> SUFFICES ASSUME NEW e \in 1 .. ndel, NEW f \in 1 .. ndel, e # f,
                        source[e] = source[f]
                 PROVE  Got(e)' \cap Got(f)' = {}
      OBVIOUS
    <3>1. Got(e) \cap Got(f) = {}
      BY <1>6
    <3>2. CASE e = d
      <4>1. h \notin Got(f)
        BY <1>8, <3>2 DEF c
      <4> QED
        BY <1>4, <1>5, <1>t, <3>1, <3>2, <4>1
    <3>3. CASE f = d
      <4>1. h \notin Got(e)
        BY <1>8, <3>3 DEF c
      <4> QED
        BY <1>4, <1>5, <1>t, <3>1, <3>3, <4>1
    <3>4. CASE e # d /\ f # d
      BY <1>4, <1>t, <3>1, <3>4
    <3> QED
      BY <3>2, <3>3, <3>4
  <2> QED
    BY <1>t, <2>1, <2>2 DEF FlowInv
<1> QED
  BY <1>10, <1>11

\* Handing a message on moves it from hand to received.
LEMMA FlowDeliver ==
    ASSUME IInv, DInv, NEW d \in Deliveries, Deliver(d)
    PROVE  OrderInv' /\ FlowInv'
<1>t. /\ received \in [Deliveries -> Seq(Msgs)]
      /\ hand \in [Deliveries -> Seq(Msgs)]
      /\ 1 .. ndel \subseteq Deliveries
      /\ UNCHANGED <<buf, accepted, ndel, source>>
  BY BrokerAssumption
    DEF IInv, TypeOK, Deliveries, BrokerAssumption, Deliver
<1>1. /\ received'[d] = received[d] \o hand[d] /\ hand'[d] = <<>>
      /\ \A e \in Deliveries \ {d} :
           received'[e] = received[e] /\ hand'[e] = hand[e]
  BY <1>t DEF Deliver
<1>2. \A e \in Deliveries : received'[e] \o hand'[e] = received[e] \o hand[e]
  <2>1. (received[d] \o hand[d]) \o <<>> = received[d] \o hand[d]
    BY <1>t
  <2> QED
    BY <1>1, <2>1
<1>3. \A e \in Deliveries : Got(e)' = Got(e)
  <2>1. Got(d)' = Got(d)
    <3>1. ToSet(received[d] \o hand[d]) = ToSet(received[d]) \cup ToSet(hand[d])
      BY <1>t, ToSetConcat
    <3>2. ToSet(<<>>) = {}
      BY DEF ToSet
    <3> QED
      BY <1>1, <3>1, <3>2 DEF Got
  <2>2. \A e \in Deliveries \ {d} : Got(e)' = Got(e)
    BY <1>1 DEF Got
  <2> QED
    BY <2>1, <2>2
<1>4. OrderInv'
  <2>1. \A e \in Deliveries : InSendOrder(received'[e] \o hand'[e])
    BY <1>2 DEF DInv, OrderInv
  <2>2. \A c \in Chans : InSendOrder(accepted'[c]) /\ InSendOrder(buf'[c])
    BY <1>t DEF DInv, OrderInv
  <2>3. \A e \in 1 .. ndel : \A x \in Got(e)', y \in ToSet(buf'[source'[e]]) :
          x[1] = y[1] => x[2] < y[2]
    BY <1>3, <1>t DEF DInv, OrderInv
  <2> QED
    BY <1>t, <2>1, <2>2, <2>3 DEF OrderInv
<1>5. FlowInv'
  <2>1. \A c : Of(c)' = Of(c) /\ Of(c) \subseteq Deliveries
    BY <1>t DEF Of
  <2>2. \A c : UNION {Got(e)' : e \in Of(c)'} = UNION {Got(e) : e \in Of(c)}
    BY <1>3, <2>1
  <2> QED
    BY <1>3, <1>t, <2>2 DEF DInv, FlowInv
<1> QED
  BY <1>4, <1>5

\* The goroutine that is started has got nothing.
LEMMA FlowSubscribe ==
    ASSUME IInv, DInv, NEW m \in Managers, SubscribeWithChannel(m)
    PROVE  OrderInv' /\ FlowInv'
<1> DEFINE n == ndel + 1
<1>t. /\ source \in [Deliveries -> Chans \cup {NoChan}] /\ ndel \in Nat
      /\ n \in Deliveries /\ ndel' = n
      /\ UNCHANGED <<buf, accepted, received, hand>>
      /\ \A e \in 1 .. ndel : source'[e] = source[e] /\ e \in Deliveries
      /\ 1 .. n = (1 .. ndel) \cup {n}
  BY BrokerAssumption
    DEF IInv, TypeOK, Deliveries, BrokerAssumption, SubscribeWithChannel
<1>1. Got(n) = {}
  <2>1. received[n] = <<>> /\ hand[n] = <<>>
    BY <1>t DEF DInv, HandInv
  <2> QED
    BY <2>1 DEF Got, ToSet
<1>2. \A e : Got(e)' = Got(e)
  BY <1>t DEF Got
<1> HIDE DEF n
<1>3. OrderInv'
  <2>1. \A e \in 1 .. n : \A x \in Got(e)', y \in ToSet(buf'[source'[e]]) :
          x[1] = y[1] => x[2] < y[2]
    BY <1>1, <1>2, <1>t DEF DInv, OrderInv
  <2> QED
    BY <1>t, <2>1 DEF DInv, OrderInv
<1>4. FlowInv'
  <2>1. ASSUME NEW c \in Chans
        PROVE  UNION {Got(e)' : e \in Of(c)'} = UNION {Got(e) : e \in Of(c)}
    <3>1. Of(c) \subseteq Of(c)' /\ Of(c)' \subseteq Of(c) \cup {n}
      BY <1>t DEF Of
    <3> QED
      BY <1>1, <1>2, <3>1
  <2>2. \A e, f \in 1 .. n :
          e # f /\ source'[e] = source'[f] => Got(e)' \cap Got(f)' = {}
    BY <1>1, <1>2, <1>t DEF DInv, FlowInv
  <2> QED
    BY <1>t, <2>1, <2>2 DEF DInv, FlowInv
<1> QED
  BY <1>3, <1>4

LEMMA FlowStep ==
    ASSUME IInv, DInv, [Next]_vars
    PROVE  OrderInv' /\ FlowInv'
<1> USE DEF chanVars, delVars
<1>1. ASSUME UNCHANGED <<buf, accepted, received, hand, ndel, source>>
      PROVE  OrderInv' /\ FlowInv'
  BY <1>1, FlowFrame DEF DInv
<1>2. ASSUME NEW p \in Publishers, PublishLoop(p) PROVE OrderInv' /\ FlowInv'
  BY <1>1, <1>2, FlowSend
    DEF PublishLoop, PublishEnter, PublishTimeout, PublishReturn
<1>3. ASSUME NEW m \in Managers, Body(m) PROVE OrderInv' /\ FlowInv'
  BY <1>1, <1>3, FlowSubscribe DEF Body, Unsubscribe, CloseConnection
<1>4. ASSUME NEW d \in Deliveries,
             Receive(d) \/ Deliver(d) \/ DeliveryEnd(d) \/ StopReading(d)
      PROVE  OrderInv' /\ FlowInv'
  BY <1>1, <1>4, FlowReceive, FlowDeliver DEF DeliveryEnd, StopReading
<1> QED
  BY <1>1, <1>2, <1>3, <1>4
    DEF Next, vars, CallPublish, PublishWithChannel, ForwardNext, ForwardEnd,
        Call, Announce
-----------------------------------------------------------------------------
LEMMA DInvInit == Init => DInv
<1> SUFFICES ASSUME Init PROVE DInv
  OBVIOUS
<1>1. ToSet(<<>>) = {} /\ InSendOrder(<<>>) /\ InSendOrder(<<>> \o <<>>)
  BY DEF ToSet, InSendOrder
<1>2. ReportInv /\ SentInv /\ HandInv
  BY <1>1, BrokerAssumption
    DEF Init, ReportInv, SentInv, HandInv, Threads, Publishers, Deliveries,
        BrokerAssumption
<1>3. 1 .. ndel = {}
  BY DEF Init
<1>4. OrderInv /\ FlowInv
  BY <1>1, <1>3 DEF Init, OrderInv, FlowInv, Of
<1> QED
  BY <1>2, <1>4 DEF DInv

\* DInv holds in every reachable state.
THEOREM DeliveryInvariance == Spec => []DInv
<1>1. IInv /\ DInv /\ [Next]_vars => DInv'
  BY SentStep, ReportStep, HandStep, FlowStep DEF DInv
<1> QED
  BY DInvInit, Invariance, <1>1, PTL DEF Spec

\* successList and failedList tell the truth at the end of Publish's loop, for
\* every number of queues, publishers and subscribers.
THEOREM ReportTrue == Spec => []PublishReport
<1>1. IInv /\ DInv => PublishReport
  <2> SUFFICES ASSUME IInv, DInv, NEW p \in Publishers, pc[p] = "loop",
                      todo[p] = {}
               PROVE  /\ good[p] \cap failed[p] = {}
                      /\ good[p] \cup failed[p] = Stored(subject[p])
                      /\ \A c \in Stored(subject[p]) :
                           c \in good[p] <=> Contains(accepted[c], Current(p))
    BY DEF PublishReport
  <2>1. Stored(subject[p]) \subseteq Chans
    BY StoredOpen, MadeChans DEF IInv, TypeOK
  <2>2. \A c \in Chans :
          Contains(accepted[c], Current(p)) <=> Current(p) \in ToSet(accepted[c])
    BY DEF Contains, ToSet
  <2> QED
    BY <2>1, <2>2 DEF DInv, ReportInv
<1> QED
  BY Invariance, DeliveryInvariance, <1>1, PTL

\* No message accepted by a queue is lost, delivered twice or delivered out of
\* its publisher's order, whatever is closed and whoever shares the queue.
THEOREM DeliveredOnceInOrder == Spec => []ExactlyOnceInOrder
<1>1. IInv /\ DInv => ExactlyOnceInOrder
  <2> SUFFICES ASSUME IInv, DInv PROVE ExactlyOnceInOrder
    OBVIOUS
  <2>1. /\ buf \in [Chans -> Seq(Msgs)] /\ accepted \in [Chans -> Seq(Msgs)]
        /\ received \in [Deliveries -> Seq(Msgs)]
        /\ hand \in [Deliveries -> Seq(Msgs)]
        /\ 1 .. ndel \subseteq Deliveries
    BY BrokerAssumption DEF IInv, TypeOK, Deliveries, BrokerAssumption
  <2>2. ASSUME NEW c \in 1 .. nchan
        PROVE  /\ IsInjective(accepted[c]) /\ IsInjective(buf[c])
               /\ ToSet(accepted[c]) =
                    ToSet(buf[c]) \cup UNION {Got(d) : d \in Of(c)}
    <3>1. c \in Chans
      BY MadeChans DEF IInv
    <3> QED
      BY <2>1, <3>1, OrderInjective DEF DInv, OrderInv, FlowInv
  <2>3. ASSUME NEW d \in 1 .. ndel
        PROVE  /\ IsInjective(received[d] \o hand[d])
               /\ InSendOrder(received[d])
    <3>1. received[d] \in Seq(Msgs) /\ hand[d] \in Seq(Msgs)
      BY <2>1
    <3>2. received[d] \o hand[d] \in Seq(Msgs)
      BY <3>1
    <3>3. InSendOrder(received[d] \o hand[d])
      BY <2>1 DEF DInv, OrderInv
    <3> QED
      BY <3>1, <3>2, <3>3, OrderInjective, OrderPrefix
  <2>4. ASSUME NEW c \in 1 .. nchan, NEW d \in Of(c)
        PROVE  Got(d) \cap ToSet(buf[c]) = {}
    <3>1. \A y \in ToSet(buf[c]) : y[2] \in Nat
      <4>1. buf[c] \in Seq(Msgs)
        BY <2>1, MadeChans DEF IInv
      <4>2. \A y \in Msgs : y[2] \in Nat
        BY BrokerAssumption DEF Msgs, BrokerAssumption, Publishers
      <4> QED
        BY <4>1, <4>2 DEF ToSet
    <3> QED
      BY <3>1 DEF DInv, OrderInv, Of
  <2>5. ASSUME NEW c \in 1 .. nchan, NEW d \in Of(c), NEW e \in Of(c) \ {d}
        PROVE  Got(d) \cap Got(e) = {}
    BY DEF DInv, FlowInv, Of
  <2>6. \A c : Of(c) \subseteq 1 .. ndel
    BY DEF Of
  <2> QED
    BY <2>2, <2>3, <2>4, <2>5, <2>6 DEF ExactlyOnceInOrder
<1> QED
  BY Invariance, DeliveryInvariance, <1>1, PTL
=============================================================================
