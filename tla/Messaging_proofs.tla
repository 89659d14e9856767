-------------------------- MODULE Messaging_proofs --------------------------
(***************************************************************************)
(* The NATS handler: a call of Subscribe returns with its own message, and *)
(* Unsubscribe misses no subscription, for any number of goroutines and    *)
(* messages.                                                               *)
(*                                                                         *)
(* A subscriber of the broadcaster receives exactly what is broadcast      *)
(* while it is registered, and a client of the event streamer every        *)
(* message as often as it was subscribed, for any number of them, of       *)
(* messages, and for every length of the buffer.                           *)
(***************************************************************************)
EXTENDS Messaging, Sequences, FiniteSetTheorems, TLAPS

InClient == {"made", "limited", "asleep", "returned"}

\* The calls whose Add has not been balanced by an error
Counted == {c \in Waiters : pc[c] \in InClient \cup {"adding"}}

\* The calls whose callback ran
Heard == {c \in Waiters : fired[c] >= 1}

Once == \A c \in Waiters : fired[c] <= 1

\* Where waiters can be, and that only a subscription that was made runs its
\* callback
WaiterInv ==
    /\ \A c \in Waiters :
         /\ pc[c] \in InClient \cup {"off", "adding", "failed"}
         /\ sub[c] # "none" \/ fired[c] >= 1 => pc[c] \in InClient
    /\ \A c \in parked : pc[c] = "asleep"

\* The wait group counts the calls that still wait for a message
CountInv == Once => wg = Cardinality(Counted) - Cardinality(Heard)

\* Only calls that heard are woken
WakeInv ==
    Once => \A c \in Waiters :
              pc[c] = "asleep" /\ c \notin parked => fired[c] >= 1

\* A recorded stream is in the table until somebody tears it down
StreamInv ==
    \A c \in Streams :
        pc[c] = "returned" =>
            \/ c \in items[topic[c]]
            \/ \E u \in Unsubscribers : c \in taken[u]
            \/ sub[c] = "closed"

\* What an Unsubscribe owes is closed or still in its hands
TableInv ==
    \A u \in Unsubscribers :
        /\ pc[u] # "tearing" => taken[u] = {}
        /\ \A c \in owed[u] : pc[c] = "returned"
        /\ \A c \in owed[u] : c \in taken[u] \/ sub[c] = "closed"

IInv ==
    /\ TypeOK
    /\ WaiterInv
    /\ CountInv
    /\ WakeInv
    /\ OwnMessage
    /\ StreamInv
    /\ TableInv
-----------------------------------------------------------------------------
LEMMA InitIInv == Init => IInv
  <1> SUFFICES ASSUME Init PROVE IInv
    OBVIOUS
  <1>1. TypeOK
    <2>1. /\ pc \in [Goroutines -> {"off"}]
          /\ sub \in [Subscriptions -> {"none"}]
          /\ pending \in [Subscriptions -> {0}]
          /\ fired \in [Waiters -> {0}]
          /\ items \in [Subjects -> {{}}]
          /\ taken \in [Unsubscribers -> {{}}]
          /\ owed \in [Unsubscribers -> {{}}]
      BY DEF Init
    <2>2. arrived \in 0 .. MaxMsgs /\ wg \in Int
      BY NatsAssumption DEF Init
    <2> QED
      BY <2>1, <2>2 DEF Init, TypeOK
  <1>2. Counted = {} /\ Heard = {}
    BY NatsAssumption DEF Init, Counted, Heard, InClient, Goroutines,
      Subscriptions
  <1>3. WaiterInv /\ WakeInv /\ OwnMessage /\ StreamInv /\ TableInv
    BY NatsAssumption
    DEF Init, WaiterInv, WakeInv, OwnMessage, StreamInv, TableInv, InClient,
        Goroutines, Subscriptions
  <1>4. CountInv
    BY <1>2, FS_EmptySet DEF Init, CountInv
  <1> QED
    BY <1>1, <1>3, <1>4 DEF IInv

\* Every step keeps the types.
LEMMA TypeStep ==
    ASSUME TypeOK, [Next]_vars
    PROVE  TypeOK'
  <1>1. CASE \E s \in Subjects, S \in SUBSET Subscriptions : Arrive(s, S)
    BY <1>1, NatsAssumption, SMTT(30) DEF Arrive, TypeOK, vars,
      clientVars, waitVars, tableVars, Goroutines, Subscriptions
  <1>2. CASE \E c \in Waiters : WaiterStep(c)
    <2> SUFFICES ASSUME NEW c \in Waiters, WaiterStep(c) PROVE TypeOK'
      BY <1>2
    <2>1. CASE \E s \in Subjects : Subscribe(c, s)
      BY <2>1, NatsAssumption DEF Subscribe, TypeOK, vars, clientVars,
        waitVars, tableVars, Goroutines, Subscriptions
    <2>2. CASE SubscribeFails(c)
      BY <2>2, NatsAssumption DEF SubscribeFails, WgDone, TypeOK, vars,
        clientVars, waitVars, tableVars, Goroutines, Subscriptions
    <2>3. CASE SubscribeMade(c)
      BY <2>3, NatsAssumption DEF SubscribeMade, TypeOK, vars,
        clientVars, waitVars, tableVars, Goroutines, Subscriptions
    <2>4. CASE AutoUnsubscribe(c)
      BY <2>4, NatsAssumption DEF AutoUnsubscribe, TypeOK, vars,
        clientVars, waitVars, tableVars, Goroutines, Subscriptions
    <2>5. CASE Wait(c)
      BY <2>5, NatsAssumption DEF Wait, TypeOK, vars, clientVars,
        waitVars, tableVars, Goroutines, Subscriptions
    <2>6. CASE Wake(c)
      BY <2>6, NatsAssumption DEF Wake, TypeOK, vars, clientVars,
        waitVars, tableVars, Goroutines, Subscriptions
    <2>7. CASE Copy(c)
      BY <2>7, NatsAssumption DEF Copy, TakeMessage, WgDone, TypeOK,
        vars, clientVars, waitVars, tableVars, Goroutines,
        Subscriptions
    <2> QED
      BY <2>1, <2>2, <2>3, <2>4, <2>5, <2>6, <2>7 DEF WaiterStep
  <1>3. CASE \E c \in Streams : StreamStep(c)
    BY <1>3, NatsAssumption, SMTT(30) DEF StreamStep, StreamSubscribe,
      Record, Forward, Received, TakeMessage, TypeOK, vars, clientVars,
      waitVars, tableVars, Goroutines, Subscriptions
  <1>4. CASE \E u \in Unsubscribers : UnsubscriberStep(u)
    BY <1>4, NatsAssumption, SMTT(30) DEF UnsubscriberStep, Unsubscribe,
      TearDown, UnsubscribeReturn, TypeOK, vars, clientVars, waitVars,
      tableVars, Goroutines, Subscriptions
  <1>5. CASE \E f \in Forwarders : ForwarderStep(f)
    BY <1>5, NatsAssumption, SMTT(30) DEF ForwarderStep,
      PublishWithChannel, ForwarderTakes, ForwarderPublishes,
      ForwarderEnds, TypeOK, vars, clientVars, waitVars, tableVars,
      Goroutines, Subscriptions
  <1>6. CASE Cancel \/ CloseConnection \/ UNCHANGED vars
    BY <1>6, NatsAssumption, SMTT(30) DEF Cancel, CloseConnection,
      TypeOK, vars, clientVars, waitVars, tableVars, Goroutines,
      Subscriptions
  <1> QED
    BY <1>1, <1>2, <1>3, <1>4, <1>5, <1>6 DEF Next

\* Only Subscribe, its outcomes and its callback move a waiter.
LEMMA WaiterInvStep ==
    ASSUME TypeOK, WaiterInv, [Next]_vars
    PROVE  WaiterInv'
  <1>1. CASE \E s \in Subjects, S \in SUBSET Subscriptions : Arrive(s, S)
    BY <1>1, NatsAssumption, SMTT(30) DEF Arrive, WaiterInv, InClient,
      TypeOK, vars, clientVars, waitVars, tableVars, Goroutines,
      Subscriptions
  <1>2. CASE \E c \in Waiters : WaiterStep(c)
    BY <1>2, NatsAssumption, SMTT(30) DEF WaiterStep, Subscribe,
      SubscribeFails, SubscribeMade, AutoUnsubscribe, Wait, Wake, Copy,
      TakeMessage, WgDone, WaiterInv, InClient, TypeOK, vars, clientVars,
      waitVars, tableVars, Goroutines, Subscriptions
  <1>3. CASE \E c \in Streams : StreamStep(c)
    BY <1>3, NatsAssumption, SMTT(30) DEF StreamStep, StreamSubscribe,
      Record, Forward, Received, TakeMessage, WaiterInv, InClient,
      TypeOK, vars, clientVars, waitVars, tableVars, Goroutines,
      Subscriptions
  <1>4. CASE \E u \in Unsubscribers : UnsubscriberStep(u)
    BY <1>4, NatsAssumption, SMTT(30) DEF UnsubscriberStep, Unsubscribe,
      TearDown, UnsubscribeReturn, WaiterInv, InClient, TypeOK, vars,
      clientVars, waitVars, tableVars, Goroutines, Subscriptions
  <1>5. CASE \E f \in Forwarders : ForwarderStep(f)
    BY <1>5, NatsAssumption, SMTT(30) DEF ForwarderStep,
      PublishWithChannel, ForwarderTakes, ForwarderPublishes,
      ForwarderEnds, WaiterInv, InClient, TypeOK, vars, clientVars,
      waitVars, tableVars, Goroutines, Subscriptions
  <1>6. CASE Cancel \/ CloseConnection \/ UNCHANGED vars
    BY <1>6, NatsAssumption, SMTT(30) DEF Cancel, CloseConnection,
      WaiterInv, InClient, TypeOK, vars, clientVars, waitVars, tableVars,
      Goroutines, Subscriptions
  <1> QED
    BY <1>1, <1>2, <1>3, <1>4, <1>5, <1>6 DEF Next

\* A stream leaves the table only into the hands of an Unsubscribe.
LEMMA StreamInvStep ==
    ASSUME TypeOK, StreamInv, TableInv, [Next]_vars
    PROVE  StreamInv'
  <1>1. CASE \E s \in Subjects, S \in SUBSET Subscriptions : Arrive(s, S)
    BY <1>1, NatsAssumption, SMTT(30) DEF Arrive, StreamInv, TableInv,
      TypeOK, vars, clientVars, waitVars, tableVars, Goroutines,
      Subscriptions
  <1>2. CASE \E c \in Waiters : WaiterStep(c)
    BY <1>2, NatsAssumption, SMTT(30) DEF WaiterStep, Subscribe,
      SubscribeFails, SubscribeMade, AutoUnsubscribe, Wait, Wake, Copy,
      TakeMessage, WgDone, StreamInv, TableInv, TypeOK, vars, clientVars,
      waitVars, tableVars, Goroutines, Subscriptions
  <1>3. CASE \E c \in Streams : StreamStep(c)
    BY <1>3, NatsAssumption, SMTT(30) DEF StreamStep, StreamSubscribe,
      Record, Forward, Received, TakeMessage, StreamInv, TableInv,
      TypeOK, vars, clientVars, waitVars, tableVars, Goroutines,
      Subscriptions
  <1>4. CASE \E u \in Unsubscribers : UnsubscriberStep(u)
    BY <1>4, NatsAssumption, SMTT(30) DEF UnsubscriberStep, Unsubscribe,
      TearDown, UnsubscribeReturn, StreamInv, TableInv, TypeOK, vars,
      clientVars, waitVars, tableVars, Goroutines, Subscriptions
  <1>5. CASE \E f \in Forwarders : ForwarderStep(f)
    BY <1>5, NatsAssumption, SMTT(30) DEF ForwarderStep,
      PublishWithChannel, ForwarderTakes, ForwarderPublishes,
      ForwarderEnds, StreamInv, TableInv, TypeOK, vars, clientVars,
      waitVars, tableVars, Goroutines, Subscriptions
  <1>6. CASE Cancel \/ CloseConnection \/ UNCHANGED vars
    BY <1>6, NatsAssumption, SMTT(30) DEF Cancel, CloseConnection,
      StreamInv, TableInv, TypeOK, vars, clientVars, waitVars, tableVars,
      Goroutines, Subscriptions
  <1> QED
    BY <1>1, <1>2, <1>3, <1>4, <1>5, <1>6 DEF Next

\* An Unsubscribe takes what is recorded, and drops only what it closed.
LEMMA TableInvStep ==
    ASSUME TypeOK, StreamInv, TableInv, [Next]_vars
    PROVE  TableInv'
  <1>1. CASE \E s \in Subjects, S \in SUBSET Subscriptions : Arrive(s, S)
    BY <1>1, NatsAssumption, SMTT(30) DEF Arrive, StreamInv, TableInv,
      TypeOK, vars, clientVars, waitVars, tableVars, Goroutines,
      Subscriptions
  <1>2. CASE \E c \in Waiters : WaiterStep(c)
    BY <1>2, NatsAssumption, SMTT(30) DEF WaiterStep, Subscribe,
      SubscribeFails, SubscribeMade, AutoUnsubscribe, Wait, Wake, Copy,
      TakeMessage, WgDone, StreamInv, TableInv, TypeOK, vars, clientVars,
      waitVars, tableVars, Goroutines, Subscriptions
  <1>3. CASE \E c \in Streams : StreamStep(c)
    BY <1>3, NatsAssumption, SMTT(30) DEF StreamStep, StreamSubscribe,
      Record, Forward, Received, TakeMessage, StreamInv, TableInv,
      TypeOK, vars, clientVars, waitVars, tableVars, Goroutines,
      Subscriptions
  <1>4. CASE \E u \in Unsubscribers : UnsubscriberStep(u)
    BY <1>4, NatsAssumption, SMTT(30) DEF UnsubscriberStep, Unsubscribe,
      TearDown, UnsubscribeReturn, StreamInv, TableInv, TypeOK, vars,
      clientVars, waitVars, tableVars, Goroutines, Subscriptions
  <1>5. CASE \E f \in Forwarders : ForwarderStep(f)
    BY <1>5, NatsAssumption, SMTT(30) DEF ForwarderStep,
      PublishWithChannel, ForwarderTakes, ForwarderPublishes,
      ForwarderEnds, StreamInv, TableInv, TypeOK, vars, clientVars,
      waitVars, tableVars, Goroutines, Subscriptions
  <1>6. CASE Cancel \/ CloseConnection \/ UNCHANGED vars
    BY <1>6, NatsAssumption, SMTT(30) DEF Cancel, CloseConnection,
      StreamInv, TableInv, TypeOK, vars, clientVars, waitVars, tableVars,
      Goroutines, Subscriptions
  <1> QED
    BY <1>1, <1>2, <1>3, <1>4, <1>5, <1>6 DEF Next

-----------------------------------------------------------------------------
(* The wait group *)

LEMMA FiniteCalls ==
    /\ IsFiniteSet(Counted) /\ Cardinality(Counted) \in Nat
    /\ IsFiniteSet(Heard) /\ Cardinality(Heard) \in Nat
  BY NatsAssumption, FS_Subset, FS_CardinalityType DEF Counted, Heard

LEMMA HeardCounted == WaiterInv => Heard \subseteq Counted
  BY DEF WaiterInv, Heard, Counted

\* At zero every call that is counted has heard.
LEMMA ZeroHeard ==
    ASSUME WaiterInv, CountInv, Once, wg = 0
    PROVE  Counted = Heard
  <1>1. Cardinality(Counted) = Cardinality(Heard)
    BY FiniteCalls DEF CountInv
  <1> QED
    BY <1>1, FiniteCalls, HeardCounted, FS_Subset

\* Callbacks run more often, never less.
LEMMA OnceBefore ==
    ASSUME TypeOK, [Next]_vars, Once'
    PROVE  Once
  <1>1. \A c \in Waiters : fired'[c] \in Nat /\ fired[c] <= fired'[c]
    <2>1. CASE fired' = fired
      BY <2>1 DEF TypeOK
    <2>2. ASSUME NEW c \in Waiters, Copy(c)
          PROVE  fired' = [fired EXCEPT ![c] = @ + 1]
      BY <2>2 DEF Copy
    <2>3. CASE \E c \in Waiters : Copy(c)
      BY <2>2, <2>3 DEF TypeOK
    <2> QED
      BY <2>1, <2>3
      DEF Next, vars, clientVars, Arrive, WaiterStep, Subscribe,
        SubscribeFails,
          SubscribeMade, AutoUnsubscribe, Wait, Wake, StreamStep,
          StreamSubscribe, Record, Forward, Received, UnsubscriberStep,
          Unsubscribe, TearDown, UnsubscribeReturn, ForwarderStep,
          PublishWithChannel, ForwarderTakes, ForwarderPublishes,
          ForwarderEnds, Cancel, CloseConnection
  <1> QED
    BY <1>1 DEF Once, TypeOK

CallInv == WaiterInv /\ CountInv /\ WakeInv /\ OwnMessage

\* A step that leaves the wait group, the callbacks and the places of the
\* waiters alone
LEMMA QuietStep ==
    ASSUME CallInv, WaiterInv', wg' = wg, parked' = parked, fired' = fired,
           \A c \in Waiters : pc'[c] = pc[c]
    PROVE  CallInv'
  <1>1. Counted' = Counted /\ Heard' = Heard /\ Once' = Once
    BY DEF Counted, Heard, Once
  <1> QED
    BY <1>1 DEF CallInv, CountInv, WakeInv, OwnMessage

LEMMA CallInvStep ==
    ASSUME TypeOK, TypeOK', CallInv, WaiterInv', [Next]_vars
    PROVE  CallInv'
  <1>1. Once' => Once
    BY OnceBefore
  <1>2. ASSUME ~Once' PROVE CallInv'
    BY <1>2 DEF CallInv, CountInv, WakeInv, OwnMessage, Once, TypeOK
  <1>3. SUFFICES ASSUME Once', Once PROVE CallInv'
    BY <1>1, <1>2
  <1> USE DEF CallInv
  <1>4. ASSUME NEW c \in Waiters, NEW s \in Subjects, Subscribe(c, s)
        PROVE  CallInv'
    <2>1. Counted' = Counted \cup {c} /\ c \notin Counted /\ Heard' = Heard
      BY <1>4, NatsAssumption
      DEF Subscribe, clientVars, Counted, Heard, InClient, TypeOK, Goroutines,
          Subscriptions
    <2>2. CountInv'
      <3>1. Cardinality(Counted') = Cardinality(Counted) + 1
        BY <2>1, FiniteCalls, FS_AddElement
      <3> QED
        BY <1>3, <1>4, <2>1, <3>1, FiniteCalls DEF CountInv, Subscribe, TypeOK
    <2>3. WakeInv' /\ OwnMessage'
      BY <1>3, <1>4
      DEF Subscribe, clientVars, WakeInv, OwnMessage, TypeOK, Goroutines,
          Subscriptions
    <2> QED
      BY <2>2, <2>3
  <1>5. ASSUME NEW c \in Waiters, SubscribeFails(c)
        PROVE  CallInv'
    <2>1. Counted' = Counted \ {c} /\ c \in Counted /\ Heard' = Heard
      BY <1>5
      DEF SubscribeFails, clientVars, Counted, Heard, InClient, TypeOK,
          Goroutines, Subscriptions
    <2>2. wg \in Int /\ wg' = wg - 1
      BY <1>5 DEF SubscribeFails, WgDone, TypeOK
    <2>3. CountInv'
      <3>1. Cardinality(Counted \ {c}) = Cardinality(Counted) - 1
        BY <2>1, FiniteCalls, FS_RemoveElement
      <3> QED
        BY <1>3, <2>1, <2>2, <3>1, FiniteCalls DEF CountInv
    <2>4. WakeInv'
      <3>1. CASE wg = 1
        <4>1. Cardinality(Counted \ {c}) = Cardinality(Counted) - 1
          BY <2>1, FiniteCalls, FS_RemoveElement
        <4>2. Cardinality(Counted \ {c}) = Cardinality(Heard)
          BY <1>3, <3>1, <4>1, FiniteCalls DEF CountInv
        <4>3. Heard \subseteq Counted \ {c}
          BY <1>5, HeardCounted
          DEF SubscribeFails, WaiterInv, Heard, InClient
        <4>4. Counted' = Heard'
          BY <2>1, <4>2, <4>3, FiniteCalls, FS_RemoveElement, FS_Subset
        <4> QED
          BY <4>4 DEF WakeInv, Counted, Heard, InClient
      <3>2. CASE wg # 1
        BY <1>3, <1>5, <3>2
        DEF SubscribeFails, WgDone, clientVars, WakeInv, TypeOK, Goroutines,
            Subscriptions
      <3> QED
        BY <3>1, <3>2
    <2>5. OwnMessage'
      BY <1>5
      DEF SubscribeFails, clientVars, OwnMessage, TypeOK, Goroutines,
          Subscriptions
    <2> QED
      BY <2>3, <2>4, <2>5
  <1>6. ASSUME NEW c \in Waiters, SubscribeMade(c) \/ AutoUnsubscribe(c)
        PROVE  CallInv'
    <2>1. Counted' = Counted /\ Heard' = Heard
      BY <1>6
      DEF SubscribeMade, AutoUnsubscribe, Counted, Heard, InClient, TypeOK,
          Goroutines, Subscriptions
    <2>2. CountInv'
      BY <1>3, <1>6, <2>1
      DEF SubscribeMade, AutoUnsubscribe, waitVars, CountInv
    <2>3. WakeInv' /\ OwnMessage'
      BY <1>3, <1>6
      DEF SubscribeMade, AutoUnsubscribe, waitVars, WakeInv, OwnMessage,
          TypeOK, Goroutines, Subscriptions
    <2> QED
      BY <2>2, <2>3
  <1>7. ASSUME NEW c \in Waiters, Wait(c)
        PROVE  CallInv'
    <2>1. Counted' = Counted /\ Heard' = Heard
      BY <1>7
      DEF Wait, clientVars, Counted, Heard, InClient, TypeOK, Goroutines,
          Subscriptions
    <2>2. CountInv'
      BY <1>3, <1>7, <2>1 DEF Wait, CountInv
    <2>3. wg = 0 => fired[c] >= 1
      <3>1. c \in Counted
        BY <1>7 DEF Wait, Counted, InClient
      <3> QED
        BY <1>3, <3>1, ZeroHeard DEF Heard
    <2>4. WakeInv' /\ OwnMessage'
      BY <1>3, <1>7, <2>3
      DEF Wait, clientVars, WakeInv, OwnMessage, TypeOK, Goroutines,
          Subscriptions
    <2> QED
      BY <2>2, <2>4
  <1>8. ASSUME NEW c \in Waiters, Wake(c)
        PROVE  CallInv'
    <2>1. Counted' = Counted /\ Heard' = Heard
      BY <1>8
      DEF Wake, clientVars, Counted, Heard, InClient, TypeOK, Goroutines,
          Subscriptions
    <2>2. CountInv'
      BY <1>3, <1>8, <2>1 DEF Wake, waitVars, CountInv
    <2>3. WakeInv' /\ OwnMessage'
      BY <1>3, <1>8
      DEF Wake, clientVars, waitVars, WakeInv, OwnMessage, TypeOK, Goroutines,
          Subscriptions
    <2> QED
      BY <2>2, <2>3
  <1>9. ASSUME NEW c \in Waiters, Copy(c)
        PROVE  CallInv'
    <2>1. Counted' = Counted
      BY <1>9 DEF Copy, Counted
    <2>2. fired' = [fired EXCEPT ![c] = 1] /\ fired[c] = 0
      <3>1. fired' = [fired EXCEPT ![c] = fired[c] + 1] /\ fired[c] \in Nat
        BY <1>9 DEF Copy, TypeOK
      <3>2. fired'[c] <= 1 /\ fired'[c] = fired[c] + 1
        BY <1>3, <3>1 DEF Once, TypeOK
      <3>3. fired[c] = 0
        BY <3>1, <3>2
      <3> QED
        BY <3>1, <3>3
    <2>3. Heard' = Heard \cup {c} /\ c \notin Heard
      BY <2>2 DEF Heard, TypeOK
    <2>4. wg \in Int /\ wg' = wg - 1
      BY <1>9 DEF Copy, WgDone, TypeOK
    <2>5. Cardinality(Heard \cup {c}) = Cardinality(Heard) + 1
      BY <2>3, FiniteCalls, FS_AddElement
    <2>6. CountInv'
      BY <1>3, <2>1, <2>3, <2>4, <2>5, FiniteCalls DEF CountInv
    <2>7. WakeInv'
      <3>1. CASE wg = 1
        <4>1. Heard \cup {c} \subseteq Counted
          BY <1>9, HeardCounted
          DEF Copy, TakeMessage, WaiterInv, Counted, InClient
        <4>2. Cardinality(Heard \cup {c}) = Cardinality(Counted)
          BY <1>3, <2>5, <3>1, FiniteCalls DEF CountInv
        <4>3. Counted' = Heard'
          BY <2>1, <2>3, <4>1, <4>2, FiniteCalls, FS_Subset
        <4> QED
          BY <4>3 DEF WakeInv, Counted, Heard, InClient
      <3>2. CASE wg # 1
        BY <1>3, <1>9, <2>2, <3>2 DEF Copy, WgDone, WakeInv, TypeOK
      <3> QED
        BY <3>1, <3>2
    <2>8. OwnMessage'
      BY <1>3, <1>9, <2>2 DEF Copy, OwnMessage, Once, TypeOK
    <2> QED
      BY <2>6, <2>7, <2>8
  <1>10. CASE \E c \in Waiters : WaiterStep(c)
    BY <1>4, <1>5, <1>6, <1>7, <1>8, <1>9, <1>10 DEF WaiterStep
  <1>11. CASE ~ \E c \in Waiters : WaiterStep(c)
    <2>1. wg' = wg /\ parked' = parked /\ fired' = fired
      BY <1>11
      DEF Next, vars, clientVars, waitVars, Arrive, StreamStep,
          StreamSubscribe, Record, Forward, Received, UnsubscriberStep,
          Unsubscribe, TearDown, UnsubscribeReturn, ForwarderStep,
          PublishWithChannel, ForwarderTakes, ForwarderPublishes,
          ForwarderEnds, Cancel, CloseConnection
    <2>2. \A c \in Waiters : pc'[c] = pc[c]
      BY <1>11, NatsAssumption
      DEF Next, vars, Arrive, StreamStep, StreamSubscribe, Record, Forward,
          Received, UnsubscriberStep, Unsubscribe, TearDown,
          UnsubscribeReturn, ForwarderStep, PublishWithChannel,
          ForwarderTakes, ForwarderPublishes, ForwarderEnds, Cancel,
          CloseConnection, TypeOK, Goroutines, Subscriptions
    <2> QED
      BY <2>1, <2>2, QuietStep
  <1> QED
    BY <1>10, <1>11
-----------------------------------------------------------------------------
LEMMA StepIInv ==
  ASSUME IInv, [Next]_vars
  PROVE  IInv'
  <1>1. TypeOK'
    BY TypeStep DEF IInv
  <1>2. WaiterInv'
    BY WaiterInvStep DEF IInv
  <1>3. CallInv'
    BY <1>1, <1>2, CallInvStep DEF IInv, CallInv
  <1>4. StreamInv' /\ TableInv'
    BY StreamInvStep, TableInvStep DEF IInv
  <1> QED
    BY <1>1, <1>2, <1>3, <1>4 DEF IInv, CallInv

LEMMA Invariance == Spec => []IInv
  BY InitIInv, StepIInv, PTL DEF Spec

\* Every variable keeps its type.
THEOREM TypeCorrect == Spec => []TypeOK
  BY Invariance, PTL DEF IInv

\* OwnMessage: although all calls of Subscribe (broker/nats/nats.go) share one
\* wait group, a call returns only when its own message has been copied,
\* unless the callback of some call ran twice.
THEOREM OwnMessageCorrect == Spec => []OwnMessage
  BY Invariance, PTL DEF IInv

\* UnsubscribeComplete: when Unsubscribe (broker/nats/nats.go) returns, every
\* subscription it owes is torn down.
THEOREM UnsubscribeCorrect == Spec => []UnsubscribeComplete
  <1>1. IInv => UnsubscribeComplete
    BY DEF IInv, TableInv, UnsubscribeComplete
  <1> QED
    BY Invariance, <1>1, PTL
-----------------------------------------------------------------------------
(***************************************************************************)
(* The broadcaster.  run sends to those who may expect it; what it has not *)
(* sent yet is the last message they are due.                              *)
(***************************************************************************)
Members == outputs = {s \in Subscribers : pos[s] \in {"in", "unregister"}}

DueInv ==
    /\ at # "broadcast" => todo = {}
    /\ at = "broadcast" => current \in B!Messages
    /\ \A s \in Subscribers :
         due[s] = IF s \in todo THEN Append(got[s], current) ELSE got[s]

\* If one submitter sent both, m is the earlier one.
Before(m, n) == m[1] = n[1] => m[2] < n[2]

\* Its call of Submit has begun, and if that is the last, returned.
Submitted(m) == m[2] <= said[m[1]] /\ (pos[m[1]] = "submit" => m[2] < said[m[1]])

\* From the calls through the buffer to a subscriber nothing overtakes.
OrderInv ==
    /\ \A p \in Submitters : pos[p] = "submit" => said[p] >= 1
    /\ \A k \in DOMAIN input : Submitted(input[k])
    /\ \A k, l \in DOMAIN input : k < l => Before(input[k], input[l])
    /\ \A s \in Subscribers : \A i \in DOMAIN due[s] :
         /\ Submitted(due[s][i])
         /\ \A k \in DOMAIN input : Before(due[s][i], input[k])
         /\ \A j \in DOMAIN due[s] : i < j => Before(due[s][i], due[s][j])

BInv == B!TypeOK /\ Members /\ DueInv /\ OrderInv
-----------------------------------------------------------------------------
(* The broadcaster *)

\* The cardinality of the instances is that of this module.
LEMMA SameSize ==
    /\ \A S : B!Cardinality(S) = Cardinality(S)
    /\ \A S : E!Cardinality(S) = Cardinality(S)
BY DEF B!Cardinality, E!Cardinality, Cardinality

\* As long as the bound allows a call, it allows the submitter one more.
LEMMA Bound ==
    ASSUME NEW p \in Submitters, said \in [Submitters -> 0 .. MaxBroadcasts],
           Cardinality({m \in B!Messages : m[2] <= said[m[1]]}) < MaxBroadcasts
    PROVE  said[p] + 1 \in 1 .. MaxBroadcasts
<1> DEFINE S == {m \in B!Messages : m[2] <= said[m[1]]}
           I == 1 .. MaxBroadcasts
           f == [i \in I |-> <<p, i>>]
<1>1. MaxBroadcasts \in Nat /\ said[p] \in 0 .. MaxBroadcasts
  BY MessagingAssumption
<1>2. SUFFICES ASSUME said[p] = MaxBroadcasts PROVE FALSE
  BY <1>1
<1>3. IsFiniteSet(I) /\ Cardinality(I) = MaxBroadcasts
  BY <1>1, FS_Interval
<1>4. IsFiniteSet(S)
  <2>1. IsFiniteSet(B!Messages)
    BY <1>3, MessagingAssumption, FS_Product DEF B!Messages
  <2> QED
    BY <2>1, FS_Subset
<1>5. f \in Injection(I, S)
  <2>1. \A i \in I : <<p, i>> \in S
    BY <1>1, <1>2 DEF B!Messages
  <2>2. f \in [I -> S]
    BY <2>1
  <2>3. \A i, j \in I : f[i] = f[j] => i = j
    OBVIOUS
  <2> QED
    BY <2>2, <2>3 DEF Injection, IsInjective
<1>6. Cardinality(I) <= Cardinality(S)
  BY <1>4, <1>5, FS_Injection
<1>7. Cardinality(S) \in Nat
  BY <1>4, FS_CardinalityType
<1> QED
  BY <1>1, <1>3, <1>6, <1>7

LEMMA Types ==
    ASSUME B!TypeOK
    PROVE  /\ bufLen \in Nat /\ input \in Seq(B!Messages) /\ Len(input) <= bufLen
           /\ \A k \in DOMAIN input : input[k] \in B!Messages
           /\ \A s \in Subscribers : /\ due[s] \in Seq(B!Messages)
                                     /\ got[s] \in Seq(B!Messages)
           /\ \A s \in Subscribers : \A i \in DOMAIN due[s] :
                due[s][i] \in B!Messages
           /\ \A m \in B!Messages :
                /\ m = <<m[1], m[2]>> /\ m[1] \in Submitters /\ m[2] \in Nat
                /\ m[2] >= 1
           /\ \A p \in Submitters : said[p] \in 0 .. MaxBroadcasts /\ said[p] \in Nat
<1>1. bufLen \in Nat /\ input \in Seq(B!Messages) /\ Len(input) <= bufLen
  BY MessagingAssumption DEF B!TypeOK
<1>2. \A k \in DOMAIN input : input[k] \in B!Messages
  BY <1>1
<1>3. \A s \in Subscribers : due[s] \in Seq(B!Messages) /\ got[s] \in Seq(B!Messages)
  BY DEF B!TypeOK
<1>4. \A s \in Subscribers : \A i \in DOMAIN due[s] : due[s][i] \in B!Messages
  BY <1>3
<1>5. \A m \in B!Messages :
        /\ m = <<m[1], m[2]>> /\ m[1] \in Submitters /\ m[2] \in Nat /\ m[2] >= 1
  BY MessagingAssumption DEF B!Messages
<1>6. \A p \in Submitters : said[p] \in 0 .. MaxBroadcasts /\ said[p] \in Nat
  BY MessagingAssumption DEF B!TypeOK
<1> QED
  BY <1>1, <1>2, <1>3, <1>4, <1>5, <1>6

\* What is in a sequence and where after one more is appended.
LEMMA Longer ==
    ASSUME NEW S, NEW q \in Seq(S), NEW x \in S
    PROVE  /\ Append(q, x) \in Seq(S) /\ Len(Append(q, x)) = Len(q) + 1
           /\ DOMAIN q = 1 .. Len(q) /\ Len(q) \in Nat
           /\ DOMAIN Append(q, x) = DOMAIN q \cup {Len(q) + 1}
           /\ \A i \in DOMAIN q : i \in Nat /\ i < Len(q) + 1
           /\ \A i \in DOMAIN q : Append(q, x)[i] = q[i]
           /\ Append(q, x)[Len(q) + 1] = x
OBVIOUS

\* A step that takes no message further.
LEMMA OrderFrame ==
    ASSUME OrderInv, UNCHANGED <<said, input, due>>,
           \A p \in Submitters : pos'[p] = "submit" => pos[p] = "submit",
           B!TypeOK
    PROVE  OrderInv'
<1>1. \A k \in DOMAIN input : input[k][1] \in Submitters
  BY Types
<1>2. \A s \in Subscribers : \A i \in DOMAIN due[s] : due[s][i][1] \in Submitters
  BY Types
<1> QED
  BY <1>1, <1>2 DEF OrderInv, Submitted, Before

LEMMA BInit == B!Init => BInv
<1> SUFFICES ASSUME B!Init PROVE BInv
  OBVIOUS
<1>1. /\ \A S : <<>> \in Seq(S) /\ Len(<<>>) = 0 /\ DOMAIN <<>> = {}
  OBVIOUS
<1>2. bufLen \in Nat /\ MaxBroadcasts \in Nat
  BY MessagingAssumption DEF B!Init
<1>3. B!TypeOK
  <2>1. input \in Seq(B!Messages) /\ Len(input) <= bufLen
    BY <1>1, <1>2 DEF B!Init
  <2>2. said \in [Submitters -> 0 .. MaxBroadcasts]
    BY <1>2 DEF B!Init
  <2>3. got \in [Subscribers -> Seq(B!Messages)] /\ due = got
    BY <1>1 DEF B!Init
  <2> QED
    BY <2>1, <2>2, <2>3 DEF B!Init, B!TypeOK
<1>4. Members /\ DueInv
  BY DEF B!Init, Members, DueInv
<1>5. OrderInv
  BY <1>1 DEF B!Init, OrderInv
<1> QED
  BY <1>3, <1>4, <1>5 DEF BInv

LEMMA BBeginSubmit ==
    ASSUME BInv, NEW p \in Submitters, B!BeginSubmit(p)
    PROVE  BInv'
<1>1. /\ pos[p] = "out" /\ said' = [said EXCEPT ![p] = @ + 1]
      /\ pos' = [pos EXCEPT ![p] = "submit"]
      /\ UNCHANGED <<bufLen, input, at, current, todo, outputs, regClosed, stopped,
                     got, due, crashed>>
  BY DEF B!BeginSubmit
<1>b. said[p] + 1 \in 1 .. MaxBroadcasts
  <2>1. said \in [Submitters -> 0 .. MaxBroadcasts]
    BY DEF BInv, B!TypeOK
  <2>2. Cardinality({m \in B!Messages : m[2] <= said[m[1]]}) < MaxBroadcasts
    BY SameSize DEF B!BeginSubmit
  <2> QED
    BY <2>1, <2>2, Bound
<1>2. B!TypeOK'
  <2>1. said' \in [Submitters -> 0 .. MaxBroadcasts]
    BY <1>1, <1>b DEF BInv, B!TypeOK
  <2> QED
    BY <1>1, <2>1 DEF BInv, B!TypeOK
<1>3. Members' /\ DueInv'
  <2>1. \A s \in Subscribers : pos'[s] = pos[s]
    BY <1>1, MessagingAssumption DEF BInv, B!TypeOK
  <2> QED
    BY <1>1, <2>1 DEF BInv, Members, DueInv
<1>4. OrderInv'
  <2>1. /\ \A q \in Submitters : said[q] \in Nat /\ said'[q] \in Nat
        /\ \A q \in Submitters : q # p => said'[q] = said[q] /\ pos'[q] = pos[q]
        /\ said'[p] = said[p] + 1
    BY <1>1, Types DEF BInv, B!TypeOK
  <2>2. \A m \in B!Messages : Submitted(m) => Submitted(m)'
    BY <1>1, <2>1, Types DEF BInv, Submitted
  <2>3. \A q \in Submitters : pos'[q] = "submit" => said'[q] >= 1
    BY <1>1, <2>1 DEF BInv, OrderInv
  <2>4. /\ \A k \in DOMAIN input : input[k] \in B!Messages
        /\ \A s \in Subscribers : \A i \in DOMAIN due[s] : due[s][i] \in B!Messages
    BY Types DEF BInv
  <2>5. /\ \A k \in DOMAIN input : Submitted(input[k])'
        /\ \A s \in Subscribers : \A i \in DOMAIN due[s] : Submitted(due[s][i])'
    BY <1>1, <2>2, <2>4 DEF BInv, OrderInv, Submitted
  <2> QED
    BY <1>1, <2>3, <2>5 DEF BInv, OrderInv, Before, Submitted
<1> QED
  BY <1>2, <1>3, <1>4 DEF BInv

\* The message at the end of the buffer is the submitter's last.
LEMMA BSubmit ==
    ASSUME BInv, NEW p \in Submitters, B!Submit(p)
    PROVE  BInv'
<1> DEFINE x == <<p, said[p]>>
<1>1. /\ pos[p] = "submit" /\ Len(input) < bufLen /\ input' = Append(input, x)
      /\ pos' = [pos EXCEPT ![p] = "out"]
      /\ UNCHANGED <<bufLen, at, current, todo, outputs, regClosed, said, stopped,
                     got, due, crashed>>
  BY DEF B!Submit
<1>2. x \in B!Messages /\ x[1] = p /\ x[2] = said[p] /\ said[p] \in Nat
  BY <1>1, Types DEF BInv, OrderInv, B!Messages
<1> HIDE DEF x
<1>3. /\ input \in Seq(B!Messages) /\ input' \in Seq(B!Messages)
      /\ Len(input') = Len(input) + 1 /\ Len(input) \in Nat
      /\ DOMAIN input' = DOMAIN input \cup {Len(input) + 1}
      /\ \A k \in DOMAIN input :
           k \in Nat /\ k < Len(input) + 1 /\ input'[k] = input[k]
      /\ input'[Len(input) + 1] = x
  <2>1. input \in Seq(B!Messages)
    BY Types DEF BInv
  <2> QED
    BY <1>1, <1>2, <2>1, Longer
<1>4. B!TypeOK'
  <2>1. Len(input') <= bufLen
    BY <1>1, <1>3, Types DEF BInv
  <2> QED
    BY <1>1, <1>3, <2>1 DEF BInv, B!TypeOK
<1>5. Members' /\ DueInv'
  <2>1. \A s \in Subscribers : pos'[s] = pos[s]
    BY <1>1, MessagingAssumption DEF BInv, B!TypeOK
  <2> QED
    BY <1>1, <2>1 DEF BInv, Members, DueInv
<1>6. OrderInv'
  <2>1. \A q \in Submitters : (q # p => pos'[q] = pos[q]) /\ pos'[p] = "out"
    BY <1>1 DEF BInv, B!TypeOK
  <2>2. \A m \in B!Messages :
          Submitted(m) => Submitted(m)' /\ Before(m, x)
    BY <1>1, <1>2, <2>1, Types DEF BInv, Submitted, Before
  <2>3. Submitted(x)'
    BY <1>1, <1>2, <2>1 DEF Submitted, x
  <2>4. /\ \A k \in DOMAIN input : input[k] \in B!Messages /\ Submitted(input[k])
        /\ \A s \in Subscribers : \A i \in DOMAIN due[s] :
             due[s][i] \in B!Messages /\ Submitted(due[s][i])
    BY Types DEF BInv, OrderInv
  <2> QED
    BY <1>1, <1>2, <1>3, <2>1, <2>2, <2>3, <2>4
      DEF BInv, OrderInv, Submitted, Before
<1> QED
  BY <1>4, <1>5, <1>6 DEF BInv

\* Steps of the callers that hand nothing over.
LEMMA BQuiet ==
    ASSUME BInv, NEW s \in Subscribers,
           \/ B!BeginRegister(s) \/ B!RegisterClosed(s) \/ B!BeginUnregister(s)
           \/ B!StopReading(s)
    PROVE  BInv'
<1>1. /\ UNCHANGED <<bufLen, input, at, current, todo, outputs, said, got, due>>
      /\ \/ pos' = pos
         \/ pos[s] = "out" /\ pos' = [pos EXCEPT ![s] = "register"]
         \/ pos[s] = "in" /\ pos' = [pos EXCEPT ![s] = "unregister"]
      /\ stopped' \in SUBSET Subscribers /\ regClosed' \in BOOLEAN
      /\ crashed' \in BOOLEAN
  BY DEF B!BeginRegister, B!RegisterClosed, B!BeginUnregister, B!StopReading, BInv,
         B!TypeOK
<1>2. pos \in [Subscribers \cup Submitters ->
                 {"out", "submit", "register", "in", "unregister"}]
  BY DEF BInv, B!TypeOK
<1>3. /\ pos' \in [Subscribers \cup Submitters ->
                     {"out", "submit", "register", "in", "unregister"}]
      /\ \A t \in Subscribers \cup Submitters :
           pos'[t] = pos[t] \/ (t = s /\ pos[t] = "out" /\ pos'[t] = "register")
             \/ (t = s /\ pos[t] = "in" /\ pos'[t] = "unregister")
  BY <1>1, <1>2
<1>4. B!TypeOK'
  BY <1>1, <1>3 DEF BInv, B!TypeOK
<1>5. Members'
  <2>1. \A t \in Subscribers :
          pos'[t] \in {"in", "unregister"} <=> pos[t] \in {"in", "unregister"}
    BY <1>3
  <2> QED
    BY <1>1, <2>1 DEF BInv, Members
<1>6. DueInv'
  BY <1>1 DEF BInv, DueInv
<1>7. OrderInv'
  BY <1>1, <1>3, OrderFrame DEF BInv
<1> QED
  BY <1>4, <1>5, <1>6, <1>7 DEF BInv

\* run sends the message to one more, or has sent it to all.
LEMMA BSend ==
    ASSUME BInv, (\E s \in Subscribers : B!Send(s)) \/ B!BroadcastEnd \/ B!RunEnds
    PROVE  BInv'
<1>1. CASE \E s \in Subscribers : B!Send(s)
  <2> PICK s \in Subscribers : B!Send(s)
    BY <1>1
  <2>1. /\ at = "broadcast" /\ s \in todo
        /\ got' = [got EXCEPT ![s] = Append(@, current)] /\ todo' = todo \ {s}
        /\ UNCHANGED <<bufLen, input, at, current, outputs, regClosed, pos, said,
                       stopped, due, crashed>>
    BY DEF B!Send
  <2>2. /\ got \in [Subscribers -> Seq(B!Messages)] /\ current \in B!Messages
        /\ Append(got[s], current) \in Seq(B!Messages)
    BY <2>1 DEF BInv, DueInv, B!TypeOK
  <2>3. B!TypeOK'
    BY <2>1, <2>2 DEF BInv, B!TypeOK
  <2>4. Members'
    BY <2>1 DEF BInv, Members
  <2>5. DueInv'
    BY <2>1, <2>2 DEF BInv, DueInv
  <2>6. OrderInv'
    BY <2>1, OrderFrame DEF BInv
  <2> QED
    BY <2>3, <2>4, <2>5, <2>6 DEF BInv
<1>2. CASE B!BroadcastEnd \/ B!RunEnds
  <2>1. /\ todo = {} /\ at' \in {"select", "ended"} /\ current' \in {current, <<>>}
        /\ UNCHANGED <<bufLen, input, todo, outputs, regClosed, pos, said, stopped,
                       got, due, crashed>>
    BY <1>2 DEF B!BroadcastEnd, B!RunEnds, BInv, DueInv
  <2>2. B!TypeOK'
    BY <2>1 DEF BInv, B!TypeOK
  <2>3. Members' /\ DueInv'
    BY <2>1 DEF BInv, Members, DueInv
  <2>4. OrderInv'
    BY <2>1, OrderFrame DEF BInv
  <2> QED
    BY <2>2, <2>3, <2>4 DEF BInv
<1> QED
  BY <1>1, <1>2

\* Between two broadcasts nobody has a message to come.
LEMMA BRegister ==
    ASSUME BInv, NEW s \in Subscribers, B!Register(s) \/ B!Unregister(s)
    PROVE  BInv'
<1>1. /\ at = "select" /\ todo = {}
      /\ \/ outputs' = outputs \cup {s} /\ pos' = [pos EXCEPT ![s] = "in"]
         \/ outputs' = outputs \ {s} /\ pos' = [pos EXCEPT ![s] = "out"]
      /\ UNCHANGED <<bufLen, input, at, current, todo, regClosed, said, stopped, got,
                     due, crashed>>
  BY DEF B!Register, B!Unregister, BInv, DueInv
<1>2. /\ pos' \in [Subscribers \cup Submitters ->
                     {"out", "submit", "register", "in", "unregister"}]
      /\ \A t \in Subscribers \cup Submitters : t # s => pos'[t] = pos[t]
      /\ \/ outputs' = outputs \cup {s} /\ pos'[s] = "in"
         \/ outputs' = outputs \ {s} /\ pos'[s] = "out"
  BY <1>1 DEF BInv, B!TypeOK
<1>3. B!TypeOK'
  BY <1>1, <1>2 DEF BInv, B!TypeOK
<1>4. Members'
  BY <1>2 DEF BInv, Members
<1>5. DueInv'
  BY <1>1 DEF BInv, DueInv
<1>6. OrderInv'
  <2>1. \A p \in Submitters : pos'[p] = "submit" => pos[p] = "submit"
    BY <1>2
  <2> QED
    BY <1>1, <2>1, OrderFrame DEF BInv
<1> QED
  BY <1>3, <1>4, <1>5, <1>6 DEF BInv

\* The broadcast of the message that comes next.
LEMMA BBroadcast ==
    ASSUME BInv, NEW m \in B!Messages, B!Broadcast(m),
           input' \in Seq(B!Messages), Len(input') <= bufLen,
           pos' \in [Subscribers \cup Submitters ->
                       {"out", "submit", "register", "in", "unregister"}],
           \A t \in Subscribers : pos'[t] = pos[t],
           \A p \in Submitters : pos'[p] = "submit" => pos[p] = "submit",
           Submitted(m)',
           \A s \in Subscribers : \A i \in DOMAIN due[s] : Before(due[s][i], m),
           \A k \in DOMAIN input' :
             /\ Submitted(input[k])' /\ Before(m, input'[k])
             /\ \A l \in DOMAIN input' : k < l => Before(input'[k], input'[l])
             /\ \A s \in Subscribers : \A i \in DOMAIN due[s] :
                  Before(due[s][i], input'[k])
    PROVE  BInv'
<1>1. /\ at = "select" /\ at' = "broadcast" /\ current' = m /\ todo' = outputs
      /\ due' = [s \in Subscribers |->
                   IF pos[s] \in {"in", "unregister"} THEN Append(due[s], m)
                                                      ELSE due[s]]
      /\ UNCHANGED <<bufLen, outputs, regClosed, said, stopped, got, crashed>>
  BY DEF B!Broadcast
<1>2. \A s \in Subscribers : s \in outputs <=> pos[s] \in {"in", "unregister"}
  BY DEF BInv, Members
<1>3. \A s \in Subscribers :
        /\ due[s] \in Seq(B!Messages) /\ due[s] = got[s]
        /\ due'[s] = IF s \in outputs THEN Append(due[s], m) ELSE due[s]
  BY <1>1, <1>2, Types DEF BInv, DueInv
<1>4. B!TypeOK'
  <2>1. due' \in [Subscribers -> Seq(B!Messages)]
    <3>1. ASSUME NEW s \in Subscribers PROVE due'[s] \in Seq(B!Messages)
      <4>1. due[s] \in Seq(B!Messages) /\ Append(due[s], m) \in Seq(B!Messages)
        BY <1>3
      <4> QED
        BY <1>3, <4>1
    <3> QED
      BY <1>1, <3>1
  <2> QED
    BY <1>1, <2>1 DEF BInv, B!TypeOK
<1>5. Members'
  BY <1>1 DEF BInv, Members
<1>6. DueInv'
  <2>1. \A s \in Subscribers : s \in todo' <=> s \in outputs
    BY <1>1
  <2> QED
    BY <1>1, <1>3, <2>1 DEF DueInv
<1>7. OrderInv'
  <2>1. ASSUME NEW s \in Subscribers, NEW i \in DOMAIN due'[s]
        PROVE  /\ \/ i \in DOMAIN due[s] /\ due'[s][i] = due[s][i] /\ i \in Nat
                  \/ due'[s][i] = m /\ i = Len(due[s]) + 1
               /\ \A j \in DOMAIN due[s] : j < Len(due[s]) + 1 /\ j \in Nat
               /\ Len(due[s]) \in Nat
    <3>1. /\ \A j \in DOMAIN due[s] : j < Len(due[s]) + 1 /\ j \in Nat
          /\ Len(due[s]) \in Nat
      <4>1. due[s] \in Seq(B!Messages)
        BY <1>3
      <4> QED
        BY <4>1
    <3>2. CASE s \in outputs
      <4>1. due'[s] = Append(due[s], m) /\ due[s] \in Seq(B!Messages)
        BY <1>3, <3>2
      <4>2. i \in DOMAIN due[s] \cup {Len(due[s]) + 1}
        BY <2>1, <4>1, Longer
      <4>3. CASE i \in DOMAIN due[s]
        BY <3>1, <4>1, <4>3, Longer
      <4>4. CASE i = Len(due[s]) + 1
        BY <3>1, <4>1, <4>4, Longer
      <4> QED
        BY <4>2, <4>3, <4>4
    <3>3. CASE s \notin outputs
      <4>1. due'[s] = due[s]
        BY <1>3, <3>3
      <4> QED
        BY <2>1, <3>1, <4>1
    <3> QED
      BY <3>1, <3>2, <3>3
  <2>2. \A n \in B!Messages : Submitted(n) => Submitted(n)'
    BY <1>1, Types DEF BInv, Submitted
  <2>3. \A s \in Subscribers : \A i \in DOMAIN due'[s] : Submitted(due[s][i])'
    <3>1. \A s \in Subscribers : \A i \in DOMAIN due[s] :
            Submitted(due[s][i]) /\ due[s][i] \in B!Messages
      BY Types DEF BInv, OrderInv
    <3>2. \A s \in Subscribers : \A i \in DOMAIN due[s], n \in B!Messages :
            n = due[s][i] => Submitted(n)'
      BY <2>2, <3>1
    <3>3. \A s \in Subscribers : \A i \in DOMAIN due'[s], n \in B!Messages :
            n = due'[s][i] => Submitted(n)'
      BY <2>1, <3>1, <3>2
    <3>4. \A s \in Subscribers : \A i \in DOMAIN due'[s] : due'[s][i] \in B!Messages
      BY <2>1, <3>1
    <3> QED
      BY <3>3, <3>4 DEF Submitted
  <2>4. \A s \in Subscribers : \A i, j \in DOMAIN due'[s] :
          i < j => Before(due'[s][i], due'[s][j])
    <3>1. \A s \in Subscribers : \A i, j \in DOMAIN due[s] :
            i < j => Before(due[s][i], due[s][j])
      BY DEF BInv, OrderInv
    <3> QED
      BY <2>1, <3>1
  <2>5. \A s \in Subscribers : \A i \in DOMAIN due'[s], k \in DOMAIN input' :
          Before(due'[s][i], input'[k])
    BY <2>1
  <2>6. \A p \in Submitters : pos'[p] = "submit" => said'[p] >= 1
    BY <1>1 DEF BInv, OrderInv
  <2>7. \A k, l \in DOMAIN input' : k < l => Before(input'[k], input'[l])
    OBVIOUS
  <2>8. \A k \in DOMAIN input' : Submitted(input[k])'
    OBVIOUS
  <2> QED
    BY <2>3, <2>4, <2>5, <2>6, <2>7, <2>8 DEF OrderInv, Before, Submitted
<1> QED
  BY <1>4, <1>5, <1>6, <1>7 DEF BInv

LEMMA BTakeInput ==
    ASSUME BInv, B!TakeInput
    PROVE  BInv'
<1>1. /\ input # <<>> /\ input' = Tail(input) /\ B!Broadcast(Head(input))
      /\ pos' = pos /\ bufLen' = bufLen /\ said' = said
  BY DEF B!TakeInput, B!Broadcast
<1>2. /\ input \in Seq(B!Messages) /\ Len(input) <= bufLen /\ bufLen \in Nat
  BY Types DEF BInv
<1>3. /\ Head(input) = input[1] /\ 1 \in DOMAIN input /\ Head(input) \in B!Messages
      /\ input' \in Seq(B!Messages) /\ Len(input') <= bufLen
      /\ \A k \in DOMAIN input' : /\ k + 1 \in DOMAIN input /\ 1 < k + 1
                                  /\ input'[k] = input[k + 1] /\ k \in Nat
  <2>1. /\ Head(input) = input[1] /\ 1 \in 1 .. Len(input) /\ Len(input) \in Nat
        /\ DOMAIN input = 1 .. Len(input) /\ Head(input) \in B!Messages
    BY <1>1, <1>2
  <2>2. /\ Tail(input) \in Seq(B!Messages) /\ Len(Tail(input)) = Len(input) - 1
        /\ DOMAIN Tail(input) = 1 .. Len(input) - 1
        /\ \A k \in 1 .. Len(input) - 1 : Tail(input)[k] = input[k + 1]
    BY <1>1, <1>2
  <2>3. \A k \in 1 .. Len(input) - 1 : k \in Nat /\ k + 1 \in DOMAIN input /\ 1 < k + 1
    BY <2>1
  <2>4. Len(input') <= bufLen
    BY <1>1, <1>2, <2>1, <2>2
  <2> QED
    BY <1>1, <2>1, <2>2, <2>3, <2>4
<1>4. \A n : Submitted(n) => Submitted(n)'
  BY <1>1 DEF Submitted
<1>5. /\ \A k \in DOMAIN input : Submitted(input[k])
      /\ \A k, l \in DOMAIN input : k < l => Before(input[k], input[l])
      /\ \A s \in Subscribers : \A i \in DOMAIN due[s], k \in DOMAIN input :
           Before(due[s][i], input[k])
  BY DEF BInv, OrderInv
<1>6. \A n : n = Head(input) => Submitted(n)'
  BY <1>3, <1>4, <1>5
<1>7. \A k \in DOMAIN input' : Submitted(input[k])'
  <2>1. \A k \in DOMAIN input' : \A n : n = input'[k] => Submitted(n)'
    BY <1>3, <1>4, <1>5
  <2> QED
    BY <2>1 DEF Submitted
<1>8. \A k \in DOMAIN input' :
        /\ Before(input[1], input'[k])
        /\ \A l \in DOMAIN input' : k < l => Before(input'[k], input'[l])
        /\ \A s \in Subscribers : \A i \in DOMAIN due[s] : Before(due[s][i], input'[k])
  <2>1. \A k, l \in DOMAIN input' : k < l => k + 1 < l + 1
    BY <1>3
  <2> QED
    BY <1>3, <1>5, <2>1
<1>9. ASSUME NEW m \in B!Messages, m = Head(input)
      PROVE  BInv'
  <2>1. B!Broadcast(m) /\ m = input[1]
    BY <1>1, <1>3, <1>9
  <2>2. Submitted(m)'
    BY <1>6, <1>9
  <2>3. \A s \in Subscribers : \A i \in DOMAIN due[s] : Before(due[s][i], m)
    BY <1>3, <1>5, <2>1
  <2>4. \A k \in DOMAIN input' : Before(m, input'[k])
    BY <1>8, <2>1
  <2>5. pos' \in [Subscribers \cup Submitters ->
                    {"out", "submit", "register", "in", "unregister"}]
    BY <1>1 DEF BInv, B!TypeOK
  <2> QED
    BY <1>1, <1>3, <1>7, <1>8, <2>1, <2>2, <2>3, <2>4, <2>5, BBroadcast
<1> QED
  BY <1>3, <1>9

LEMMA BMeet ==
    ASSUME BInv, NEW p \in Submitters, B!Meet(p)
    PROVE  BInv'
<1>1. /\ bufLen = 0 /\ pos[p] = "submit" /\ pos' = [pos EXCEPT ![p] = "out"]
      /\ B!Broadcast(<<p, said[p]>>) /\ input' = input /\ said' = said
  BY DEF B!Meet, B!Broadcast
<1>2. input = <<>> /\ input' \in Seq(B!Messages) /\ Len(input') <= bufLen
      /\ DOMAIN input' = {}
  <2>1. input \in Seq(B!Messages) /\ Len(input) <= 0
    BY <1>1, Types DEF BInv
  <2>2. input = <<>>
    BY <2>1
  <2> QED
    BY <1>1, <2>1, <2>2
<1>3. /\ pos' \in [Subscribers \cup Submitters ->
                     {"out", "submit", "register", "in", "unregister"}]
      /\ \A t \in Subscribers : pos'[t] = pos[t]
      /\ \A q \in Submitters : pos'[q] = "submit" => pos[q] = "submit"
      /\ pos'[p] = "out"
  BY <1>1, MessagingAssumption DEF BInv, B!TypeOK
<1>4. ASSUME NEW m, m = <<p, said[p]>>
      PROVE  BInv'
  <2>1. m \in B!Messages /\ m[1] = p /\ m[2] = said[p] /\ said[p] \in Nat
    BY <1>1, <1>4, Types DEF BInv, OrderInv, B!Messages
  <2>2. Submitted(m)'
    BY <1>1, <1>3, <2>1 DEF Submitted
  <2>3. \A s \in Subscribers : \A i \in DOMAIN due[s] : Before(due[s][i], m)
    <3>1. \A s \in Subscribers : \A i \in DOMAIN due[s] :
            Submitted(due[s][i]) /\ due[s][i] \in B!Messages
      BY Types DEF BInv, OrderInv
    <3> QED
      BY <1>1, <2>1, <3>1, Types DEF Submitted, Before
  <2> QED
    BY <1>1, <1>2, <1>3, <1>4, <2>1, <2>2, <2>3, BBroadcast
<1> QED
  BY <1>4

LEMMA BStep ==
    ASSUME BInv, B!Next
    PROVE  BInv'
<1>1. CASE B!Close
  <2>1. B!TypeOK'
    BY <1>1 DEF B!Close, BInv, B!TypeOK
  <2>2. Members' /\ DueInv'
    BY <1>1 DEF B!Close, BInv, Members, DueInv
  <2>3. OrderInv'
    BY <1>1, OrderFrame DEF B!Close, BInv
  <2> QED
    BY <2>1, <2>2, <2>3 DEF BInv
<1> QED
  BY <1>1, BBeginSubmit, BSubmit, BQuiet, BSend, BRegister, BTakeInput, BMeet
  DEF B!Next, B!CallerStep, B!RunStep

LEMMA BExact == BInv => B!ExactDelivery
<1> SUFFICES ASSUME BInv, NEW s \in Subscribers
             PROVE  /\ got[s] = IF at = "broadcast" /\ s \in todo
                                THEN B!Front(due[s]) ELSE due[s]
                    /\ \A i, j \in DOMAIN due[s] :
                         i < j /\ due[s][i][1] = due[s][j][1] =>
                           due[s][i][2] < due[s][j][2]
  BY DEF B!ExactDelivery
<1>1. CASE s \in todo
  <2>1. /\ at = "broadcast" /\ due[s] = Append(got[s], current)
        /\ current \in B!Messages /\ got[s] \in Seq(B!Messages)
    BY <1>1, Types DEF BInv, DueInv
  <2>2. B!Front(due[s]) = SubSeq(due[s], 1, Len(due[s]) - 1)
    BY DEF B!Front
  <2>3. SubSeq(due[s], 1, Len(due[s]) - 1) = got[s]
    BY <2>1
  <2> QED
    BY <1>1, <2>1, <2>2, <2>3 DEF BInv, OrderInv, Before
<1>2. CASE s \notin todo
  BY <1>2 DEF BInv, DueInv, OrderInv, Before
<1> QED
  BY <1>1, <1>2
-----------------------------------------------------------------------------
(***************************************************************************)
(* The event streamer.  A client has as many places of the list as it was  *)
(* subscribed since it last unsubscribed.                                  *)
(***************************************************************************)
Of(c) == {p \in clientChannels : p[2] = c}
InFlight(c, m) == {s \in sending : s[1][2] = c /\ s[2] = m}
Arrived(c, m) == {i \in DOMAIN inbox[c] : inbox[c][i] = m}

EInv ==
    /\ E!StreamerTypeOK
    /\ IsFiniteSet(clientChannels) /\ IsFiniteSet(sending)
    /\ \A c \in Subscribers : Cardinality(Of(c)) = subscribed[c]
    /\ \A c \in Subscribers, m \in 1 .. events :
         Cardinality(InFlight(c, m)) + Cardinality(Arrived(c, m)) = promised[m][c]

LEMMA EInit == E!StreamerInit => EInv
<1> SUFFICES ASSUME E!StreamerInit PROVE EInv
  OBVIOUS
<1>1. /\ \A S : <<>> \in Seq(S) /\ 1 .. 0 = {} /\ DOMAIN <<>> = {}
      /\ \A S : <<>> \in [{} -> S]
  OBVIOUS
<1>2. E!StreamerTypeOK
  <2>1. events \in 0 .. MaxEvents /\ changes \in 0 .. MaxChanges
    BY MessagingAssumption DEF E!StreamerInit
  <2>2. promised \in [1 .. events -> [Subscribers -> Nat]]
    BY <1>1 DEF E!StreamerInit
  <2>3. inbox \in [Subscribers -> Seq(1 .. events)]
    BY <1>1 DEF E!StreamerInit
  <2> QED
    BY <2>1, <2>2, <2>3 DEF E!StreamerInit, E!StreamerTypeOK
<1>3. \A c \in Subscribers : Of(c) = {}
  BY DEF E!StreamerInit, Of
<1> QED
  BY <1>1, <1>2, <1>3, FS_EmptySet DEF E!StreamerInit, EInv

LEMMA ETypes ==
    ASSUME EInv
    PROVE  /\ events \in Nat /\ changes \in Nat
           /\ \A p \in clientChannels :
                p = <<p[1], p[2]>> /\ p[1] \in 1 .. changes /\ p[2] \in Subscribers
           /\ \A s \in sending :
                /\ s = <<s[1], s[2]>> /\ s[2] \in 1 .. events
                /\ s[1] \in E!Places /\ s[1][2] \in Subscribers
           /\ \A c \in Subscribers : inbox[c] \in Seq(1 .. events)
           /\ promised \in Seq([Subscribers -> Nat]) /\ Len(promised) = events
           /\ \A c, m : /\ IsFiniteSet(Of(c)) /\ Cardinality(Of(c)) \in Nat
                        /\ IsFiniteSet(InFlight(c, m))
                        /\ Cardinality(InFlight(c, m)) \in Nat
           /\ \A c \in Subscribers, m \in 1 .. events :
                IsFiniteSet(Arrived(c, m)) /\ Cardinality(Arrived(c, m)) \in Nat
<1>1. events \in Nat /\ changes \in Nat
  BY MessagingAssumption DEF EInv, E!StreamerTypeOK
<1>2. \A p \in clientChannels :
        p = <<p[1], p[2]>> /\ p[1] \in 1 .. changes /\ p[2] \in Subscribers
  BY DEF EInv, E!StreamerTypeOK, E!Places
<1>3. \A s \in sending : /\ s = <<s[1], s[2]>> /\ s[2] \in 1 .. events
                         /\ s[1] \in E!Places /\ s[1][2] \in Subscribers
  BY DEF EInv, E!StreamerTypeOK, E!Places
<1>4. \A c \in Subscribers : inbox[c] \in Seq(1 .. events)
  BY DEF EInv, E!StreamerTypeOK
<1>5. promised \in Seq([Subscribers -> Nat]) /\ Len(promised) = events
  BY <1>1 DEF EInv, E!StreamerTypeOK
<1>6. \A c, m : /\ IsFiniteSet(Of(c)) /\ Cardinality(Of(c)) \in Nat
                /\ IsFiniteSet(InFlight(c, m)) /\ Cardinality(InFlight(c, m)) \in Nat
  <2> SUFFICES ASSUME NEW c, NEW m
               PROVE  IsFiniteSet(Of(c)) /\ IsFiniteSet(InFlight(c, m))
    BY FS_CardinalityType
  <2>1. /\ Of(c) \in SUBSET clientChannels /\ InFlight(c, m) \in SUBSET sending
        /\ IsFiniteSet(clientChannels) /\ IsFiniteSet(sending)
    BY DEF EInv, Of, InFlight
  <2> QED
    BY <2>1, FS_Subset
<1>7. ASSUME NEW c \in Subscribers, NEW m \in 1 .. events
      PROVE  IsFiniteSet(Arrived(c, m)) /\ Cardinality(Arrived(c, m)) \in Nat
  <2>1. DOMAIN inbox[c] = 1 .. Len(inbox[c]) /\ Len(inbox[c]) \in Nat
    BY <1>4
  <2>2. IsFiniteSet(DOMAIN inbox[c]) /\ Arrived(c, m) \in SUBSET DOMAIN inbox[c]
    BY <2>1, FS_Interval DEF Arrived
  <2>3. IsFiniteSet(Arrived(c, m))
    BY <2>2, FS_Subset
  <2> QED
    BY <2>3, FS_CardinalityType
<1> QED
  BY <1>1, <1>2, <1>3, <1>4, <1>5, <1>6, <1>7

LEMMA ESubscribe ==
    ASSUME EInv, NEW c \in Subscribers, E!Subscribe(c)
    PROVE  EInv'
<1> DEFINE p == <<changes + 1, c>>
<1>1. /\ changes < MaxChanges /\ changes' = changes + 1
      /\ clientChannels' = clientChannels \cup {p}
      /\ subscribed' = [subscribed EXCEPT ![c] = @ + 1]
      /\ UNCHANGED <<sending, inbox, left, events, promised>>
  BY DEF E!Subscribe, E!Changes
<1>2. p \notin clientChannels /\ p[2] = c
  BY ETypes
<1>3. E!StreamerTypeOK'
  <2>1. changes' \in 0 .. MaxChanges /\ 1 .. changes \subseteq 1 .. changes'
        /\ changes + 1 \in 1 .. changes'
    <3>1. changes \in Nat /\ MaxChanges \in Nat
      BY ETypes, MessagingAssumption
    <3> QED
      BY <1>1, <3>1
  <2>2. E!Places \subseteq E!Places' /\ p \in E!Places'
    BY <2>1 DEF E!Places
  <2>3. subscribed' \in [Subscribers -> Nat]
    BY <1>1 DEF EInv, E!StreamerTypeOK
  <2>4. clientChannels' \in SUBSET E!Places'
    BY <1>1, <2>2 DEF EInv, E!StreamerTypeOK
  <2>5. sending' \in SUBSET (E!Places' \X (1 .. events'))
    BY <1>1, <2>2 DEF EInv, E!StreamerTypeOK
  <2> QED
    BY <1>1, <2>1, <2>3, <2>4, <2>5 DEF EInv, E!StreamerTypeOK
<1>4. IsFiniteSet(clientChannels') /\ IsFiniteSet(sending')
  BY <1>1, FS_AddElement DEF EInv
<1>5. ASSUME NEW d \in Subscribers
      PROVE  Cardinality(Of(d)') = subscribed'[d]
  <2>1. subscribed \in [Subscribers -> Nat] /\ Cardinality(Of(d)) = subscribed[d]
    BY DEF EInv, E!StreamerTypeOK
  <2>2. CASE d = c
    <3>1. Of(d)' = Of(d) \cup {p} /\ p \notin Of(d)
      BY <1>1, <1>2, <2>2 DEF Of
    <3>2. Cardinality(Of(d) \cup {p}) = Cardinality(Of(d)) + 1
      BY <3>1, ETypes, FS_AddElement
    <3>3. subscribed'[d] = subscribed[d] + 1
      BY <1>1, <2>1, <2>2
    <3> QED
      BY <2>1, <3>1, <3>2, <3>3
  <2>3. CASE d # c
    <3>1. Of(d)' = Of(d)
      BY <1>1, <1>2, <2>3 DEF Of
    <3> QED
      BY <1>1, <2>1, <2>3, <3>1
  <2> QED
    BY <2>2, <2>3
<1>6. \A d \in Subscribers, m \in 1 .. events' :
        Cardinality(InFlight(d, m)') + Cardinality(Arrived(d, m)') = promised'[m][d]
  BY <1>1 DEF EInv, InFlight, Arrived
<1> QED
  BY <1>3, <1>4, <1>5, <1>6 DEF EInv

LEMMA EUnsubscribe ==
    ASSUME EInv, NEW c \in Subscribers, E!Unsubscribe(c)
    PROVE  EInv'
<1>1. /\ changes < MaxChanges /\ changes' = changes + 1
      /\ clientChannels' = {p \in clientChannels : p[2] # c}
      /\ subscribed' = [subscribed EXCEPT ![c] = 0]
      /\ UNCHANGED <<sending, inbox, left, events, promised>>
  BY DEF E!Unsubscribe, E!Changes
<1>2. E!StreamerTypeOK'
  <2>1. changes' \in 0 .. MaxChanges /\ 1 .. changes \subseteq 1 .. changes'
    <3>1. changes \in Nat /\ MaxChanges \in Nat
      BY ETypes, MessagingAssumption
    <3> QED
      BY <1>1, <3>1
  <2>2. E!Places \subseteq E!Places'
    BY <2>1 DEF E!Places
  <2>3. subscribed' \in [Subscribers -> Nat]
    BY <1>1 DEF EInv, E!StreamerTypeOK
  <2>4. clientChannels' \in SUBSET E!Places'
    BY <1>1, <2>2 DEF EInv, E!StreamerTypeOK
  <2>5. sending' \in SUBSET (E!Places' \X (1 .. events'))
    BY <1>1, <2>2 DEF EInv, E!StreamerTypeOK
  <2> QED
    BY <1>1, <2>1, <2>3, <2>4, <2>5 DEF EInv, E!StreamerTypeOK
<1>3. IsFiniteSet(clientChannels') /\ IsFiniteSet(sending')
  BY <1>1, FS_Subset DEF EInv
<1>4. ASSUME NEW d \in Subscribers
      PROVE  Cardinality(Of(d)') = subscribed'[d]
  <2>1. subscribed \in [Subscribers -> Nat] /\ Cardinality(Of(d)) = subscribed[d]
    BY DEF EInv, E!StreamerTypeOK
  <2>2. CASE d = c
    <3>1. Of(d)' = {}
      BY <1>1, <2>2 DEF Of
    <3> QED
      BY <1>1, <2>1, <2>2, <3>1, FS_EmptySet
  <2>3. CASE d # c
    <3>1. Of(d)' = Of(d)
      BY <1>1, <2>3 DEF Of
    <3> QED
      BY <1>1, <2>1, <2>3, <3>1
  <2> QED
    BY <2>2, <2>3
<1>5. \A d \in Subscribers, m \in 1 .. events' :
        Cardinality(InFlight(d, m)') + Cardinality(Arrived(d, m)') = promised'[m][d]
  BY <1>1 DEF EInv, InFlight, Arrived
<1> QED
  BY <1>2, <1>3, <1>4, <1>5 DEF EInv

\* The elements of a sequence are of its set.
LEMMA ElementsOf ==
    ASSUME NEW S, NEW q \in Seq(S)
    PROVE  \A i \in DOMAIN q : q[i] \in S
OBVIOUS

\* A message goes once to every place of the list.
LEMMA EPublish ==
    ASSUME EInv, E!Publish
    PROVE  EInv'
<1>1. /\ events < MaxEvents /\ events' = events + 1
      /\ sending' = sending \cup (clientChannels \X {events'})
      /\ promised' = Append(promised, subscribed)
      /\ UNCHANGED <<clientChannels, inbox, left, changes, subscribed>>
  BY DEF E!Publish
<1>2. /\ events \in Nat /\ MaxEvents \in Nat /\ events' \in 0 .. MaxEvents
      /\ \A m \in 1 .. events' : m \in 1 .. events \/ m = events'
      /\ events' \notin 1 .. events /\ events' \in 1 .. events'
      /\ 1 .. events \subseteq 1 .. events' /\ events' \in Nat
  <2>1. events \in Nat /\ MaxEvents \in Nat
    BY ETypes, MessagingAssumption
  <2> QED
    BY <1>1, <2>1
<1>3. /\ promised \in Seq([Subscribers -> Nat]) /\ Len(promised) = events
      /\ subscribed \in [Subscribers -> Nat]
  BY ETypes DEF EInv, E!StreamerTypeOK
<1>4. /\ promised' \in [1 .. events' -> [Subscribers -> Nat]]
      /\ promised'[events'] = subscribed
      /\ \A m \in 1 .. events : promised'[m] = promised[m]
  <2>1. /\ Append(promised, subscribed) \in Seq([Subscribers -> Nat])
        /\ Len(Append(promised, subscribed)) = events + 1
        /\ Append(promised, subscribed)[events + 1] = subscribed
        /\ \A m \in 1 .. events : Append(promised, subscribed)[m] = promised[m]
    BY <1>2, <1>3
  <2>2. \A s \in Seq([Subscribers -> Nat]) : s \in [1 .. Len(s) -> [Subscribers -> Nat]]
    OBVIOUS
  <2> QED
    BY <1>1, <2>1, <2>2
<1>5. E!StreamerTypeOK'
  <2>1. sending' \in SUBSET (E!Places \X (1 .. events'))
    BY <1>1, <1>2 DEF EInv, E!StreamerTypeOK
  <2>2. inbox' \in [Subscribers -> Seq(1 .. events')]
    <3>1. \A c \in Subscribers : inbox[c] \in Seq(1 .. events')
      <4>1. \A q \in Seq(1 .. events) : q \in Seq(1 .. events')
        BY <1>2
      <4> QED
        BY <4>1, ETypes
    <3> QED
      BY <1>1, <3>1 DEF EInv, E!StreamerTypeOK
  <2> QED
    BY <1>1, <1>2, <1>4, <2>1, <2>2 DEF EInv, E!StreamerTypeOK, E!Places
<1>6. IsFiniteSet(clientChannels') /\ IsFiniteSet(sending')
  <2>1. IsFiniteSet(clientChannels \X {events'})
    BY FS_Product, FS_Singleton DEF EInv
  <2> QED
    BY <1>1, <2>1, FS_Union DEF EInv
<1>7. \A c \in Subscribers : Cardinality(Of(c)') = subscribed'[c]
  BY <1>1 DEF EInv, Of
<1>8. ASSUME NEW c \in Subscribers, NEW m \in 1 .. events
      PROVE  Cardinality(InFlight(c, m)') + Cardinality(Arrived(c, m)') = promised'[m][c]
  <2>1. InFlight(c, m)' = InFlight(c, m) /\ Arrived(c, m)' = Arrived(c, m)
    <3>1. \A s \in clientChannels \X {events'} : s[2] # m
      BY <1>2
    <3> QED
      BY <1>1, <3>1 DEF InFlight, Arrived
  <2> QED
    BY <1>4, <2>1 DEF EInv
<1>9. ASSUME NEW c \in Subscribers, NEW m, m = events'
      PROVE  Cardinality(InFlight(c, m)') + Cardinality(Arrived(c, m)') = promised'[m][c]
  <2>1. Arrived(c, m)' = {}
    <3>1. inbox[c] \in Seq(1 .. events)
      BY ETypes
    <3>2. \A i \in DOMAIN inbox[c] : inbox[c][i] \in 1 .. events
      BY <3>1, ElementsOf
    <3> QED
      BY <1>1, <1>2, <1>9, <3>2 DEF Arrived
  <2>2. InFlight(c, m)' = Of(c) \X {m}
    <3>1. \A s \in sending : s[2] # m
      BY <1>2, <1>9, ETypes
    <3> QED
      BY <1>1, <1>9, <3>1 DEF InFlight, Of
  <2>3. /\ IsFiniteSet(Of(c)) /\ Cardinality(Of(c)) \in Nat
        /\ Cardinality(Of(c)) = subscribed[c]
    BY ETypes DEF EInv
  <2>4. Cardinality(Of(c) \X {m}) = Cardinality(Of(c)) * 1
    <3>1. IsFiniteSet({m}) /\ Cardinality({m}) = 1
      BY FS_Singleton
    <3> QED
      BY <2>3, <3>1, FS_Product
  <2>5. Cardinality(Arrived(c, m)') = 0
    BY <2>1, FS_EmptySet
  <2> QED
    BY <1>4, <1>9, <2>2, <2>3, <2>4, <2>5
<1> QED
  BY <1>2, <1>5, <1>6, <1>7, <1>8, <1>9 DEF EInv

\* What one goroutine sends is one less in flight and one more received.
LEMMA ESend ==
    ASSUME EInv, NEW s \in sending, E!Send(s[1], s[2])
    PROVE  EInv'
<1> DEFINE c == s[1][2]
           m == s[2]
<1>1. /\ sending' = sending \ {s} /\ inbox' = [inbox EXCEPT ![c] = Append(@, m)]
      /\ UNCHANGED <<clientChannels, left, events, changes, subscribed, promised>>
      /\ c \in Subscribers /\ m \in 1 .. events
  BY ETypes DEF E!Send
<1> HIDE DEF c, m
<1>2. /\ \A d \in Subscribers : inbox[d] \in Seq(1 .. events)
      /\ inbox'[c] = Append(inbox[c], m)
      /\ \A d \in Subscribers : d # c => inbox'[d] = inbox[d]
      /\ inbox' \in [Subscribers -> Seq(1 .. events)]
  <2>1. inbox \in [Subscribers -> Seq(1 .. events)]
    BY DEF EInv, E!StreamerTypeOK
  <2>2. Append(inbox[c], m) \in Seq(1 .. events)
    BY <1>1, <2>1
  <2> QED
    BY <1>1, <2>1, <2>2
<1>3. E!StreamerTypeOK'
  BY <1>1, <1>2 DEF EInv, E!StreamerTypeOK, E!Places
<1>4. IsFiniteSet(clientChannels') /\ IsFiniteSet(sending')
  BY <1>1, FS_Subset DEF EInv
<1>5. \A d \in Subscribers : Cardinality(Of(d)') = subscribed'[d]
  BY <1>1 DEF EInv, Of
<1>6. ASSUME NEW d \in Subscribers, NEW n \in 1 .. events
      PROVE  Cardinality(InFlight(d, n)') + Cardinality(Arrived(d, n)') = promised'[n][d]
  <2>1. Cardinality(InFlight(d, n)) + Cardinality(Arrived(d, n)) = promised[n][d]
    BY DEF EInv
  <2>2. /\ IsFiniteSet(InFlight(d, n)) /\ Cardinality(InFlight(d, n)) \in Nat
        /\ IsFiniteSet(Arrived(d, n)) /\ Cardinality(Arrived(d, n)) \in Nat
    BY ETypes
  <2>3. CASE d = c /\ n = m
    <3>1. InFlight(d, n)' = InFlight(d, n) \ {s} /\ s \in InFlight(d, n)
      BY <1>1, <2>3 DEF InFlight, c, m
    <3>2. Cardinality(InFlight(d, n) \ {s}) = Cardinality(InFlight(d, n)) - 1
      BY <2>2, <3>1, FS_RemoveElement
    <3>3. /\ Arrived(d, n)' = Arrived(d, n) \cup {Len(inbox[c]) + 1}
          /\ Len(inbox[c]) + 1 \notin Arrived(d, n)
      <4>1. inbox[c] \in Seq(1 .. events) /\ inbox'[c] = Append(inbox[c], m)
        BY <1>1, <1>2
      <4>2. /\ DOMAIN inbox'[c] = DOMAIN inbox[c] \cup {Len(inbox[c]) + 1}
            /\ \A i \in DOMAIN inbox[c] :
                 inbox'[c][i] = inbox[c][i] /\ i # Len(inbox[c]) + 1
            /\ inbox'[c][Len(inbox[c]) + 1] = m
        BY <1>1, <4>1, Longer
      <4> QED
        BY <2>3, <4>2 DEF Arrived
    <3>4. Cardinality(Arrived(d, n) \cup {Len(inbox[c]) + 1})
            = Cardinality(Arrived(d, n)) + 1
      BY <2>2, <3>3, FS_AddElement
    <3>5. Cardinality(InFlight(d, n)') = Cardinality(InFlight(d, n)) - 1
      BY <3>1, <3>2
    <3>6. Cardinality(Arrived(d, n)') = Cardinality(Arrived(d, n)) + 1
      BY <3>3, <3>4
    <3> QED
      BY <1>1, <2>1, <2>2, <3>5, <3>6
  <2>4. CASE d # c \/ n # m
    <3>1. InFlight(d, n)' = InFlight(d, n)
      BY <1>1, <2>4 DEF InFlight, c, m
    <3>2. Arrived(d, n)' = Arrived(d, n)
      <4>1. CASE d # c
        BY <1>2, <4>1 DEF Arrived
      <4>2. CASE d = c /\ n # m
        <5>1. inbox[c] \in Seq(1 .. events) /\ inbox'[c] = Append(inbox[c], m)
          BY <1>1, <1>2
        <5>2. /\ DOMAIN inbox'[c] = DOMAIN inbox[c] \cup {Len(inbox[c]) + 1}
              /\ \A i \in DOMAIN inbox[c] : inbox'[c][i] = inbox[c][i]
              /\ inbox'[c][Len(inbox[c]) + 1] = m
          BY <1>1, <5>1, Longer
        <5> QED
          BY <4>2, <5>2 DEF Arrived
      <4> QED
        BY <2>4, <4>1, <4>2
    <3> QED
      BY <1>1, <2>1, <3>1, <3>2
  <2> QED
    BY <2>3, <2>4
<1> QED
  BY <1>1, <1>3, <1>4, <1>5, <1>6 DEF EInv

LEMMA EStep ==
    ASSUME EInv, E!StreamerNext \/ UNCHANGED streamerVars
    PROVE  EInv'
<1>1. ASSUME left' \in SUBSET Subscribers,
             UNCHANGED <<clientChannels, sending, inbox, events, changes, subscribed,
                         promised>>
      PROVE  EInv'
  <2>1. E!StreamerTypeOK'
    BY <1>1 DEF EInv, E!StreamerTypeOK, E!Places
  <2>2. \A c, m : /\ Of(c)' = Of(c) /\ InFlight(c, m)' = InFlight(c, m)
                  /\ Arrived(c, m)' = Arrived(c, m)
    BY <1>1 DEF Of, InFlight, Arrived
  <2> QED
    BY <1>1, <2>1, <2>2 DEF EInv
<1>2. ASSUME NEW c \in Subscribers, E!Leave(c)
      PROVE  EInv'
  BY <1>1, <1>2 DEF E!Leave, EInv, E!StreamerTypeOK
<1>3. CASE UNCHANGED streamerVars
  BY <1>1, <1>3 DEF streamerVars, EInv, E!StreamerTypeOK
<1> QED
  BY <1>2, <1>3, ESubscribe, EUnsubscribe, EPublish, ESend DEF E!StreamerNext

LEMMA ECounts == EInv => E!SentAsSubscribed
BY SameSize DEF EInv, E!SentAsSubscribed, InFlight, Arrived
-----------------------------------------------------------------------------
(***************************************************************************)
(* The parts beside one another                                            *)
(***************************************************************************)
MessagingInv == IInv /\ BInv /\ EInv

LEMMA MessagingStep ==
    ASSUME MessagingInv,
           [MessagingNext]_<<part, vars, broadcasterVars, streamerVars>>
    PROVE  MessagingInv'
<1>1. Next \/ UNCHANGED vars
  BY DEF MessagingNext
<1>2. IInv'
  BY <1>1, StepIInv DEF MessagingInv
<1>3. B!Next \/ UNCHANGED broadcasterVars
  BY DEF MessagingNext
<1>4. ASSUME UNCHANGED broadcasterVars
      PROVE  BInv'
  <2>1. B!TypeOK'
    BY <1>4 DEF broadcasterVars, MessagingInv, BInv, B!TypeOK
  <2>2. Members' /\ DueInv'
    BY <1>4 DEF broadcasterVars, MessagingInv, BInv, Members, DueInv
  <2>3. OrderInv'
    BY <1>4, OrderFrame DEF broadcasterVars, MessagingInv, BInv
  <2> QED
    BY <2>1, <2>2, <2>3 DEF BInv
<1>5. BInv'
  BY <1>3, <1>4, BStep DEF MessagingInv
<1>6. E!StreamerNext \/ UNCHANGED streamerVars
  BY DEF MessagingNext
<1>7. EInv'
  BY <1>6, EStep DEF MessagingInv
<1> QED
  BY <1>2, <1>5, <1>7 DEF MessagingInv

\* MessagingInv holds in every reachable state.
THEOREM MessagingInvariance == MessagingSpec => []MessagingInv
<1>1. MessagingInit => MessagingInv
  BY InitIInv, BInit, EInit DEF MessagingInit, MessagingInv
<1> QED
  BY <1>1, MessagingStep, PTL DEF MessagingSpec

\* Every part keeps its types; the buffer never holds more than its length.
THEOREM MessagingTyped == MessagingSpec => []TypesOK
<1>1. MessagingInv => TypesOK
  BY DEF MessagingInv, IInv, BInv, EInv, TypesOK
<1> QED
  BY MessagingInvariance, <1>1, PTL

\* Every subscriber of the broadcaster receives what was broadcast while it was
\* registered, once and in order, and every client of the event streamer each
\* message as often as it was subscribed when it was published.
THEOREM DeliveryExact == MessagingSpec => []ExactDelivery
<1>1. MessagingInv => ExactDelivery
  BY BExact, ECounts DEF MessagingInv, ExactDelivery
<1> QED
  BY MessagingInvariance, <1>1, PTL
=============================================================================
