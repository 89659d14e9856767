----------------------- MODULE ModelGeneration_proofs -----------------------
(***************************************************************************)
(* Theorems about the generation of models from a spreadsheet, for every   *)
(* set of models and components, every number of permits, every rate limit *)
(* and any number of restarts.                                             *)
(***************************************************************************)
EXTENDS ModelGeneration, FiniteSetTheorems, TLAPS

Judged == {"counted", "undone", "ended"}      \* a worker past its select
Past == {"relationships", "await", "returned"} \* the call past wg.Wait

Pending == {m \in Models : worker[m] \in {"waiting", "counted"}}
Holding == {m \in Models : worker[m] \in {"waiting", "counted", "undone"}}
Counted == {m \in Models : verdict[m] # "none"}

\* What the counters count.
CounterInv ==
    /\ wg = Cardinality(Pending)
    /\ permits + Cardinality(Holding) = Permits
    /\ count["success"] + count["failure"] + count["skipped"]
         = Cardinality(Counted)

\* Where the call and the workers are.
CallInv ==
    /\ \A m \in Models : m \in selected \ todo <=> worker[m] # "off"
    /\ \A m \in Models : verdict[m] # "none" <=> worker[m] \in Judged
    /\ main \in {"start", "refused"} => selected = {} /\ updater = "off"
    /\ main \in Past => todo = {} /\ Pending = {}
    /\ ~chanOpen => main \in Past
    /\ main = "returned" => updater = "done"
    /\ updater = "row" <=> row # NoOne

\* Where a generation is when its worker has judged it, and what it reports.
GenInv ==
    \A m \in Models :
        /\ gen[m] = "off" <=> worker[m] = "off"
        /\ worker[m] \in Judged /\ m \notin timedOut => gen[m] = "ended"
        /\ done[m] # "none" => gen[m] = "ended" /\ done[m] = outcome[m]
        /\ verdict[m] = "success" => outcome[m] = "success"
        /\ outcome[m] # "none" <=> gen[m] \in {"put", "ended"}

\* What a successful model has, in its directory and in the spreadsheet.
Out(m) ==
    /\ disk[m].model /\ disk[m].comps # {}
    /\ m \notin Core => disk[m].comps = Comps /\ (row = m \/ m \in rows)

OutAt(m) ==
    /\ gen[m] \in {"off", "begin"} => kept[m] = {}
    /\ gen[m] \in {"limit", "pause", "pass", "fetch", "model", "comps"}
         => m \notin Core
    /\ gen[m] = "core" =>
         m \in Core /\ disk[m].model /\ kept[m] \subseteq disk[m].comps
    /\ gen[m] = "model" => want[m] = Comps
    /\ gen[m] = "comps" =>
         disk[m].model /\ Comps \ want[m] \subseteq disk[m].comps
    /\ gen[m] = "sent" => Out(m)
    /\ outcome[m] = "success" => Out(m) /\ m \in tracker

OutInv == \A m \in Models : OutAt(m)

\* Who holds the mutex of the rate limit, and what the count says.
HubInv ==
    /\ \A m \in Models :
         /\ gen[m] \in {"pause", "pass"} => holder = m
         /\ gen[m] = "pause" => LimitReached
         /\ gen[m] = "pass" => ~LimitReached
    /\ sincePause % RateLimit = hubCount % RateLimit
    /\ hubCount = 0 => sincePause = 0
    /\ RateRespected

IInv == TypeOK /\ CounterInv /\ CallInv /\ GenInv /\ OutInv /\ HubInv
        /\ PanicOnlyAfterTimeout
-----------------------------------------------------------------------------
LEMMA SomeModels == ASSUME NEW S, S \subseteq Models PROVE IsFiniteSet(S)
BY GenerationAssumption, FS_Subset DEF GenerationAssumption

\* A set of models that gains or loses one of them.
LEMMA OneMore ==
    ASSUME NEW S, S \subseteq Models, NEW m \in Models, m \notin S
    PROVE  Cardinality(S \cup {m}) = Cardinality(S) + 1
BY SomeModels, FS_AddElement

LEMMA OneLess ==
    ASSUME NEW S, S \subseteq Models, NEW m \in S
    PROVE  Cardinality(S \ {m}) = Cardinality(S) - 1
BY SomeModels, FS_RemoveElement

LEMMA SomeNumber ==
    ASSUME NEW S, S \subseteq Models
    PROVE  /\ Cardinality(S) \in Nat
           /\ Cardinality(S) = 0 <=> S = {}
BY SomeModels, FS_CardinalityType, FS_EmptySet

\* A generation leaves the call and the workers alone.
LEMMA GenFrame ==
    ASSUME NEW m \in Models, GenStep(m) \/ Fetch(m)
    PROVE  UNCHANGED <<callVars, workVars>>
BY DEF GenStep, Fetch, CoreModel, CoreComponent, CoreEnd, NewGenerator,
       LimitLock, LimitPass, WriteModel, WriteComponent, Send, Track, Put,
       callVars, workVars

\* A worker leaves the generations alone, and the call.
LEMMA WorkerFrame ==
    ASSUME NEW m \in Models, WorkerStep(m)
    PROVE  UNCHANGED <<callVars, genVars, tracker, sheetVars, hubVars, disk,
                       panicked>>
BY DEF WorkerStep, Report, Timeout, WorkerDone, WorkerRelease, Count

\* The spreadsheet goroutine leaves everything but itself alone.
LEMMA UpdaterFrame ==
    ASSUME UpdaterStep
    PROVE  UNCHANGED <<callVars, workVars, genVars, done, tracker, hubVars,
                       disk, panicked>>
BY DEF UpdaterStep, BuildMap, HandleRow, UpdaterEnd

\* After a dispatch, so do the steps of the call.
LEMMA MainFrame ==
    ASSUME MainStep
    PROVE  UNCHANGED <<count, verdict, timedOut, want, kept, lastFailed,
                       outcome, done, tracker, row, rows, hubVars, disk,
                       panicked>>
BY DEF MainStep, BeginCall, ParseFails, Dispatch, CloseSheet, Relationships,
       Return, workVars, genVars, sheetVars
-----------------------------------------------------------------------------
(* Remainders *)

LEMMA Times ==
    ASSUME NEW R \in Nat \ {0}, NEW d \in Nat \ {0}
    PROVE  R * d >= R
OBVIOUS

LEMMA Dist ==
    ASSUME NEW R \in Nat, NEW a \in Nat, NEW b \in Nat, a > b
    PROVE  R * a = R * b + R * (a - b)
OBVIOUS

LEMMA Divide ==
    ASSUME NEW x \in Int, NEW R \in Int, R > 0,
           NEW q \in Int, q = x \div R, NEW r \in Int, r = x % R
    PROVE  R * q + r = x
OBVIOUS

\* Quotient and remainder are unique.
LEMMA Unique ==
    ASSUME NEW R \in Nat \ {0}, NEW q \in Nat, NEW r \in 0 .. R - 1,
           NEW p \in Nat, NEW s \in 0 .. R - 1, R * q + r = R * p + s
    PROVE  r = s
<1>1. ASSUME NEW a \in Nat, NEW b \in Nat, a > b,
             NEW u \in 0 .. R - 1, NEW v \in 0 .. R - 1
      PROVE  R * a + u # R * b + v
  <2>1. R * a = R * b + R * (a - b)
    BY <1>1, Dist
  <2>2. R * (a - b) >= R
    BY <1>1, Times
  <2>3. R * a \in Nat /\ R * b \in Nat /\ R * (a - b) \in Nat
    BY <1>1
  <2> DEFINE A == R * a
             B == R * b
             C == R * (a - b)
  <2>4. A \in Nat /\ B \in Nat /\ C \in Nat /\ A = B + C /\ C >= R
    BY <2>1, <2>2, <2>3
  <2> HIDE DEF A, B, C
  <2>5. A + u # B + v
    BY <1>1, <2>4
  <2> QED
    BY <2>5 DEF A, B
<1>2. ~(q > p)
  BY <1>1
<1>3. ~(p > q)
  BY <1>1
<1> QED
  BY <1>2, <1>3

\* The remainder of the next number.
LEMMA Successor ==
    ASSUME NEW x \in Nat, NEW R \in Nat \ {0}
    PROVE  (x + 1) % R = IF x % R = R - 1 THEN 0 ELSE (x % R) + 1
<1> DEFINE q == x \div R
           r == x % R
           p == (x + 1) \div R
           s == (x + 1) % R
<1>1. q \in Nat /\ r \in 0 .. R - 1
  OBVIOUS
<1>2. p \in Nat /\ s \in 0 .. R - 1
  OBVIOUS
<1>3. R * q + r = x
  BY <1>1, Divide
<1>4. R * p + s = x + 1
  BY <1>2, Divide
<1>5. r = x % R /\ s = (x + 1) % R
  OBVIOUS
<1> HIDE DEF q, r, p, s
<1>6. CASE r = R - 1
  <2>1. R * (q + 1) = R * q + R
    BY <1>1
  <2>2. R * (q + 1) + 0 = R * p + s
    BY <1>1, <1>2, <1>3, <1>4, <1>6, <2>1
  <2>3. q + 1 \in Nat /\ 0 \in 0 .. R - 1
    BY <1>1
  <2>4. s = 0
    BY <1>2, <2>2, <2>3, Unique
  <2> QED
    BY <1>5, <1>6, <2>4
<1>7. CASE r # R - 1
  <2>1. R * q + (r + 1) = R * p + s
    BY <1>1, <1>2, <1>3, <1>4
  <2>2. r + 1 \in 0 .. R - 1
    BY <1>1, <1>7
  <2>3. s = r + 1
    BY <1>1, <1>2, <2>1, <2>2, Unique
  <2> QED
    BY <1>5, <1>7, <2>3
<1> QED
  BY <1>6, <1>7
-----------------------------------------------------------------------------
(* Type correctness *)

\* The first after the start.
LEMMA SuccessorOfZero ==
    ASSUME NEW R \in Nat \ {0}
    PROVE  (0 + 1) % R = IF 0 = R - 1 THEN 0 ELSE 0 + 1
<1>1. 0 % R = 0
  OBVIOUS
<1>2. (0 + 1) % R = IF 0 % R = R - 1 THEN 0 ELSE (0 % R) + 1
  BY Successor
<1> QED
  BY <1>1, <1>2

LEMMA TypeInit == Init => TypeOK
<1> SUFFICES ASSUME Init PROVE TypeOK
  OBVIOUS
<1> USE GenerationAssumption DEF Init, GenerationAssumption, Zero, Fresh, Verdicts
<1>1. CallTypes
  BY DEF CallTypes
<1>2. WorkTypes
  BY DEF WorkTypes
<1>3. GenTypes
  BY DEF GenTypes
<1>4. RestTypes
  BY DEF RestTypes
<1> QED
  BY <1>1, <1>2, <1>3, <1>4 DEF TypeOK

LEMMA CallTypesStep ==
    ASSUME TypeOK, CallInv, [Next]_vars
    PROVE  CallTypes'
<1> USE GenerationAssumption DEF TypeOK, CallTypes, GenerationAssumption,
      callVars, sheetVars
<1>1. ASSUME MainStep PROVE CallTypes'
  BY <1>1 DEF MainStep, BeginCall, ParseFails, Dispatch, CloseSheet,
              Relationships, Return
<1>2. ASSUME NEW m \in Models, WorkerStep(m) PROVE CallTypes'
  BY <1>2 DEF WorkerStep, Report, Timeout, Count, WorkerDone, WorkerRelease
<1>3. ASSUME NEW m \in Models, CoreModel(m) PROVE CallTypes'
  BY <1>3 DEF CoreModel
<1>4. ASSUME NEW m \in Models, NEW c \in Comps,
             CoreComponent(m, c) \/ WriteComponent(m, c)
      PROVE  CallTypes'
  BY <1>4 DEF CoreComponent, WriteComponent
<1>5. ASSUME NEW m \in Models,
             \/ CoreEnd(m) \/ NewGenerator(m) \/ LimitLock(m) \/ LimitPass(m)
             \/ Fetch(m) \/ WriteModel(m) \/ Send(m) \/ Track(m) \/ Put(m)
      PROVE  CallTypes'
  <2>1. CASE CoreEnd(m) \/ NewGenerator(m) \/ LimitLock(m)
    BY <2>1 DEF CoreEnd, NewGenerator, LimitLock
  <2>2. CASE LimitPass(m) \/ Fetch(m) \/ WriteModel(m)
    BY <2>2 DEF LimitPass, Fetch, WriteModel
  <2>3. CASE Send(m) \/ Track(m) \/ Put(m)
    BY <2>3 DEF Send, Track, Put
  <2> HIDE DEF TypeOK, CallTypes
  <2> QED
    BY <1>5, <2>1, <2>2, <2>3
<1>6. ASSUME UpdaterStep PROVE CallTypes'
  BY <1>6 DEF UpdaterStep, BuildMap, HandleRow, UpdaterEnd, CallInv
<1>7. ASSUME Restart PROVE CallTypes'
  <2>1. /\ main' = "start" /\ latestOnly' = FALSE /\ chanOpen' = TRUE
        /\ selected' = {} /\ todo' = {} /\ calls' = calls + 1
        /\ updater' = "off" /\ row' = NoOne /\ rows' = {}
        /\ panicked' = FALSE
    BY <1>7 DEF Restart
  <2>2. calls' \in Nat
    BY <2>1
  <2> QED
    BY <2>1, <2>2
<1>8. ASSUME UNCHANGED vars PROVE CallTypes'
  BY <1>8 DEF vars
<1> QED
  BY <1>1, <1>2, <1>3, <1>4, <1>5, <1>6, <1>7, <1>8 DEF Next, GenStep

LEMMA WorkTypesStep ==
    ASSUME TypeOK, CounterInv, [Next]_vars
    PROVE  WorkTypes'
<1> USE GenerationAssumption DEF TypeOK, WorkTypes, CallTypes,
      GenerationAssumption, workVars
<1>1. ASSUME MainStep PROVE WorkTypes'
  BY <1>1 DEF MainStep, BeginCall, ParseFails, Dispatch, CloseSheet,
              Relationships, Return
<1>2. ASSUME NEW m \in Models, NEW result \in Verdicts, Count(m, result)
      PROVE  /\ worker' \in [Models -> {"off", "waiting", "counted", "undone", "ended"}]
             /\ verdict' \in [Models -> Verdicts \cup {"none"}]
             /\ count' \in [Verdicts \cup {"processed"} -> Nat]
             /\ permits' = permits /\ wg' = wg
  <2>1. /\ worker' = [worker EXCEPT ![m] = "counted"]
        /\ verdict' = [verdict EXCEPT ![m] = result]
        /\ count' = [count EXCEPT ![result] = @ + 1]
        /\ permits' = permits /\ wg' = wg
    BY <1>2 DEF Count
  <2>2. count' \in [Verdicts \cup {"processed"} -> Nat]
    BY <2>1
  <2>3. verdict' \in [Models -> Verdicts \cup {"none"}]
    BY <2>1
  <2> QED
    BY <2>1, <2>2, <2>3
<1>3. ASSUME NEW m \in Models, Report(m) \/ Timeout(m) PROVE WorkTypes'
  <2>1. done[m] # "none" => done[m] \in Verdicts
    BY DEF GenTypes
  <2>2. "failure" \in Verdicts
    BY DEF Verdicts
  <2> QED
    BY <1>2, <1>3, <2>1, <2>2 DEF Report, Timeout
<1>4. ASSUME NEW m \in Models, WorkerDone(m) PROVE WorkTypes'
  <2>1. m \in Pending
    BY <1>4 DEF WorkerDone, Pending
  <2>2. wg \in Nat \ {0}
    BY <2>1, SomeNumber DEF CounterInv, Pending
  <2> QED
    BY <1>4, <2>2 DEF WorkerDone
<1>5. ASSUME NEW m \in Models, WorkerRelease(m) PROVE WorkTypes'
  <2>1. m \in Holding
    BY <1>5 DEF WorkerRelease, Holding
  <2>2. permits + 1 \in 0 .. Permits
    BY <2>1, SomeNumber DEF CounterInv, Holding
  <2> QED
    BY <1>5, <2>2 DEF WorkerRelease
<1>6. ASSUME NEW m \in Models, GenStep(m) \/ Fetch(m) PROVE WorkTypes'
  BY <1>6, GenFrame
<1>7. ASSUME UpdaterStep PROVE WorkTypes'
  BY <1>7, UpdaterFrame
<1>8. ASSUME Restart PROVE WorkTypes'
  BY <1>8 DEF Restart, Zero, Verdicts
<1>9. ASSUME UNCHANGED vars PROVE WorkTypes'
  BY <1>9 DEF vars
<1> QED
  BY <1>1, <1>3, <1>4, <1>5, <1>6, <1>7, <1>8, <1>9 DEF Next, WorkerStep

LEMMA GenTypesStep ==
    ASSUME TypeOK, [Next]_vars
    PROVE  GenTypes'
<1> USE GenerationAssumption DEF TypeOK, GenTypes, CallTypes,
      GenerationAssumption, genVars
<1>1. ASSUME MainStep PROVE GenTypes'
  BY <1>1 DEF MainStep, BeginCall, ParseFails, Dispatch, CloseSheet,
              Relationships, Return
<1>2. ASSUME NEW m \in Models, WorkerStep(m) PROVE GenTypes'
  BY <1>2 DEF WorkerStep, Report, Timeout, Count, WorkerDone, WorkerRelease
<1>3. ASSUME NEW m \in Models, NEW result \in Verdicts, Finish(m, result)
      PROVE  /\ gen' = [gen EXCEPT ![m] = "put"]
             /\ outcome' \in [Models -> Verdicts \cup {"none"}]
  BY <1>3 DEF Finish
<1>4. {"success", "failure", "skipped"} = Verdicts
  BY DEF Verdicts
<1>5. ASSUME NEW m \in Models, CoreModel(m) PROVE GenTypes'
  BY <1>3, <1>4, <1>5 DEF CoreModel
<1>6. ASSUME NEW m \in Models, NEW c \in Comps, CoreComponent(m, c) PROVE GenTypes'
  <2>1. want' \in [Models -> SUBSET Comps] /\ kept' \in [Models -> SUBSET Comps]
    BY <1>6 DEF CoreComponent
  <2>2. lastFailed' \in [Models -> BOOLEAN]
        /\ UNCHANGED <<gen, outcome, done>>
    BY <1>6 DEF CoreComponent
  <2> QED
    BY <2>1, <2>2
<1>7. ASSUME NEW m \in Models, NEW c \in Comps, WriteComponent(m, c) PROVE GenTypes'
  BY <1>3, <1>4, <1>7 DEF WriteComponent
<1>8. ASSUME NEW m \in Models, CoreEnd(m) \/ NewGenerator(m) PROVE GenTypes'
  BY <1>3, <1>4, <1>8 DEF CoreEnd, NewGenerator
<1>9. ASSUME NEW m \in Models, LimitLock(m) \/ LimitPass(m) PROVE GenTypes'
  BY <1>9 DEF LimitLock, LimitPass
<1>10. ASSUME NEW m \in Models, Fetch(m) \/ WriteModel(m) PROVE GenTypes'
  BY <1>3, <1>4, <1>10 DEF Fetch, WriteModel
<1>11. ASSUME NEW m \in Models, Send(m) \/ Track(m) \/ Put(m) PROVE GenTypes'
  BY <1>3, <1>4, <1>11 DEF Send, Track, Put
<1>12. ASSUME UpdaterStep PROVE GenTypes'
  BY <1>12, UpdaterFrame
<1>13. ASSUME Restart PROVE GenTypes'
  BY <1>13 DEF Restart
<1>14. ASSUME UNCHANGED vars PROVE GenTypes'
  BY <1>14 DEF vars
<1> QED
  BY <1>1, <1>2, <1>5, <1>6, <1>7, <1>8, <1>9, <1>10, <1>11, <1>12, <1>13,
     <1>14 DEF Next, GenStep

LEMMA RestTypesStep ==
    ASSUME TypeOK, [Next]_vars
    PROVE  RestTypes'
<1> USE GenerationAssumption DEF TypeOK, RestTypes, GenerationAssumption, hubVars
<1>1. CASE MainStep
  BY <1>1, MainFrame
<1>2. ASSUME NEW m \in Models, WorkerStep(m) PROVE RestTypes'
  BY <1>2, WorkerFrame
<1>3. ASSUME NEW m \in Models, CoreModel(m) PROVE RestTypes'
  <2>1. [disk EXCEPT ![m].model = TRUE]
          \in [Models -> [model : BOOLEAN, comps : SUBSET Comps]]
    OBVIOUS
  <2>2. tracker' \in SUBSET Models /\ UNCHANGED hubVars
    BY <1>3 DEF CoreModel
  <2>3. disk' = disk \/ disk' = [disk EXCEPT ![m].model = TRUE]
    BY <1>3 DEF CoreModel
  <2> QED
    BY <2>1, <2>2, <2>3
<1>4. ASSUME NEW m \in Models, NEW c \in Comps,
             CoreComponent(m, c) \/ WriteComponent(m, c)
      PROVE  RestTypes'
  <2>1. disk' \in [Models -> [model : BOOLEAN, comps : SUBSET Comps]]
    BY <1>4 DEF CoreComponent, WriteComponent
  <2> QED
    BY <1>4, <2>1 DEF CoreComponent, WriteComponent
<1>5. ASSUME NEW m \in Models,
             \/ CoreEnd(m) \/ NewGenerator(m) \/ LimitLock(m) \/ LimitPass(m)
             \/ Fetch(m) \/ Send(m) \/ Track(m) \/ Put(m)
      PROVE  RestTypes'
  BY <1>5 DEF CoreEnd, NewGenerator, LimitLock, LimitPass, Fetch, Send, Track,
              Put
<1>9. ASSUME NEW m \in Models, WriteModel(m) PROVE RestTypes'
  <2>1. [disk EXCEPT ![m].model = TRUE]
          \in [Models -> [model : BOOLEAN, comps : SUBSET Comps]]
    OBVIOUS
  <2>2. UNCHANGED <<tracker, hubVars>>
    BY <1>9 DEF WriteModel
  <2>3. disk' = disk \/ disk' = [disk EXCEPT ![m].model = TRUE]
    BY <1>9 DEF WriteModel
  <2> QED
    BY <2>1, <2>2, <2>3
<1>6. CASE UpdaterStep
  BY <1>6, UpdaterFrame
<1>7. CASE Restart
  BY <1>7 DEF Restart, Fresh
<1>8. CASE UNCHANGED vars
  BY <1>8 DEF vars
<1> QED
  BY <1>1, <1>2, <1>3, <1>4, <1>5, <1>6, <1>7, <1>8, <1>9 DEF Next, GenStep
-----------------------------------------------------------------------------
(* The counters *)

LEMMA CounterInit == Init => CounterInv
<1> SUFFICES ASSUME Init PROVE CounterInv
  OBVIOUS
<1>1. Pending = {} /\ Holding = {} /\ Counted = {}
  BY DEF Init, Pending, Holding, Counted
<1>2. wg = 0 /\ permits = Permits /\ count["success"] = 0
      /\ count["failure"] = 0 /\ count["skipped"] = 0
  BY DEF Init, Zero, Verdicts
<1> QED
  BY <1>1, <1>2, FS_EmptySet, GenerationAssumption
  DEF CounterInv, GenerationAssumption

\* Nothing that is counted changes.
LEMMA CounterFrame ==
    ASSUME CounterInv, UNCHANGED workVars
    PROVE  CounterInv'
BY DEF CounterInv, workVars, Pending, Holding, Counted

LEMMA CounterStep ==
    ASSUME TypeOK, CounterInv, CallInv, [Next]_vars
    PROVE  CounterInv'
<1> USE DEF TypeOK, WorkTypes, CallTypes
<1>1. ASSUME NEW S \in SUBSET Models, BeginCall(S) PROVE CounterInv'
  BY <1>1, CounterFrame DEF BeginCall
<1>2. CASE ParseFails \/ CloseSheet \/ Relationships \/ Return
  BY <1>2, CounterFrame DEF ParseFails, CloseSheet, Relationships, Return
<1>3. ASSUME NEW m \in Models, Dispatch(m) PROVE CounterInv'
  <2>1. m \notin Pending /\ m \notin Holding
    BY <1>3 DEF CallInv, Dispatch, Pending, Holding
  <2>2. Pending' = Pending \cup {m} /\ Holding' = Holding \cup {m}
        /\ Counted' = Counted
    BY <1>3 DEF Dispatch, Pending, Holding, Counted
  <2>3. Cardinality(Pending') = Cardinality(Pending) + 1
        /\ Cardinality(Holding') = Cardinality(Holding) + 1
    BY <2>1, <2>2, OneMore DEF Pending, Holding
  <2> QED
    BY <1>3, <2>2, <2>3, SomeNumber DEF Dispatch, CounterInv, Pending, Holding
<1>4. ASSUME NEW m \in Models, NEW result \in Verdicts, Count(m, result)
      PROVE CounterInv'
  <2>1. m \notin Counted
    BY <1>4 DEF Count, CallInv, Counted, Judged
  <2>2. Counted' = Counted \cup {m} /\ Pending' = Pending /\ Holding' = Holding
    BY <1>4 DEF Count, Counted, Pending, Holding, Verdicts
  <2>3. Cardinality(Counted') = Cardinality(Counted) + 1
    BY <2>1, <2>2, OneMore DEF Counted
  <2>4. count["success"]' + count["failure"]' + count["skipped"]'
          = count["success"] + count["failure"] + count["skipped"] + 1
    BY <1>4 DEF Count, Verdicts
  <2> QED
    BY <1>4, <2>2, <2>3, <2>4, SomeNumber DEF CounterInv, Count, Counted
<1>5. ASSUME NEW m \in Models, WorkerDone(m) PROVE CounterInv'
  <2>1. m \in Pending
    BY <1>5 DEF WorkerDone, Pending
  <2>2. Pending' = Pending \ {m} /\ Holding' = Holding /\ Counted' = Counted
    BY <1>5 DEF WorkerDone, Pending, Holding, Counted
  <2>3. Cardinality(Pending') = Cardinality(Pending) - 1
    BY <2>1, <2>2, OneLess DEF Pending
  <2> QED
    BY <1>5, <2>2, <2>3, SomeNumber DEF CounterInv, WorkerDone, Pending
<1>6. ASSUME NEW m \in Models, WorkerRelease(m) PROVE CounterInv'
  <2>1. m \in Holding
    BY <1>6 DEF WorkerRelease, Holding
  <2>2. Pending' = Pending /\ Holding' = Holding \ {m} /\ Counted' = Counted
    BY <1>6 DEF WorkerRelease, Pending, Holding, Counted
  <2>3. Cardinality(Holding') = Cardinality(Holding) - 1
    BY <2>1, <2>2, OneLess DEF Holding
  <2>4. count["success"]' = count["success"] /\ count["failure"]' = count["failure"]
        /\ count["skipped"]' = count["skipped"]
    BY <1>6 DEF WorkerRelease, Verdicts
  <2> QED
    BY <1>6, <2>2, <2>3, <2>4, SomeNumber DEF CounterInv, WorkerRelease, Holding
<1>7. ASSUME NEW m \in Models, GenStep(m) \/ Fetch(m) PROVE CounterInv'
  BY <1>7, GenFrame, CounterFrame
<1>8. CASE UpdaterStep
  BY <1>8, UpdaterFrame, CounterFrame
<1>9. CASE Restart
  <2>1. Pending' = {} /\ Holding' = {} /\ Counted' = {}
    BY <1>9 DEF Restart, Pending, Holding, Counted
  <2>2. wg' = 0 /\ permits' = Permits /\ count["success"]' = 0
        /\ count["failure"]' = 0 /\ count["skipped"]' = 0
    BY <1>9 DEF Restart, Zero, Verdicts
  <2> QED
    BY <2>1, <2>2, FS_EmptySet, GenerationAssumption
    DEF CounterInv, GenerationAssumption
<1>10. CASE UNCHANGED vars
  BY <1>10, CounterFrame DEF vars
<1>11. ASSUME NEW m \in Models, Report(m) \/ Timeout(m) PROVE CounterInv'
  <2>1. done[m] # "none" => done[m] \in Verdicts
    BY DEF GenTypes
  <2> QED
    BY <1>4, <1>11, <2>1 DEF Report, Timeout, Verdicts
<1> QED
  BY <1>1, <1>2, <1>3, <1>5, <1>6, <1>7, <1>8, <1>9, <1>10, <1>11
  DEF Next, MainStep, WorkerStep
-----------------------------------------------------------------------------
(* The call and the workers *)

LEMMA CallInit == Init => CallInv
BY DEF Init, CallInv, Judged, Past

LEMMA CallStep ==
    ASSUME TypeOK, CounterInv, CallInv, [Next]_vars
    PROVE  CallInv'
<1> USE DEF TypeOK, CallTypes, WorkTypes, CallInv, Judged, Past, Pending
<1>1. ASSUME NEW S \in SUBSET Models, BeginCall(S) PROVE CallInv'
  BY <1>1 DEF BeginCall, workVars
<1>2. ASSUME NEW m \in Models, Dispatch(m) PROVE CallInv'
  <2>1. \A x \in Models : x \in selected' \ todo' <=> worker'[x] # "off"
    BY <1>2 DEF Dispatch
  <2>2. \A x \in Models : verdict'[x] # "none" <=> worker'[x] \in Judged
    BY <1>2 DEF Dispatch
  <2> QED
    BY <1>2, <2>1, <2>2 DEF Dispatch, sheetVars
<1>3. CASE CloseSheet
  <2>1. Pending = {}
    BY <1>3, SomeNumber DEF CloseSheet, CounterInv
  <2> QED
    BY <1>3, <2>1 DEF CloseSheet, workVars, sheetVars
<1>4. CASE ParseFails \/ Relationships \/ Return
  BY <1>4 DEF ParseFails, Relationships, Return, workVars, sheetVars
<1>5. ASSUME NEW m \in Models, NEW result \in Verdicts, Count(m, result)
      PROVE  CallInv'
  BY <1>5 DEF Count, callVars, sheetVars, Verdicts
<1>6. ASSUME NEW m \in Models, Report(m) \/ Timeout(m) PROVE CallInv'
  <2>1. done[m] # "none" => done[m] \in Verdicts
    BY DEF GenTypes
  <2> QED
    BY <1>5, <1>6, <2>1 DEF Report, Timeout, Verdicts
<1>7. ASSUME NEW m \in Models, WorkerDone(m) \/ WorkerRelease(m) PROVE CallInv'
  BY <1>7 DEF WorkerDone, WorkerRelease, callVars, sheetVars
<1>8. ASSUME NEW m \in Models, GenStep(m) \/ Fetch(m) PROVE CallInv'
  <2>1. UNCHANGED <<callVars, workVars>>
    BY <1>8, GenFrame
  <2>2. UNCHANGED <<updater, row>> \/ (updater = "recv" /\ updater' = "row" /\ row' = m)
    BY <1>8 DEF GenStep, Fetch, CoreModel, CoreComponent, CoreEnd,
                NewGenerator, LimitLock, LimitPass, WriteModel,
                WriteComponent, Send, Track, Put, sheetVars
  <2> QED
    BY <2>1, <2>2, GenerationAssumption DEF callVars, workVars, GenerationAssumption
<1>9. CASE UpdaterStep
  BY <1>9, UpdaterFrame DEF UpdaterStep, BuildMap, HandleRow, UpdaterEnd,
                            callVars, workVars
<1>10. CASE Restart
  BY <1>10 DEF Restart
<1>11. CASE UNCHANGED vars
  BY <1>11 DEF vars, callVars, workVars, sheetVars
<1> QED
  BY <1>1, <1>2, <1>3, <1>4, <1>6, <1>7, <1>8, <1>9, <1>10, <1>11
  DEF Next, MainStep, WorkerStep
-----------------------------------------------------------------------------
(* Generations and what their workers heard of them *)

LEMMA GenInit == Init => GenInv
BY DEF Init, GenInv, Judged

LEMMA GenInvStep ==
    ASSUME TypeOK, CallInv, GenInv, [Next]_vars
    PROVE  GenInv'
<1> USE DEF TypeOK, WorkTypes, GenTypes, GenInv, Judged
<1>1. CASE MainStep
  <2>1. ASSUME NEW m \in Models, Dispatch(m) PROVE GenInv'
    BY <2>1 DEF Dispatch, CallInv, CallTypes
  <2>2. ASSUME ~\E m \in Models : Dispatch(m)
        PROVE  UNCHANGED <<workVars, genVars, done>>
    BY <1>1, <2>2 DEF MainStep, BeginCall, ParseFails, CloseSheet,
                      Relationships, Return
  <2> QED
    BY <2>1, <2>2 DEF workVars, genVars
<1>2. ASSUME NEW m \in Models, Report(m) PROVE GenInv'
  BY <1>2 DEF Report, Count, genVars
<1>3. ASSUME NEW m \in Models, Timeout(m) PROVE GenInv'
  BY <1>3 DEF Timeout, Count, genVars
<1>4. ASSUME NEW m \in Models, WorkerDone(m) \/ WorkerRelease(m) PROVE GenInv'
  BY <1>4 DEF WorkerDone, WorkerRelease, genVars
<1>5. ASSUME NEW m \in Models, NEW result \in Verdicts,
             Finish(m, result), UNCHANGED <<workVars, done>>,
             gen[m] \notin {"off", "put", "ended"}
      PROVE  GenInv'
  BY <1>5 DEF Finish, workVars, Verdicts
<1>6. ASSUME NEW m \in Models, UNCHANGED <<workVars, done, outcome>>,
             gen[m] \notin {"off", "put", "ended"},
             NEW to \in {"core", "limit", "pause", "pass", "fetch", "model",
                        "comps", "sent", "index"},
             gen' = [gen EXCEPT ![m] = to] \/ gen' = gen
      PROVE  GenInv'
  BY <1>6 DEF workVars
<1>7. {"success", "failure", "skipped"} = Verdicts
  BY DEF Verdicts
<1>8. ASSUME NEW m \in Models, CoreModel(m) PROVE GenInv'
  BY <1>5, <1>6, <1>7, <1>8 DEF CoreModel
<1>9. ASSUME NEW m \in Models, NEW c \in Comps,
             CoreComponent(m, c) \/ WriteComponent(m, c)
      PROVE  GenInv'
  BY <1>5, <1>6, <1>7, <1>9 DEF CoreComponent, WriteComponent
<1>10. ASSUME NEW m \in Models, CoreEnd(m) \/ NewGenerator(m) PROVE GenInv'
  BY <1>5, <1>6, <1>7, <1>10 DEF CoreEnd, NewGenerator
<1>11. ASSUME NEW m \in Models, LimitLock(m) \/ LimitPass(m) PROVE GenInv'
  BY <1>5, <1>6, <1>7, <1>11 DEF LimitLock, LimitPass
<1>12. ASSUME NEW m \in Models, Fetch(m) \/ WriteModel(m) PROVE GenInv'
  BY <1>5, <1>6, <1>7, <1>12 DEF Fetch, WriteModel
<1>13. ASSUME NEW m \in Models, Send(m) \/ Track(m) PROVE GenInv'
  BY <1>5, <1>6, <1>7, <1>13 DEF Send, Track
<1>14. ASSUME NEW m \in Models, Put(m) PROVE GenInv'
  BY <1>14 DEF Put, workVars
<1>15. CASE UpdaterStep
  BY <1>15, UpdaterFrame DEF workVars, genVars
<1>16. CASE Restart
  BY <1>16 DEF Restart
<1>17. CASE UNCHANGED vars
  BY <1>17 DEF vars, workVars, genVars
<1> QED
  BY <1>1, <1>2, <1>3, <1>4, <1>8, <1>9, <1>10, <1>11, <1>12, <1>13, <1>14,
     <1>15, <1>16, <1>17 DEF Next, WorkerStep, GenStep
-----------------------------------------------------------------------------
(* What a generation has written, and the spreadsheet goroutine has handled *)

\* What is written, handed over or entered stays so until a restart.
Grows ==
    \A m \in Models :
        /\ disk[m].model => disk'[m].model
        /\ disk[m].comps \subseteq disk'[m].comps
        /\ row = m \/ m \in rows => row' = m \/ m \in rows'
        /\ m \in tracker => m \in tracker'

LEMMA StepGrows ==
    ASSUME TypeOK, CallInv, Next, ~Restart
    PROVE  Grows
<1> USE DEF TypeOK, CallTypes, RestTypes, Grows
<1>1. CASE MainStep
  BY <1>1, MainFrame
<1>2. ASSUME NEW m \in Models, WorkerStep(m) PROVE Grows
  BY <1>2, WorkerFrame DEF sheetVars
<1>3. ASSUME NEW m \in Models, NEW c \in Comps,
             CoreComponent(m, c) \/ WriteComponent(m, c)
      PROVE  Grows
  <2>1. disk' = disk \/ disk' = [disk EXCEPT ![m].comps = @ \cup {c}]
    BY <1>3 DEF CoreComponent, WriteComponent
  <2>2. UNCHANGED <<tracker, row, rows>>
    BY <1>3 DEF CoreComponent, WriteComponent, sheetVars
  <2> QED
    BY <2>1, <2>2
<1>4. ASSUME NEW m \in Models, CoreModel(m) \/ WriteModel(m) PROVE Grows
  <2>1. disk' = disk \/ disk' = [disk EXCEPT ![m].model = TRUE]
    BY <1>4 DEF CoreModel, WriteModel
  <2>2. UNCHANGED <<row, rows>> /\ tracker \subseteq tracker'
    BY <1>4 DEF CoreModel, WriteModel, sheetVars
  <2> QED
    BY <2>1, <2>2
<1>5. ASSUME NEW m \in Models,
             \/ CoreEnd(m) \/ NewGenerator(m) \/ LimitLock(m) \/ LimitPass(m)
             \/ Fetch(m) \/ Track(m) \/ Put(m)
      PROVE  Grows
  BY <1>5 DEF CoreEnd, NewGenerator, LimitLock, LimitPass, Fetch, Track, Put,
              sheetVars
<1>6. ASSUME NEW m \in Models, Send(m) PROVE Grows
  <2>1. UNCHANGED <<disk, tracker, rows>>
    BY <1>6 DEF Send
  <2>2. row' = row \/ row = NoOne
    BY <1>6 DEF Send, CallInv
  <2>3. NoOne \notin Models
    BY GenerationAssumption DEF GenerationAssumption
  <2> QED
    BY <2>1, <2>2, <2>3
<1>7. CASE UpdaterStep
  BY <1>7, UpdaterFrame DEF UpdaterStep, BuildMap, HandleRow, UpdaterEnd
<1> QED
  BY <1>1, <1>2, <1>3, <1>4, <1>5, <1>6, <1>7 DEF Next, GenStep

\* A model whose generation does not move keeps what it has.
LEMMA OutStays ==
    ASSUME TypeOK, TypeOK', Grows, NEW m \in Models, OutAt(m),
           gen'[m] = gen[m], kept'[m] = kept[m], want'[m] = want[m],
           outcome'[m] = outcome[m]
    PROVE  OutAt(m)'
<1> USE DEF Grows
<1>1. disk'[m].comps \subseteq Comps
  BY DEF TypeOK, RestTypes
<1>2. Out(m) => Out(m)'
  BY <1>1 DEF Out
<1> QED
  BY <1>1, <1>2 DEF OutAt

LEMMA OutStep ==
    ASSUME TypeOK, TypeOK', CallInv, GenInv, OutInv, [Next]_vars
    PROVE  OutInv'
<1> USE DEF TypeOK, CallTypes, GenTypes, RestTypes
<1>1. ASSUME UNCHANGED genVars, Grows PROVE OutInv'
  BY <1>1, OutStays DEF OutInv, genVars
<1>2. ASSUME NEW m \in Models, GenStep(m) \/ Fetch(m), Grows, OutAt(m)'
      PROVE  OutInv'
  <2>1. ASSUME NEW x \in Models, x # m
        PROVE  /\ gen'[x] = gen[x] /\ kept'[x] = kept[x]
               /\ want'[x] = want[x] /\ outcome'[x] = outcome[x]
    <3>1. gen'[x] = gen[x] /\ outcome'[x] = outcome[x]
      BY <1>2, <2>1 DEF GenStep, Fetch, CoreModel, CoreComponent, CoreEnd,
           NewGenerator, LimitLock, LimitPass, WriteModel, WriteComponent,
           Send, Track, Put, Finish
    <3>2. kept'[x] = kept[x] /\ want'[x] = want[x]
      BY <1>2, <2>1 DEF GenStep, Fetch, CoreModel, CoreComponent, CoreEnd,
           NewGenerator, LimitLock, LimitPass, WriteModel, WriteComponent,
           Send, Track, Put
    <3> QED
      BY <3>1, <3>2
  <2> QED
    BY <1>2, <2>1, OutStays DEF OutInv
<1>3. ASSUME NEW m \in Models, GenStep(m) \/ Fetch(m), Grows PROVE OutAt(m)'
  <2> USE <1>3 DEF OutAt, Finish
  <2>a. OutAt(m) /\ (outcome[m] # "none" <=> gen[m] \in {"put", "ended"})
    BY DEF OutInv, GenInv
  <2>1. CASE CoreModel(m)
    BY <2>a, <2>1 DEF CoreModel
  <2>2. ASSUME NEW c \in Comps, CoreComponent(m, c) PROVE OutAt(m)'
    BY <2>a, <2>2 DEF CoreComponent
  <2>3. ASSUME NEW c \in Comps, WriteComponent(m, c) PROVE OutAt(m)'
    BY <2>a, <2>3 DEF WriteComponent
  <2>4. CASE CoreEnd(m)
    BY <2>a, <2>4 DEF CoreEnd, Out
  <2>5. CASE NewGenerator(m) \/ LimitLock(m) \/ LimitPass(m)
    BY <2>a, <2>5 DEF NewGenerator, LimitLock, LimitPass
  <2>6. CASE Fetch(m)
    BY <2>a, <2>6 DEF Fetch
  <2>7. CASE WriteModel(m)
    BY <2>a, <2>7 DEF WriteModel
  <2>8. CASE Send(m)
    <3>1. CASE gen' = gen
      BY <2>a, <2>8, <3>1, OutStays DEF Send
    <3>2. CASE gen' # gen
      <4>1. gen[m] = "comps" /\ want[m] = {} /\ row' = m
            /\ gen' = [gen EXCEPT ![m] = "sent"]
            /\ UNCHANGED <<disk, outcome>>
        BY <2>8, <3>2 DEF Send
      <4>2. disk'[m].model /\ disk'[m].comps = Comps /\ Comps # {}
        <5>1. disk[m].model /\ Comps \ {} \subseteq disk[m].comps
          BY <2>a, <4>1
        <5>2. disk[m].comps \subseteq Comps
          OBVIOUS
        <5>3. disk[m].comps = Comps
          BY <5>1, <5>2, Zenon
        <5>4. Comps # {}
          BY GenerationAssumption DEF GenerationAssumption
        <5> QED
          BY <4>1, <5>1, <5>3, <5>4
      <4>3. Out(m)'
        BY <4>1, <4>2 DEF Out
      <4> QED
        BY <2>a, <4>1, <4>3
    <3> QED
      BY <3>1, <3>2
  <2>9. CASE Track(m)
    BY <2>a, <2>9 DEF Track, Out, sheetVars
  <2>10. CASE Put(m)
    <3>1. gen[m] = "put" /\ gen' = [gen EXCEPT ![m] = "ended"]
          /\ UNCHANGED <<disk, outcome, row, rows, tracker>>
      BY <2>10 DEF Put, sheetVars
    <3>2. Out(m)' = Out(m)
      BY <3>1 DEF Out
    <3> QED
      BY <2>a, <3>1, <3>2
  <2> QED
    BY <2>1, <2>2, <2>3, <2>4, <2>5, <2>6, <2>7, <2>8, <2>9, <2>10
    DEF GenStep
<1>4. CASE Restart
  BY <1>4 DEF Restart, OutInv, OutAt
<1>5. CASE UNCHANGED vars
  BY <1>5 DEF vars, genVars, sheetVars, OutInv, OutAt, Out
<1>6. ASSUME NEW m \in Models, Dispatch(m), Grows PROVE OutInv'
  <2>1. gen[m] = "off"
    BY <1>6 DEF Dispatch, CallInv, GenInv
  <2>2. OutAt(m)'
    BY <1>6, <2>1 DEF Dispatch, OutInv, OutAt, GenInv
  <2>3. ASSUME NEW x \in Models, x # m PROVE OutAt(x)'
    BY <1>6, <2>3, OutStays DEF Dispatch, OutInv
  <2> QED
    BY <2>2, <2>3 DEF OutInv
<1>7. ASSUME MainStep, Grows PROVE OutInv'
  BY <1>1, <1>6, <1>7 DEF MainStep, BeginCall, ParseFails, CloseSheet,
       Relationships, Return
<1>8. ASSUME NEW m \in Models, WorkerStep(m), Grows PROVE OutInv'
  BY <1>1, <1>8, WorkerFrame
<1>9. ASSUME UpdaterStep, Grows PROVE OutInv'
  BY <1>1, <1>9, UpdaterFrame
<1> QED
  BY <1>2, <1>3, <1>4, <1>5, <1>7, <1>8, <1>9, StepGrows DEF Next
-----------------------------------------------------------------------------
(* The rate limit *)

LEMMA HubInit == Init => HubInv
BY GenerationAssumption
DEF Init, HubInv, RateRespected, GenerationAssumption

\* No generation enters, leaves or is at the rate limit.
LEMMA HubFrame ==
    ASSUME HubInv, UNCHANGED hubVars,
           \A m \in Models :
               gen'[m] \in {"pause", "pass"} => gen'[m] = gen[m]
    PROVE  HubInv'
BY DEF HubInv, hubVars, LimitReached, RateRespected

LEMMA HubStep ==
    ASSUME TypeOK, HubInv, [Next]_vars
    PROVE  HubInv'
<1> USE DEF TypeOK, GenTypes, RestTypes
<1>1. CASE MainStep
  <2>1. UNCHANGED hubVars
    BY <1>1, MainFrame
  <2>2. gen' = gen \/ \E m \in Models : gen' = [gen EXCEPT ![m] = "begin"]
    BY <1>1 DEF MainStep, BeginCall, ParseFails, Dispatch, CloseSheet,
                Relationships, Return, genVars
  <2> QED
    BY <2>1, <2>2, HubFrame
<1>2. ASSUME NEW m \in Models, WorkerStep(m) PROVE HubInv'
  BY <1>2, WorkerFrame, HubFrame DEF genVars
<1>3. CASE UpdaterStep
  BY <1>3, UpdaterFrame, HubFrame DEF genVars
<1>4. ASSUME NEW m \in Models, UNCHANGED hubVars, gen' = gen \/
             \E to \in {"put", "index", "core", "limit", "fetch", "model",
                       "comps", "sent", "ended"} : gen' = [gen EXCEPT ![m] = to]
      PROVE  HubInv'
  BY <1>4, HubFrame
<1>5. ASSUME NEW m \in Models, CoreModel(m) \/ CoreEnd(m) \/ NewGenerator(m)
      PROVE  HubInv'
  BY <1>4, <1>5 DEF CoreModel, CoreEnd, NewGenerator, Finish
<1>6. ASSUME NEW m \in Models, NEW c \in Comps,
             CoreComponent(m, c) \/ WriteComponent(m, c)
      PROVE  HubInv'
  BY <1>4, <1>6 DEF CoreComponent, WriteComponent, Finish
<1>7. ASSUME NEW m \in Models, Fetch(m) \/ WriteModel(m) PROVE HubInv'
  BY <1>4, <1>7 DEF Fetch, WriteModel, Finish
<1>8. ASSUME NEW m \in Models, Send(m) \/ Track(m) \/ Put(m) PROVE HubInv'
  BY <1>4, <1>8 DEF Send, Track, Put, Finish
<1>9. ASSUME NEW m \in Models, LimitLock(m) PROVE HubInv'
  <2>1. /\ holder = NoOne /\ holder' = m
        /\ gen' = [gen EXCEPT ![m] = IF LimitReached THEN "pause" ELSE "pass"]
        /\ UNCHANGED <<hubCount, sincePause>>
    BY <1>9 DEF LimitLock
  <2>2. \A x \in Models : gen[x] \notin {"pause", "pass"}
    BY <2>1, GenerationAssumption DEF HubInv, GenerationAssumption
  <2>3. LimitReached' = LimitReached
    BY <2>1 DEF LimitReached
  <2>4. \A x \in Models : x # m => gen'[x] = gen[x]
    BY <2>1
  <2>5. gen'[m] = IF LimitReached THEN "pause" ELSE "pass"
    BY <2>1
  <2> QED
    BY <2>1, <2>2, <2>3, <2>4, <2>5 DEF HubInv, RateRespected
<1>10. ASSUME NEW m \in Models, LimitPass(m) PROVE HubInv'
  <2>1. /\ gen[m] \in {"pause", "pass"}
        /\ sincePause' = IF gen[m] = "pause" THEN 1 ELSE sincePause + 1
        /\ hubCount' = hubCount + 1
        /\ gen' = [gen EXCEPT ![m] = "fetch"]
    BY <1>10 DEF LimitPass
  <2>2. \A x \in Models : gen'[x] \notin {"pause", "pass"}
    BY <2>1 DEF HubInv
  <2>3. RateLimit \in Nat \ {0} /\ hubCount \in Nat /\ sincePause \in Nat
    BY GenerationAssumption DEF GenerationAssumption
  <2>4. /\ hubCount' % RateLimit =
             IF hubCount % RateLimit = RateLimit - 1
               THEN 0 ELSE (hubCount % RateLimit) + 1
        /\ (sincePause + 1) % RateLimit =
             IF sincePause % RateLimit = RateLimit - 1
               THEN 0 ELSE (sincePause % RateLimit) + 1
    BY <2>1, <2>3, Successor
  <2>5. CASE gen[m] = "pause"
    <3>1. hubCount % RateLimit = 0
      BY <2>5 DEF HubInv, LimitReached
    <3>3. (0 + 1) % RateLimit = IF 0 = RateLimit - 1 THEN 0 ELSE 0 + 1
      BY <2>3, SuccessorOfZero
    <3>4. sincePause' % RateLimit = hubCount' % RateLimit
      <4>1. sincePause' = 0 + 1
        BY <2>1, <2>5
      <4>2. hubCount' % RateLimit = IF 0 = RateLimit - 1 THEN 0 ELSE 0 + 1
        BY <2>4, <3>1
      <4>3. sincePause' % RateLimit = (0 + 1) % RateLimit
        BY <4>1
      <4> QED
        BY <3>3, <4>2, <4>3
    <3> QED
      BY <2>1, <2>2, <2>3, <2>5, <3>4 DEF HubInv, RateRespected
  <2>6. CASE gen[m] = "pass"
    <3>1. sincePause' = sincePause + 1
      BY <2>1, <2>6
    <3>2. sincePause' % RateLimit = hubCount' % RateLimit
      BY <2>4, <3>1 DEF HubInv
    <3>3. hubCount = 0 \/ hubCount % RateLimit # 0
      BY <2>3, <2>6 DEF HubInv, LimitReached
    <3>4. RateLimit % RateLimit = 0
      BY <2>3
    <3>5. sincePause # RateLimit
      BY <2>3, <3>3, <3>4 DEF HubInv
    <3>6. sincePause' <= RateLimit
      BY <2>3, <3>1, <3>5 DEF HubInv, RateRespected
    <3> QED
      BY <2>1, <2>2, <2>3, <3>2, <3>6 DEF HubInv, RateRespected
  <2> QED
    BY <2>1, <2>5, <2>6
<1>11. CASE Restart
  BY <1>11, GenerationAssumption
  DEF Restart, HubInv, RateRespected, GenerationAssumption
<1>12. CASE UNCHANGED vars
  BY <1>12, HubFrame DEF vars, genVars
<1> QED
  BY <1>1, <1>2, <1>3, <1>5, <1>6, <1>7, <1>8, <1>9, <1>10, <1>11, <1>12
  DEF Next, GenStep
-----------------------------------------------------------------------------
(* Panics *)

\* A generation that finds the channel closed belongs to a worker that left.
LEMMA PanicStep ==
    ASSUME TypeOK, CallInv, GenInv, PanicOnlyAfterTimeout, [Next]_vars
    PROVE  PanicOnlyAfterTimeout'
<1> USE DEF PanicOnlyAfterTimeout, TypeOK, GenTypes, WorkTypes, CallTypes
<1>1. ASSUME panicked, Next PROVE PanicOnlyAfterTimeout'
  BY <1>1 DEF Next, Restart
<1>2. ASSUME ~panicked, NEW m \in Models, Send(m)
      PROVE  PanicOnlyAfterTimeout'
  <2>1. ~panicked' \/ (~chanOpen /\ gen[m] = "comps")
    BY <1>2 DEF Send
  <2>2. ASSUME ~chanOpen, gen[m] = "comps" PROVE timedOut # {}
    <3>1. worker[m] \in {"undone", "ended"}
      BY <2>2 DEF CallInv, GenInv, Past, Pending
    <3> QED
      BY <2>2, <3>1 DEF GenInv, Judged
  <2>3. timedOut' = timedOut
    BY <1>2 DEF Send, workVars
  <2> QED
    BY <2>1, <2>2, <2>3
<1>3. ASSUME ~panicked, NEW m \in Models, CoreModel(m)
      PROVE  PanicOnlyAfterTimeout'
  BY <1>3 DEF CoreModel
<1>4. ASSUME Next, ~panicked,
             ~\E m \in Models : Send(m) \/ CoreModel(m)
      PROVE  ~panicked'
  <2>1. ASSUME NEW m \in Models, NEW c \in Comps,
               CoreComponent(m, c) \/ WriteComponent(m, c)
        PROVE  panicked' = panicked
    BY <2>1 DEF CoreComponent, WriteComponent
  <2>2. ASSUME NEW m \in Models,
               \/ CoreEnd(m) \/ NewGenerator(m) \/ LimitLock(m)
               \/ LimitPass(m) \/ Fetch(m) \/ WriteModel(m) \/ Track(m)
               \/ Put(m)
        PROVE  panicked' = panicked
    BY <2>2 DEF CoreEnd, NewGenerator, LimitLock, LimitPass, Fetch,
                WriteModel, Track, Put
  <2> QED
    BY <1>4, <2>1, <2>2, MainFrame, WorkerFrame, UpdaterFrame
    DEF Next, GenStep, Restart
<1>5. CASE UNCHANGED vars
  BY <1>5 DEF vars, workVars, genVars
<1> QED
  BY <1>1, <1>2, <1>3, <1>4, <1>5
-----------------------------------------------------------------------------
(* The invariant, and the theorems *)

LEMMA Invariance == Spec => []IInv
<1>1. Init => IInv
  <2>1. Init => OutInv
    BY DEF Init, OutInv, OutAt
  <2>2. Init => PanicOnlyAfterTimeout
    BY DEF Init, PanicOnlyAfterTimeout
  <2> QED
    BY <2>1, <2>2, TypeInit, CounterInit, CallInit, GenInit, HubInit DEF IInv
<1>2. IInv /\ [Next]_vars => IInv'
  <2> SUFFICES ASSUME IInv, [Next]_vars PROVE IInv'
    OBVIOUS
  <2>1. TypeOK'
    BY CallTypesStep, WorkTypesStep, GenTypesStep, RestTypesStep
    DEF IInv, TypeOK
  <2>2. CounterInv' /\ CallInv' /\ GenInv'
    BY CounterStep, CallStep, GenInvStep DEF IInv
  <2>3. OutInv'
    BY <2>1, OutStep DEF IInv
  <2>4. HubInv' /\ PanicOnlyAfterTimeout'
    BY HubStep, PanicStep DEF IInv
  <2> QED
    BY <2>1, <2>2, <2>3, <2>4 DEF IInv
<1> QED
  BY <1>1, <1>2, PTL DEF Spec

\* The state of a generation run has its type: the semaphore never has more
\* permits than it began with, and the wait group never goes below zero,
\* which would panic.
THEOREM TypeCorrect == Spec => []TypeOK
<1>1. IInv => TypeOK
  BY DEF IInv
<1> QED
  BY <1>1, Invariance, PTL

\* Without a timeout no generation sends on the closed channel, whatever
\* the order in which workers, generations and the call end.
THEOREM NoPanicWithoutTimeout == Spec => []PanicOnlyAfterTimeout
<1>1. IInv => PanicOnlyAfterTimeout
  BY DEF IInv
<1> QED
  BY <1>1, Invariance, PTL

\* The counts of the summary are the number of models selected.
THEOREM SummaryCorrect == Spec => []SummaryAddsUp
<1>1. IInv => SummaryAddsUp
  <2> SUFFICES ASSUME IInv, main = "returned"
               PROVE  count["success"] + count["failure"] + count["skipped"]
                        = Cardinality(selected)
    BY DEF SummaryAddsUp
  <2>1. todo = {} /\ Pending = {}
    BY DEF IInv, CallInv, Past
  <2>2. \A m \in Models : m \in selected <=> verdict[m] # "none"
    BY <2>1 DEF IInv, TypeOK, WorkTypes, CallInv, Judged, Pending
  <2>3. Counted = selected
    BY <2>2 DEF Counted, IInv, TypeOK, CallTypes
  <2> QED
    BY <2>3 DEF IInv, CounterInv
<1> QED
  BY <1>1, Invariance, PTL

\* A model reported as successful is in the tracker and on the disk, and
\* the spreadsheet goroutine has handled it, when the call returns.
THEOREM SuccessCorrect == Spec => []SuccessIsPublished
<1>1. IInv => SuccessIsPublished
  <2> SUFFICES ASSUME IInv, main = "returned", NEW m \in selected,
                      verdict[m] = "success"
               PROVE  Out(m) /\ m \in tracker /\ row = NoOne
    BY GenerationAssumption
    DEF SuccessIsPublished, Out, IInv, TypeOK, CallTypes, GenerationAssumption
  <2>1. m \in Models
    BY DEF IInv, TypeOK, CallTypes
  <2>2. Out(m) /\ m \in tracker
    BY <2>1 DEF IInv, GenInv, OutInv, OutAt
  <2>3. row = NoOne
    BY DEF IInv, CallInv
  <2> QED
    BY <2>2, <2>3
<1> QED
  BY <1>1, Invariance, PTL

\* Between two pauses at most RateLimit generations go to Artifact Hub.
THEOREM RateCorrect == Spec => []RateRespected
<1>1. IInv => RateRespected
  BY DEF IInv, HubInv
<1> QED
  BY <1>1, Invariance, PTL
=============================================================================
