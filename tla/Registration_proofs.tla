------------------------- MODULE Registration_proofs -------------------------
(***************************************************************************)
(* Proofs about the registry and about what is registered from a           *)
(* directory.                                                              *)
(***************************************************************************)
EXTENDS Registration, Selections_proofs

-----------------------------------------------------------------------------
(***************************************************************************)
(* The registry.  Rows refer to their model by its name, entries by its    *)
(* place; a call that has registered its model relies on the entry until   *)
(* it ends, unless a Cleanup takes it away: then the name is among the cut. *)
(***************************************************************************)
HasEntry(m) ==
    \E i \in DOMAIN entries : entries[i].type = "model" /\ models[entries[i].entity].name = m

\* A model with an entry, or one a Cleanup cut.
Cared(m) == m \in cut \/ HasEntry(m)

Dependent == {"component", "relationship"}

RegistryTypes ==
    /\ \E Values : models \in Seq(Values)
    /\ \E Values : entries \in Seq(Values)
    /\ DOMAIN rows = Types
    /\ \A t \in Types : \E Values : rows[t] \in Seq(Values)
    /\ DOMAIN pc = Callers
    /\ \A i \in DOMAIN models : "name" \in DOMAIN models[i]

RegistryInv ==
    /\ RegistryTypes
    /\ \A i \in DOMAIN entries :
         entries[i].type = "model" => entries[i].entity \in DOMAIN models
    /\ \A t \in Dependent : \A i \in DOMAIN rows[t] : Cared(rows[t][i].model)
    /\ \A p \in Callers : pc[p] = "rest" => Cared(unit[p].model.name)

LEMMA AppendedTo ==
    ASSUME NEW Values, NEW s \in Seq(Values), NEW x
    PROVE  /\ Append(s, x) \in Seq(Values \cup {x})
           /\ DOMAIN s \subseteq DOMAIN Append(s, x)
           /\ \A i \in DOMAIN s : Append(s, x)[i] = s[i]
           /\ \A i \in DOMAIN Append(s, x) : i \in DOMAIN s \/ Append(s, x)[i] = x
           /\ Len(s) + 1 \in DOMAIN Append(s, x) /\ Append(s, x)[Len(s) + 1] = x
<1>2. s \in Seq(Values \cup {x}) /\ x \in Values \cup {x}
  OBVIOUS
<1>3. Append(s, x) \in Seq(Values \cup {x})
  BY <1>2
<1>4. /\ Len(s) \in Nat /\ DOMAIN s = 1 .. Len(s)
      /\ DOMAIN Append(s, x) = 1 .. Len(s) + 1
      /\ \A i \in 1 .. Len(s) : Append(s, x)[i] = s[i]
      /\ Append(s, x)[Len(s) + 1] = x
  BY <1>2
<1> QED
  BY <1>3, <1>4

\* What a registration adds keeps the entries that are there.
LEMMA EntitiesGrow ==
    ASSUME RegistryTypes, NEW h, NEW t, NEW n, NEW m, NEW s, NEW o, RegisterEntity(h, t, n, m, s, o)
    PROVE  /\ \E Values : models' \in Seq(Values)
           /\ DOMAIN models \subseteq DOMAIN models'
           /\ \A i \in DOMAIN models : models'[i] = models[i]
           /\ \A i \in DOMAIN models' : "name" \in DOMAIN models'[i]
           /\ o = "ok" /\ t = "model" => /\ IdIn(models', m) \in DOMAIN models'
                                         /\ models'[IdIn(models', m)].name = m
<1> DEFINE new == [name |-> m, host |-> h, status |-> "enabled"]
<1>1. CASE models' = models /\ (o = "ok" /\ t = "model" => HasModel(m))
  BY <1>1 DEF RegistryTypes, HasModel, IdIn
<1>2. CASE models' = Append(models, new)
  <2>1. new.name = m /\ "name" \in DOMAIN new
    OBVIOUS
  <2> HIDE DEF new
  <2>2. /\ \E Values : models' \in Seq(Values)
        /\ DOMAIN models \subseteq DOMAIN models'
        /\ \A i \in DOMAIN models : models'[i] = models[i]
        /\ \A i \in DOMAIN models' : i \in DOMAIN models \/ models'[i] = new
        /\ \E i \in DOMAIN models' : models'[i] = new
    <3>1. PICK Values : models \in Seq(Values)
      BY DEF RegistryTypes
    <3>2. /\ Append(models, new) \in Seq(Values \cup {new})
          /\ DOMAIN models \subseteq DOMAIN Append(models, new)
          /\ \A i \in DOMAIN models : Append(models, new)[i] = models[i]
          /\ \A i \in DOMAIN Append(models, new) : i \in DOMAIN models \/ Append(models, new)[i] = new
          /\ Len(models) + 1 \in DOMAIN Append(models, new) /\ Append(models, new)[Len(models) + 1] = new
      BY <3>1, AppendedTo
    <3>3. \E T : models' \in Seq(T)
      BY <1>2, <3>2
    <3> QED
      BY <1>2, <3>2, <3>3
  <2> QED
    BY <2>1, <2>2 DEF RegistryTypes, IdIn
<1> QED
  BY <1>1, <1>2 DEF RegisterEntity, CreateEntity

LEMMA EntriesGrow ==
    ASSUME RegistryTypes, NEW h, NEW t, NEW n, NEW m, NEW s, NEW o, RegisterEntity(h, t, n, m, s, o)
    PROVE  /\ \E Values : entries' \in Seq(Values)
           /\ DOMAIN entries \subseteq DOMAIN entries'
           /\ \A i \in DOMAIN entries : entries'[i] = entries[i]
           /\ \A i \in DOMAIN entries' :
                \/ i \in DOMAIN entries
                \/ /\ o = "ok" /\ entries'[i].type = t
                   /\ t = "model" => entries'[i].entity = IdIn(models', m)
           /\ o = "ok" /\ t = "model" =>
                \E i \in DOMAIN entries' :
                   entries'[i].type = t /\ entries'[i].entity = IdIn(models', m)
<1>1. CASE entries' = entries /\ o # "ok"
  BY <1>1 DEF RegistryTypes
<1>2. ASSUME NEW e, e.type = t, t = "model" => e.entity = IdIn(models', m),
             entries' = Append(entries, e), o = "ok"
      PROVE  /\ \E Values : entries' \in Seq(Values)
             /\ DOMAIN entries \subseteq DOMAIN entries'
             /\ \A i \in DOMAIN entries : entries'[i] = entries[i]
             /\ \A i \in DOMAIN entries' : i \in DOMAIN entries \/ entries'[i] = e
             /\ \E i \in DOMAIN entries' : entries'[i] = e
  <2>1. PICK Values : entries \in Seq(Values)
    BY DEF RegistryTypes
  <2>2. /\ Append(entries, e) \in Seq(Values \cup {e})
        /\ DOMAIN entries \subseteq DOMAIN Append(entries, e)
        /\ \A i \in DOMAIN entries : Append(entries, e)[i] = entries[i]
        /\ \A i \in DOMAIN Append(entries, e) : i \in DOMAIN entries \/ Append(entries, e)[i] = e
        /\ Len(entries) + 1 \in DOMAIN Append(entries, e) /\ Append(entries, e)[Len(entries) + 1] = e
    BY <2>1, AppendedTo
  <2>3. \E T : entries' \in Seq(T)
    BY <1>2, <2>2
  <2> QED
    BY <1>2, <2>2, <2>3
<1>3. CASE o = "ok"
  <2> DEFINE e == [host |-> h, type |-> t,
                   entity |-> IF t = "model" THEN IdIn(models', m) ELSE Len(rows'[t])]
  <2>1. entries' = Append(entries, e)
    BY <1>3 DEF RegisterEntity
  <2>2. e.type = t /\ (t = "model" => e.entity = IdIn(models', m))
    OBVIOUS
  <2> HIDE DEF e
  <2> QED
    BY <1>2, <1>3, <2>1, <2>2
<1> QED
  BY <1>1, <1>3 DEF RegisterEntity

LEMMA RowsGrow ==
    ASSUME RegistryTypes, NEW h, NEW t, NEW n, NEW m, NEW s, NEW o, RegisterEntity(h, t, n, m, s, o)
    PROVE  /\ DOMAIN rows' = Types
           /\ \A u \in Types : \E Values : rows'[u] \in Seq(Values)
           /\ \A u \in Types : \A i \in DOMAIN rows'[u] :
                \/ i \in DOMAIN rows[u] /\ rows'[u][i] = rows[u][i]
                \/ u = t /\ rows'[u][i].model = m
<1>1. CASE rows' = rows
  BY <1>1 DEF RegistryTypes
<1>2. CASE rows' = [rows EXCEPT ![t] = Append(@, [name |-> n, model |-> m, status |-> s])]
  <2> DEFINE row == [name |-> n, model |-> m, status |-> s]
  <2>1. row.model = m
    OBVIOUS
  <2> HIDE DEF row
  <2>2. ASSUME NEW u \in Types
        PROVE  rows'[u] = IF u = t THEN Append(rows[u], row) ELSE rows[u]
    BY <1>2 DEF RegistryTypes, row
  <2>3. ASSUME NEW u \in Types
        PROVE  /\ \E Values : rows'[u] \in Seq(Values)
               /\ \A i \in DOMAIN rows'[u] :
                    \/ i \in DOMAIN rows[u] /\ rows'[u][i] = rows[u][i]
                    \/ u = t /\ rows'[u][i] = row
    <3>1. PICK Values : rows[u] \in Seq(Values)
      BY DEF RegistryTypes
    <3>2. /\ Append(rows[u], row) \in Seq(Values \cup {row})
          /\ DOMAIN rows[u] \subseteq DOMAIN Append(rows[u], row)
          /\ \A i \in DOMAIN rows[u] : Append(rows[u], row)[i] = rows[u][i]
          /\ \A i \in DOMAIN Append(rows[u], row) : i \in DOMAIN rows[u] \/ Append(rows[u], row)[i] = row
          /\ Len(rows[u]) + 1 \in DOMAIN Append(rows[u], row) /\ Append(rows[u], row)[Len(rows[u]) + 1] = row
      BY <3>1, AppendedTo
    <3>3. \E T : rows'[u] \in Seq(T)
      BY <2>2, <3>1, <3>2
    <3> QED
      BY <2>2, <3>2, <3>3
  <2> QED
    BY <1>2, <2>1, <2>3 DEF RegistryTypes
<1> QED
  BY <1>1, <1>2 DEF RegisterEntity, CreateEntity

\* RegisterEntity keeps the invariant of the tables, if a component or
\* relationship has its model registered; a model registered has an entry.
LEMMA Registers ==
    ASSUME RegistryInv, NEW h, NEW t, NEW n, NEW m, NEW s, NEW o, RegisterEntity(h, t, n, m, s, o),
           t \in Dependent => Cared(m),
           DOMAIN pc' = Callers, UNCHANGED <<unit, cut>>,
           \A p \in Callers : pc'[p] = "rest" =>
              pc[p] = "rest" \/ (o = "ok" /\ t = "model" /\ unit[p].model.name = m)
    PROVE  RegistryInv'
<1>1. /\ DOMAIN models \subseteq DOMAIN models'
      /\ \A i \in DOMAIN models : models'[i] = models[i]
      /\ \A i \in DOMAIN models' : "name" \in DOMAIN models'[i]
      /\ o = "ok" /\ t = "model" => /\ IdIn(models', m) \in DOMAIN models'
                                    /\ models'[IdIn(models', m)].name = m
  BY EntitiesGrow DEF RegistryInv
<1>2. /\ DOMAIN entries \subseteq DOMAIN entries'
      /\ \A i \in DOMAIN entries : entries'[i] = entries[i]
      /\ \A i \in DOMAIN entries' :
           \/ i \in DOMAIN entries
           \/ /\ o = "ok" /\ entries'[i].type = t
              /\ t = "model" => entries'[i].entity = IdIn(models', m)
      /\ o = "ok" /\ t = "model" =>
           \E i \in DOMAIN entries' :
              entries'[i].type = t /\ entries'[i].entity = IdIn(models', m)
  BY EntriesGrow DEF RegistryInv
<1>3. /\ DOMAIN rows' = Types
      /\ \A u \in Types : \A i \in DOMAIN rows'[u] :
           \/ i \in DOMAIN rows[u] /\ rows'[u][i] = rows[u][i]
           \/ u = t /\ rows'[u][i].model = m
  BY RowsGrow DEF RegistryInv
<1>4. RegistryTypes'
  BY <1>1, EntitiesGrow, EntriesGrow, RowsGrow DEF RegistryInv, RegistryTypes
<1>5. \A i \in DOMAIN entries' :
         entries'[i].type = "model" => entries'[i].entity \in DOMAIN models'
  BY <1>1, <1>2 DEF RegistryInv
<1>6. ASSUME NEW x, HasEntry(x)
      PROVE  \E i \in DOMAIN entries' : /\ entries'[i].type = "model"
                                        /\ models'[entries'[i].entity].name = x
  BY <1>1, <1>2, <1>6 DEF RegistryInv, HasEntry
<1>7. o = "ok" /\ t = "model" =>
        \E i \in DOMAIN entries' : /\ entries'[i].type = "model"
                                   /\ models'[entries'[i].entity].name = m
  BY <1>1, <1>2
<1>10. ASSUME NEW x, Cared(x)
       PROVE  \/ x \in cut'
              \/ \E i \in DOMAIN entries' : /\ entries'[i].type = "model"
                                            /\ models'[entries'[i].entity].name = x
  BY <1>6, <1>10 DEF Cared
<1>8. ASSUME NEW u \in Dependent, NEW i \in DOMAIN rows'[u]
      PROVE  Cared(rows[u][i].model)'
  <2>1. u \in Types
    BY DEF Dependent, Types
  <2>2. CASE i \in DOMAIN rows[u] /\ rows'[u][i] = rows[u][i]
    <3>1. Cared(rows[u][i].model)
      BY <2>2 DEF RegistryInv
    <3> QED
      BY <2>2, <3>1, <1>10 DEF Cared, HasEntry
  <2>3. CASE u = t /\ rows'[u][i].model = m
    BY <2>3, <1>10 DEF Cared, HasEntry
  <2> QED
    BY <1>3, <2>1, <2>2, <2>3
<1>9. ASSUME NEW p \in Callers, pc'[p] = "rest"
      PROVE  Cared(unit[p].model.name)'
  BY <1>10, <1>7, <1>9 DEF RegistryInv, Cared, HasEntry
<1> QED
  BY <1>4, <1>5, <1>8, <1>9 DEF RegistryInv

LEMMA GModel ==
    ASSUME RegistryInv, NEW p \in Callers, NEW o, RegisterModel(p, o)
    PROVE  RegistryInv'
<1>1. RegisterEntity(unit[p].model.host, "model", unit[p].model.name, unit[p].model.name,
                     "enabled", o)
  BY DEF RegisterModel
<1>2. /\ pc' = [pc EXCEPT ![p] = IF o = "ok" THEN "rest" ELSE "returned"]
      /\ UNCHANGED <<unit, cut>>
  BY DEF RegisterModel
<1>3. "model" \notin Dependent
  BY DEF Dependent
<1>4. /\ DOMAIN pc' = Callers
      /\ \A q \in Callers : pc'[q] = "rest" =>
           pc[q] = "rest" \/ (o = "ok" /\ "model" = "model" /\ unit[q].model.name = unit[p].model.name)
  BY <1>2 DEF RegistryInv, RegistryTypes
<1> QED
  BY <1>1, <1>2, <1>3, <1>4, Registers

LEMMA GDefinition ==
    ASSUME RegistryInv, NEW p \in Callers, NEW o, RegisterDefinition(p, o)
    PROVE  RegistryInv'
<1> DEFINE d == Head(todo[p])
<1>1. RegisterEntity(unit[p].model.host, d.kind, d.name, unit[p].model.name, "enabled", o)
  BY DEF RegisterDefinition
<1>2. pc[p] = "rest" /\ UNCHANGED <<pc, unit, cut>>
  BY DEF RegisterDefinition
<1>3. Cared(unit[p].model.name)
  BY <1>2 DEF RegistryInv
<1>4. DOMAIN pc' = Callers
  BY <1>2 DEF RegistryInv, RegistryTypes
<1> HIDE DEF d
<1> QED
  BY <1>1, <1>2, <1>3, <1>4, Registers

LEMMA GPolicy ==
    ASSUME RegistryInv, UNCHANGED regVars, NEW q,
           RegisterEntity(q.host, "policy", q.name, q.model, "enabled", "ok")
    PROVE  RegistryInv'
<1>1. UNCHANGED <<pc, unit, cut>> /\ DOMAIN pc' = Callers /\ "policy" \notin Dependent
  BY DEF regVars, callVars, RegistryInv, RegistryTypes, Dependent
<1> QED
  BY <1>1, Registers

\* A status changes, the names do not.
LEMMA GStatus ==
    ASSUME RegistryInv, UNCHANGED regVars, NEW m, NEW s, UpdateEntityStatus(m, s)
    PROVE  RegistryInv'
<1>1. /\ models' = [i \in DOMAIN models |-> IF models[i].name = m
                                            THEN [models[i] EXCEPT !.status = s] ELSE models[i]]
      /\ UNCHANGED <<entries, rows, pc, unit, cut>>
  BY DEF UpdateEntityStatus, regVars, callVars
<1>2. ASSUME NEW i \in DOMAIN models
      PROVE  models'[i].name = models[i].name /\ "name" \in DOMAIN models'[i]
  BY <1>1 DEF RegistryInv, RegistryTypes
<1>3. PICK Values : models \in Seq(Values)
  BY DEF RegistryInv, RegistryTypes
<1>4. \E T : models' \in Seq(T)
  <2> DEFINE T == {models'[i] : i \in DOMAIN models}
  <2>1. DOMAIN models = 1 .. Len(models) /\ Len(models) \in Nat
    BY <1>3
  <2>2. models' \in [1 .. Len(models) -> T]
    BY <1>1, <2>1
  <2> QED
    BY <2>1, <2>2, SeqDef
<1>5. DOMAIN models' = DOMAIN models
  BY <1>1
<1>6. RegistryTypes'
  BY <1>1, <1>2, <1>4, <1>5 DEF RegistryInv, RegistryTypes
<1>7. ASSUME NEW x, Cared(x)
      PROVE  Cared(x)'
  BY <1>1, <1>2, <1>7 DEF RegistryInv, Cared, HasEntry
<1> QED
  BY <1>1, <1>5, <1>6, <1>7 DEF RegistryInv

\* The steps of a call that leave the tables alone, and the memo.
LEMMA GRest ==
    ASSUME RegistryInv, UNCHANGED <<models, rows, entries, cut>>, DOMAIN pc' = Callers,
           \A p \in Callers : pc'[p] = "rest" => pc[p] = "rest" /\ unit'[p] = unit[p]
    PROVE  RegistryInv'
<1>1. ASSUME NEW x, Cared(x)
      PROVE  Cared(x)'
  BY <1>1 DEF Cared, HasEntry
<1>2. ASSUME NEW p \in Callers, pc'[p] = "rest"
      PROVE  Cared(unit[p].model.name)'
  BY <1>1, <1>2 DEF RegistryInv, Cared, HasEntry
<1>3. RegistryTypes'
  BY DEF RegistryInv, RegistryTypes
<1>4. ASSUME NEW t \in Dependent, NEW i \in DOMAIN rows'[t]
      PROVE  Cared(rows[t][i].model)'
  BY DEF RegistryInv, Cared, HasEntry
<1> QED
  BY <1>2, <1>3, <1>4 DEF RegistryInv

\* The tables are empty; what was half registered is cut.
LEMMA GCleanup ==
    ASSUME RegistryInv, CleanupMeanwhile
    PROVE  RegistryInv'
<1>1. /\ models' = <<>> /\ entries' = <<>>
      /\ rows' = [t \in Types |-> IF t = "policy" THEN rows[t] ELSE <<>>]
      /\ cut' = {unit[p].model.name : p \in {q \in Callers : pc[q] = "rest"}}
      /\ UNCHANGED <<pc, unit>>
  BY DEF CleanupMeanwhile, Cleanup, callVars
<1>2. /\ models' \in Seq({}) /\ entries' \in Seq({}) /\ <<>> \in Seq({})
      /\ DOMAIN models' = {} /\ DOMAIN entries' = {}
  BY <1>1
<1>3. RegistryTypes'
  BY <1>1, <1>2 DEF RegistryInv, RegistryTypes
<1>4. \A t \in Dependent : rows'[t] = <<>>
  BY <1>1 DEF Dependent, Types
<1>5. ASSUME NEW p \in Callers, pc'[p] = "rest"
      PROVE  Cared(unit[p].model.name)'
  BY <1>1, <1>5 DEF Cared
<1> QED
  BY <1>2, <1>3, <1>4, <1>5 DEF RegistryInv

LEMMA GRestart ==
    ASSUME RegistryInv, Restart
    PROVE  RegistryInv'
<1>1. UNCHANGED <<models, rows, entries, cut>> /\ pc' = [p \in Callers |-> "idle"]
  BY DEF Restart, Each
<1> QED
  BY <1>1, GRest

LEMMA UnitsOf == ASSUME NEW d \in Dirs PROVE UnitOf[d] = PackagingUnit(Walked(d.files))
BY DEF UnitOf

LEMMA RegistryStepInv ==
    ASSUME RegistryInv, Next \/ UNCHANGED vars
    PROVE  RegistryInv'
<1>1. ASSUME NEW p \in Callers, NEW d \in Dirs, Register(p, d)
      PROVE  RegistryInv'
  <2>1. UNCHANGED <<models, rows, entries, cut>>
    BY <1>1 DEF Register, registryVars
  <2>2. unit' = [unit EXCEPT ![p] = PackagingUnit(Walked(d.files))]
    BY <1>1, UnitsOf, Zenon DEF Register
  <2>3. pc' = [pc EXCEPT ![p] = "returned"] \/ pc' = [pc EXCEPT ![p] = "model"]
    BY <1>1 DEF Register
  <2> QED
    BY <2>1, <2>2, <2>3, GRest DEF RegistryInv, RegistryTypes
<1>2. ASSUME NEW p \in Callers, NEW o \in Outcomes, RegisterModel(p, o) \/ RegisterDefinition(p, o)
      PROVE  RegistryInv'
  BY <1>2, GModel, GDefinition
<1>3. ASSUME NEW p \in Callers, SkipComponent(p) \/ Finish(p)
      PROVE  RegistryInv'
  <2>1. UNCHANGED <<models, rows, entries, unit, cut>>
    BY <1>3 DEF SkipComponent, Finish, registryVars
  <2>2. pc' = [pc EXCEPT ![p] = "returned"] \/ pc' = pc \/ pc' = [pc EXCEPT ![p] = "panicked"]
    BY <1>3 DEF SkipComponent, Finish
  <2> QED
    BY <2>1, <2>2, GRest DEF RegistryInv, RegistryTypes
<1>4. ASSUME UNCHANGED regVars, NEW f, GetEntitiesMemoized(f)
      PROVE  RegistryInv'
  BY <1>4, GRest DEF GetEntitiesMemoized, regVars, callVars, RegistryInv, RegistryTypes
<1>5. CASE UNCHANGED regVars /\ NewRegistryManager
  BY <1>5, GRest DEF NewRegistryManager, regVars, callVars, RegistryInv, RegistryTypes
<1>6. CASE UNCHANGED vars
  BY <1>6, GRest DEF vars, registryVars, regVars, callVars, RegistryInv, RegistryTypes
<1> QED
  BY <1>1, <1>2, <1>3, <1>4, <1>5, <1>6, GPolicy, GStatus, GCleanup, GRestart DEF Next

LEMMA RegistryInitInv ==
    ASSUME Init
    PROVE  RegistryInv
<1>1. /\ models = <<>> /\ entries = <<>> /\ rows = [t \in Types |-> <<>>]
      /\ pc = [p \in Callers |-> "idle"]
  BY DEF Init, RegistryInit, Each
<1>2. <<>> \in Seq({}) /\ DOMAIN models = {} /\ DOMAIN entries = {}
  BY <1>1
<1>3. \A t \in Types : rows[t] = <<>>
  BY <1>1
<1>4. \A t \in Dependent : DOMAIN rows[t] = {}
  BY <1>3 DEF Dependent, Types
<1> QED
  BY <1>1, <1>2, <1>3, <1>4 DEF RegistryInv, RegistryTypes

LEMMA RegistryNoOrphans == RegistryInv => NoOrphans
BY DEF RegistryInv, NoOrphans, Cared, HasEntry, Dependent, ToSet

LEMMA MemoAsked ==
    ASSUME NEW f, GetEntitiesMemoized(f), memo'[f].entities = <<>>
    PROVE  Get(f).entities = <<>>
BY DEF GetEntitiesMemoized, Hit

-----------------------------------------------------------------------------
(***************************************************************************)
(* What a call reads, and what its packaging unit holds.                   *)
(***************************************************************************)
Defining == {"component", "relationship", "connection"}
AllFiles == UNION {ToSet(d.files) \cup UNION {ToSet(f.inside) : f \in ToSet(d.files)} : d \in Dirs}
PkgUnits == [model : AllFiles \cup {NoModel}, components : Seq(AllFiles),
             relationships : Seq(AllFiles), connections : Seq(AllFiles)]

LEMMA WalkedFiles ==
    ASSUME NEW d \in Dirs
    PROVE  /\ Walked(d.files) \in Seq(AllFiles)
           /\ \A f \in ToSet(Walked(d.files)) : f.kind \in Kinds
<1> DEFINE files == d.files
           ss == [i \in DOMAIN files |->
                    IF files[i].kind = "archive" THEN files[i].inside ELSE <<files[i]>>]
<1>1. /\ files \in Seq(ToSet(files))
      /\ \A f \in ToSet(files) :
           /\ f.kind \in Kinds \cup {"archive"}
           /\ f.inside \in Seq(ToSet(f.inside)) /\ \A g \in ToSet(f.inside) : g.kind \in Kinds
  BY RegistrationAssumption DEF IsSequence, ToSet
<1>2. /\ ToSet(files) \subseteq AllFiles
      /\ \A f \in ToSet(files) : ToSet(f.inside) \subseteq AllFiles
  BY DEF AllFiles
<1>3. ASSUME NEW i \in DOMAIN files
      PROVE  ss[i] \in Seq(AllFiles) /\ \A f \in ToSet(ss[i]) : f.kind \in Kinds
  <2>1. files[i] \in ToSet(files)
    BY DEF ToSet
  <2>2. CASE files[i].kind = "archive"
    <3>1. ss[i] = files[i].inside
      BY <2>2
    <3>2. files[i].inside \in Seq(AllFiles)
      BY <1>1, <1>2, <2>1, WiderSeq
    <3> QED
      BY <1>1, <2>1, <3>1, <3>2
  <2>3. CASE files[i].kind # "archive"
    <3>1. ss[i] = <<files[i]>>
      BY <2>3
    <3>2. files[i] \in AllFiles /\ ToSet(<<files[i]>>) = {files[i]}
      BY <1>2, <2>1 DEF ToSet
    <3>3. files[i].kind \in Kinds
      BY <1>1, <2>1, <2>3
    <3>4. <<files[i]>> \in Seq(AllFiles)
      BY <3>2
    <3> HIDE DEF ss
    <3> QED
      BY <3>1, <3>2, <3>3, <3>4
  <2> QED
    BY <2>2, <2>3
<1>4. ss \in Seq(Seq(AllFiles)) /\ DOMAIN ss = DOMAIN files
  <2>1. DOMAIN files = 1 .. Len(files) /\ Len(files) \in Nat
    BY <1>1
  <2>2. ss \in [1 .. Len(files) -> Seq(AllFiles)]
    BY <1>3, <2>1
  <2> QED
    BY <2>1, <2>2, SeqDef
<1>5. Walked(files) = Joined(ss)
  BY DEF Walked
<1> HIDE DEF ss
<1>6. /\ Joined(ss) \in Seq(AllFiles)
      /\ ToSet(Joined(ss)) = UNION {ToSet(ss[i]) : i \in DOMAIN ss}
  BY <1>4, JoinedElements
<1> QED
  BY <1>3, <1>4, <1>5, <1>6

LEMMA OfKindFiles ==
    ASSUME NEW A, NEW s \in Seq(A), NEW k
    PROVE  /\ OfKind(s, k) \in Seq(A)
           /\ ToSet(OfKind(s, k)) = {f \in ToSet(s) : f.kind = k}
BY ThoseElements DEF OfKind

LEMMA DefinitionFiles ==
    ASSUME NEW A, NEW u, u.components \in Seq(A), u.relationships \in Seq(A),
           u.connections \in Seq(A)
    PROVE  /\ Definitions(u) \in Seq(A)
           /\ ToSet(Definitions(u)) =
                ToSet(u.components) \cup ToSet(u.relationships) \cup ToSet(u.connections)
<1> DEFINE v == u.components \o u.relationships
<1>1. v \in Seq(A) /\ ToSet(v) = ToSet(u.components) \cup ToSet(u.relationships)
  BY ConcatElements
<1>2. Definitions(u) = v \o u.connections
  BY DEF Definitions
<1> HIDE DEF v
<1>3. /\ v \o u.connections \in Seq(A)
      /\ ToSet(v \o u.connections) = ToSet(v) \cup ToSet(u.connections)
  BY <1>1, ConcatElements
<1> QED
  BY <1>1, <1>2, <1>3

\* A unit of definitions, and a unit reduced to some of them.
LEMMA UnitFiles ==
    ASSUME NEW A, NEW s \in Seq(A), NEW u,
           u.components = OfKind(s, "component"),
           u.relationships = OfKind(s, "relationship"),
           u.connections = OfKind(s, "connection")
    PROVE  /\ u.components \in Seq(A) /\ u.relationships \in Seq(A) /\ u.connections \in Seq(A)
           /\ Definitions(u) \in Seq(A)
           /\ ToSet(Definitions(u)) = {f \in ToSet(s) : f.kind \in Defining}
<1>1. /\ u.components \in Seq(A) /\ u.relationships \in Seq(A) /\ u.connections \in Seq(A)
      /\ ToSet(u.components) = {f \in ToSet(s) : f.kind = "component"}
      /\ ToSet(u.relationships) = {f \in ToSet(s) : f.kind = "relationship"}
      /\ ToSet(u.connections) = {f \in ToSet(s) : f.kind = "connection"}
  BY OfKindFiles
<1>2. /\ Definitions(u) \in Seq(A)
      /\ ToSet(Definitions(u)) =
           ToSet(u.components) \cup ToSet(u.relationships) \cup ToSet(u.connections)
  BY <1>1, DefinitionFiles
<1> QED
  BY <1>1, <1>2 DEF Defining

LEMMA PackagingUnitFiles ==
    ASSUME NEW s \in Seq(AllFiles)
    PROVE  /\ PackagingUnit(s) \in PkgUnits
           /\ ToSet(Definitions(PackagingUnit(s))) = {f \in ToSet(s) : f.kind \in Defining}
           /\ Definitions(PackagingUnit(s)) \in Seq(AllFiles)
<1> DEFINE u == PackagingUnit(s)
           ms == OfKind(s, "model")
<1>1. /\ u = [model |-> u.model, components |-> u.components,
              relationships |-> u.relationships, connections |-> u.connections]
      /\ u.model = IF ms = <<>> THEN NoModel ELSE Last(ms)
      /\ u.components = OfKind(s, "component") /\ u.relationships = OfKind(s, "relationship")
      /\ u.connections = OfKind(s, "connection")
  BY DEF PackagingUnit
<1>2. ms \in Seq(AllFiles)
  BY OfKindFiles
<1>3. u.model \in AllFiles \cup {NoModel}
  <2>1. ms # <<>> => Last(ms) \in AllFiles
    BY <1>2 DEF Last
  <2> QED
    BY <1>1, <2>1
<1> HIDE DEF u
<1>4. /\ u.components \in Seq(AllFiles) /\ u.relationships \in Seq(AllFiles)
      /\ u.connections \in Seq(AllFiles) /\ Definitions(u) \in Seq(AllFiles)
      /\ ToSet(Definitions(u)) = {f \in ToSet(s) : f.kind \in Defining}
  BY <1>1, UnitFiles
<1> QED
  BY <1>1, <1>3, <1>4 DEF PkgUnits, u

-----------------------------------------------------------------------------
(***************************************************************************)
(* What is registered stays: a model keeps its name and its place, a name  *)
(* has one model, the registrant of a model's entry is in the connections. *)
(***************************************************************************)
RegisteredAs(h, m) ==
    \E i \in DOMAIN entries : /\ entries[i].type = "model" /\ entries[i].host = h
                              /\ models[entries[i].entity].name = m
HasRow(d) == \E i \in DOMAIN rows[d.kind] : rows[d.kind][i].name = d.name
Found(u) == /\ RegisteredAs(u.model.host, u.model.name)
            /\ \A d \in ToSet(Definitions(u)) : d.kind \in Defining /\ HasRow(d)

TablesInv ==
    /\ RegistryInv
    /\ \A i, j \in DOMAIN models : models[i].name = models[j].name => i = j
    /\ \E Values : hosts \in Seq(Values)
    /\ \A i \in DOMAIN entries :
         entries[i].type = "model" => entries[i].host # "" /\ entries[i].host \in ToSet(hosts)

Registrant(h, t) == t = "model" => h # ""

\* A step keeps what is registered.
Keeps ==
    /\ \A h, m : RegisteredAs(h, m) => RegisteredAs(h, m)'
    /\ \A d : d.kind \in Defining /\ HasRow(d) => HasRow(d)'

LEMMA NamesUnique ==
    ASSUME RegistryTypes, NEW h, NEW t, NEW n, NEW m, NEW s, NEW o, RegisterEntity(h, t, n, m, s, o),
           \A i, j \in DOMAIN models : models[i].name = models[j].name => i = j
    PROVE  \A i, j \in DOMAIN models' : models'[i].name = models'[j].name => i = j
<1> DEFINE new == [name |-> m, host |-> h, status |-> "enabled"]
<1>1. CASE models' = models
  BY <1>1
<1>2. CASE models' = Append(models, new) /\ ~HasModel(m)
  <2>1. new.name = m
    OBVIOUS
  <2> HIDE DEF new
  <2>2. PICK Values : models \in Seq(Values)
    BY DEF RegistryTypes
  <2>3. /\ DOMAIN models = 1 .. Len(models) /\ Len(models) \in Nat
        /\ DOMAIN models' = 1 .. Len(models) + 1
        /\ \A i \in DOMAIN models : models'[i] = models[i]
        /\ models'[Len(models) + 1] = new
    BY <1>2, <2>2
  <2> QED
    BY <1>2, <2>1, <2>3 DEF HasModel
<1> QED
  BY <1>1, <1>2 DEF RegisterEntity, CreateEntity

LEMMA HostsGrow ==
    ASSUME NEW Values, hosts \in Seq(Values),
           NEW h, NEW t, NEW n, NEW m, NEW s, NEW o, RegisterEntity(h, t, n, m, s, o)
    PROVE  /\ \E T : hosts' \in Seq(T)
           /\ ToSet(hosts) \subseteq ToSet(hosts')
           /\ o # "registrant" => h \in ToSet(hosts')
<1>1. CASE hosts' = hosts /\ (o = "registrant" \/ h \in ToSet(hosts))
  BY <1>1
<1>2. CASE hosts' = Append(hosts, h)
  <2>1. hosts \in Seq(Values \cup {h}) /\ h \in Values \cup {h}
    BY WiderSeq
  <2>2. Append(hosts, h) \in Seq(Values \cup {h}) /\ ToSet(Append(hosts, h)) = ToSet(hosts) \cup {h}
    BY <2>1, AppendElements
  <2> QED
    BY <1>2, <2>2
<1> QED
  BY <1>1, <1>2 DEF RegisterEntity

LEMMA RowsStay ==
    ASSUME RegistryTypes, NEW h, NEW t, NEW n, NEW m, NEW s, NEW o, RegisterEntity(h, t, n, m, s, o)
    PROVE  /\ \A u \in Types : /\ DOMAIN rows[u] \subseteq DOMAIN rows'[u]
                               /\ \A i \in DOMAIN rows[u] : rows'[u][i] = rows[u][i]
           /\ o = "ok" /\ t \in Types => \E i \in DOMAIN rows'[t] : rows'[t][i].name = n
<1>1. CASE rows' = rows /\ (o # "ok" \/ t = "model")
  BY <1>1 DEF Types
<1>2. CASE rows' = [rows EXCEPT ![t] = Append(@, [name |-> n, model |-> m, status |-> s])]
  <2> DEFINE row == [name |-> n, model |-> m, status |-> s]
  <2>1. row.name = n
    OBVIOUS
  <2>2. ASSUME NEW u \in Types
        PROVE  rows'[u] = IF u = t THEN Append(rows[u], row) ELSE rows[u]
    BY <1>2 DEF RegistryTypes
  <2> HIDE DEF row
  <2>3. ASSUME NEW u \in Types
        PROVE  /\ DOMAIN rows[u] \subseteq DOMAIN rows'[u]
               /\ \A i \in DOMAIN rows[u] : rows'[u][i] = rows[u][i]
               /\ u = t => \E i \in DOMAIN rows'[u] : rows'[u][i] = row
    <3>1. PICK Values : rows[u] \in Seq(Values)
      BY DEF RegistryTypes
    <3>2. /\ DOMAIN rows[u] \subseteq DOMAIN Append(rows[u], row)
          /\ \A i \in DOMAIN rows[u] : Append(rows[u], row)[i] = rows[u][i]
          /\ Len(rows[u]) + 1 \in DOMAIN Append(rows[u], row) /\ Append(rows[u], row)[Len(rows[u]) + 1] = row
      BY <3>1, AppendedTo
    <3> QED
      BY <2>2, <3>2
  <2> QED
    BY <2>1, <2>3
<1> QED
  BY <1>1, <1>2 DEF RegisterEntity, CreateEntity

LEMMA EntryMade ==
    ASSUME RegistryTypes, NEW h, NEW t, NEW n, NEW m, NEW s, NEW o, RegisterEntity(h, t, n, m, s, o)
    PROVE  /\ \A i \in DOMAIN entries' :
                \/ i \in DOMAIN entries
                \/ o = "ok" /\ entries'[i].host = h /\ entries'[i].type = t
           /\ o = "ok" /\ t = "model" =>
                \E i \in DOMAIN entries' : /\ entries'[i].type = t /\ entries'[i].host = h
                                           /\ entries'[i].entity = IdIn(models', m)
<1>1. CASE o # "ok"
  BY <1>1 DEF RegisterEntity
<1>2. CASE o = "ok"
  <2> DEFINE e == [host |-> h, type |-> t,
                   entity |-> IF t = "model" THEN IdIn(models', m) ELSE Len(rows'[t])]
  <2>1. entries' = Append(entries, e)
    BY <1>2 DEF RegisterEntity
  <2>2. e.host = h /\ e.type = t /\ (t = "model" => e.entity = IdIn(models', m))
    OBVIOUS
  <2> HIDE DEF e
  <2>3. PICK Values : entries \in Seq(Values)
    BY DEF RegistryTypes
  <2>4. /\ \A i \in DOMAIN Append(entries, e) : i \in DOMAIN entries \/ Append(entries, e)[i] = e
        /\ Len(entries) + 1 \in DOMAIN Append(entries, e) /\ Append(entries, e)[Len(entries) + 1] = e
    BY <2>3, AppendedTo
  <2> QED
    BY <1>2, <2>1, <2>2, <2>4
<1> QED
  BY <1>1, <1>2

\* RegisterEntity: what it keeps, and what can be found afterwards.
LEMMA RegistersFound ==
    ASSUME TablesInv, RegistryInv', NEW h, NEW t, NEW n, NEW m, NEW s, NEW o,
           RegisterEntity(h, t, n, m, s, o), Registrant(h, t)
    PROVE  /\ TablesInv' /\ Keeps
           /\ o = "ok" /\ t = "model" => RegisteredAs(h, m)'
           /\ o = "ok" /\ t \in Types => \E i \in DOMAIN rows'[t] : rows'[t][i].name = n
<1>1. RegistryTypes
  BY DEF TablesInv, RegistryInv
<1>2. PICK Values : hosts \in Seq(Values)
  BY DEF TablesInv
<1>3. /\ \E T : models' \in Seq(T)
      /\ DOMAIN models \subseteq DOMAIN models'
      /\ \A i \in DOMAIN models : models'[i] = models[i]
      /\ \A i \in DOMAIN models' : "name" \in DOMAIN models'[i]
      /\ o = "ok" /\ t = "model" => /\ IdIn(models', m) \in DOMAIN models'
                                    /\ models'[IdIn(models', m)].name = m
  BY <1>1, EntitiesGrow
<1>4. /\ \E T : entries' \in Seq(T)
      /\ DOMAIN entries \subseteq DOMAIN entries'
      /\ \A i \in DOMAIN entries : entries'[i] = entries[i]
      /\ \A i \in DOMAIN entries' :
           \/ i \in DOMAIN entries
           \/ /\ o = "ok" /\ entries'[i].type = t
              /\ t = "model" => entries'[i].entity = IdIn(models', m)
      /\ o = "ok" /\ t = "model" =>
           \E i \in DOMAIN entries' :
              entries'[i].type = t /\ entries'[i].entity = IdIn(models', m)
  BY <1>1, EntriesGrow
<1>5. /\ \A i \in DOMAIN entries' :
           \/ i \in DOMAIN entries
           \/ o = "ok" /\ entries'[i].host = h /\ entries'[i].type = t
      /\ o = "ok" /\ t = "model" =>
           \E i \in DOMAIN entries' : /\ entries'[i].type = t /\ entries'[i].host = h
                                      /\ entries'[i].entity = IdIn(models', m)
  BY <1>1, EntryMade
<1>6. /\ \E T : hosts' \in Seq(T)
      /\ ToSet(hosts) \subseteq ToSet(hosts')
      /\ o # "registrant" => h \in ToSet(hosts')
  BY <1>2, HostsGrow
<1>7. \A i, j \in DOMAIN models' : models'[i].name = models'[j].name => i = j
  BY <1>1, NamesUnique DEF TablesInv
<1>8. \A i \in DOMAIN entries' :
         entries'[i].type = "model" => entries'[i].host # "" /\ entries'[i].host \in ToSet(hosts')
  BY <1>4, <1>5, <1>6 DEF TablesInv, Registrant
<1>9. TablesInv'
  BY <1>6, <1>7, <1>8 DEF TablesInv
<1>10. ASSUME NEW g, NEW x, RegisteredAs(g, x)
       PROVE  RegisteredAs(g, x)'
  BY <1>3, <1>4, <1>10 DEF RegisteredAs, TablesInv, RegistryInv
<1>11. /\ \A u \in Types : /\ DOMAIN rows[u] \subseteq DOMAIN rows'[u]
                           /\ \A i \in DOMAIN rows[u] : rows'[u][i] = rows[u][i]
       /\ o = "ok" /\ t \in Types => \E i \in DOMAIN rows'[t] : rows'[t][i].name = n
  BY <1>1, RowsStay
<1>12. ASSUME NEW d, d.kind \in Defining, HasRow(d)
       PROVE  HasRow(d)'
  BY <1>11, <1>12 DEF HasRow, Defining, Types
<1>13. o = "ok" /\ t = "model" => RegisteredAs(h, m)'
  <2>1. CASE o = "ok" /\ t = "model"
    BY <1>3, <1>5, <2>1 DEF RegisteredAs
  <2> QED
    BY <2>1
<1> QED
  BY <1>9, <1>10, <1>11, <1>12, <1>13 DEF Keeps

-----------------------------------------------------------------------------
(***************************************************************************)
(* A call.  Until it returns, a definition of its unit is still to be      *)
(* registered, or it was registered, or it is in the error store, or it is *)
(* a component to be ignored; what it registered can be found, unless a    *)
(* Cleanup came after it.                                                  *)
(***************************************************************************)
CallTypes(p) ==
    /\ unit[p] \in PkgUnits /\ units[p] \in Seq(PkgUnits)
    /\ lost[p] \in Nat /\ lost[p] <= Len(units[p]) + 1
    /\ todo[p] \in Seq(AllFiles) /\ kept[p] \in Seq(AllFiles)
    /\ pc[p] # "idle" => dir[p] \in Dirs /\ unit[p] = PackagingUnit(Walked(dir[p].files))

Handled(p, d) ==
    \/ d \in ToSet(todo[p]) \cup ToSet(kept[p])
    \/ d.name \in errs[p]
    \/ d.kind = "component" /\ d.status = "ignored"

AccountedFor(p, f) ==
    LET u == unit[p]
    IN  \/ f.kind \in Skipped
        \/ {f.name, u.model.name, "directory"} \cap errs[p] # {}
        \/ Empty(u) \/ Ignored(u)
        \/ Replaced(p, f)
        \/ f.kind = "component" /\ f.status = "ignored"
        \/ units[p] # <<>> /\ f \in {Last(units[p]).model} \cup ToSet(Definitions(Last(units[p])))

\* No Cleanup cut the call of p.
Intact(p) == lost[p] <= Len(units[p])

CallInv(p) ==
    /\ CallTypes(p)
    /\ pc[p] \in {"model", "rest"} =>
         /\ unit[p].model.host # ""
         /\ ReadErrors(Walked(dir[p].files)) \subseteq errs[p]
         /\ \A d \in ToSet(Definitions(unit[p])) : Handled(p, d)
    /\ pc[p] \notin {"rest", "panicked"} => Intact(p)
    /\ pc[p] = "model" => kept[p] = <<>>
    /\ pc[p] = "rest" /\ Intact(p) =>
         /\ RegisteredAs(unit[p].model.host, unit[p].model.name)
         /\ \A d \in ToSet(kept[p]) : HasRow(d)
    /\ \A d \in ToSet(todo[p]) \cup ToSet(kept[p]) : d.kind \in Defining
    /\ \A i \in lost[p] + 1 .. Len(units[p]) : Found(units[p][i])
    /\ pc[p] = "returned" => \A f \in ToSet(Walked(dir[p].files)) : AccountedFor(p, f)

CallsInv ==
    /\ TablesInv
    /\ DOMAIN pc = Callers /\ DOMAIN dir = Callers /\ DOMAIN unit = Callers
    /\ DOMAIN todo = Callers /\ DOMAIN kept = Callers /\ DOMAIN units = Callers
    /\ DOMAIN errs = Callers /\ DOMAIN lost = Callers
    /\ \A p \in Callers : CallInv(p)

Same(p) == UNCHANGED <<pc[p], dir[p], unit[p], todo[p], kept[p], units[p], errs[p], lost[p]>>

LEMMA UnitsTyped ==
    ASSUME NEW p, CallInv(p)
    PROVE  /\ units[p] \in Seq(PkgUnits) /\ Len(units[p]) \in Nat
           /\ lost[p] \in Nat /\ lost[p] <= Len(units[p]) + 1
<1>1. units[p] \in Seq(PkgUnits) /\ lost[p] \in Nat /\ lost[p] <= Len(units[p]) + 1
  BY Zenon DEF CallInv, CallTypes
<1> QED
  BY <1>1

LEMMA FoundKeeps ==
    ASSUME Keeps, NEW u, Found(u)
    PROVE  Found(u)'
BY DEF Found, Keeps

\* A call that did not make the step keeps its invariant.
LEMMA OthersKeep ==
    ASSUME NEW p, CallInv(p), Same(p), Keeps
    PROVE  CallInv(p)'
<1>1. CallTypes(p)'
  BY DEF CallInv, CallTypes, Same
<1>2. \A d : Handled(p, d) => Handled(p, d)'
  BY DEF Handled, Same
<1>3. \A f : AccountedFor(p, f) => AccountedFor(p, f)'
  BY DEF AccountedFor, Replaced, Same
<1>4. ASSUME NEW i \in lost[p] + 1 .. Len(units[p])
      PROVE  Found(units[p][i])'
  BY FoundKeeps DEF CallInv, Same
<1>5. Intact(p)' = Intact(p)
  BY DEF Intact, Same
<1> QED
  BY <1>1, <1>2, <1>3, <1>4, <1>5 DEF CallInv, Same, Keeps

\* A step that leaves the calls alone.
LEMMA CallsRest ==
    ASSUME CallsInv, TablesInv', Keeps, UNCHANGED <<pc, dir, unit, todo, kept, units, errs, lost>>
    PROVE  CallsInv'
<1>1. \A p \in Callers : CallInv(p)'
  BY OthersKeep DEF CallsInv, Same
<1> QED
  BY <1>1 DEF CallsInv

\* A step that changes only the call of p.
LEMMA CallOf ==
    ASSUME CallsInv, TablesInv', Keeps, NEW p \in Callers, CallInv(p)',
           DOMAIN pc' = Callers, DOMAIN dir' = Callers, DOMAIN unit' = Callers,
           DOMAIN todo' = Callers, DOMAIN kept' = Callers, DOMAIN units' = Callers,
           DOMAIN errs' = Callers, DOMAIN lost' = Callers,
           \A q \in Callers : q # p => Same(q)
    PROVE  CallsInv'
<1>1. \A q \in Callers : CallInv(q)'
  BY OthersKeep DEF CallsInv
<1> QED
  BY <1>1 DEF CallsInv

\* The tables are as they were.
LEMMA TablesKept ==
    ASSUME TablesInv, RegistryInv', UNCHANGED <<hosts, models, rows, entries>>
    PROVE  TablesInv' /\ Keeps
BY DEF TablesInv, Keeps, RegisteredAs, HasRow

LEMMA CRegister ==
    ASSUME CallsInv, RegistryInv', NEW p \in Callers, NEW d \in Dirs, Register(p, d)
    PROVE  CallsInv'
<1> DEFINE files == Walked(d.files)
           u == UnitOf[d]
           stop == ~d.accessible \/ u.model = NoModel
           quiet == ~stop /\ (Empty(u) \/ Ignored(u))
           found == (IF d.accessible THEN ReadErrors(files) ELSE {})
                    \cup (IF stop THEN {"directory"} ELSE {})
                    \cup (IF ~stop /\ ~quiet /\ Orphan(u) THEN {u.model.name} ELSE {})
           at == IF stop \/ quiet \/ Orphan(u) THEN "returned" ELSE "model"
<1>1. /\ UNCHANGED <<hosts, models, rows, entries, units, lost>>
      /\ dir' = [dir EXCEPT ![p] = d] /\ unit' = [unit EXCEPT ![p] = u]
      /\ todo' = [todo EXCEPT ![p] = Definitions(u)] /\ kept' = [kept EXCEPT ![p] = <<>>]
      /\ errs' = [errs EXCEPT ![p] = found] /\ pc' = [pc EXCEPT ![p] = at]
  BY Zenon DEF Register, registryVars
<1>2. /\ files \in Seq(AllFiles) /\ u \in PkgUnits /\ Definitions(u) \in Seq(AllFiles)
      /\ ToSet(Definitions(u)) = {f \in ToSet(files) : f.kind \in Defining}
  BY WalkedFiles, PackagingUnitFiles, UnitsOf
<1>3. /\ at = "model" => u.model.host # "" /\ ReadErrors(files) \subseteq found
      /\ at = "returned" => \/ "directory" \in found \/ Empty(u) \/ Ignored(u) \/ u.model.name \in found
      /\ at \in {"model", "returned"}
  BY DEF Orphan
<1> HIDE DEF files, u, found, at
<1>4. /\ pc'[p] = at /\ dir'[p] = d /\ unit'[p] = u /\ todo'[p] = Definitions(u)
      /\ kept'[p] = <<>> /\ errs'[p] = found /\ units'[p] = units[p] /\ lost'[p] = lost[p]
      /\ \A q \in Callers : q # p => Same(q)
  BY <1>1 DEF CallsInv, Same
<1>5. TablesInv' /\ Keeps
  BY <1>1, TablesKept DEF CallsInv
<1>6. CallInv(p)'
  <2>1. CallTypes(p)'
    <3>1. units[p] \in Seq(PkgUnits) /\ lost[p] \in Nat /\ lost[p] <= Len(units[p]) + 1
      BY DEF CallsInv, CallInv, CallTypes
    <3>3. <<>> \in Seq(AllFiles)
      OBVIOUS
    <3>2. dir'[p] \in Dirs /\ unit'[p] = PackagingUnit(Walked(dir'[p].files))
      BY <1>4, UnitsOf DEF files, u
    <3> QED
      BY <1>2, <1>4, <3>1, <3>2, <3>3 DEF CallTypes
  <2>2. \A e \in ToSet(Definitions(u)) : Handled(p, e)'
    BY <1>4 DEF Handled
  <2>3. at = "returned" => \A f : AccountedFor(p, f)'
    BY <1>3, <1>4 DEF AccountedFor
  <2>4. ToSet(<<>>) = {}
    BY DEF ToSet
  <2>5. \A i \in lost[p] + 1 .. Len(units[p]) : Found(units[p][i])'
    BY <1>4, <1>5, FoundKeeps DEF CallsInv, CallInv
  <2>6. Intact(p)'
    <3>1. pc[p] \notin {"rest", "panicked"}
      BY DEF Register
    <3> QED
      BY <1>4, <3>1 DEF CallsInv, CallInv, Intact
  <2> QED
    BY <1>2, <1>3, <1>4, <2>1, <2>2, <2>3, <2>4, <2>5, <2>6 DEF CallInv, files
<1> QED
  BY <1>1, <1>4, <1>5, <1>6, CallOf DEF CallsInv

LEMMA CModel ==
    ASSUME CallsInv, RegistryInv', NEW p \in Callers, NEW o, RegisterModel(p, o)
    PROVE  CallsInv'
<1> DEFINE m == unit[p].model
<1>1. /\ pc[p] = "model"
      /\ RegisterEntity(m.host, "model", m.name, m.name, "enabled", o)
      /\ errs' = IF o = "ok" THEN errs ELSE [errs EXCEPT ![p] = @ \cup {m.name}]
      /\ pc' = [pc EXCEPT ![p] = IF o = "ok" THEN "rest" ELSE "returned"]
      /\ UNCHANGED <<dir, unit, todo, kept, units, lost>>
  BY DEF RegisterModel
<1>2. Registrant(m.host, "model")
  BY <1>1 DEF CallsInv, CallInv, Registrant
<1>3. /\ TablesInv' /\ Keeps
      /\ o = "ok" => RegisteredAs(m.host, m.name)'
  BY <1>1, <1>2, RegistersFound DEF CallsInv
<1>4. /\ pc'[p] = (IF o = "ok" THEN "rest" ELSE "returned")
      /\ errs[p] \subseteq errs'[p] /\ (o # "ok" => m.name \in errs'[p])
      /\ \A q \in Callers : q # p => Same(q)
  BY <1>1 DEF CallsInv, Same
<1>5. CallInv(p)'
  <2>1. CallTypes(p)'
    BY <1>1, <1>4 DEF CallsInv, CallInv, CallTypes
  <2>2. \A d : Handled(p, d) => Handled(p, d)'
    BY <1>1, <1>4 DEF Handled
  <2>3. o # "ok" => \A f : AccountedFor(p, f)'
    BY <1>1, <1>4 DEF AccountedFor
  <2>4. \A i \in lost[p] + 1 .. Len(units[p]) : Found(units[p][i])'
    BY <1>1, <1>3, FoundKeeps DEF CallsInv, CallInv
  <2>5. Intact(p)' /\ kept[p] = <<>> /\ ToSet(<<>>) = {}
    <3>1. CallInv(p)
      BY DEF CallsInv
    <3>2. Intact(p) /\ kept[p] = <<>>
      BY <1>1, <3>1, Zenon DEF CallInv
    <3> QED
      BY <1>1, <3>2 DEF Intact, ToSet
  <2> QED
    BY <1>1, <1>3, <1>4, <2>1, <2>2, <2>3, <2>4, <2>5 DEF CallsInv, CallInv
<1> QED
  BY <1>1, <1>3, <1>4, <1>5, CallOf DEF CallsInv

LEMMA CDefinition ==
    ASSUME CallsInv, RegistryInv', NEW p \in Callers, NEW o, RegisterDefinition(p, o)
    PROVE  CallsInv'
<1> DEFINE m == unit[p].model
<1>0. PICK d : d = Head(todo[p])
  OBVIOUS
<1>1. /\ pc[p] = "rest" /\ todo[p] # <<>>
      /\ RegisterEntity(m.host, d.kind, d.name, m.name, "enabled", o)
      /\ kept' = IF o = "ok" THEN [kept EXCEPT ![p] = Append(@, d)] ELSE kept
      /\ errs' = IF o = "ok" THEN errs ELSE [errs EXCEPT ![p] = @ \cup {d.name}]
      /\ todo' = [todo EXCEPT ![p] = Tail(@)]
      /\ UNCHANGED <<pc, dir, unit, units, lost>>
  BY <1>0 DEF RegisterDefinition
<1>2. /\ d \in AllFiles /\ Tail(todo[p]) \in Seq(AllFiles)
      /\ ToSet(todo[p]) = {d} \cup ToSet(Tail(todo[p])) /\ d \in ToSet(todo[p])
  BY <1>0, <1>1, HeadTail DEF CallsInv, CallInv, CallTypes
<1>3. d.kind \in Defining
  BY <1>2 DEF CallsInv, CallInv
<1>4. Registrant(m.host, d.kind) /\ d.kind \in Types
  BY <1>3 DEF Registrant, Defining, Types
<1>5. /\ TablesInv' /\ Keeps
      /\ o = "ok" /\ d.kind \in Types =>
           \E i \in DOMAIN rows'[d.kind] : rows'[d.kind][i].name = d.name
  BY <1>1, <1>4, RegistersFound DEF CallsInv
<1>6. o = "ok" => HasRow(d)'
  BY <1>4, <1>5 DEF HasRow
<1>7. /\ todo'[p] = Tail(todo[p])
      /\ kept'[p] \in Seq(AllFiles)
      /\ ToSet(kept'[p]) = IF o = "ok" THEN ToSet(kept[p]) \cup {d} ELSE ToSet(kept[p])
      /\ errs[p] \subseteq errs'[p] /\ (o # "ok" => d.name \in errs'[p])
      /\ \A q \in Callers : q # p => Same(q)
  <2>1. kept[p] \in Seq(AllFiles)
    BY DEF CallsInv, CallInv, CallTypes
  <2>2. /\ Append(kept[p], d) \in Seq(AllFiles)
        /\ ToSet(Append(kept[p], d)) = ToSet(kept[p]) \cup {d}
    BY <1>2, <2>1, AppendElements
  <2> QED
    BY <1>1, <2>1, <2>2 DEF CallsInv, Same
<1>8. CallInv(p)'
  <2>1. CallTypes(p)'
    BY <1>1, <1>2, <1>7 DEF CallsInv, CallInv, CallTypes
  <2>2. \A e : Handled(p, e) => Handled(p, e)'
    BY <1>2, <1>7 DEF Handled
  <2>3. \A i \in lost[p] + 1 .. Len(units[p]) : Found(units[p][i])'
    BY <1>1, <1>5, FoundKeeps DEF CallsInv, CallInv
  <2>4. Intact(p)' = Intact(p)
    BY <1>1 DEF Intact
  <2>5. Intact(p) => \A e \in ToSet(kept'[p]) : HasRow(e)'
    BY <1>1, <1>5, <1>6, <1>7 DEF CallsInv, CallInv, Keeps
  <2>6. \A e \in ToSet(todo'[p]) \cup ToSet(kept'[p]) : e.kind \in Defining
    BY <1>2, <1>3, <1>7 DEF CallsInv, CallInv
  <2>7. Intact(p) => RegisteredAs(m.host, m.name)'
    BY <1>1, <1>5 DEF CallsInv, CallInv, Keeps
  <2> QED
    BY <1>1, <1>7, <2>1, <2>2, <2>3, <2>4, <2>5, <2>6, <2>7 DEF CallsInv, CallInv
<1> QED
  BY <1>1, <1>5, <1>7, <1>8, CallOf DEF CallsInv

LEMMA CSkip ==
    ASSUME CallsInv, RegistryInv', NEW p \in Callers, SkipComponent(p)
    PROVE  CallsInv'
<1> DEFINE d == Head(todo[p])
<1>1. /\ pc[p] = "rest" /\ todo[p] # <<>> /\ d.kind = "component"
      /\ \/ d.status = "ignored" /\ UNCHANGED pc
         \/ pc' = [pc EXCEPT ![p] = "panicked"]
      /\ todo' = [todo EXCEPT ![p] = Tail(@)]
      /\ UNCHANGED <<hosts, models, rows, entries, dir, unit, kept, units, errs, lost>>
  BY DEF SkipComponent, registryVars
<1>2. /\ Tail(todo[p]) \in Seq(AllFiles)
      /\ ToSet(todo[p]) = {d} \cup ToSet(Tail(todo[p]))
  BY <1>1, HeadTail DEF CallsInv, CallInv, CallTypes
<1> HIDE DEF d
<1>3. /\ todo'[p] = Tail(todo[p]) /\ \A q \in Callers : q # p => Same(q)
      /\ (pc'[p] = "rest" /\ d.status = "ignored") \/ pc'[p] = "panicked"
      /\ DOMAIN pc' = Callers /\ DOMAIN todo' = Callers
  BY <1>1 DEF CallsInv, Same
<1>4. TablesInv' /\ Keeps
  BY <1>1, TablesKept DEF CallsInv
<1>5. CallInv(p)'
  <2>1. CallTypes(p)'
    BY <1>1, <1>2, <1>3 DEF CallsInv, CallInv, CallTypes
  <2>2. pc'[p] = "rest" => \A e : Handled(p, e) => Handled(p, e)'
    BY <1>1, <1>2, <1>3 DEF Handled
  <2>3. \A i \in lost[p] + 1 .. Len(units[p]) : Found(units[p][i])'
    BY <1>1, <1>4, FoundKeeps DEF CallsInv, CallInv
  <2>4. Intact(p)' = Intact(p)
    BY <1>1 DEF Intact
  <2>5. \A e \in ToSet(todo'[p]) \cup ToSet(kept[p]) : e.kind \in Defining
    BY <1>2, <1>3 DEF CallsInv, CallInv
  <2>6. Intact(p) => /\ RegisteredAs(unit[p].model.host, unit[p].model.name)'
                     /\ \A e \in ToSet(kept[p]) : HasRow(e)'
    BY <1>1, <1>4 DEF CallsInv, CallInv, Keeps
  <2> QED
    BY <1>1, <1>3, <2>1, <2>2, <2>3, <2>4, <2>5, <2>6 DEF CallsInv, CallInv
<1> QED
  BY <1>1, <1>3, <1>4, <1>5, CallOf DEF CallsInv

LEMMA CFinish ==
    ASSUME CallsInv, RegistryInv', NEW p \in Callers, Finish(p)
    PROVE  CallsInv'
<1> DEFINE u == [model         |-> unit[p].model,
                 components    |-> OfKind(kept[p], "component"),
                 relationships |-> OfKind(kept[p], "relationship"),
                 connections   |-> OfKind(kept[p], "connection")]
           files == Walked(dir[p].files)
<1>1. /\ pc[p] = "rest" /\ todo[p] = <<>> /\ pc' = [pc EXCEPT ![p] = "returned"]
      /\ units' = [units EXCEPT ![p] = Append(@, u)]
      /\ UNCHANGED <<hosts, models, rows, entries, dir, unit, todo, kept, errs, lost>>
  BY DEF Finish, registryVars
<1>2. /\ unit[p] \in PkgUnits /\ kept[p] \in Seq(AllFiles) /\ units[p] \in Seq(PkgUnits)
      /\ lost[p] \in Nat /\ Len(units[p]) \in Nat /\ lost[p] <= Len(units[p]) + 1
  BY UnitsTyped DEF CallsInv, CallInv, CallTypes
<1>3. /\ u.model = unit[p].model /\ u.components = OfKind(kept[p], "component")
      /\ u.relationships = OfKind(kept[p], "relationship")
      /\ u.connections = OfKind(kept[p], "connection")
      /\ u = [model |-> u.model, components |-> u.components,
              relationships |-> u.relationships, connections |-> u.connections]
  OBVIOUS
<1> HIDE DEF u
<1>4. /\ u.components \in Seq(AllFiles) /\ u.relationships \in Seq(AllFiles)
      /\ u.connections \in Seq(AllFiles)
      /\ ToSet(Definitions(u)) = {f \in ToSet(kept[p]) : f.kind \in Defining}
  BY <1>2, <1>3, UnitFiles
<1>5. u \in PkgUnits
  <2>1. u.model \in AllFiles \cup {NoModel}
    BY <1>2, <1>3 DEF PkgUnits
  <2> QED
    BY <1>3, <1>4, <2>1 DEF PkgUnits
<1>6. TablesInv' /\ Keeps
  BY <1>1, TablesKept DEF CallsInv
<1>7. /\ units'[p] = Append(units[p], u) /\ Append(units[p], u) \in Seq(PkgUnits)
      /\ Len(units'[p]) = Len(units[p]) + 1 /\ units'[p][Len(units[p]) + 1] = u
      /\ \A i \in 1 .. Len(units[p]) : units'[p][i] = units[p][i]
      /\ units'[p] # <<>> /\ Last(units'[p]) = u
      /\ pc'[p] = "returned" /\ \A q \in Callers : q # p => Same(q)
  <2>1. units'[p] = Append(units[p], u) /\ pc'[p] = "returned" /\ \A q \in Callers : q # p => Same(q)
    BY <1>1 DEF CallsInv, Same
  <2>2. /\ Append(units[p], u) \in Seq(PkgUnits)
        /\ Len(Append(units[p], u)) = Len(units[p]) + 1
        /\ Append(units[p], u)[Len(units[p]) + 1] = u
        /\ \A i \in 1 .. Len(units[p]) : Append(units[p], u)[i] = units[p][i]
    BY <1>2, <1>5
  <2>3. Append(units[p], u) # <<>> /\ Last(Append(units[p], u)) = u
    BY <1>2, <1>5 DEF Last
  <2> QED
    BY <2>1, <2>2, <2>3
<1>8. Intact(p) => Found(u)
  BY <1>1, <1>3, <1>4 DEF Found, CallsInv, CallInv
<1>9. ASSUME NEW f \in ToSet(files)
      PROVE  AccountedFor(p, f)'
  <2>1. /\ files \in Seq(AllFiles) /\ \A g \in ToSet(files) : g.kind \in Kinds
        /\ unit[p] = PackagingUnit(files)
    BY <1>1, WalkedFiles DEF CallsInv, CallInv, CallTypes
  <2>2. ToSet(Definitions(unit[p])) = {g \in ToSet(files) : g.kind \in Defining}
    BY <2>1, PackagingUnitFiles
  <2>3. CASE f.kind \in Defining
    <3>1. Handled(p, f)
      BY <1>1, <2>2, <2>3 DEF CallsInv, CallInv
    <3>2. ToSet(todo[p]) = {}
      BY <1>1 DEF ToSet
    <3>3. f \in ToSet(kept[p]) => f \in ToSet(Definitions(u))
      BY <1>4, <2>3
    <3> QED
      BY <1>1, <1>7, <3>1, <3>2, <3>3 DEF Handled, AccountedFor
  <2>4. CASE f.kind = "model"
    <3>1. CASE f = unit[p].model
      BY <1>1, <1>3, <1>7, <3>1 DEF AccountedFor
    <3>2. CASE f # unit[p].model
      <4>1. OfKind(files, "model") # <<>>
        <5>1. f \in ToSet(OfKind(files, "model"))
          BY <2>1, <2>4, OfKindFiles
        <5> QED
          BY <5>1 DEF ToSet
      <4>2. Last(OfKind(files, "model")) = unit[p].model
        BY <2>1, <4>1 DEF PackagingUnit
      <4> QED
        BY <1>1, <2>4, <3>2, <4>2 DEF AccountedFor, Replaced
    <3> QED
      BY <3>1, <3>2
  <2>5. CASE f.kind \in Unusable
    <3>1. f.name \in errs[p]
      BY <1>1, <2>5 DEF CallsInv, CallInv, ReadErrors
    <3> QED
      BY <1>1, <3>1 DEF AccountedFor
  <2>6. CASE f.kind \in Skipped
    BY <2>6 DEF AccountedFor
  <2> QED
    BY <2>1, <2>3, <2>4, <2>5, <2>6 DEF Kinds, Defining
<1>10. CallInv(p)'
  <2>1. CallTypes(p)'
    <3>1. lost'[p] = lost[p] /\ lost[p] <= Len(units'[p]) + 1
      BY <1>1, <1>2, <1>7
    <3> QED
      BY <1>1, <1>2, <1>7, <3>1 DEF CallsInv, CallInv, CallTypes
  <2>2. \A i \in lost'[p] + 1 .. Len(units'[p]) : Found(units[p][i])'
    <3>1. lost'[p] = lost[p] /\ lost[p] \in Nat /\ Len(units[p]) \in Nat
      BY <1>1, <1>2
    <3>2. ASSUME NEW i \in lost[p] + 1 .. Len(units[p])
          PROVE  Found(units[p][i])'
      <4>1. Found(units[p][i])
        BY DEF CallsInv, CallInv
      <4>2. units'[p][i] = units[p][i]
        BY <1>7, <3>1
      <4> QED
        BY <1>6, <4>1, <4>2, FoundKeeps
    <3>3. ASSUME Intact(p), NEW i, i = Len(units[p]) + 1
          PROVE  Found(units[p][i])'
      <4>1. PICK v : v = u
        OBVIOUS
      <4>2. Found(v)'
        BY <1>6, <1>8, <3>3, <4>1, FoundKeeps
      <4>3. units'[p][i] = v
        BY <1>7, <3>3, <4>1
      <4> QED
        BY <4>2, <4>3
    <3>4. ASSUME NEW i \in lost[p] + 1 .. Len(units[p]) + 1
          PROVE  Found(units[p][i])'
      <4>1. CASE i = Len(units[p]) + 1
        BY <3>1, <3>3, <4>1 DEF Intact
      <4>2. CASE i # Len(units[p]) + 1
        BY <3>1, <3>2, <4>2
      <4> QED
        BY <4>1, <4>2
    <3> QED
      BY <1>7, <3>1, <3>4
  <2>3. \A f \in ToSet(Walked(dir'[p].files)) : AccountedFor(p, f)'
    BY <1>1, <1>9
  <2>4. Intact(p)'
    BY <1>1, <1>2, <1>7 DEF Intact
  <2> QED
    BY <1>1, <1>7, <2>1, <2>2, <2>3, <2>4 DEF CallsInv, CallInv
<1> QED
  BY <1>1, <1>6, <1>7, <1>10, CallOf DEF CallsInv

\* A model changes its status, and keeps its name and its place.
LEMMA CStatus ==
    ASSUME CallsInv, RegistryInv', UNCHANGED regVars, NEW m, NEW s, UpdateEntityStatus(m, s)
    PROVE  CallsInv'
<1>1. /\ models' = [i \in DOMAIN models |-> IF models[i].name = m
                                            THEN [models[i] EXCEPT !.status = s] ELSE models[i]]
      /\ UNCHANGED <<hosts, entries, rows>>
      /\ UNCHANGED <<pc, dir, unit, todo, kept, units, errs, lost>>
  BY DEF UpdateEntityStatus, regVars, callVars
<1>2. DOMAIN models' = DOMAIN models
  BY <1>1
<1>3. \A i \in DOMAIN models : models'[i].name = models[i].name
  BY <1>1 DEF CallsInv, TablesInv, RegistryInv, RegistryTypes
<1>4. ASSUME NEW h, NEW x, RegisteredAs(h, x)
      PROVE  RegisteredAs(h, x)'
  <2>1. PICK i \in DOMAIN entries : /\ entries[i].type = "model" /\ entries[i].host = h
                                    /\ models[entries[i].entity].name = x
    BY <1>4 DEF RegisteredAs
  <2>2. entries[i].entity \in DOMAIN models
    BY <2>1 DEF CallsInv, TablesInv, RegistryInv
  <2>3. models'[entries'[i].entity].name = x
    BY <1>1, <1>3, <2>1, <2>2
  <2> QED
    BY <1>1, <2>1, <2>3 DEF RegisteredAs
<1>5. Keeps
  BY <1>1, <1>4 DEF Keeps, HasRow
<1>6. TablesInv'
  <2>1. \A i, j \in DOMAIN models' : models'[i].name = models'[j].name => i = j
    BY <1>2, <1>3 DEF CallsInv, TablesInv
  <2>2. /\ \E Values : hosts' \in Seq(Values)
        /\ \A i \in DOMAIN entries' :
             entries'[i].type = "model" => entries'[i].host # "" /\ entries'[i].host \in ToSet(hosts')
    BY <1>1 DEF CallsInv, TablesInv
  <2> QED
    BY <2>1, <2>2 DEF TablesInv
<1> QED
  BY <1>1, <1>5, <1>6, CallsRest

\* A helper that has registered nothing.
LEMMA EmptyCall ==
    ASSUME NEW p, pc[p] = "idle", unit[p] = NoUnit, todo[p] = <<>>, kept[p] = <<>>,
           units[p] = <<>>, lost[p] = 0
    PROVE  CallInv(p)
<1>1. /\ <<>> \in Seq({}) /\ Len(<<>>) = 0 /\ ToSet(<<>>) = {} /\ NoUnit \in PkgUnits
      /\ 0 + 1 .. 0 = {}
  BY DEF ToSet, PkgUnits, NoUnit
<1>2. CallTypes(p)
  BY <1>1 DEF CallTypes
<1> QED
  BY <1>1, <1>2 DEF CallInv, Intact

LEMMA CPolicy ==
    ASSUME CallsInv, RegistryInv', UNCHANGED regVars, NEW q,
           RegisterEntity(q.host, "policy", q.name, q.model, "enabled", "ok")
    PROVE  CallsInv'
<1>1. Registrant(q.host, "policy")
  BY DEF Registrant
<1>2. TablesInv' /\ Keeps
  BY <1>1, RegistersFound DEF CallsInv
<1> QED
  BY <1>2, CallsRest DEF regVars, callVars

\* The tables are empty: nothing that was registered is found any more.
LEMMA CCleanup ==
    ASSUME CallsInv, RegistryInv', CleanupMeanwhile
    PROVE  CallsInv'
<1>1. /\ hosts' = <<>> /\ models' = <<>> /\ entries' = <<>>
      /\ lost' = [p \in Callers |-> Len(units[p]) + (IF pc[p] = "rest" THEN 1 ELSE 0)]
      /\ UNCHANGED <<pc, dir, unit, todo, kept, units, errs>>
  BY DEF CleanupMeanwhile, Cleanup, callVars
<1>2. <<>> \in Seq({}) /\ DOMAIN <<>> = {}
  OBVIOUS
<1>3. TablesInv'
  BY <1>1, <1>2 DEF TablesInv
<1>4. ASSUME NEW p \in Callers
      PROVE  CallInv(p)'
  <2>1. CallInv(p) /\ lost'[p] = Len(units[p]) + (IF pc[p] = "rest" THEN 1 ELSE 0)
    BY <1>1 DEF CallsInv
  <2>2. Len(units[p]) \in Nat
    BY <2>1, UnitsTyped
  <2>6. /\ lost'[p] \in Nat /\ lost'[p] <= Len(units[p]) + 1
        /\ lost'[p] + 1 .. Len(units[p]) = {}
        /\ pc[p] = "rest" => ~(lost'[p] <= Len(units[p]))
        /\ pc[p] # "rest" => lost'[p] <= Len(units[p])
    <3>1. CASE pc[p] = "rest"
      BY <2>1, <2>2, <3>1
    <3>2. CASE pc[p] # "rest"
      BY <2>1, <2>2, <3>2
    <3> QED
      BY <3>1, <3>2
  <2>3. CallTypes(p)'
    BY <1>1, <2>1, <2>6 DEF CallInv, CallTypes
  <2>4. /\ lost'[p] + 1 .. Len(units[p]) = {}
        /\ pc[p] = "rest" => ~Intact(p)'
        /\ pc[p] # "rest" => Intact(p)'
    BY <1>1, <2>6 DEF Intact
  <2>5. /\ \A d : Handled(p, d) => Handled(p, d)'
        /\ \A f : AccountedFor(p, f) => AccountedFor(p, f)'
    BY <1>1 DEF Handled, AccountedFor, Replaced
  <2> QED
    BY <1>1, <2>1, <2>3, <2>4, <2>5 DEF CallInv
<1> QED
  BY <1>1, <1>3, <1>4 DEF CallsInv

LEMMA CRestart ==
    ASSUME CallsInv, RegistryInv', Restart
    PROVE  CallsInv'
<1>1. /\ UNCHANGED <<hosts, models, rows, entries>>
      /\ pc' = [p \in Callers |-> "idle"] /\ dir' = [p \in Callers |-> NoDir]
      /\ unit' = [p \in Callers |-> NoUnit] /\ todo' = [p \in Callers |-> <<>>]
      /\ kept' = [p \in Callers |-> <<>>] /\ units' = [p \in Callers |-> <<>>]
      /\ errs' = [p \in Callers |-> {}] /\ lost' = [p \in Callers |-> 0]
  BY DEF Restart, Each
<1>2. TablesInv'
  BY <1>1, TablesKept DEF CallsInv
<1>3. ASSUME NEW p \in Callers
      PROVE  CallInv(p)'
  <2>1. /\ pc'[p] = "idle" /\ unit'[p] = NoUnit /\ todo'[p] = <<>> /\ kept'[p] = <<>>
        /\ units'[p] = <<>> /\ lost'[p] = 0
    BY <1>1
  <2>2. /\ <<>> \in Seq(PkgUnits) /\ <<>> \in Seq(AllFiles) /\ Len(<<>>) = 0
        /\ ToSet(<<>>) = {} /\ NoUnit \in PkgUnits /\ 0 + 1 .. 0 = {}
    BY DEF ToSet, PkgUnits, NoUnit
  <2>3. CallTypes(p)'
    BY <2>1, <2>2 DEF CallTypes
  <2> QED
    BY <2>1, <2>2, <2>3 DEF CallInv, Intact
<1> QED
  BY <1>1, <1>2, <1>3 DEF CallsInv

LEMMA CallsStepInv ==
    ASSUME CallsInv, Next \/ UNCHANGED vars
    PROVE  CallsInv'
<1>1. RegistryInv'
  BY RegistryStepInv DEF CallsInv, TablesInv
<1>2. ASSUME NEW p \in Callers, NEW d \in Dirs, Register(p, d)
      PROVE  CallsInv'
  BY <1>1, <1>2, CRegister
<1>3. ASSUME NEW p \in Callers, NEW o \in Outcomes, RegisterModel(p, o) \/ RegisterDefinition(p, o)
      PROVE  CallsInv'
  BY <1>1, <1>3, CModel, CDefinition
<1>4. ASSUME NEW p \in Callers, SkipComponent(p) \/ Finish(p)
      PROVE  CallsInv'
  BY <1>1, <1>4, CSkip, CFinish
<1>5. ASSUME UNCHANGED <<hosts, models, rows, entries, pc, dir, unit, todo, kept, units, errs, lost>>
      PROVE  CallsInv'
  <2>1. TablesInv' /\ Keeps
    BY <1>1, <1>5, TablesKept DEF CallsInv
  <2> QED
    BY <1>5, <2>1, CallsRest
<1>6. ASSUME UNCHANGED regVars, NEW f, GetEntitiesMemoized(f)
      PROVE  CallsInv'
  BY <1>5, <1>6 DEF GetEntitiesMemoized, regVars, callVars
<1>7. CASE UNCHANGED regVars /\ NewRegistryManager
  BY <1>5, <1>7 DEF NewRegistryManager, regVars, callVars
<1>8. CASE UNCHANGED vars
  BY <1>5, <1>8 DEF vars, registryVars, regVars, callVars
<1> QED
  BY <1>1, <1>2, <1>3, <1>4, <1>6, <1>7, <1>8, CStatus, CPolicy, CCleanup, CRestart DEF Next

LEMMA CallsInitInv ==
    ASSUME Init
    PROVE  CallsInv
<1>1. /\ hosts = <<>> /\ models = <<>> /\ entries = <<>>
      /\ pc = [p \in Callers |-> "idle"] /\ dir = [p \in Callers |-> NoDir]
      /\ unit = [p \in Callers |-> NoUnit] /\ todo = [p \in Callers |-> <<>>]
      /\ kept = [p \in Callers |-> <<>>] /\ units = [p \in Callers |-> <<>>]
      /\ errs = [p \in Callers |-> {}] /\ lost = [p \in Callers |-> 0]
  BY DEF Init, RegistryInit, Each
<1>2. <<>> \in Seq({}) /\ DOMAIN <<>> = {}
  OBVIOUS
<1>3. TablesInv
  BY <1>1, <1>2, RegistryInitInv DEF TablesInv
<1>4. ASSUME NEW p \in Callers
      PROVE  CallInv(p)
  BY <1>1, <1>4, EmptyCall
<1> QED
  BY <1>1, <1>3, <1>4 DEF CallsInv

\* What PkgUnits names is found: its registrant is listed, and GetRegistrant
\* finds a registrant of its model.
LEMMA FoundListed ==
    ASSUME TablesInv, NEW h, NEW m, RegisteredAs(h, m)
    PROVE  /\ h \in ToSet(GetRegistrants(0, 0).hosts)
           /\ HasModel(m)
           /\ GetRegistrant("model", IdIn(models, m)) # ""
<1>1. PICK i \in DOMAIN entries : /\ entries[i].type = "model" /\ entries[i].host = h
                                  /\ models[entries[i].entity].name = m
  BY DEF RegisteredAs
<1>2. PICK Values, Hosts : entries \in Seq(Values) /\ hosts \in Seq(Hosts)
  BY DEF TablesInv, RegistryInv, RegistryTypes
<1>3. DOMAIN entries = 1 .. Len(entries) /\ Len(entries) \in Nat
  BY <1>2
<1>4. /\ entries[i].entity \in DOMAIN models /\ HasModel(m)
      /\ IdIn(models, m) = entries[i].entity
  BY <1>1 DEF TablesInv, RegistryInv, HasModel, IdIn
<1>5. h \in ToSet(GetRegistrants(0, 0).hosts)
  <2> DEFINE page == Page([offset |-> 0, limit |-> 0], hosts)
             S == {g \in ToSet(page) : EntriesOf(g, "model") > 0}
  <2>1. page = hosts
    BY <1>2 DEF Page
  <2>2. EntriesOf(h, "model") > 0
    <3> DEFINE T == {j \in DOMAIN entries : entries[j].host = h /\ entries[j].type = "model"}
    <3>1. IsFiniteSet(T) /\ i \in T
      <4>1. IsFiniteSet(1 .. Len(entries)) /\ T \subseteq 1 .. Len(entries)
        BY <1>3, FS_Interval
      <4> QED
        BY <1>1, <4>1, FS_Subset
    <3>2. Cardinality(T) \in Nat /\ Cardinality(T) # 0
      BY <3>1, FS_CardinalityType, FS_EmptySet
    <3> QED
      BY <3>2 DEF EntriesOf
  <2>3. h \in S
    BY <1>1, <2>1, <2>2 DEF TablesInv
  <2> HIDE DEF S
  <2>4. ToSet(Those(hosts, S)) = ToSet(hosts) \cap S
    BY <1>2, ThoseElements
  <2>5. GetRegistrants(0, 0).hosts = Those(hosts, S)
    BY <2>1 DEF GetRegistrants, S
  <2> QED
    BY <1>1, <2>3, <2>4, <2>5 DEF TablesInv
<1>6. GetRegistrant("model", IdIn(models, m)) # ""
  <2> DEFINE of == {j \in DOMAIN entries : entries[j].type = "model" /\ entries[j].entity = IdIn(models, m)}
  <2>1. of # {} /\ of \subseteq Nat
    BY <1>1, <1>3, <1>4
  <2> HIDE DEF of
  <2>2. Min(of) \in of
    BY <2>1, LeastNumber DEF Min
  <2>3. entries[Min(of)].host # ""
    BY <2>2 DEF of, TablesInv
  <2> QED
    BY <2>1, <2>3 DEF GetRegistrant, of
<1> QED
  BY <1>4, <1>5, <1>6

LEMMA CallsConsistent == CallsInv => Accounted /\ UnitsRegistered
<1> SUFFICES ASSUME CallsInv PROVE Accounted /\ UnitsRegistered
  OBVIOUS
<1>1. Accounted
  BY DEF CallsInv, CallInv, Accounted, AccountedFor
<1>2. ASSUME NEW q \in Callers, NEW i \in lost[q] + 1 .. Len(units[q]), NEW u, u = units[q][i]
      PROVE  /\ u.model.host \in ToSet(GetRegistrants(0, 0).hosts)
             /\ HasModel(u.model.name)
             /\ GetRegistrant("model", IdIn(models, u.model.name)) # ""
             /\ \A d \in ToSet(Definitions(u)) : \E r \in ToSet(rows[d.kind]) : r.name = d.name
  <2>1. TablesInv /\ Found(u)
    BY <1>2 DEF CallsInv, CallInv
  <2>2. \A d \in ToSet(Definitions(u)) : \E r \in ToSet(rows[d.kind]) : r.name = d.name
    BY <2>1 DEF Found, HasRow, ToSet
  <2> QED
    BY <2>1, <2>2, FoundListed DEF Found
<1>3. UnitsRegistered
  BY <1>2, Zenon DEF UnitsRegistered
<1> QED
  BY <1>1, <1>3
-----------------------------------------------------------------------------
(***************************************************************************)
(* The types of the registry and of the calls.  What is still to be        *)
(* registered is an end of what the directory defines.                     *)
(***************************************************************************)
EndOf(s, t) == Len(s) <= Len(t) /\ \A i \in 1 .. Len(s) : s[i] = t[Len(t) - Len(s) + i]

LEMMA EndsSuffix ==
    ASSUME NEW T, NEW s \in Seq(T), NEW t \in Seq(T), EndOf(s, t)
    PROVE  IsSuffix(s, t)
<1> DEFINE n == Len(s)
           m == Len(t)
           r == Reverse(s)
           q == Reverse(t)
<1>1. n \in Nat /\ m \in Nat /\ n <= m
  BY DEF EndOf
<1>2. /\ r \in Seq(T) /\ q \in Seq(T) /\ Len(r) = n /\ Len(q) = m
      /\ \A i \in 1 .. n : r[i] = s[n - i + 1]
      /\ \A i \in 1 .. m : q[i] = t[m - i + 1]
  BY DEF Reverse
<1>3. \A i \in 1 .. n : r[i] = q[i]
  <2> SUFFICES ASSUME NEW i \in 1 .. n
               PROVE  r[i] = q[i]
    OBVIOUS
  <2>1. n - i + 1 \in 1 .. n /\ i \in 1 .. m /\ m - n + (n - i + 1) = m - i + 1
    BY <1>1
  <2>2. s[n - i + 1] = t[m - n + (n - i + 1)]
    BY <2>1 DEF EndOf
  <2> QED
    BY <1>2, <2>1, <2>2
<1> HIDE DEF r, q, n, m
<1>4. SubSeq(r, 1, Len(r)) = SubSeq(q, 1, Len(r))
  <2>1. /\ SubSeq(r, 1, n) = [i \in 1 .. n |-> r[i]]
        /\ SubSeq(q, 1, n) = [i \in 1 .. n |-> q[i]]
    BY <1>1
  <2> QED
    BY <1>2, <1>3, <2>1
<1> QED
  BY <1>1, <1>2, <1>4 DEF IsSuffix, IsPrefix, r, q

LEMMA TailEnds ==
    ASSUME NEW T, NEW s \in Seq(T), NEW t \in Seq(T), EndOf(s, t), s # <<>>
    PROVE  EndOf(Tail(s), t)
<1>1. /\ Len(s) \in Nat /\ Len(s) > 0 /\ Len(t) \in Nat
      /\ Len(Tail(s)) = Len(s) - 1
      /\ \A i \in 1 .. Len(Tail(s)) : Tail(s)[i] = s[i + 1]
  OBVIOUS
<1> DEFINE n == Len(s)
           m == Len(t)
           r == Tail(s)
<1>2. Len(r) <= m
  BY <1>1 DEF EndOf
<1>3. ASSUME NEW i \in 1 .. Len(r)
      PROVE  r[i] = t[m - Len(r) + i]
  <2>1. i + 1 \in 1 .. n /\ m - n + (i + 1) = m - Len(r) + i
    BY <1>1
  <2>2. s[i + 1] = t[m - n + (i + 1)]
    BY <2>1 DEF EndOf
  <2> QED
    BY <1>1, <2>1, <2>2
<1> QED
  BY <1>2, <1>3 DEF EndOf

TableTypes ==
    /\ migrated \in BOOLEAN
    /\ Len(entries) <= MaxEntries
    /\ \A t \in Types : Len(rows[t]) <= MaxEntries
    /\ DOMAIN memo \subseteq Filters

LEMMA TablesGrow ==
    ASSUME RegistryTypes, TableTypes, NEW h, NEW t, NEW n, NEW m, NEW s, NEW o,
           RegisterEntity(h, t, n, m, s, o)
    PROVE  TableTypes'
<1>1. MaxEntries \in Nat /\ UNCHANGED <<migrated, memo>>
  BY RegistrationAssumption DEF RegisterEntity
<1>2. Len(entries') <= MaxEntries
  <2>1. PICK Values : entries \in Seq(Values)
    BY DEF RegistryTypes
  <2>2. Len(entries) < MaxEntries /\ (entries' = entries \/ \E e : entries' = Append(entries, e))
    BY Zenon DEF RegisterEntity
  <2>3. ASSUME NEW e
        PROVE  Len(Append(entries, e)) = Len(entries) + 1
    BY <2>1
  <2>4. Len(entries) \in Nat
    BY <2>1
  <2> QED
    BY <1>1, <2>2, <2>3, <2>4
<1>3. ASSUME NEW u \in Types
      PROVE  Len(rows'[u]) <= MaxEntries
  <2>1. PICK Values : rows[u] \in Seq(Values)
    BY DEF RegistryTypes
  <2>2. Len(rows[u]) < MaxEntries
    BY DEF RegisterEntity
  <2>3. rows'[u] = rows[u] \/ \E e : rows'[u] = Append(rows[u], e)
    <3>1. rows' = rows \/ \E e : rows' = [rows EXCEPT ![t] = Append(rows[t], e)]
      BY Zenon DEF RegisterEntity, CreateEntity
    <3> QED
      BY <3>1 DEF RegistryTypes
  <2>4. ASSUME NEW e
        PROVE  Len(Append(rows[u], e)) = Len(rows[u]) + 1
    BY <2>1
  <2>5. Len(rows[u]) \in Nat
    BY <2>1
  <2> QED
    BY <1>1, <2>2, <2>3, <2>4, <2>5
<1> QED
  BY <1>1, <1>2, <1>3 DEF TableTypes

LEMMA TablesStep ==
    ASSUME RegistryTypes, TableTypes, Next \/ UNCHANGED vars
    PROVE  TableTypes'
<1>1. ASSUME UNCHANGED registryVars
      PROVE  TableTypes'
  BY <1>1 DEF registryVars, TableTypes
<1>2. ASSUME NEW p \in Callers, NEW o \in Outcomes, RegisterModel(p, o) \/ RegisterDefinition(p, o)
      PROVE  TableTypes'
  BY <1>2, TablesGrow DEF RegisterModel, RegisterDefinition
<1>3. ASSUME NEW f \in Filters, GetEntitiesMemoized(f)
      PROVE  TableTypes'
  BY <1>3 DEF GetEntitiesMemoized, TableTypes
<1>4. ASSUME NEW m, UpdateEntityStatus(m, "ignored")
      PROVE  TableTypes'
  BY <1>4 DEF UpdateEntityStatus, TableTypes
<1>5. CASE CleanupMeanwhile
  <2>1. /\ entries' = <<>> /\ memo' = memo /\ migrated' = FALSE
        /\ rows' = [t \in Types |-> IF t = "policy" THEN rows[t] ELSE <<>>]
    BY <1>5 DEF CleanupMeanwhile, Cleanup
  <2>2. migrated' \in BOOLEAN
    BY <2>1, Zenon
  <2>3. Len(<<>>) = 0
    OBVIOUS
  <2> QED
    BY <2>1, <2>2, <2>3, RegistrationAssumption DEF TableTypes
<1>9. CASE Restart
  <2>1. memo' = <<>> /\ UNCHANGED <<migrated, rows, entries>> /\ DOMAIN <<>> = {}
    BY <1>9 DEF Restart
  <2> QED
    BY <2>1 DEF TableTypes
<1>6. CASE NewRegistryManager
  <2>1. migrated' \in BOOLEAN
    BY <1>6, Zenon DEF NewRegistryManager
  <2> QED
    BY <1>6, <2>1 DEF NewRegistryManager, TableTypes
<1>7. ASSUME NEW p \in Policies, RegisterEntity(p.host, "policy", p.name, p.model, "enabled", "ok")
      PROVE  TableTypes'
  BY <1>7, TablesGrow
<1>8. ASSUME NEW p \in Callers, (\E d \in Dirs : Register(p, d)) \/ SkipComponent(p) \/ Finish(p)
      PROVE  UNCHANGED registryVars
  BY <1>8, Zenon DEF Register, SkipComponent, Finish
<1> QED
  BY <1>1, <1>2, <1>3, <1>4, <1>5, <1>6, <1>7, <1>8, <1>9 DEF Next, vars

SlotTypes ==
    /\ pc \in [Callers -> {"idle", "model", "rest", "returned", "panicked"}]
    /\ dir \in [Callers -> Dirs \cup {NoDir}]
    /\ DOMAIN invalid = Callers
    /\ \A p \in Callers : EndOf(todo[p], Definitions(unit[p]))
    /\ \A p \in Callers : invalid[p] \subseteq errs[p]
    /\ calls \in 0 .. MaxCalls

LEMMA SRegister ==
    ASSUME CallsInv, SlotTypes, NEW p \in Callers, NEW d \in Dirs, Register(p, d)
    PROVE  SlotTypes'
<1> DEFINE files == Walked(d.files)
           u == UnitOf[d]
           found == (IF d.accessible THEN ReadErrors(files) ELSE {})
           wrong == (IF d.accessible THEN Invalid(files) ELSE {})
           todos == Definitions(u)
<1>1. /\ calls < MaxCalls /\ calls' = calls + 1
      /\ dir' = [dir EXCEPT ![p] = d] /\ unit' = [unit EXCEPT ![p] = u]
      /\ todo' = [todo EXCEPT ![p] = todos]
      /\ invalid' = [invalid EXCEPT ![p] = wrong]
      /\ \E more : errs' = [errs EXCEPT ![p] = found \cup more]
      /\ \E s \in {"returned", "model"} : pc' = [pc EXCEPT ![p] = s]
  <2>1. \E a, b : errs' = [errs EXCEPT ![p] = found \cup a \cup b]
    BY Zenon DEF Register
  <2>2. pc' = [pc EXCEPT ![p] = "returned"] \/ pc' = [pc EXCEPT ![p] = "model"]
    BY Zenon DEF Register
  <2>3. \E more : errs' = [errs EXCEPT ![p] = found \cup more]
    <3> HIDE DEF found
    <3>1. PICK a, b : errs' = [errs EXCEPT ![p] = found \cup a \cup b]
      BY <2>1
    <3>2. found \cup a \cup b = found \cup (a \cup b)
      OBVIOUS
    <3> QED
      BY <3>1, <3>2
  <2>4. calls < MaxCalls /\ calls' = calls + 1
    BY DEF Register
  <2> QED
    BY <2>2, <2>3, <2>4, Zenon DEF Register
<1>2. wrong \subseteq found
  BY DEF ReadErrors, Invalid
<1>3. todos \in Seq(AllFiles)
  BY WalkedFiles, PackagingUnitFiles, UnitsOf
<1> HIDE DEF found, wrong, files, u, todos
<1>4. EndOf(todos, todos)
  BY <1>3 DEF EndOf
<1>5. /\ todo'[p] = todos /\ unit'[p] = u /\ invalid'[p] \subseteq errs'[p]
      /\ \A q \in Callers : q # p => /\ todo'[q] = todo[q] /\ unit'[q] = unit[q]
                                     /\ invalid'[q] = invalid[q] /\ errs'[q] = errs[q]
  BY <1>1, <1>2 DEF CallsInv, SlotTypes
<1>6. \A q \in Callers : EndOf(todo'[q], Definitions(unit'[q])) /\ invalid'[q] \subseteq errs'[q]
  BY <1>4, <1>5 DEF SlotTypes, todos
<1>7. calls' \in 0 .. MaxCalls
  BY <1>1, RegistrationAssumption DEF SlotTypes
<1> QED
  BY <1>1, <1>6, <1>7 DEF SlotTypes

LEMMA UnitDefinitions ==
    ASSUME CallsInv, NEW p \in Callers
    PROVE  todo[p] \in Seq(AllFiles) /\ Definitions(unit[p]) \in Seq(AllFiles)
<1>1. unit[p] \in PkgUnits /\ todo[p] \in Seq(AllFiles)
  <2>1. CallInv(p)
    BY DEF CallsInv
  <2> QED
    BY <2>1, Zenon DEF CallInv, CallTypes
<1>2. /\ unit[p].components \in Seq(AllFiles) /\ unit[p].relationships \in Seq(AllFiles)
      /\ unit[p].connections \in Seq(AllFiles)
  BY <1>1 DEF PkgUnits
<1> QED
  BY <1>1, <1>2, DefinitionFiles

LEMMA SOther ==
    ASSUME CallsInv, SlotTypes, NEW p \in Callers,
           \/ \E o \in Outcomes : RegisterModel(p, o) \/ RegisterDefinition(p, o)
           \/ SkipComponent(p) \/ Finish(p)
    PROVE  SlotTypes'
<1>1. /\ UNCHANGED <<dir, unit, invalid, calls>>
      /\ pc' = pc \/ \E s \in {"rest", "returned", "panicked"} : pc' = [pc EXCEPT ![p] = s]
      /\ errs' = errs \/ \E x : errs' = [errs EXCEPT ![p] = errs[p] \cup {x}]
      /\ todo' = todo \/ (todo[p] # <<>> /\ todo' = [todo EXCEPT ![p] = Tail(todo[p])])
  <2>1. ASSUME NEW o \in Outcomes, RegisterModel(p, o)
        PROVE  /\ UNCHANGED <<dir, unit, invalid, calls, todo>>
               /\ pc' = [pc EXCEPT ![p] = "rest"] \/ pc' = [pc EXCEPT ![p] = "returned"]
               /\ errs' = errs \/ \E x : errs' = [errs EXCEPT ![p] = errs[p] \cup {x}]
    BY <2>1, Zenon DEF RegisterModel
  <2>2. ASSUME NEW o \in Outcomes, RegisterDefinition(p, o)
        PROVE  /\ UNCHANGED <<dir, unit, invalid, calls, pc>>
               /\ todo[p] # <<>> /\ todo' = [todo EXCEPT ![p] = Tail(todo[p])]
               /\ errs' = errs \/ \E x : errs' = [errs EXCEPT ![p] = errs[p] \cup {x}]
    BY <2>2, Zenon DEF RegisterDefinition
  <2>3. ASSUME SkipComponent(p)
        PROVE  /\ UNCHANGED <<dir, unit, invalid, calls, errs>>
               /\ pc' = pc \/ pc' = [pc EXCEPT ![p] = "panicked"]
               /\ todo[p] # <<>> /\ todo' = [todo EXCEPT ![p] = Tail(todo[p])]
    BY <2>3, Zenon DEF SkipComponent
  <2>4. ASSUME Finish(p)
        PROVE  UNCHANGED <<dir, unit, invalid, calls, errs, todo>> /\ pc' = [pc EXCEPT ![p] = "returned"]
    BY <2>4, Zenon DEF Finish
  <2> QED
    BY <2>1, <2>2, <2>3, <2>4
<1>2. todo[p] \in Seq(AllFiles) /\ Definitions(unit[p]) \in Seq(AllFiles)
  BY UnitDefinitions
<1>3. todo[p] # <<>> => EndOf(Tail(todo[p]), Definitions(unit[p]))
  BY <1>2, TailEnds DEF SlotTypes
<1>4. /\ \A q \in Callers : todo'[q] = todo[q] \/ (q = p /\ todo[p] # <<>> /\ todo'[q] = Tail(todo[p]))
      /\ \A q \in Callers : errs[q] \subseteq errs'[q]
  BY <1>1 DEF CallsInv
<1>5. \A q \in Callers : EndOf(todo'[q], Definitions(unit'[q])) /\ invalid'[q] \subseteq errs'[q]
  BY <1>1, <1>3, <1>4 DEF SlotTypes
<1> QED
  BY <1>1, <1>5 DEF SlotTypes

LEMMA EmptyEnds == EndOf(<<>>, Definitions(NoUnit))
<1>1. <<>> \in Seq({}) /\ Len(<<>>) = 0
  OBVIOUS
<1>2. /\ NoUnit.components = <<>> /\ NoUnit.relationships = <<>>
      /\ NoUnit.connections = <<>>
  BY DEF NoUnit
<1>3. Definitions(NoUnit) \in Seq({})
  BY <1>1, <1>2, DefinitionFiles
<1> QED
  BY <1>1, <1>3 DEF EndOf

LEMMA SlotsEmpty ==
    ASSUME pc = Each("idle"), dir = Each(NoDir), unit = Each(NoUnit), todo = Each(<<>>),
           errs = Each({}), invalid = Each({}), calls \in 0 .. MaxCalls
    PROVE  SlotTypes
BY EmptyEnds DEF SlotTypes, Each

LEMMA SCleanup ==
    ASSUME SlotTypes, CleanupMeanwhile
    PROVE  SlotTypes'
<1>1. calls' \in 0 .. MaxCalls
  BY RegistrationAssumption DEF CleanupMeanwhile, SlotTypes
<1>2. UNCHANGED <<pc, dir, unit, todo, errs, invalid>>
  BY DEF CleanupMeanwhile, callVars
<1> QED
  BY <1>1, <1>2 DEF SlotTypes

LEMMA SRestart ==
    ASSUME SlotTypes, Restart
    PROVE  SlotTypes'
<1>1. /\ pc' = Each("idle") /\ dir' = Each(NoDir) /\ unit' = Each(NoUnit)
      /\ todo' = Each(<<>>) /\ errs' = Each({}) /\ invalid' = Each({})
      /\ calls' \in 0 .. MaxCalls
  BY DEF Restart, SlotTypes
<1> QED
  BY <1>1, EmptyEnds DEF SlotTypes, Each

\* The typed registry: the calls with the bounds of the tables.
CallsTyped == CallsInv /\ TableTypes /\ SlotTypes

LEMMA CallsTypedStep ==
    ASSUME CallsTyped, Next \/ UNCHANGED vars
    PROVE  CallsTyped'
<1>1. CallsInv'
  BY CallsStepInv DEF CallsTyped
<1>2. TableTypes'
  <2>1. RegistryTypes /\ TableTypes
    BY Zenon DEF CallsTyped, CallsInv, TablesInv, RegistryInv
  <2> QED
    BY <2>1, TablesStep
<1>3. SlotTypes'
  <2>1. ASSUME UNCHANGED regVars
        PROVE  SlotTypes'
    BY <2>1 DEF CallsTyped, SlotTypes, regVars, callVars
  <2>2. ASSUME NEW p \in Callers, NEW d \in Dirs, Register(p, d)
        PROVE  SlotTypes'
    BY <2>2, SRegister DEF CallsTyped
  <2>3. ASSUME NEW p \in Callers, NEW o \in Outcomes, RegisterModel(p, o) \/ RegisterDefinition(p, o)
        PROVE  SlotTypes'
    BY <2>3, SOther DEF CallsTyped
  <2>5. ASSUME NEW p \in Callers, SkipComponent(p) \/ Finish(p)
        PROVE  SlotTypes'
    BY <2>5, SOther DEF CallsTyped
  <2>4. CASE CleanupMeanwhile
    BY <2>4, SCleanup DEF CallsTyped
  <2>6. CASE Restart
    BY <2>6, SRestart DEF CallsTyped
  <2> QED
    BY <2>1, <2>2, <2>3, <2>4, <2>5, <2>6 DEF Next, vars
<1> QED
  BY <1>1, <1>2, <1>3 DEF CallsTyped

LEMMA CallsTypedInit ==
    ASSUME Init
    PROVE  CallsTyped
<1>1. CallsInv
  BY CallsInitInv
<1>2. TableTypes
  <2>1. migrated = TRUE /\ entries = <<>> /\ memo = <<>> /\ rows = [t \in Types |-> <<>>]
    BY DEF Init, RegistryInit
  <2>2. migrated \in BOOLEAN
    BY <2>1, Zenon
  <2>3. Len(<<>>) = 0 /\ DOMAIN <<>> = {}
    OBVIOUS
  <2> QED
    BY <2>1, <2>2, <2>3, RegistrationAssumption DEF TableTypes
<1>3. SlotTypes
  BY SlotsEmpty, RegistrationAssumption DEF Init
<1> QED
  BY <1>1, <1>2, <1>3 DEF CallsTyped

LEMMA CallsTypeOK ==
    ASSUME CallsTyped
    PROVE  TypeOK
<1>1. ASSUME NEW p \in Callers
      PROVE  IsSuffix(todo[p], Definitions(unit[p]))
  BY UnitDefinitions, EndsSuffix DEF CallsTyped, SlotTypes
<1>2. \A p \in Callers : lost[p] <= Len(units[p]) + 1
  BY DEF CallsTyped, CallsInv, CallInv, CallTypes
<1> QED
  BY <1>1, <1>2 DEF CallsTyped, TableTypes, SlotTypes, TypeOK

=============================================================================
