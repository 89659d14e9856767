---------------------------- MODULE Registration ----------------------------
(***************************************************************************)
(* RegistrationHelper.Register: a directory is read into a packaging unit  *)
(* and its definitions are registered one after the other, the model       *)
(* first.  What cannot be read or registered goes to the error store and   *)
(* the rest is kept.  Several callers register at once, each with a helper *)
(* of its own, others query the registry meanwhile, a Cleanup may drop the *)
(* tables under them, and the process may end: the database outlives it.   *)
(***************************************************************************)
EXTENDS RegistryManager

CONSTANTS
    Callers,   \* goroutines that register
    Dirs,      \* what they register: records [accessible, files]
    Policies,  \* what others register directly: records [host, name, model]
    MaxCalls   \* bound: calls of Register and Cleanup

VARIABLES
    pc,      \* where the call of each caller is
    dir,     \* what it registers
    unit,    \* its packaging unit
    todo,    \* definitions of the unit still to be registered
    kept,    \* definitions registered by this call
    units,   \* PkgUnits of the caller's helper
    errs,    \* names this call put in the error store
    invalid, \* names it gave to AddInvalidDefinition
    cut,     \* history: models that were half registered at the last Cleanup
    lost,    \* history: how many units of each helper it has dropped or cut
    calls

callVars == <<pc, dir, unit, todo, kept, units, errs, invalid>>
regVars == <<callVars, cut, lost, calls>>
vars == <<registryVars, regVars>>

\* A file is a definition, or one of these; an archive holds more files.
Skipped == {"asset", "untyped"}
Unusable == {"unreadable", "badArchive", "badYaml", "unknownType", "badEntity"}
Kinds == {"model", "component", "relationship", "connection"} \cup Skipped \cup Unusable

\* A directory is a list of files, and so is an archive, with what the archives
\* in it hold.
ASSUME RegistrationAssumption ==
    /\ \A d \in Dirs : IsSequence(d.files) /\ \A f \in ToSet(d.files) :
         /\ f.kind \in Kinds \cup {"archive"}
         /\ IsSequence(f.inside) /\ \A g \in ToSet(f.inside) : g.kind \in Kinds
    /\ MaxEntries \in Nat /\ MaxCalls \in Nat

NoModel == [kind |-> "model", name |-> "", host |-> "", status |-> "",
            inside |-> <<>>]
NoUnit == [model |-> NoModel, components |-> <<>>, relationships |-> <<>>,
           connections |-> <<>>]

NoDir == [accessible |-> TRUE, files |-> <<>>]

Each(v) == [p \in Callers |-> v]

Init ==
    /\ RegistryInit
    /\ pc = Each("idle") /\ dir = Each(NoDir) /\ unit = Each(NoUnit)
    /\ todo = Each(<<>>) /\ kept = Each(<<>>) /\ units = Each(<<>>)
    /\ errs = Each({}) /\ invalid = Each({})
    /\ cut = {} /\ lost = Each(0)
    /\ calls = 0
-----------------------------------------------------------------------------
\* processDir walks the files, and an archive's content where it stands.
Walked(files) ==
    Joined([i \in DOMAIN files |->
              IF files[i].kind = "archive" THEN files[i].inside ELSE <<files[i]>>])

OfKind(files, kind) == Those(files, {f \in ToSet(files) : f.kind = kind})

\* The packaging unit of a directory: of several models the last one stays.
PackagingUnit(files) ==
    LET ms == OfKind(files, "model")
    IN  [model         |-> IF ms = <<>> THEN NoModel ELSE Last(ms),
         components    |-> OfKind(files, "component"),
         relationships |-> OfKind(files, "relationship"),
         connections   |-> OfKind(files, "connection")]

\* What processDir makes of each directory.
UnitOf == [d \in Dirs |-> PackagingUnit(Walked(d.files))]

\* The errors of reading: a YAML file that cannot be converted is reported
\* but does not count as an invalid definition.
ReadErrors(files) == {f.name : f \in {g \in ToSet(files) : g.kind \in Unusable}}
Invalid(files) ==
    {f.name : f \in {g \in ToSet(files) : g.kind \in Unusable \ {"badYaml"}}}

\* getEntity picks the type by the schema version; FindEntityType has seen
\* the same field, so a definition has one of the four types.
Definitions(u) == u.components \o u.relationships \o u.connections

\* Why register returns before it writes anything.
Empty(u) == u.components = <<>> /\ u.relationships = <<>>
Ignored(u) == u.model.status = "ignored"
Orphan(u) == u.model.host = ""

\* Register reads the directory; the unit is registered unless there is no
\* model, nothing to register, or no registrant.
Register(p, d) ==
    /\ pc[p] \in {"idle", "returned"}
    /\ calls < MaxCalls
    /\ calls' = calls + 1
    /\ dir' = [dir EXCEPT ![p] = d]
    /\ LET files == Walked(d.files)
           u == UnitOf[d]
           stop == ~d.accessible \/ u.model = NoModel
           quiet == ~stop /\ (Empty(u) \/ Ignored(u))
       IN  /\ errs' = [errs EXCEPT ![p] =
                         (IF d.accessible THEN ReadErrors(files) ELSE {})
                         \cup (IF stop THEN {"directory"} ELSE {})
                         \cup (IF ~stop /\ ~quiet /\ Orphan(u)
                               THEN {u.model.name} ELSE {})]
           /\ invalid' = [invalid EXCEPT ![p] = IF d.accessible THEN Invalid(files)
                                                ELSE {}]
           /\ unit' = [unit EXCEPT ![p] = u]
           /\ pc' = [pc EXCEPT ![p] = IF stop \/ quiet \/ Orphan(u) THEN "returned"
                                      ELSE "model"]
           /\ todo' = [todo EXCEPT ![p] = Definitions(u)]
    /\ kept' = [kept EXCEPT ![p] = <<>>]
    /\ UNCHANGED <<registryVars, units, cut, lost>>

\* Mutant: the other definitions are registered although the model failed.
RegisterModelOn(p, outcome) ==
    /\ pc[p] = "model"
    /\ LET m == unit[p].model
       IN  /\ RegisterEntity(m.host, "model", m.name, m.name, "enabled", outcome)
           /\ errs' = IF outcome = "ok" THEN errs ELSE [errs EXCEPT ![p] = @ \cup {m.name}]
    /\ pc' = [pc EXCEPT ![p] = "rest"]
    /\ UNCHANGED <<dir, unit, todo, kept, units, invalid, cut, lost, calls>>

\* The model is registered first; nothing else is when that fails.
RegisterModel(p, outcome) ==
    /\ pc[p] = "model"
    /\ LET m == unit[p].model
       IN  /\ RegisterEntity(m.host, "model", m.name, m.name, "enabled", outcome)
           /\ errs' = IF outcome = "ok" THEN errs ELSE [errs EXCEPT ![p] = @ \cup {m.name}]
    /\ pc' = [pc EXCEPT ![p] = IF outcome = "ok" THEN "rest" ELSE "returned"]
    /\ UNCHANGED <<dir, unit, todo, kept, units, invalid, cut, lost, calls>>

\* The next definition, under the registrant of the model.
RegisterDefinition(p, outcome) ==
    /\ pc[p] = "rest"
    /\ todo[p] # <<>>
    /\ LET d == Head(todo[p])
       IN  /\ ~(d.kind = "component" /\ d.status \in {"ignored", "none"})
           /\ RegisterEntity(unit[p].model.host, d.kind, d.name,
                             unit[p].model.name, "enabled", outcome)
           /\ kept' = IF outcome = "ok" THEN [kept EXCEPT ![p] = Append(@, d)] ELSE kept
           /\ errs' = IF outcome = "ok" THEN errs ELSE [errs EXCEPT ![p] = @ \cup {d.name}]
    /\ todo' = [todo EXCEPT ![p] = Tail(@)]
    /\ UNCHANGED <<pc, dir, unit, units, invalid, cut, lost, calls>>

\* A component to be ignored is passed over; one without a status is a nil
\* pointer, and the goroutine panics with the unit half registered.
SkipComponent(p) ==
    /\ pc[p] = "rest"
    /\ todo[p] # <<>>
    /\ Head(todo[p]).kind = "component"
    /\ \/ Head(todo[p]).status = "ignored" /\ UNCHANGED pc
       \/ Head(todo[p]).status = "none" /\ pc' = [pc EXCEPT ![p] = "panicked"]
    /\ todo' = [todo EXCEPT ![p] = Tail(@)]
    /\ UNCHANGED <<registryVars, dir, unit, kept, units, errs, invalid, cut, lost, calls>>

\* Mutant: the unit is appended as it was read.
FinishWhole(p) ==
    /\ pc[p] = "rest"
    /\ todo[p] = <<>>
    /\ pc' = [pc EXCEPT ![p] = "returned"]
    /\ units' = [units EXCEPT ![p] = Append(@, unit[p])]
    /\ UNCHANGED <<registryVars, dir, unit, todo, kept, errs, invalid, cut, lost, calls>>

\* The unit, reduced to what was registered, is appended to PkgUnits.
Finish(p) ==
    /\ pc[p] = "rest"
    /\ todo[p] = <<>>
    /\ pc' = [pc EXCEPT ![p] = "returned"]
    /\ units' = [units EXCEPT ![p] =
                   Append(@, [model         |-> unit[p].model,
                              components    |-> OfKind(kept[p], "component"),
                              relationships |-> OfKind(kept[p], "relationship"),
                              connections   |-> OfKind(kept[p], "connection")])]
    /\ UNCHANGED <<registryVars, dir, unit, todo, kept, errs, invalid, cut, lost, calls>>

\* Cleanup asks nobody: calls go on, fail while there are no tables, and write
\* the rest of their units when there are new ones.
CleanupMeanwhile ==
    /\ calls < MaxCalls
    /\ calls' = calls + 1
    /\ Cleanup
    /\ cut' = {unit[p].model.name : p \in {q \in Callers : pc[q] = "rest"}}
    /\ lost' = [p \in Callers |-> Len(units[p]) + (IF pc[p] = "rest" THEN 1 ELSE 0)]
    /\ UNCHANGED <<memo, callVars>>

\* The process ends, with its helpers, stores and memo, at any moment; the
\* tables are in a database that stays.
Restart ==
    /\ memo' = <<>>
    /\ pc' = Each("idle") /\ dir' = Each(NoDir) /\ unit' = Each(NoUnit)
    /\ todo' = Each(<<>>) /\ kept' = Each(<<>>) /\ units' = Each(<<>>)
    /\ errs' = Each({}) /\ invalid' = Each({}) /\ lost' = Each(0)
    /\ UNCHANGED <<migrated, hosts, models, rows, entries, cut, calls>>
-----------------------------------------------------------------------------
Next ==
    \/ \E p \in Callers :
         \/ \E d \in Dirs : Register(p, d)
         \/ \E outcome \in Outcomes :
              RegisterModel(p, outcome) \/ RegisterDefinition(p, outcome)
         \/ SkipComponent(p) \/ Finish(p)
    \/ UNCHANGED regVars /\ \E f \in Filters : GetEntitiesMemoized(f)
    \/ UNCHANGED regVars /\ \E m \in ToSet(models) : UpdateEntityStatus(m.name, "ignored")
    \/ UNCHANGED regVars /\ \E p \in Policies :
         RegisterEntity(p.host, "policy", p.name, p.model, "enabled", "ok")
    \/ CleanupMeanwhile \/ Restart
    \/ UNCHANGED regVars /\ NewRegistryManager
-----------------------------------------------------------------------------
TypeOK ==
    /\ migrated \in BOOLEAN
    /\ Len(entries) <= MaxEntries
    /\ \A t \in Types : Len(rows[t]) <= MaxEntries
    /\ DOMAIN memo \subseteq Filters
    /\ pc \in [Callers -> {"idle", "model", "rest", "returned", "panicked"}]
    /\ dir \in [Callers -> Dirs \cup {NoDir}]
    /\ \A p \in Callers : IsSuffix(todo[p], Definitions(unit[p]))
    /\ \A p \in Callers : invalid[p] \subseteq errs[p]
    /\ \A p \in Callers : lost[p] <= Len(units[p]) + 1
    /\ calls \in 0 .. MaxCalls

(***************************************************************************)
(* A component or relationship in the registry belongs to a model that the *)
(* model filter can find: no write that fails half-way, no ignored or      *)
(* panicking component, no end of the process and no concurrent            *)
(* registration of the same model leaves one under a model without an      *)
(* entry.  Only a Cleanup does, in the middle of a unit of that model.     *)
(***************************************************************************)
NoOrphans ==
    \A t \in {"component", "relationship"} : \A i \in DOMAIN rows[t] :
        \/ rows[t][i].model \in cut
        \/ \E e \in ToSet(entries) : e.type = "model" /\ models[e.entity].name = rows[t][i].model

(***************************************************************************)
(* When Register returns, every file of the directory is accounted for: it *)
(* is registered and in the caller's PkgUnits, or it is in the error       *)
(* store, or it, its model or its directory is one of those that are       *)
(* passed over silently - a component to be ignored, a unit without        *)
(* components and relationships, or a model that a later file replaced     *)
(* (Replaced), although dir.go says that a directory with several models   *)
(* is invalid.                                                             *)
(***************************************************************************)
Replaced(p, f) ==
    /\ f.kind = "model" /\ f # unit[p].model
    /\ Last(OfKind(Walked(dir[p].files), "model")) = unit[p].model

Accounted ==
    \A p \in Callers : pc[p] = "returned" =>
        LET u == unit[p]
        IN  \A f \in ToSet(Walked(dir[p].files)) :
              \/ f.kind \in Skipped
              \/ {f.name, u.model.name, "directory"} \cap errs[p] # {}
              \/ Empty(u) \/ Ignored(u)
              \/ Replaced(p, f)
              \/ f.kind = "component" /\ f.status = "ignored"
              \/ units[p] # <<>> /\ f \in {Last(units[p]).model} \cup ToSet(Definitions(Last(units[p])))

(***************************************************************************)
(* What PkgUnits says was registered since the last Cleanup can be found:  *)
(* the model has an entry, its registrant is listed among the registrants  *)
(* and is the one of the model's first entry or of a later one, and each   *)
(* definition has a row.  The unit of a call that a Cleanup cut is not     *)
(* among them, though Register reports it no different.                    *)
(***************************************************************************)
UnitsRegistered ==
    \A p \in Callers : \A i \in lost[p] + 1 .. Len(units[p]) :
        LET u == units[p][i] IN
        /\ u.model.host \in ToSet(GetRegistrants(0, 0).hosts)
        /\ HasModel(u.model.name)
        /\ GetRegistrant("model", IdIn(models, u.model.name)) # ""
        /\ \A d \in ToSet(Definitions(u)) : \E r \in ToSet(rows[d.kind]) : r.name = d.name

(***************************************************************************)
(* An empty answer is never served from the memo: when GetEntitiesMemoized *)
(* returns no entities, the registry has none, however early the filter    *)
(* was asked for the first time and whatever failed then.                  *)
(***************************************************************************)
NeverHidden ==
    [][\A f \in Filters : GetEntitiesMemoized(f) =>
         (memo'[f].entities = <<>> => Get(f).entities = <<>>)]_vars
=============================================================================
