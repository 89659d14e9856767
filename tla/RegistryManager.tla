--------------------------- MODULE RegistryManager --------------------------
(***************************************************************************)
(* The capability registry: the tables behind RegistryManager, the writes  *)
(* of RegisterEntity, the filters that query the tables, and the memo that *)
(* GetEntitiesMemoized puts before them.  An empty string in a filter      *)
(* stands for a field that is not set.                                     *)
(***************************************************************************)
EXTENDS Selections, FiniteSets, SequencesExt, FiniteSetsExt, TLC

CONSTANTS
    Like,       \* pairs <<text, pattern>> with text LIKE %pattern%
    Filters,    \* the filters that are used
    MaxEntries, \* bound: rows of registries, and of each of the entities' tables
    MaxAsked    \* bound: filters asked through the memo

VARIABLES
    migrated,  \* the tables exist
    hosts,     \* rows of connections, in the order of their kind
    models,    \* rows of model_dbs: records [name, host, status]
    rows,      \* by type of entity, the rows of its table: records [name, model, status]
    entries,   \* rows of registries: records [host, type, entity]
    memo       \* the RegistryEntityCache of a caller

registryVars == <<migrated, hosts, models, rows, entries, memo>>

Types == {"component", "relationship", "connection", "policy"}
Outcomes == {"ok", "registrant", "entity", "entry"}
Nothing == [entities |-> <<>>, count |-> 0, unique |-> 0, err |-> FALSE]
Failed == [Nothing EXCEPT !.err = TRUE]

\* NewRegistryManager migrates the tables.
RegistryInit ==
    /\ migrated = TRUE
    /\ hosts = <<>> /\ models = <<>> /\ rows = [t \in Types |-> <<>>] /\ entries = <<>>
    /\ memo = <<>>

\* An entity is known by its type and its place in its table.
HasModel(m) == \E i \in DOMAIN models : models[i].name = m
IdIn(table, m) == CHOOSE i \in DOMAIN table : table[i].name = m

\* Create of an entity.  A model is content-addressed, like the registrant:
\* it has one row.  Components and policies create their model too.  The
\* entities that are not models get an identifier of their own.
CreateEntity(host, type, name, model, status) ==
    /\ models' = IF ~HasModel(model) /\ type \in {"model", "component", "policy"}
                 THEN Append(models, [name |-> model, host |-> host,
                                      status |-> "enabled"])
                 ELSE models
    /\ rows' = IF type = "model" THEN rows
               ELSE [rows EXCEPT ![type] =
                       Append(@, [name |-> name, model |-> model, status |-> status])]

\* RegisterEntity writes the registrant, the entity and the entry, and
\* returns at the first write that fails; nothing is taken back.
RegisterEntity(host, type, name, model, status, outcome) ==
    /\ Len(entries) < MaxEntries
    /\ \A t \in Types : Len(rows[t]) < MaxEntries
    /\ ~migrated => outcome = "registrant"
    /\ hosts' = IF outcome = "registrant" \/ host \in ToSet(hosts)
                THEN hosts ELSE Append(hosts, host)
    /\ IF outcome \in {"registrant", "entity"}
       THEN UNCHANGED <<models, rows>>
       ELSE CreateEntity(host, type, name, model, status)
    /\ entries' = IF outcome # "ok" THEN entries
                  ELSE Append(entries, [host |-> host, type |-> type,
                                        entity |-> IF type = "model" THEN IdIn(models', model)
                                                   ELSE Len(rows'[type])])
    /\ UNCHANGED <<migrated, memo>>

\* UpdateEntityStatus changes the status of a model, and of nothing else.
UpdateEntityStatus(m, status) ==
    /\ migrated
    /\ models' = [i \in DOMAIN models |->
                    IF models[i].name = m THEN [models[i] EXCEPT !.status = status]
                    ELSE models[i]]
    /\ UNCHANGED <<migrated, hosts, rows, entries, memo>>

\* Cleanup drops every table but that of the policies.
Cleanup ==
    /\ migrated
    /\ migrated' = FALSE
    /\ hosts' = <<>> /\ models' = <<>> /\ entries' = <<>>
    /\ rows' = [t \in Types |-> IF t = "policy" THEN rows[t] ELSE <<>>]

NewRegistryManager ==
    /\ migrated' = TRUE
    /\ UNCHANGED <<hosts, models, rows, entries, memo>>
-----------------------------------------------------------------------------
Wanted(want, have) == want = "" \/ want = have
Matches(f, want, have) ==
    Wanted(want, have) \/ (f.greedy /\ <<have, want>> \in Like)
StatusOf(m) == models[IdIn(models, m)].status

OfModels == SelectSeq(entries, LAMBDA e : e.type = "model")

\* The rows of a table that a condition selects, in their order.
Where(type, Cond(_)) ==
    SelectSeq([i \in DOMAIN rows[type] |-> i], LAMBDA i : Cond(rows[type][i]))

\* OFFSET and LIMIT; no limit when it is 0.
Page(f, found) ==
    SubSeq(found, f.offset + 1,
           IF f.limit = 0 THEN Len(found)
           ELSE Min({Len(found), f.offset + f.limit}))

\* Components of a status joined with their models.  The greedy condition on
\* both names does not say whose display_name it means: the query fails.
ComponentFilter(f) ==
    LET status == IF f.status = "" THEN "enabled" ELSE f.status
        found == Where("component", LAMBDA r :
                    /\ r.status = status
                    /\ Matches(f, f.name, r.name)
                    /\ f.model \in {"all", "", r.model}
                    /\ HasModel(r.model))
        page == Page(f, found)
    IN  IF f.greedy /\ f.name # "" /\ f.display THEN Failed
        ELSE [entities |-> page, count |-> Len(found), err |-> FALSE,
              unique |-> Cardinality({<<rows["component"][i].name, rows["component"][i].model>> :
                                        i \in ToSet(page)})]

\* Models joined with their entries: a model is found once for each entry,
\* and not at all without one.
ModelFilter(f) ==
    LET found == SelectSeq(
            [i \in DOMAIN OfModels |-> OfModels[i].entity],
            LAMBDA m : /\ Matches(f, f.name, models[m].name)
                       /\ Wanted(f.status, models[m].status))
        page == Page(f, found)
    IN  [entities |-> page, count |-> Len(found), err |-> FALSE,
         unique |-> Cardinality(ToSet(page))]

\* Relationships by the status of their model.
RelationshipFilter(f) ==
    LET status == IF f.status = "" THEN "enabled" ELSE f.status
        found == Where("relationship", LAMBDA r :
                    /\ HasModel(r.model)
                    /\ StatusOf(r.model) = status
                    /\ Matches(f, f.name, r.name)
                    /\ Wanted(f.model, r.model))
    IN  [entities |-> Page(f, found), count |-> Len(found),
         unique |-> Len(found), err |-> FALSE]

\* Connection definitions carry their model inline: no join.
ConnectionFilter(f) ==
    LET found == Where("connection", LAMBDA r :
                    /\ f.model \in {"all", "", r.model}
                    /\ Matches(f, f.name, r.name)
                    /\ Wanted(f.status, r.status))
        page == Page(f, found)
    IN  [entities |-> page, count |-> Len(found), unique |-> Len(page),
         err |-> FALSE]

\* Policies of models that exist, never paged.
PolicyFilter(f) ==
    LET found == Where("policy", LAMBDA r :
                    /\ HasModel(r.model)
                    /\ Wanted(f.name, r.name) /\ Wanted(f.model, r.model))
    IN  [entities |-> found, count |-> Len(found), unique |-> Len(found),
         err |-> FALSE]

\* GetEntities: what the filter finds now.
Get(f) ==
    IF ~migrated THEN Failed
    ELSE CASE f.type = "component"    -> ComponentFilter(f)
           [] f.type = "model"        -> ModelFilter(f)
           [] f.type = "relationship" -> RelationshipFilter(f)
           [] f.type = "connection"   -> ConnectionFilter(f)
           [] f.type = "policy"       -> PolicyFilter(f)

\* Mutant: also a cached answer without entities counts.
HitEmpty(f) == f \in DOMAIN memo

\* RegistryEntityCache has an answer to f with entities.
Hit(f) == f \in DOMAIN memo /\ memo[f].entities # <<>>

\* GetEntitiesMemoized: a cached answer that has entities is returned as it
\* is; everything else is asked again and cached.  What is returned is what
\* the memo holds then.
GetEntitiesMemoized(f) ==
    /\ Cardinality(DOMAIN memo \cup {f}) <= MaxAsked
    /\ memo' = [g \in DOMAIN memo \cup {f} |->
                  IF g # f \/ Hit(f) THEN memo[g] ELSE Get(f)]
    /\ UNCHANGED <<migrated, hosts, models, rows, entries>>

\* How many entries of a type a registrant has.
EntriesOf(h, type) ==
    Cardinality({i \in DOMAIN entries : entries[i].host = h /\ entries[i].type = type})

\* GetRegistrants: of one page of connections those with models, and the
\* number of all connections without those that the page skipped.
GetRegistrants(offset, limit) ==
    LET page    == Page([offset |-> offset, limit |-> limit], hosts)
        listed  == Those(page, {h \in ToSet(page) : EntriesOf(h, "model") > 0})
    IN  [hosts |-> listed, count |-> Len(hosts) - (Len(page) - Len(listed))]

\* GetRegistrant: the host of the first entry, or none.
GetRegistrant(type, id) ==
    LET of == {i \in DOMAIN entries : entries[i].type = type /\ entries[i].entity = id}
    IN  IF of = {} THEN "" ELSE entries[Min(of)].host
=============================================================================
