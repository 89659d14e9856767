----------------------------- MODULE SchemaRefs -----------------------------
(***************************************************************************)
(* The references of an OpenAPI document, before its components are        *)
(* generated.  The loader has resolved them: schemas refer to one another, *)
(* in circles too, and clearSchemaRefs inlines every reference, depth      *)
(* first from each component in the order of a Go map, and cuts those to a *)
(* schema that it is in the middle of.                                     *)
(***************************************************************************)
EXTENDS Naturals, Sequences, FiniteSets, SequencesExt

CONSTANTS
    Schemas,   \* schemas of the components, and within them
    ApiDocuments  \* target of each reference: <<owner, target>> |-> target

\* The owner of a reference is a schema, or the document for its components.
Components == "components"
NoSchema == "empty"  \* the schema without content that replaces a cut one

\* What refers is a schema or the components, and what it refers to a schema.
ASSUME RefsAssumption ==
    /\ {Components, NoSchema} \cap Schemas = {}
    /\ \A d \in ApiDocuments :
         /\ d \in [DOMAIN d -> Schemas]
         /\ \A r \in DOMAIN d : r[1] \in Schemas \cup {Components}

VARIABLES
    refs,     \* the target of each reference
    cleared,  \* references whose $ref is ""
    inlining, \* of each call, its schema and the references it has left
    stack,    \* the schemas that calls are in the middle of
    original  \* history: the references of the document

refVars == <<refs, cleared, inlining, stack, original>>

Owned(d, o) == {r \in DOMAIN d : r[1] = o}
Call(d, o) == [schema |-> o, left |-> Owned(d, o)]

\* getResolvedManifest: the components one after another.
RefsInit ==
    /\ original \in ApiDocuments
    /\ refs = original
    /\ cleared = {}
    /\ inlining = <<Call(original, Components)>> /\ stack = {}

Current == inlining[Len(inlining)]
-----------------------------------------------------------------------------
\* A call for a reference: when an outer call is for the same schema, an
\* empty schema takes its place.
ClearSchemaRef(r) ==
    /\ inlining # <<>> /\ r \in Current.left
    /\ cleared' = cleared \cup {r}
    /\ LET outer == [inlining EXCEPT ![Len(inlining)].left = @ \ {r}]
       IN  \/ /\ refs[r] \in stack
              /\ refs' = [refs EXCEPT ![r] = NoSchema]
              /\ inlining' = outer
              /\ UNCHANGED stack
           \/ /\ refs[r] \notin stack
              /\ inlining' = Append(outer, Call(refs, refs[r]))
              /\ stack' = stack \cup {refs[r]}
              /\ UNCHANGED refs
    /\ UNCHANGED original

Return ==
    /\ inlining # <<>> /\ Current.left = {}
    /\ inlining' = Front(inlining)
    /\ stack' = stack \ {Current.schema}
    /\ UNCHANGED <<refs, cleared, original>>

RefsNext == Return \/ \E r \in DOMAIN refs : ClearSchemaRef(r)
-----------------------------------------------------------------------------
RefsTypeOK ==
    /\ refs \in [DOMAIN original -> Schemas \cup {NoSchema}]
    /\ cleared \subseteq DOMAIN refs
    /\ stack = {inlining[i].schema : i \in DOMAIN inlining} \ {Components}
    /\ stack \subseteq Schemas \cup {NoSchema}

\* The schemas that are in a schema, directly or not: those in every set that
\* has what it refers to, and what its own members refer to.
TargetsOf(d, o) == {d[r] : r \in Owned(d, o)} \ {NoSchema}
Closed(d, S) == \A s \in S : TargetsOf(d, s) \subseteq S
Within(d, o) ==
    {s \in Schemas : \A S \in SUBSET Schemas : TargetsOf(d, o) \subseteq S /\ Closed(d, S) => s \in S}

ClosesCircle(r) == r[1] \in {original[r]} \cup Within(original, original[r])
Reachable(o) == o \in Within(original, Components)

(***************************************************************************)
(* Afterwards the components can be written out: none contains itself,     *)
(* every reference in them is inlined, and all that was cut are references *)
(* that close a circle: a schema that is merely used twice is there twice, *)
(* and every component is there.                                           *)
(***************************************************************************)
Inlined ==
    inlining = <<>> =>
        /\ \A s \in Schemas : Reachable(s) => s \notin Within(refs, s)
        /\ \A r \in DOMAIN refs : r[1] = Components \/ Reachable(r[1]) => r \in cleared
        /\ \A r \in DOMAIN refs : refs[r] # original[r] => r[1] # Components /\ ClosesCircle(r)
=============================================================================
