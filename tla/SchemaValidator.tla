--------------------------- MODULE SchemaValidator ---------------------------
(***************************************************************************)
(* The validator of documents: schemas are found in the embedded assets    *)
(* and registered, a document's reference is detected and resolved, and    *)
(* the schema at the registered location is compiled once and cached.      *)
(* Validating validate and register concurrently, and take the lock anew for  *)
(* each of these steps.                                                    *)
(***************************************************************************)
EXTENDS Selections, FiniteSets, SequencesExt, Functions

CONSTANTS
    Validating,  \* goroutines that validate
    Assets,      \* the embedded assets, by location (see below)
    Extra,       \* registrations that callers add: [version, type, location, asset]
    Texts,       \* documents: [decodes, object, field, version, valid, lax]
    Refs,        \* explicit references: [version, type]
    MaxExtra     \* bound: registrations added

\* A word is <<stem, ending>>.  A schemaVersion is <<>> when it is empty,
\* <<word>> without a slash, and <<word, asset version>> otherwise; the field of
\* a document is a "string", a "number" or "absent".  The word is what stands
\* before the first dot.  A document satisfies the schemas at the locations "valid",
\* and those in "lax" but for the pattern of its schemaVersion.
\*
\* An asset is a record [location, skipped, shape, candidates, type, asset]
\* with the places a version may come from: property, literals, templates.
ASSUME ValidatorAssumption == IsSequence(Assets) /\ MaxExtra \in Nat

VARIABLES
    built,      \* New has registered the assets
    byVersion,  \* registrations[schemaVersionKey(...)]
    byType,     \* registrations[typeKey(...)]
    versioned,  \* typeVersions, by <<type, asset version>>
    cache,      \* locations of compiled schemas
    compiling,  \* locations being compiled: the caller that does it
    at,         \* where the call of each caller is
    text,       \* its document
    ref,        \* its reference
    reg,        \* the registration it resolved to
    verdict,    \* of its last call
    extras

validatorVars == <<built, byVersion, byType, versioned, cache, compiling, at,
                   text, ref, reg, verdict, extras>>

NoWord == <<"", "">>
NoRef == [version |-> <<>>, type |-> NoWord]
NoReg == [version |-> <<>>, type |-> NoWord, location |-> "", asset |-> ""]
NoText == [decodes |-> FALSE, object |-> FALSE, field |-> "absent", version |-> <<>>,
           valid |-> {}, lax |-> {}]
NoOne == "none"

ValidatorInit ==
    /\ built = FALSE
    /\ byVersion = <<>> /\ byType = <<>> /\ versioned = <<>>
    /\ cache = {} /\ compiling = <<>>
    /\ at = [p \in Validating |-> "idle"]
    /\ text = [p \in Validating |-> NoText]
    /\ ref = [p \in Validating |-> NoRef]
    /\ reg = [p \in Validating |-> NoReg]
    /\ verdict = [p \in Validating |-> "none"]
    /\ extras = 0

With(f, k, v) == [x \in DOMAIN f \cup {k} |-> IF x = k THEN v ELSE f[x]]
-----------------------------------------------------------------------------
\* singularDocumentType: "policies" is of type "policy", "classes" of "classe".
Singular(w) ==
    CASE w[2] = "ies" /\ w[1] # "" -> <<w[1], "y">>
      [] w[2] = "ies" /\ w[1] = "" -> <<"", "ie">>
      [] w[2] = "s"                -> <<w[1], "">>
      [] OTHER                     -> w

ParseSchemaVersion(v) ==
    IF Len(v) = 2 /\ v[1] # NoWord /\ v[2] # "" THEN <<Singular(v[1]), v[2]>> ELSE <<>>

\* The version of a schema: the first of const, default, enum, examples and
\* example of its property that names one, else the one version that its
\* examples mention, else the one of the templates beside it.
ExtractSchemaVersion(a) ==
    LET only(s) == IF Cardinality(s) = 1 THEN s ELSE {}
        places == [i \in 1 .. 5 |-> only(a.property[i])] \o <<only(a.literals), only(a.templates)>>
        naming == SelectSeq(places, LAMBDA s : s # {})
    IN  IF naming = <<>> THEN <<>> ELSE CHOOSE v \in naming[1] : TRUE

\* An asset with a root schema, or with one component that has a schemaVersion;
\* hidden files, templates and descriptions of APIs are passed over.
Discoverable(a) == ~a.skipped /\ (a.shape = "root" \/ (a.shape = "openapi" /\ a.candidates = 1))

DiscoverRegistration(a) ==
    [version |-> ExtractSchemaVersion(a), type |-> a.type, location |-> a.location,
     asset |-> a.asset]

BuiltinRegistrations ==
    [i \in {i \in DOMAIN Assets : Discoverable(Assets[i])} |->
       DiscoverRegistration(Assets[i])]
-----------------------------------------------------------------------------
\* Of the registrations that have a key, the last one with each key.
Latest(rs, key) ==
    [k \in {key[i] : i \in DOMAIN key} |-> rs[Max({i \in DOMAIN key : key[i] = k})]]

Over(f, g) ==
    [x \in DOMAIN f \cup DOMAIN g |-> IF x \in DOMAIN g THEN g[x] ELSE f[x]]

\* Registrations one after another; later ones replace those with their key.
Adds(rs) ==
    LET versions == {i \in DOMAIN rs : rs[i].version # <<>>}
        types == {i \in DOMAIN rs : rs[i].type # NoWord}
        typed == {i \in types : rs[i].asset # ""}
    IN  /\ byVersion' = Over(byVersion, Latest(rs, [i \in versions |-> rs[i].version]))
        /\ byType' = Over(byType, Latest(rs, [i \in types |-> rs[i].type]))
        /\ versioned' = Over(versioned, Latest(rs, [i \in typed |-> <<rs[i].type, rs[i].asset>>]))

\* New: the later of two registrations of one key counts.
NewValidator ==
    /\ ~built
    /\ built' = TRUE
    /\ Adds(BuiltinRegistrations)
    /\ UNCHANGED <<cache, compiling, at, text, ref, reg, verdict, extras>>

\* Register: a reference and a location are required.
RegisterSchema(r) ==
    /\ built
    /\ extras < MaxExtra
    /\ extras' = extras + 1
    /\ IF (r.version = <<>> /\ r.type = NoWord) \/ r.location = ""
       THEN UNCHANGED <<byVersion, byType, versioned>> ELSE Adds(<<r>>)
    /\ UNCHANGED <<built, cache, compiling, at, text, ref, reg, verdict>>

Derived(v, type) ==
    LET key == ParseSchemaVersion(v)
    IN  IF key \in DOMAIN versioned /\ type \in {NoWord, key[1]} THEN {versioned[key]} ELSE {}

\* Mutant: a version that is not registered falls back to the type.
ResolveByType(r) ==
    IF r.version # <<>> /\ r.version \in DOMAIN byVersion THEN {byVersion[r.version]}
    ELSE IF r.version # <<>> /\ Derived(r.version, r.type) # {} THEN Derived(r.version, r.type)
    ELSE IF r.type \in DOMAIN byType THEN {byType[r.type]} ELSE {}

\* The registration of a reference, if there is one: an explicit version
\* never falls back to the type.
Resolve(r) ==
    IF r.version # <<>>
    THEN IF r.version \in DOMAIN byVersion THEN {byVersion[r.version]}
         ELSE Derived(r.version, r.type)
    ELSE IF r.type \in DOMAIN byType THEN {byType[r.type]} ELSE {}

DocumentType(v) ==
    LET rs == IF v \in DOMAIN byVersion THEN {byVersion[v]} ELSE Derived(v, NoWord)
    IN  IF rs = {} THEN NoWord ELSE (CHOOSE r \in rs : TRUE).type

\* The reference of a document with a schemaVersion that is a non-empty string.
DetectRef(t) ==
    IF t.decodes /\ t.object /\ t.field = "string" /\ t.version # <<>>
    THEN [version |-> t.version, type |-> DocumentType(t.version)] ELSE NoRef
-----------------------------------------------------------------------------
Ends(p, v) ==
    /\ at' = [at EXCEPT ![p] = "idle"]
    /\ verdict' = [verdict EXCEPT ![p] = v]

\* ValidateBytes with a reference resolves it before it decodes; without one,
\* and Validate, decode and detect the reference first.
BeginValidate(p, t, r) ==
    /\ built
    /\ at[p] = "idle"
    /\ text' = [text EXCEPT ![p] = t]
    /\ reg' = [reg EXCEPT ![p] = NoReg]
    /\ IF r # NoRef
       THEN /\ at' = [at EXCEPT ![p] = "resolve"]
            /\ ref' = [ref EXCEPT ![p] = r]
            /\ verdict' = [verdict EXCEPT ![p] = "none"]
       ELSE /\ ref' = [ref EXCEPT ![p] = DetectRef(t)]
            /\ IF DetectRef(t) = NoRef THEN Ends(p, "error")
               ELSE /\ at' = [at EXCEPT ![p] = "resolve"]
                    /\ verdict' = [verdict EXCEPT ![p] = "none"]
    /\ UNCHANGED <<built, byVersion, byType, versioned, cache, compiling, extras>>

\* The version that the registration or the reference expects.
Expected(p, r) == IF r.version # <<>> THEN r.version ELSE ref[p].version

Mismatch(p, r) ==
    /\ Expected(p, r) # <<>>
    /\ text[p].object
    /\ text[p].field # "absent"
    /\ text[p].field = "number" \/ text[p].version # Expected(p, r)

\* The document must have the version that the registration, or else the
\* reference, expects; only then is the schema compiled.
ResolveRef(p) ==
    /\ at[p] = "resolve"
    /\ IF Resolve(ref[p]) = {} \/ ~text[p].decodes
       THEN Ends(p, "error") /\ UNCHANGED reg
       ELSE LET r == CHOOSE x \in Resolve(ref[p]) : TRUE
            IN  /\ reg' = [reg EXCEPT ![p] = r]
                /\ IF Mismatch(p, r) THEN Ends(p, "invalid")
                   ELSE at' = [at EXCEPT ![p] = "compile"] /\ UNCHANGED verdict
    /\ UNCHANGED <<built, byVersion, byType, versioned, cache, compiling, text, ref, extras>>

\* compile: cached, or compiled by the first caller while others wait.
Compile(p) ==
    LET l == reg[p].location
    IN  /\ at[p] = "compile"
        /\ IF l \in cache THEN at' = [at EXCEPT ![p] = "visit"] /\ UNCHANGED compiling
           ELSE /\ at' = [at EXCEPT ![p] = "compiling"]
                /\ compiling' = IF l \in DOMAIN compiling THEN compiling
                                ELSE With(compiling, l, p)
        /\ UNCHANGED <<built, byVersion, byType, versioned, cache, text, ref, reg,
                       verdict, extras>>

\* All callers of one singleflight call get its result; an error is not
\* cached.
Compiled(l, ok) ==
    LET waiting == {p \in Validating : at[p] = "compiling" /\ reg[p].location = l}
    IN  /\ l \in DOMAIN compiling
        /\ ok => l \in ToSet([i \in DOMAIN Assets |-> Assets[i].location])
        /\ compiling' = Restrict(compiling, DOMAIN compiling \ {l})
        /\ cache' = IF ok THEN cache \cup {l} ELSE cache
        /\ at' = [p \in Validating |-> IF p \in waiting THEN IF ok THEN "visit" ELSE "idle"
                                       ELSE at[p]]
        /\ verdict' = [p \in Validating |-> IF p \in waiting /\ ~ok THEN "error"
                                            ELSE verdict[p]]
        /\ UNCHANGED <<built, byVersion, byType, versioned, text, ref, reg, extras>>

\* VisitJSON; a violated pattern of the schemaVersion alone does not count.
Visit(p) ==
    /\ at[p] = "visit"
    /\ Ends(p, IF reg[p].location \in text[p].valid \cup text[p].lax THEN "ok" ELSE "invalid")
    /\ UNCHANGED <<built, byVersion, byType, versioned, cache, compiling, text, ref, reg,
                   extras>>

ValidatorNext ==
    \/ NewValidator
    \/ \E r \in Extra : RegisterSchema(r)
    \/ \E p \in Validating, t \in Texts, r \in Refs \cup {NoRef} : BeginValidate(p, t, r)
    \/ \E p \in Validating : ResolveRef(p) \/ Compile(p) \/ Visit(p)
    \/ \E l \in DOMAIN compiling, ok \in BOOLEAN : Compiled(l, ok)
-----------------------------------------------------------------------------
ValidatorTypeOK ==
    /\ built \in BOOLEAN
    /\ at \in [Validating -> {"idle", "resolve", "compile", "compiling", "visit"}]
    /\ \A p \in Validating : verdict[p] \in {"none", "ok", "invalid", "error"}
    /\ \A l \in DOMAIN compiling : at[compiling[l]] = "compiling" /\ l \notin cache
    /\ \A v \in DOMAIN byVersion : byVersion[v].version = v
    /\ extras \in 0 .. MaxExtra

(***************************************************************************)
(* A document is judged by a schema for its own version: when a call asked *)
(* for the version, explicitly or by detection, the schema it was checked  *)
(* against was registered for that version, or for the type and the asset  *)
(* version that the version names - whatever is registered between the     *)
(* detection, the resolution and the check.  And no document that has      *)
(* another version than the schema expects is accepted.                    *)
(***************************************************************************)
OwnSchema ==
    \A p \in Validating : verdict[p] \in {"ok", "invalid"} =>
        /\ \/ ref[p].version = <<>>
           \/ reg[p].version = ref[p].version
           \/ <<reg[p].type, reg[p].asset>> = ParseSchemaVersion(ref[p].version)
        /\ verdict[p] = "ok" => ~Mismatch(p, reg[p])
=============================================================================
