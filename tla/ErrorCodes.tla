----------------------------- MODULE ErrorCodes -----------------------------
(***************************************************************************)
(* The error utility: it walks the Go files, gives every placeholder in an *)
(* error.go the next code of component_info.json, writes each file as it   *)
(* goes and the counter when the walk is over, walks again and exports.    *)
(* Developers add placeholders in between, and the utility may be killed.  *)
(***************************************************************************)
EXTENDS Naturals, Sequences, FiniteSets, SequencesExt

CONSTANTS
    GoFiles,   \* in the order of the walk: records [class, specs, details]
    FirstCode, \* next_error_code at first
    MaxJobs, MaxEdits  \* bounds: runs of the utility, and edits

\* class is "error" for an error.go, "other", "test", "skipped" for what is
\* in a skipped directory, or "broken"; specs are records [names, value] of the
\* names of error codes in a specification and its first value, and details
\* the names given to errors.New.  A value is [kind, code]: an "int", with or
\* without the component's prefix, a "text", a "call", or "none".

VARIABLES
    values,    \* the values in each file
    counter,   \* next_error_code in component_info.json
    job,       \* the run under way: <<>> or <<[update, force]>>
    pass,      \* 1 is the pass that updates, 2 the one that analyzes
    file,      \* index of the file it is at
    next,      \* comp.NextErrorCode
    infos,     \* infoAll.Entries: records [name, code, kind]
    details,   \* infoAll.Errors: the names, in order
    exported,  \* the export of the last run: records [name, code, described]
    behind,    \* history: files hold codes the counter does not know of
    jobs, edits

codeVars == <<values, counter, job, pass, file, next, infos, details, exported,
              behind, jobs, edits>>

Placeholder == [kind |-> "text", code |-> 0]
NoValue == [kind |-> "none", code |-> 0]

ErrorCodesInit ==
    /\ values = [i \in DOMAIN GoFiles |-> [j \in DOMAIN GoFiles[i].specs |->
                   GoFiles[i].specs[j].value]]
    /\ counter = FirstCode /\ next = FirstCode
    /\ job = <<>> /\ pass = 1 /\ file = 1 /\ infos = <<>> /\ details = <<>>
    /\ exported = {} /\ behind = FALSE /\ jobs = 0 /\ edits = 0

Updating == job # <<>> /\ job[1].update /\ pass = 1
-----------------------------------------------------------------------------
\* Every walk reads component_info.json first.
BeginJob(update, force) ==
    /\ job = <<>>
    /\ jobs < MaxJobs
    /\ jobs' = jobs + 1
    /\ job' = <<[update |-> update, force |-> force]>>
    /\ pass' = IF update THEN 1 ELSE 2
    /\ file' = 1 /\ next' = counter /\ infos' = <<>> /\ details' = <<>>
    /\ UNCHANGED <<values, counter, exported, behind, edits>>

\* handleValueSpec, for one name after another: a literal that is no integer,
\* and with force every literal, gets the next code.  All the names of a
\* specification look at its first value, so that without force only the first
\* of them finds no integer.
NamesOf(i, j) == GoFiles[i].specs[j].names
Gets(i) ==
    {g \in UNION {{j} \X DOMAIN NamesOf(i, j) : j \in DOMAIN values[i]} :
       LET v == values[i][g[1]]
       IN  \/ v.kind = "text" /\ g[2] = 1
           \/ v.kind \in {"text", "int"} /\ job[1].force}

\* Mutant: the counter advances once per file.
CodedOnce(i, n) ==
    LET new == [j \in DOMAIN values[i] |->
                  IF \E g \in Gets(i) : g[1] = j THEN [kind |-> "int", code |-> n] ELSE values[i][j]]
    IN  [values |-> new, next |-> IF new = values[i] THEN n ELSE n + 1]

\* The values of a file with the codes from n on; the last one given stays.
Coded(i, n) ==
    [values |-> [j \in DOMAIN values[i] |->
                   IF \E g \in Gets(i) : g[1] = j
                   THEN [kind |-> "int", code |-> n + Cardinality({g \in Gets(i) : g[1] <= j}) - 1]
                   ELSE values[i][j]],
     next   |-> n + Cardinality(Gets(i))]

Entries(i) ==
    FlattenSeq([j \in DOMAIN values[i] |->
      [k \in DOMAIN NamesOf(i, j) |-> [name |-> NamesOf(i, j)[k], code |-> values[i][j].code,
                                      kind |-> values[i][j].kind]]])

Included(i) == GoFiles[i].class \notin {"test", "skipped"}

\* A specification without a value: Values[0] is out of range.
Panics(i) == Included(i) /\ GoFiles[i].class # "broken" /\ \E v \in ToSet(values[i]) : v.kind = "none"

EndJob == job' = <<>>

\* An error ends the walk; that of an update pass is dropped for the result
\* of writing component_info.json.
WalkError ==
    IF Updating THEN file' = Len(GoFiles) + 1 /\ UNCHANGED job
    ELSE EndJob /\ UNCHANGED file

\* The next file of the walk: only an error.go is changed, and written at
\* once when it is.
HandleFile ==
    /\ job # <<>>
    /\ file <= Len(GoFiles) /\ ~Panics(file)
    /\ LET c == Coded(file, next)
           class == GoFiles[file].class
           changes == Updating /\ class = "error" /\ c.values # values[file]
       IN  IF ~Included(file)
           THEN file' = file + 1 /\ UNCHANGED <<values, job, next, infos, details>>
           ELSE IF class = "broken"
           THEN WalkError /\ UNCHANGED <<values, next, infos, details>>
           ELSE /\ infos' = infos \o Entries(file)
                /\ details' = details \o GoFiles[file].details
                /\ next' = IF Updating /\ class = "error" THEN c.next ELSE next
                /\ \/ /\ values' = IF changes THEN [values EXCEPT ![file] = c.values] ELSE values
                      /\ file' = file + 1
                      /\ UNCHANGED job
                   \/ changes /\ WalkError /\ UNCHANGED values
    /\ UNCHANGED <<counter, pass, exported, behind, jobs, edits>>

\* The update pass ends: component_info.json is written, or cannot be, and
\* everything is read once more.
WriteComponent ==
    /\ Updating
    /\ file > Len(GoFiles)
    /\ \/ /\ counter' = next
          /\ pass' = 2
          /\ file' = 1 /\ infos' = <<>> /\ details' = <<>>
          /\ UNCHANGED <<job, behind>>
       \/ /\ EndJob
          /\ behind' = (behind \/ next > counter)
          /\ UNCHANGED <<counter, pass, file, infos, details>>
    /\ UNCHANGED <<values, next, exported, jobs, edits>>

\* SummarizeAnalysis: the variables with integers, and those whose code
\* several have.
Numbered(es) == {i \in DOMAIN es : es[i].kind = "int"}
Duplicated(es) ==
    {i \in Numbered(es) : \E j \in Numbered(es) \ {i} : es[j].code = es[i].code}

\* Export: integers that one variable has, with the details when there is
\* exactly one errors.New for the name.
Exported(es, names) ==
    {[name |-> es[i].name, code |-> es[i].code,
      described |-> Cardinality({k \in DOMAIN names : names[k] = es[i].name}) = 1] :
        i \in Numbered(es) \ Duplicated(es)}

Export ==
    /\ job # <<>> /\ pass = 2
    /\ file > Len(GoFiles)
    /\ exported' = Exported(infos, details)
    /\ EndJob
    /\ UNCHANGED <<values, counter, pass, file, next, infos, details, behind, jobs, edits>>

\* The process is killed, or panics.
Kill ==
    /\ job # <<>>
    /\ EndJob
    /\ behind' = (behind \/ (Updating /\ next > counter))
    /\ UNCHANGED <<values, counter, pass, file, next, infos, details, exported, jobs, edits>>

\* A developer writes a new error in place of another, with a value or without.
Edit(i, j) ==
    /\ job = <<>>
    /\ edits < MaxEdits
    /\ edits' = edits + 1
    /\ \E v \in {Placeholder, NoValue} : values' = [values EXCEPT ![i][j] = v]
    /\ UNCHANGED <<counter, job, pass, file, next, infos, details, exported, behind, jobs>>

ErrorCodesNext ==
    \/ BeginJob(FALSE, FALSE)
    \/ \E force \in BOOLEAN : BeginJob(TRUE, force)
    \/ HandleFile \/ WriteComponent \/ Export \/ Kill
    \/ \E i \in DOMAIN values : \E j \in DOMAIN values[i] : Edit(i, j)
-----------------------------------------------------------------------------
\* The variables that have a code: file, and place in it.
Codes ==
    UNION {{<<i, j>> : j \in {k \in DOMAIN values[i] : values[i][k].kind = "int"}} :
             i \in {k \in DOMAIN GoFiles : Included(k)}}

ErrorCodesTypeOK ==
    /\ \A i \in DOMAIN GoFiles : Len(values[i]) = Len(GoFiles[i].specs)
    /\ counter <= next \/ job = <<>>
    /\ file \in 1 .. Len(GoFiles) + 1
    /\ behind \in BOOLEAN /\ jobs \in 0 .. MaxJobs /\ edits \in 0 .. MaxEdits

(***************************************************************************)
(* Error codes are unique in the component, and the next code is above all *)
(* of them, over updates, forced ones too, that fail at any file, and      *)
(* analyses - as long as no run ended after a file was written and before  *)
(* component_info.json was: then the next update gives the codes again.    *)
(* What is exported under one code is one error in any case.               *)
(***************************************************************************)
CodesUnique ==
    /\ ~behind => \A c, d \in Codes :
         /\ values[c[1]][c[2]].code = values[d[1]][d[2]].code => c = d
         /\ values[c[1]][c[2]].code < IF Updating THEN next ELSE counter
    /\ \A e, f \in exported : e.code = f.code => e = f
=============================================================================
