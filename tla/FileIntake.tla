----------------------------- MODULE FileIntake -----------------------------
(***************************************************************************)
(* The intake of files: a file is sanitized, its archive extracted, and    *)
(* identified as the first of design, Kubernetes manifest, Helm chart,     *)
(* Compose file and Kustomization that can be parsed.  A Compose file is   *)
(* converted by kompose through files in the user's home directory and     *)
(* with the exit function of the process's logger replaced: callers that   *)
(* convert at the same time, and a process after one that was killed,      *)
(* share them.                                                             *)
(***************************************************************************)
EXTENDS Naturals, Sequences, FiniteSets, SequencesExt

CONSTANTS
    Takers,      \* goroutines
    Files,       \* what they are given: records, see below
    MaxIntakes,  \* bound: files taken in
    MaxKills     \* bound: processes killed

\* A file is [name, ext, valid, design, docs, chart, compose, kustomize]: valid
\* is well-formedness, or that the archive can be extracted; design is
\* "current", "other" or "no"; docs are the documents as Kubernetes sees
\* them: "known", "unknown", "odd" without a kind, "empty"; compose is what
\* kompose makes of it: "ok", "error", "fatal", or "version" for a version
\* above 3.9.

VARIABLES
    at,        \* where each caller is
    file,      \* the file it was given
    type,      \* what it was identified as, or "error"
    parsed,    \* objects of a manifest, or the files a result was made of
    dirs,      \* extraction directories
    tempData,  \* ~/.meshery/temp.data: the files written to it; <<>> if absent
    resultYaml,\* ~/.meshery/result.yaml, made of these files; <<>> if absent
    env,       \* ~/.meshery/.env exists
    exitFunc,  \* of the standard logger: "exit" or "ignore"
    saved,     \* the exit function each conversion found
    failed,    \* the conversion has an error
    exited,    \* a Fatal of kompose ended the process
    disturbed, \* history: conversions overlapped, or one was cut short
    intakes, kills

convertVars == <<tempData, resultYaml, env, exitFunc, saved, failed, exited>>
intakeVars == <<at, file, type, parsed, dirs, convertVars, disturbed, intakes, kills>>

NoFile == [name |-> "", ext |-> "", valid |-> FALSE, design |-> "no", docs |-> <<>>,
           chart |-> FALSE, compose |-> "error", kustomize |-> FALSE]

IntakeInit ==
    /\ at = [p \in Takers |-> "idle"] /\ file = [p \in Takers |-> NoFile]
    /\ type = [p \in Takers |-> "none"] /\ parsed = [p \in Takers |-> <<>>]
    /\ dirs = {} /\ tempData = <<>> /\ resultYaml = <<>> /\ env = FALSE
    /\ exitFunc = "exit" /\ saved = [p \in Takers |-> "exit"]
    /\ failed = [p \in Takers |-> FALSE]
    /\ exited = FALSE /\ disturbed = FALSE /\ intakes = 0 /\ kills = 0

Goto(p, step) == at' = [at EXCEPT ![p] = step]
Identified(p, t) == Goto(p, "idle") /\ type' = [type EXCEPT ![p] = t]

Yaml == {".yml", ".yaml"}
Bundles == {".tar", ".tgz", ".gz", ".zip"}
Converting == {p \in Takers : at[p] \in {"write", "check", "kompose", "read", "clean", "restore"}}
-----------------------------------------------------------------------------
\* SanitizeFile: the extension is allowed, the text well-formed; a bundle is
\* extracted to a directory of its own, which stays when that fails.
SanitizeFile(p, f) ==
    /\ at[p] = "idle"
    /\ intakes < MaxIntakes
    /\ intakes' = intakes + 1
    /\ file' = [file EXCEPT ![p] = f]
    /\ parsed' = [parsed EXCEPT ![p] = <<>>]
    /\ dirs' = IF f.ext \in Bundles THEN dirs \cup {f.name} ELSE dirs
    /\ IF f.ext \in Yaml \cup Bundles \cup {".json"} /\ f.valid
       THEN Goto(p, "identify") /\ type' = [type EXCEPT ![p] = "none"]
       ELSE Identified(p, "error")
    /\ UNCHANGED <<convertVars, disturbed, kills>>

\* A design of another schema version is none, unless it comes in an archive,
\* where the version is not looked at; one with the extension .gz is not read.
IsDesign(f) ==
    IF f.ext \in Bundles THEN f.design # "no" /\ f.ext # ".gz" ELSE f.design = "current"

\* ParseFileAsKubernetesManifest: documents without a kind are an error, and
\* an unknown kind is followed by a nil object.
IsManifest(f) == f.ext \in Yaml /\ "odd" \notin ToSet(f.docs)
ManifestObjects(docs) ==
    FoldLeft(LAMBDA os, d : CASE d = "known"   -> Append(os, d)
                              [] d = "unknown" -> os \o <<d, "nil">>
                              [] OTHER         -> os,
             <<>>, docs)

IsChart(f) == f.ext \in Bundles /\ f.chart

\* A Kustomization: a single file, or in the directory extracted.
IsKustomization(f) == f.ext # ".json" /\ f.kustomize

\* IdentifyFile up to the Compose file; what else it does is in directories
\* of its own, which it removes.
IdentifyFile(p) ==
    /\ at[p] = "identify"
    /\ \/ /\ IsDesign(file[p])
          /\ Identified(p, "design")
          /\ UNCHANGED parsed
       \/ /\ ~IsDesign(file[p]) /\ IsManifest(file[p])
          /\ Identified(p, "manifest")
          /\ parsed' = [parsed EXCEPT ![p] = ManifestObjects(file[p].docs)]
       \/ /\ ~IsDesign(file[p]) /\ ~IsManifest(file[p]) /\ IsChart(file[p])
          /\ Identified(p, "chart")
          /\ UNCHANGED parsed
       \/ /\ ~IsDesign(file[p]) /\ ~IsManifest(file[p]) /\ ~IsChart(file[p])
          /\ Goto(p, "convert")
          /\ UNCHANGED <<type, parsed>>
    /\ UNCHANGED <<file, dirs, convertVars, disturbed, intakes, kills>>

\* ParseFileAsKustomization, when the conversion failed.
ParseKustomization(p) ==
    /\ at[p] = "kustomize"
    /\ Identified(p, IF IsKustomization(file[p]) THEN "kustomize" ELSE "error")
    /\ UNCHANGED <<file, parsed, dirs, convertVars, disturbed, intakes, kills>>
-----------------------------------------------------------------------------
Unconverted == UNCHANGED <<file, dirs, intakes, kills>>

\* Convert replaces the exit function of the logger.
BeginConvert(p) ==
    /\ at[p] = "convert"
    /\ saved' = [saved EXCEPT ![p] = exitFunc]
    /\ exitFunc' = "ignore"
    /\ failed' = [failed EXCEPT ![p] = FALSE]
    /\ disturbed' = (disturbed \/ Converting # {})
    /\ Goto(p, "write")
    /\ Unconverted
    /\ UNCHANGED <<type, parsed, tempData, resultYaml, env, exited>>

\* It creates .env and appends to temp.data; when that fails it returns
\* before the removal is deferred, and a part may have been written.
WriteInput(p) ==
    /\ at[p] = "write"
    /\ \/ /\ env' = TRUE
          /\ tempData' = Append(tempData, file[p].name)
          /\ Goto(p, "check")
          /\ UNCHANGED <<failed, disturbed>>
       \/ /\ env' \in {env, TRUE}
          /\ tempData' \in {tempData, Append(tempData, file[p].name)}
          /\ failed' = [failed EXCEPT ![p] = TRUE]
          /\ disturbed' = (disturbed \/ env' \/ tempData' # tempData)
          /\ Goto(p, "restore")
    /\ Unconverted
    /\ UNCHANGED <<type, parsed, resultYaml, exitFunc, saved, exited>>

\* versionCheck, of the caller's own bytes.
VersionCheck(p) ==
    /\ at[p] = "check"
    /\ failed' = [failed EXCEPT ![p] = (file[p].compose = "version")]
    /\ Goto(p, IF file[p].compose = "version" THEN "clean" ELSE "kompose")
    /\ Unconverted
    /\ UNCHANGED <<type, parsed, tempData, resultYaml, env, exitFunc, saved, exited, disturbed>>

\* What kompose makes of the file it finds.
Outcomes ==
    IF tempData = <<>> THEN {"error", "fatal"}
    ELSE IF ~env THEN {"fatal"}
    ELSE IF Len(tempData) > 1 THEN {"ok", "error", "fatal"}
    ELSE {f.compose : f \in {g \in Files : g.name = tempData[1]}} \ {"version"}

Kompose(p) ==
    /\ at[p] = "kompose"
    /\ \/ /\ "ok" \in Outcomes
          /\ resultYaml' = tempData
          /\ Goto(p, "read")
          /\ UNCHANGED failed
       \/ /\ "error" \in Outcomes
          /\ failed' = [failed EXCEPT ![p] = TRUE]
          /\ Goto(p, "clean")
          /\ UNCHANGED resultYaml
       \* Fatal, ignored: it goes on, or panics, which is recovered.
       \/ /\ "fatal" \in Outcomes /\ exitFunc = "ignore"
          /\ \/ Goto(p, "read") /\ UNCHANGED failed
             \/ Goto(p, "clean") /\ failed' = [failed EXCEPT ![p] = TRUE]
          /\ UNCHANGED resultYaml
    /\ Unconverted
    /\ UNCHANGED <<type, parsed, tempData, env, exitFunc, saved, exited, disturbed>>

ReadResult(p) ==
    /\ at[p] = "read"
    /\ parsed' = [parsed EXCEPT ![p] = resultYaml]
    /\ failed' = [failed EXCEPT ![p] = (resultYaml = <<>>)]
    /\ Goto(p, "clean")
    /\ Unconverted
    /\ UNCHANGED <<type, tempData, resultYaml, env, exitFunc, saved, exited, disturbed>>

\* Mutant: the input stays.
RemoveResult(p) ==
    /\ at[p] = "clean"
    /\ resultYaml' = <<>> /\ env' = FALSE
    /\ Goto(p, "restore")
    /\ Unconverted
    /\ UNCHANGED <<type, parsed, tempData, exitFunc, saved, failed, exited, disturbed>>

\* The deferred calls: the files are removed, whoever's they are, ...
RemoveFiles(p) ==
    /\ at[p] = "clean"
    /\ tempData' = <<>> /\ resultYaml' = <<>> /\ env' = FALSE
    /\ Goto(p, "restore")
    /\ Unconverted
    /\ UNCHANGED <<type, parsed, exitFunc, saved, failed, exited, disturbed>>

\* ... and the exit function is what this call found.
RestoreExit(p) ==
    /\ at[p] = "restore"
    /\ exitFunc' = saved[p]
    /\ IF failed[p] THEN Goto(p, "kustomize") /\ UNCHANGED type ELSE Identified(p, "compose")
    /\ Unconverted
    /\ UNCHANGED <<parsed, tempData, resultYaml, env, saved, failed, exited, disturbed>>
-----------------------------------------------------------------------------
\* The process ends, and the next one starts with what is in the home.
Restart ==
    /\ at' = [p \in Takers |-> "idle"] /\ file' = [p \in Takers |-> NoFile]
    /\ type' = [p \in Takers |-> "none"] /\ parsed' = [p \in Takers |-> <<>>]
    /\ exitFunc' = "exit" /\ saved' = [p \in Takers |-> "exit"]
    /\ failed' = [p \in Takers |-> FALSE]
    /\ disturbed' = (disturbed \/ Converting # {})
    /\ UNCHANGED <<dirs, tempData, resultYaml, env, intakes>>

KomposeExits(p) ==
    /\ at[p] = "kompose"
    /\ "fatal" \in Outcomes /\ exitFunc = "exit"
    /\ exited' = TRUE
    /\ Restart
    /\ UNCHANGED kills

Kill ==
    /\ kills < MaxKills
    /\ kills' = kills + 1
    /\ Restart
    /\ UNCHANGED exited

Convert(p) ==
    BeginConvert(p) \/ WriteInput(p) \/ VersionCheck(p) \/ Kompose(p) \/ ReadResult(p)
    \/ RemoveFiles(p) \/ RestoreExit(p)

IntakeNext ==
    \/ \E p \in Takers, f \in Files : SanitizeFile(p, f)
    \/ \E p \in Takers : IdentifyFile(p) \/ ParseKustomization(p) \/ Convert(p) \/ KomposeExits(p)
    \/ Kill
-----------------------------------------------------------------------------
IntakeTypeOK ==
    /\ \A p \in Takers :
         /\ at[p] \in {"idle", "identify", "convert", "kustomize"} \/ p \in Converting
         /\ file[p] \in Files \cup {NoFile}
         /\ saved[p] \in {"exit", "ignore"}
         /\ type[p] \in {"none", "error", "design", "manifest", "chart", "compose", "kustomize"}
    /\ exitFunc \in {"exit", "ignore"} /\ exited \in BOOLEAN /\ disturbed \in BOOLEAN
    /\ intakes \in 0 .. MaxIntakes /\ kills \in 0 .. MaxKills

(***************************************************************************)
(* As long as no two conversions overlap and none is cut short, a Compose  *)
(* file yields the manifest of that file alone, whatever the conversions   *)
(* before it did, kompose never ends the process, and between conversions  *)
(* the home directory and the logger are as they were.                     *)
(***************************************************************************)
CleanConversions ==
    ~disturbed =>
        /\ ~exited
        /\ \A p \in Takers : type[p] = "compose" => parsed[p] = <<file[p].name>>
        /\ Converting = {} =>
             tempData = <<>> /\ resultYaml = <<>> /\ ~env /\ exitFunc = "exit"

(***************************************************************************)
(* What convert.go says of Convert: it "converts a given docker-compose    *)
(* file into kubernetes manifests", so the manifest is of the given file.  *)
(***************************************************************************)
OwnManifest == \A p \in Takers : type[p] = "compose" => parsed[p] = <<file[p].name>>
=============================================================================
