------------------------------ MODULE Library ------------------------------
(***************************************************************************)
(* The components that do not interact with one another: a behaviour is of *)
(* the one that its first state picks.                                     *)
(***************************************************************************)
EXTENDS Registration, SchemaValidator, ModSync, Sources, SchemaRefs, GithubWalk

CONSTANTS
    Parts,                                          \* the components
    Index, ChartAt, FileName, Normal, Credentials,  \* of HelmCharts
    Others, MaxOperatorCalls,                       \* of Operator
    Clusters, Names, ApiHost, MaxChanges,           \* of ClusterStatus
    Targets, Pods, MaxAttempts,                     \* of PortForwarder
    Documents, Requests, MaxOthers,                 \* of ApplyManifest
    Objects, Exposures, MaxRemoved,                 \* of Expose
    GoFiles, FirstCode, MaxJobs, MaxEdits,          \* of ErrorCodes
    Files, MaxIntakes, MaxKills                     \* of FileIntake

VARIABLES
    part,
    helmStep, cfg, chart, downloads, spoiled, temp, releases,
    status, deployment, call, opPc, answer, seen, forced, stale, opCalls,
    cluster, probing, probed, returned, endpoint, changes,
    target, started, stopped, running, pod, attempts, ready, loggers,
    request, document, space, docStep, result, objects, spaces, others, settled,
    exposing, config, left, found, services, created, failures, removed,
    values, counter, job, pass, file, next, infos, details, exported, behind, jobs,
    edits,
    taking, taken, identified, parsed, dirs, tempData, resultYaml, env, exitFunc, saved,
    failed, exited, disturbed, intakes, kills

operator == <<helmStep, cfg, chart, downloads, spoiled, temp, releases, status, deployment,
              call, opPc, answer, seen, forced, stale, opCalls>>
probes == <<cluster, probing, probed, returned, endpoint, changes>>
forwarder == <<target, started, stopped, running, pod, attempts, ready, loggers>>
manifest == <<request, document, space, docStep, result, objects, spaces, others, settled>>
exposure == <<exposing, config, left, found, services, created, failures, removed>>
errorCodes == <<values, counter, job, pass, file, next, infos, details, exported, behind,
                jobs, edits>>
fileIntake == <<taking, taken, identified, parsed, dirs, tempData, resultYaml, env, exitFunc,
                saved, failed, exited, disturbed, intakes, kills>>
libraryVars == <<part, vars, operator, probes, forwarder, manifest, exposure, validatorVars,
                 errorCodes, syncVars, fileIntake, sourceVars, refVars, githubVars>>
-----------------------------------------------------------------------------
O == INSTANCE Operator WITH
       step <- helmStep, pc <- opPc, calls <- opCalls, MaxCalls <- MaxOperatorCalls
C == INSTANCE ClusterStatus WITH pc <- probing, status <- probed
P == INSTANCE PortForwarder WITH at <- running
M == INSTANCE ApplyManifest WITH next <- document, step <- docStep
X == INSTANCE Expose
E == INSTANCE ErrorCodes
I == INSTANCE FileIntake WITH
       Takers <- Callers, at <- taking, file <- taken, type <- identified

\* The error codes that a component begins with.
InitialValue(c) == GoFiles[c[1]].specs[c[2]].value
Given ==
    {c \in UNION {{<<i, j>> : j \in DOMAIN GoFiles[i].specs} : i \in DOMAIN GoFiles} :
       E!Included(c[1]) /\ InitialValue(c).kind = "int"}

\* What a cluster can tell of a workload; only a chart that a URL stands for is
\* downloaded.
Read == {"rolling", "done", "odd"}
Resources == {"present", "absent", "error"}

ASSUME PartsAssumption ==
    /\ Parts \subseteq {"registration", "operator", "cluster", "forwarder", "manifest", "expose",
                       "validator", "codes", "modsync", "files", "sources", "references", "github"}
    /\ {MaxOperatorCalls, MaxChanges, MaxAttempts, MaxOthers, MaxRemoved, MaxJobs, MaxEdits,
        MaxIntakes, MaxKills} \subseteq Nat
    /\ DOMAIN Index \subseteq Nat
    /\ O!Unset \notin DOMAIN ChartAt
    /\ \A i \in DOMAIN Index : Index[i].url \in DOMAIN ChartAt
    /\ \A c \in Others : c.url # O!Unset => c.url \in DOMAIN ChartAt
    /\ \A c \in Clusters :
         /\ {c.broker, c.meshsync} \subseteq Resources
         /\ \A n \in {Names[i] : i \in DOMAIN Names} \cup {"meshery-meshsync"} :
              c.workload[n] \in Read \cup {"absent", "error"}
    /\ \A r \in Requests : IsSequence(r.documents)

\* The objects that can be exposed are in namespaces, the broker has a name,
\* what accepts connections has a host, and the codes of a component are unique
\* and below the next one when the utility is run for the first time.
ASSUME LibraryAssumption ==
    /\ \A c \in Others : O!IsConfig(c)
    /\ \A o \in Objects : o.ns # X!Unset
    /\ \A e \in Exposures : {"name", "ns"} \subseteq DOMAIN e.config /\ IsSequence(e.resources)
    /\ DOMAIN Names = 1 .. Len(Names) /\ Len(Names) \in Nat \ {0}
    /\ \A c \in Clusters : \A e \in c.reach : e[1] # C!Unset
    /\ FirstCode \in Nat
    /\ DOMAIN GoFiles = 1 .. Len(GoFiles) /\ Len(GoFiles) \in Nat
    /\ \A i \in DOMAIN GoFiles :
         LET specs == GoFiles[i].specs
         IN  /\ DOMAIN specs = 1 .. Len(specs) /\ Len(specs) \in Nat
             /\ \A j \in DOMAIN specs : specs[j].value.code \in Nat /\ IsSequence(specs[j].names)
    /\ \A c, d \in Given : InitialValue(c).code = InitialValue(d).code => c = d
    /\ \A c \in Given : InitialValue(c).code < FirstCode
-----------------------------------------------------------------------------
LibraryInit ==
    /\ part \in Parts
    /\ Init /\ O!Init /\ C!ClusterInit /\ P!ForwarderInit /\ M!ManifestInit
    /\ X!ExposeInit /\ ValidatorInit /\ E!ErrorCodesInit /\ ModSyncInit
    /\ I!IntakeInit /\ SourcesInit /\ RefsInit /\ GithubInit

RestA == UNCHANGED <<probes, forwarder, manifest, exposure>>
RestC == UNCHANGED <<fileIntake, sourceVars, refVars, githubVars>>
RestB == UNCHANGED <<validatorVars, errorCodes, syncVars>> /\ RestC

LibraryNext ==
    \/ /\ part = "registration" /\ Next
       /\ UNCHANGED <<part, operator>> /\ RestA /\ RestB
    \/ /\ part = "operator" /\ O!Next
       /\ UNCHANGED <<part, vars>> /\ RestA /\ RestB
    \/ /\ part = "cluster" /\ C!ClusterNext
       /\ UNCHANGED <<part, vars, operator, forwarder, manifest, exposure>> /\ RestB
    \/ /\ part = "forwarder" /\ P!ForwarderNext
       /\ UNCHANGED <<part, vars, operator, probes, manifest, exposure>> /\ RestB
    \/ /\ part = "manifest" /\ M!ManifestNext
       /\ UNCHANGED <<part, vars, operator, probes, forwarder, exposure>> /\ RestB
    \/ /\ part = "expose" /\ X!ExposeNext
       /\ UNCHANGED <<part, vars, operator, probes, forwarder, manifest>> /\ RestB
    \/ /\ part = "validator" /\ ValidatorNext
       /\ UNCHANGED <<part, vars, operator, errorCodes, syncVars>> /\ RestA /\ RestC
    \/ /\ part = "codes" /\ E!ErrorCodesNext
       /\ UNCHANGED <<part, vars, operator, validatorVars, syncVars>> /\ RestA /\ RestC
    \/ /\ part = "modsync" /\ ModSyncNext
       /\ UNCHANGED <<part, vars, operator, validatorVars, errorCodes>> /\ RestA /\ RestC
    \/ /\ part = "files" /\ I!IntakeNext
       /\ UNCHANGED <<part, vars, operator, sourceVars, refVars, githubVars>> /\ RestA
       /\ UNCHANGED <<validatorVars, errorCodes, syncVars>>
    \/ /\ part = "sources" /\ SourcesNext
       /\ UNCHANGED <<part, vars, operator, fileIntake, refVars, githubVars>> /\ RestA
       /\ UNCHANGED <<validatorVars, errorCodes, syncVars>>
    \/ /\ part = "references" /\ RefsNext
       /\ UNCHANGED <<part, vars, operator, fileIntake, sourceVars, githubVars>> /\ RestA
       /\ UNCHANGED <<validatorVars, errorCodes, syncVars>>
    \/ /\ part = "github" /\ GithubNext
       /\ UNCHANGED <<part, vars, operator, fileIntake, sourceVars, refVars>>
       /\ RestA
       /\ UNCHANGED <<validatorVars, errorCodes, syncVars>>

LibrarySpec == LibraryInit /\ [][LibraryNext]_libraryVars
-----------------------------------------------------------------------------
TypesOK ==
    CASE part = "registration" -> TypeOK
      [] part = "operator"     -> O!TypeOK
      [] part = "cluster"      -> C!ClusterTypeOK
      [] part = "forwarder"    -> P!ForwarderTypeOK
      [] part = "manifest"     -> M!ManifestTypeOK
      [] part = "expose"       -> X!ExposeTypeOK
      [] part = "validator"    -> ValidatorTypeOK
      [] part = "codes"        -> E!ErrorCodesTypeOK
      [] part = "modsync"      -> ModSyncTypeOK
      [] part = "files"        -> I!IntakeTypeOK
      [] part = "sources"      -> SourcesTypeOK
      [] part = "references"   -> RefsTypeOK
      [] part = "github"       -> GithubTypeOK

\* A registration tells what became of every file of the directory, and what it
\* says was registered can be found.
RegistryConsistent == Accounted /\ UnitsRegistered

\* No credentials stay behind, and a chart is run whole.
HelmSafe == O!NoCredentialsLeft /\ O!RunsWholeChart /\ O!DownloadsComplete

\* A controller that undeployed the operator does not bring it back.
StaysUndeployed == O!StaysUndeployed

\* The broker is reached: the status finds every endpoint that the data
\* connection finds, and the logging goroutine of a tunnel ends with it.
BrokerReached == C!ProbesAgree /\ P!NoLoggerStuck

\* The objects of a manifest, and the services returned, are in the cluster.
KubernetesObjects == M!SettledAsAsked /\ X!ReturnedExist

\* A document is validated against the schema registered for it, and the
\* schemas of components are inlined.
RightSchema == OwnSchema /\ Inlined

\* No two errors of a component have the same code, nor two that were exported.
CodesUnique == E!CodesUnique

\* Conversions one after another leave nothing behind.
CleanConversions == I!CleanConversions

\* A repository is walked completely, cloned or through the API.
SourceComplete == WalkComplete /\ EntriesFirst
=============================================================================
