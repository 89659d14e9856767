------------------------------ MODULE Operator ------------------------------
(***************************************************************************)
(* The controller of the Meshery operator: a status that several callers   *)
(* poll, and Deploy and Undeploy, which apply the operator's chart.  The   *)
(* status is written under a mutex and read without it, and no lock is     *)
(* held from the check of the status to the end of the chart's run.        *)
(***************************************************************************)
EXTENDS HelmCharts

CONSTANTS
    Others,    \* configurations of other charts that are applied meanwhile
    MaxCalls   \* bound: calls

VARIABLES
    status,      \* mesheryOperator.status
    deployment,  \* the deployment meshery-operator in the cluster
    call,        \* what each caller is in: "none", "status", "deploy", ...
    pc,          \* where its GetStatus is
    answer,      \* the deployment as its GetStatus has read it
    seen,        \* what its GetStatus returned
    forced,      \* Deploy(force)
    stale,       \* history: calls that began before the last Undeploy ended
    calls

operatorVars == <<status, deployment, call, pc, answer, seen, forced, stale, calls>>
vars == <<helmVars, operatorVars>>

Operator(act) ==
    [NoConfig EXCEPT !.chart = "meshery-operator", !.release = "meshery-operator",
                     !.repo = "meshery", !.version = "v1", !.action = act,
                     !.upgrade = TRUE]

Init ==
    /\ HelmInit
    /\ status = "Unknown" /\ deployment = "absent"
    /\ call = [p \in Callers |-> "none"] /\ pc = [p \in Callers |-> "off"]
    /\ answer = [p \in Callers |-> "absent"] /\ seen = [p \in Callers |-> "Unknown"]
    /\ forced = [p \in Callers |-> FALSE]
    /\ stale = {} /\ calls = 0

Begin(p, name, force) ==
    /\ call[p] = "none"
    /\ calls < MaxCalls
    /\ calls' = calls + 1
    /\ call' = [call EXCEPT ![p] = name]
    /\ forced' = [forced EXCEPT ![p] = force]
    /\ stale' = stale \ {p}

\* The call of p returns.
Done(p) ==
    /\ call' = [call EXCEPT ![p] = "none"]
    /\ forced' = [forced EXCEPT ![p] = FALSE]
-----------------------------------------------------------------------------
\* Mutant: the cluster is asked also when the status is Undeployed.
ReadStatusAlways(p) ==
    /\ pc' = [pc EXCEPT ![p] = "query"]
    /\ UNCHANGED seen

\* The first line of GetStatus: an undeployed operator stays undeployed.
ReadStatus(p) ==
    IF status = "Undeployed"
    THEN pc' = [pc EXCEPT ![p] = "returned"] /\ seen' = [seen EXCEPT ![p] = status]
    ELSE pc' = [pc EXCEPT ![p] = "query"] /\ UNCHANGED seen

GetStatus(p) ==
    /\ Begin(p, "status", FALSE)
    /\ ReadStatus(p)
    /\ UNCHANGED <<helmVars, status, deployment, answer>>

\* Deploy begins with a GetStatus.
Deploy(p, force) ==
    /\ Begin(p, "deploy", force)
    /\ ReadStatus(p)
    /\ UNCHANGED <<helmVars, status, deployment, answer>>

\* The deployment is read, without the mutex; when the cluster does not
\* answer, Unknown is returned and nothing is set.
Query(p) ==
    /\ pc[p] = "query"
    /\ \/ /\ answer' = [answer EXCEPT ![p] = deployment]
          /\ pc' = [pc EXCEPT ![p] = "write"]
          /\ UNCHANGED seen
       \/ /\ seen' = [seen EXCEPT ![p] = "Unknown"]
          /\ pc' = [pc EXCEPT ![p] = "returned"]
          /\ UNCHANGED answer
    /\ UNCHANGED <<helmVars, status, deployment, call, forced, stale, calls>>

\* setStatus, under the mutex: what was read, or Unknown when the viewer of
\* deployments fails on it.
SetStatus(p) ==
    /\ pc[p] = "write"
    /\ status' \in CASE answer[p] = "absent"  -> {"NotDeployed"}
                     [] answer[p] = "rolling" -> {"Deploying", "Unknown"}
                     [] answer[p] = "ready"   -> {"Deployed", "Unknown"}
    /\ pc' = [pc EXCEPT ![p] = "reread"]
    /\ answer' = [answer EXCEPT ![p] = "absent"]
    /\ UNCHANGED <<helmVars, deployment, call, seen, forced, stale, calls>>

\* return mo.status: what it is by now, read without the mutex.
Reread(p) ==
    /\ pc[p] = "reread"
    /\ seen' = [seen EXCEPT ![p] = status]
    /\ pc' = [pc EXCEPT ![p] = "returned"]
    /\ UNCHANGED <<helmVars, status, deployment, call, answer, forced, stale, calls>>

\* GetStatus returns to its caller, or to Deploy, which is skipped, refused,
\* or applies the chart.
StatusReturned(p) ==
    /\ pc[p] = "returned"
    /\ pc' = [pc EXCEPT ![p] = "off"]
    /\ seen' = [seen EXCEPT ![p] = "Unknown"]
    /\ IF \/ call[p] = "status"
          \/ seen[p] = "Undeployed" /\ ~forced[p]
          \/ seen[p] = "Deploying"
       THEN Done(p) /\ UNCHANGED helmVars
       ELSE /\ call' = [call EXCEPT ![p] = "deploying"]
            /\ ApplyHelmChart(p, Operator("install"))
            /\ UNCHANGED forced
    /\ UNCHANGED <<status, deployment, answer, stale, calls>>

Undeploy(p) ==
    /\ Begin(p, "undeploying", FALSE)
    /\ ApplyHelmChart(p, Operator("uninstall"))
    /\ UNCHANGED <<status, deployment, pc, answer, seen>>

\* The chart was applied: the status is set, or the error returned.
ChartApplied(p) ==
    /\ call[p] \in {"deploying", "undeploying", "other"}
    /\ Returned(p)
    /\ IF step[p] = "ok" /\ call[p] # "other"
       THEN status' = IF call[p] = "deploying" THEN "Deployed" ELSE "Undeployed"
       ELSE UNCHANGED status
    /\ stale' = IF step[p] = "ok" /\ call[p] = "undeploying"
                THEN {q \in Callers \ {p} : call[q] # "none"} ELSE stale
    /\ Done(p)
    /\ UNCHANGED <<deployment, pc, answer, seen, calls>>

\* Other users of ApplyHelmChart: ArtifactHub.HandleDependents, the server.
ApplyOther(p, c) ==
    /\ Begin(p, "other", FALSE)
    /\ ApplyHelmChart(p, c)
    /\ UNCHANGED <<status, deployment, pc, answer, seen>>

\* The cluster follows the release.
Reconcile ==
    /\ deployment' = IF "meshery-operator" \notin releases THEN "absent"
                     ELSE IF deployment = "absent" THEN "rolling" ELSE "ready"
    /\ deployment' # deployment
    /\ UNCHANGED <<helmVars, status, call, pc, answer, seen, forced, stale, calls>>
-----------------------------------------------------------------------------
Next ==
    \/ \E p \in Callers :
         \/ GetStatus(p) \/ Undeploy(p)
         \/ \E force \in BOOLEAN : Deploy(p, force)
         \/ \E c \in Others : ApplyOther(p, c)
         \/ Query(p) \/ SetStatus(p) \/ Reread(p) \/ StatusReturned(p) \/ ChartApplied(p)
         \/ HelmStep(p) /\ UNCHANGED operatorVars
    \/ Reconcile
-----------------------------------------------------------------------------
Statuses == {"Unknown", "NotDeployed", "Deploying", "Deployed", "Undeployed"}

TypeOK ==
    /\ HelmTypeOK
    /\ status \in Statuses /\ seen \in [Callers -> Statuses]
    /\ deployment \in {"absent", "rolling", "ready"}
    /\ call \in [Callers -> {"none", "status", "deploy", "deploying", "undeploying",
                             "other"}]
    /\ pc \in [Callers -> {"off", "query", "write", "reread", "returned"}]
    /\ answer \in [Callers -> {"absent", "rolling", "ready"}]
    /\ forced \in [Callers -> BOOLEAN] /\ stale \subseteq Callers
    /\ calls \in 0 .. MaxCalls

(***************************************************************************)
(* The controller leaves Undeployed only by a forced Deploy, or by a call  *)
(* that was already under way when the Undeploy ended: no later poll and   *)
(* no later automatic Deploy brings the operator back.  A poll that was    *)
(* under way can: it has not seen Undeployed and writes what it finds.     *)
(***************************************************************************)
StaysUndeployed ==
    [][status = "Undeployed" /\ status' # "Undeployed" =>
         \A p \in Callers : SetStatus(p) \/ ChartApplied(p) => p \in stale \/ forced[p]]_vars
=============================================================================
