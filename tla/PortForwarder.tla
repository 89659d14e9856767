---------------------------- MODULE PortForwarder ----------------------------
(***************************************************************************)
(* A port-forward that is established again whenever it drops, until Stop: *)
(* the goroutine that runs it, and one goroutine per attempt that waits to *)
(* log that the tunnel is ready.                                           *)
(***************************************************************************)
EXTENDS Naturals, Sequences, SequencesExt

CONSTANTS
    Targets,     \* targets: records [pod, labels, port]
    Pods,        \* what listing the pods may give: sequences of [name, running, deleted]
    MaxAttempts  \* bound: attempts

VARIABLES
    target,   \* pf.target, <<>> before NewPortForwarder
    started,
    stopped,  \* stopCh is closed
    at,       \* where run is
    pod,      \* the pod of this attempt
    attempts,
    ready,    \* readyCh of this attempt is closed
    loggers   \* attempts whose logging goroutine still waits

Unset == ""

forwarderVars == <<target, started, stopped, at, pod, attempts, ready, loggers>>

ForwarderInit ==
    /\ target = <<>> /\ started = FALSE /\ stopped = FALSE /\ at = "none"
    /\ pod = Unset /\ attempts = 0 /\ ready = FALSE /\ loggers = {}
-----------------------------------------------------------------------------
\* A port and a pod or labels are required, and a free local port.
NewPortForwarder(t) ==
    /\ target = <<>>
    /\ t.port # 0 /\ ~(t.pod = Unset /\ t.labels = {})
    /\ target' = <<t>>
    /\ UNCHANGED <<started, stopped, at, pod, attempts, ready, loggers>>

\* Only the first Start begins to run, also after Stop.
Start ==
    /\ target # <<>>
    /\ started' = TRUE
    /\ at' = IF started THEN at ELSE "check"
    /\ UNCHANGED <<target, stopped, pod, attempts, ready, loggers>>

Stop ==
    /\ target # <<>>
    /\ stopped' = TRUE
    /\ UNCHANGED <<target, started, at, pod, attempts, ready, loggers>>

\* The select before an attempt.
Check ==
    /\ at = "check"
    /\ at' = IF stopped THEN "ended" ELSE "resolve"
    /\ UNCHANGED <<target, started, stopped, pod, attempts, ready, loggers>>

Usable(pods) == SelectSeq(pods, LAMBDA p : p.running /\ ~p.deleted)

\* resolvePod: the named pod, or the first one that runs and is not being
\* deleted; listing may fail.
ResolvePod(pods) ==
    /\ at = "resolve"
    /\ attempts < MaxAttempts
    /\ IF target[1].pod # Unset THEN pod' = target[1].pod
       ELSE pod' = IF Usable(pods) = <<>> THEN Unset ELSE Usable(pods)[1].name
    /\ at' = IF pod' = Unset THEN "backoff" ELSE "dial"
    /\ UNCHANGED <<target, started, stopped, attempts, ready, loggers>>

\* The forwarder of this attempt is made, or cannot be; then its logging
\* goroutine is started.
Dial ==
    /\ at = "dial"
    /\ \/ /\ at' = "forward"
          /\ attempts' = attempts + 1
          /\ ready' = FALSE
          /\ loggers' = loggers \cup {attempts + 1}
       \/ at' = "backoff" /\ UNCHANGED <<attempts, ready, loggers>>
    /\ UNCHANGED <<target, started, stopped, pod>>

\* ForwardPorts listens, although Stop may have been called by now.
TunnelUp ==
    /\ at = "forward"
    /\ ~ready
    /\ ready' = TRUE
    /\ UNCHANGED <<target, started, stopped, at, pod, attempts, loggers>>

\* ForwardPorts ends: it never came up, the tunnel dropped, or Stop.
TunnelDown ==
    /\ at = "forward"
    /\ at' = "backoff"
    /\ UNCHANGED <<target, started, stopped, pod, attempts, ready, loggers>>

\* What lets the logging goroutine of an attempt go on: its readyCh, stopCh,
\* or doneCh, which is closed when forwardOnce returns.
Released(a) == stopped \/ (a = attempts /\ ready) \/ a < attempts \/ at # "forward"

Log(a) ==
    /\ a \in loggers
    /\ Released(a)
    /\ loggers' = loggers \ {a}
    /\ UNCHANGED <<target, started, stopped, at, pod, attempts, ready>>

\* The select after an attempt; when both can go, either may.
Backoff ==
    /\ at = "backoff"
    /\ \/ stopped /\ at' = "ended"
       \/ at' = "check"
    /\ UNCHANGED <<target, started, stopped, pod, attempts, ready, loggers>>

ForwarderNext ==
    \/ \E t \in Targets : NewPortForwarder(t)
    \/ Start \/ Stop \/ Check
    \/ \E pods \in Pods : ResolvePod(pods)
    \/ Dial \/ TunnelUp \/ TunnelDown \/ Backoff
    \/ \E a \in loggers : Log(a)
-----------------------------------------------------------------------------
ForwarderTypeOK ==
    /\ {started, stopped, ready} \subseteq BOOLEAN
    /\ at \in {"none", "check", "resolve", "dial", "forward", "backoff", "ended"}
    /\ attempts \in 0 .. MaxAttempts
    /\ loggers \subseteq 1 .. attempts

(***************************************************************************)
(* No logging goroutine waits for ever: the only one that nothing has      *)
(* released is that of the attempt under way, however many attempts broke  *)
(* off before their tunnel was ready, and after Stop there is none.        *)
(***************************************************************************)
NoLoggerStuck ==
    \A a \in loggers : Released(a) \/ (a = attempts /\ at = "forward" /\ ~stopped)
=============================================================================
