------------------------------- MODULE Expose -------------------------------
(***************************************************************************)
(* Expose: the resources are traversed, and for each one that can be       *)
(* exposed a service is generated and created.  The callback changes the   *)
(* configuration it shares with the calls that follow it.                  *)
(***************************************************************************)
EXTENDS Naturals, Sequences, FiniteSets, SequencesExt, TLC

CONSTANTS
    Objects,    \* what is in the cluster (see below)
    Exposures,  \* calls: records [config, resources]
    MaxRemoved  \* bound: services that others remove

\* An object is a record [type, ns, name, labels, selector, expressions,
\* ports], with selector a set of labels, expressions whether there are match
\* expressions, and ports a sequence of <<number, protocol>> over all its
\* containers; a resource is [type, ns, name]; a configuration has the fields
\* [name, ns, type, affinity, ip].

VARIABLES
    exposing,  \* the call under way, <<>> when there is none
    config,    \* its configuration, as the callback has left it
    left,      \* resources still to be visited
    found,     \* the object being exposed, <<>> when there is none
    services,  \* services in the cluster: records
    created,   \* accumulatedSvcs
    failures,  \* resources with an error
    removed

exposeVars == <<exposing, config, left, found, services, created, failures, removed>>

\* The empty string, of a field that is not set.
Unset == ""

NoService == [name |-> Unset, ns |-> Unset, type |-> Unset, affinity |-> Unset, ip |-> Unset]

ExposeInit ==
    /\ exposing = <<>> /\ config = NoService /\ left = <<>> /\ found = <<>>
    /\ services = {} /\ created = <<>> /\ failures = {} /\ removed = 0

Kinds == {"Service", "Pod", "ReplicationController", "Deployment", "ReplicaSet"}
-----------------------------------------------------------------------------
\* mapBasedSelectorForObject: the labels that select the object's pods.
Selector(o) == IF o.type = "Pod" THEN o.labels ELSE o.selector

HasSelector(o) ==
    \/ o.type = "ReplicationController"
    \/ Selector(o) # {} /\ ~(o.type \in {"Deployment", "ReplicaSet"} /\ o.expressions)

\* The protocol of a port number: the last one given, TCP by default.
Protocols(ports) ==
    FoldLeft(LAMBDA m, p : (p[1] :> IF p[2] = Unset THEN "TCP" ELSE p[2]) @@ m, <<>>, ports)

ServicePorts(ports) ==
    [i \in DOMAIN ports |->
        [name     |-> IF Len(ports) > 1 THEN <<"port", i>> ELSE <<>>,
         port     |-> ports[i][1],
         protocol |-> Protocols(ports)[ports[i][1]]]]

\* The service of an object; it can be generated unless the affinity is
\* unknown, there is no selector, or a service with an address has no ports.
Generated(o, c) ==
    [name |-> c.name, ns |-> c.ns, type |-> c.type, selector |-> Selector(o),
     ip |-> c.ip, affinity |-> c.affinity, ports |-> ServicePorts(o.ports)]

CanGenerate(o, c) ==
    /\ HasSelector(o)
    /\ o.ports # <<>> \/ c.ip = "None"
    /\ c.affinity \in {Unset, "None", "ClientIP"}
-----------------------------------------------------------------------------
BeginExpose(e) ==
    /\ exposing = <<>>
    /\ exposing' = <<e>>
    /\ config' = e.config
    /\ left' = e.resources
    /\ found' = <<>> /\ created' = <<>> /\ failures' = {}
    /\ UNCHANGED <<services, removed>>

\* The next resource is read, and its callback begins: the first namespace
\* found stays for the whole call.
Visit ==
    /\ exposing # <<>> /\ found = <<>> /\ left # <<>>
    /\ LET r == Head(left)
           there == {o \in Objects : o.type = r.type /\ o.ns = r.ns /\ o.name = r.name}
           o == CHOOSE x \in there : TRUE
           c == [config EXCEPT !.ns = IF @ = Unset THEN o.ns ELSE @]
           error == left' = Tail(left) /\ failures' = failures \cup {r} /\ UNCHANGED found
       IN  IF r.type \notin Kinds
           THEN left' = Tail(left) /\ UNCHANGED <<config, found, failures>>
           ELSE \/ error /\ UNCHANGED config
                \/ /\ there # {}
                   /\ config' = c
                   /\ IF CanGenerate(o, c)
                      THEN found' = <<o>> /\ UNCHANGED <<left, failures>>
                      ELSE error
    /\ UNCHANGED <<exposing, services, created, removed>>

\* The service is created: not when its name is taken, and it may fail.
CreateService ==
    /\ found # <<>>
    /\ LET s == Generated(found[1], config)
       IN  \/ /\ ~\E t \in services : t.ns = s.ns /\ t.name = s.name
              /\ services' = services \cup {s}
              /\ created' = Append(created, s)
              /\ UNCHANGED failures
           \/ /\ failures' = failures \cup {Head(left)}
              /\ UNCHANGED <<services, created>>
    /\ left' = Tail(left)
    /\ found' = <<>>
    /\ UNCHANGED <<exposing, config, removed>>

\* Expose returns the services and the errors together.
ReturnExposed ==
    /\ exposing # <<>> /\ found = <<>> /\ left = <<>>
    /\ exposing' = <<>>
    /\ UNCHANGED <<config, left, found, services, created, failures, removed>>

RemoveService(s) ==
    /\ removed < MaxRemoved
    /\ removed' = removed + 1
    /\ services' = services \ {s}
    /\ UNCHANGED <<exposing, config, left, found, created, failures>>

ExposeNext ==
    \/ \E e \in Exposures : BeginExpose(e)
    \/ Visit \/ CreateService \/ ReturnExposed
    \/ \E s \in services : RemoveService(s)
-----------------------------------------------------------------------------
ExposeTypeOK ==
    /\ exposing = <<>> \/ exposing[1] \in Exposures
    /\ \A o \in ToSet(found) : o \in Objects /\ left # <<>>
    /\ \A r \in failures : r.type \in Kinds
    /\ removed \in 0 .. MaxRemoved

\* The resources that the call has done with.
Visited == {i \in DOMAIN exposing[1].resources : i <= Len(exposing[1].resources) - Len(left)}

\* A service selects the pods of a resource and has its ports.
Serves(s, r) ==
    \E o \in Objects :
        /\ o.type = r.type /\ o.ns = r.ns /\ o.name = r.name
        /\ s.selector = Selector(o) /\ s.ports = ServicePorts(o.ports)

(***************************************************************************)
(* Each resource of a kind that can be exposed ends in a service of its    *)
(* own or in an error, also when the object, the name or the permission is *)
(* missing; the others are left out without a word.  The services returned *)
(* are different services of the cluster, unless others removed them, and  *)
(* in the namespace configured.  When none is, a service is in the         *)
(* namespace of its resource or of one visited before it: expose.go says   *)
(* "the namespace of the target resource", but the first one stays.        *)
(***************************************************************************)
ReturnedExist ==
    /\ Cardinality(ToSet(created) \ services) <= removed
    /\ removed = 0 =>
         \A i, j \in DOMAIN created :
             created[i].ns = created[j].ns /\ created[i].name = created[j].name => i = j
    /\ exposing # <<>> =>
         LET resources == exposing[1].resources
             ns == exposing[1].config.ns
         IN  /\ \A i \in Visited :
                  \/ resources[i].type \notin Kinds \/ resources[i] \in failures
                  \/ \E s \in ToSet(created) : Serves(s, resources[i])
             /\ \A s \in ToSet(created) :
                  IF ns # Unset THEN s.ns = ns
                  ELSE \E i, j \in Visited :
                          i <= j /\ s.ns = resources[i].ns /\ Serves(s, resources[j])
=============================================================================
