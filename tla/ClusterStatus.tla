---------------------------- MODULE ClusterStatus ----------------------------
(***************************************************************************)
(* The controllers of the broker and of MeshSync read a cluster that       *)
(* changes between their requests: the custom resource, a workload when it *)
(* cannot be read, the pods, the service and its reachable endpoint, and   *)
(* the list of clients at the monitoring port.                             *)
(***************************************************************************)
EXTENDS Naturals, Sequences, SequencesExt

CONSTANTS
    Clusters,    \* states of the cluster and of the network (see below)
    Names,       \* natsResourceNames, newest first
    ApiHost,     \* host of the kube API, "" when it cannot be parsed
    MaxChanges   \* bound: changes of the cluster

\* A cluster is a record
\*   [broker, meshsync  : "present", "absent" or "error"  - custom resources
\*    workload          : the state of a statefulset or deployment, by name
\*    pods              : the phases of the pods of MeshSync
\*    service           : by name, a Service or <<>>
\*    internal, external: the endpoint the broker's resource publishes
\*    reach             : the endpoints that accept a TCP connection
\*    clients           : the names at each monitoring endpoint that answers]
\* and an endpoint <<address, port>>; one that is published may be <<>> or,
\* without a port, <<address>>.  A Service is
\*   [ip, ports: sequence of [name, port, nodePort], ingress: <<>> or <<ip, host>>].

VARIABLES
    cluster,
    pc,        \* where GetStatus of each controller is
    status,    \* its field status
    returned,  \* what its last GetStatus returned
    endpoint,  \* the monitoring endpoint found
    changes

Unset == ""

clusterVars == <<cluster, pc, status, returned, endpoint, changes>>

Controllers == {"broker", "meshsync"}

ClusterInit ==
    /\ cluster = [broker |-> "error", meshsync |-> "error", pods |-> <<>>,
                  workload |-> [n \in {Names[i] : i \in DOMAIN Names}
                                      \cup {"meshery-meshsync"} |-> "absent"],
                  service |-> [n \in {Names[i] : i \in DOMAIN Names} |-> <<>>],
                  internal |-> <<>>, external |-> <<>>, reach |-> {}, clients |-> <<>>]
    /\ pc = [h \in Controllers |-> "idle"]
    /\ status = [h \in Controllers |-> "Unknown"]
    /\ returned = [h \in Controllers |-> "Unknown"]
    /\ endpoint = [h \in Controllers |-> <<>>]
    /\ changes = 0
-----------------------------------------------------------------------------
TcpCheck(c, e) == e \in c.reach

First(places) == CHOOSE i \in places : \A j \in places : i <= j

FirstReachable(c, candidates) ==
    LET up == {i \in DOMAIN candidates :
                 LET e == candidates[i] IN e # <<>> /\ e[1] # Unset /\ TcpCheck(c, e)}
    IN  IF up = {} THEN <<>> ELSE candidates[First(up)]

\* The fallbacks with a port: Docker's host and the host of the kube API.
DockerHost(port) == IF port = 0 THEN <<>> ELSE <<"host.docker.internal", port>>
KubeHost(port) == IF port = 0 THEN <<>> ELSE <<ApiHost, port>>

\* The port of the service with this name, otherwise its last one.
SelectedPort(s, name) ==
    LET named == {i \in DOMAIN s.ports : s.ports[i].name = name}
    IN  IF name # Unset /\ named # {} THEN s.ports[First(named)]
        ELSE IF s.ports = <<>> THEN [name |-> Unset, port |-> 0, nodePort |-> 0]
        ELSE Last(s.ports)

\* What GetEndpoint takes for the external endpoint before it is tried.
Outside(s, p, node, api) ==
    IF s.ingress = <<>> THEN <<node, p.nodePort>>
    ELSE IF s.ingress[1] = Unset THEN <<s.ingress[2], p.port>>
    ELSE IF s.ingress[1] \notin {s.ip, "<pending>"} THEN <<s.ingress[1], p.port>>
    ELSE IF api = Unset THEN <<s.ip, p.port>>
    ELSE <<api, p.nodePort>>

\* GetEndpoint: an external endpoint that does not answer is replaced by the
\* API server's host, without which the whole call fails.
GetEndpoint(c, s, name, node, api) ==
    LET p == SelectedPort(s, name)
        e == Outside(s, p, node, api)
        found(x) == [ok |-> TRUE, internal |-> <<s.ip, p.port>>, external |-> x]
        failed == [ok |-> FALSE, internal |-> <<>>, external |-> <<>>]
    IN  IF e[2] = 0 THEN found(<<>>)
        ELSE IF TcpCheck(c, e) \/ e[1] = "localhost" THEN found(e)
        ELSE IF api = Unset THEN failed
        ELSE IF TcpCheck(c, <<api, e[2]>>) \/ api = "localhost" THEN found(<<api, e[2]>>)
        ELSE IF TcpCheck(c, <<api, p.nodePort>>) THEN found(<<api, p.nodePort>>)
        ELSE failed

\* The services that have an endpoint with a port.
EndpointOf(c, i, name) == GetEndpoint(c, c.service[Names[i]], name, "localhost", Unset)
Found(c, name) ==
    {i \in DOMAIN Names : c.service[Names[i]] # <<>> /\ EndpointOf(c, i, name).ok}

\* Mutant: the fallbacks are not tried.
WithoutFallbacks(c, i, name) ==
    LET ep == EndpointOf(c, i, name)
    IN  FirstReachable(c, <<ep.internal, ep.external>>)

\* Internal, external, fallbacks with the external port.
Answering(c, i, name) ==
    LET ep == EndpointOf(c, i, name)
        port == IF ep.external # <<>> THEN ep.external[2] ELSE ep.internal[2]
    IN  FirstReachable(c, <<ep.internal, ep.external, DockerHost(port), KubeHost(port)>>)

\* Of the first service that has an endpoint, the one that answers; <<>> is an
\* error.
GetEndpointForPort(c, name) ==
    IF Found(c, name) = {} THEN <<>> ELSE Answering(c, First(Found(c, name)), name)

\* The data connection: what the resource publishes, and fallbacks with the
\* internal port.
GetBrokerEndpoint(c) ==
    LET parsed(e) == IF Len(e) = 2 THEN e ELSE <<>>
        portOf(e) == IF Len(e) = 2 THEN e[2] ELSE 0
        port == IF portOf(c.internal) # 0 THEN portOf(c.internal) ELSE portOf(c.external)
        up == FirstReachable(c, <<parsed(c.internal), parsed(c.external),
                                  DockerHost(port), KubeHost(port)>>)
    IN  IF up # <<>> THEN up ELSE IF c.internal # <<>> THEN c.internal ELSE c.external

GetPublicEndpoint(c) ==
    IF c.broker # "present" \/ (c.internal = <<>> /\ c.external = <<>>) THEN <<>>
    ELSE GetBrokerEndpoint(c)

\* The client is among the connections the endpoint lists in time.
ConnectivityTest(c, client, e) ==
    /\ e \in DOMAIN c.clients
    /\ client \in c.clients[e]
-----------------------------------------------------------------------------
Return(h, s) ==
    /\ status' = [status EXCEPT ![h] = s]
    /\ returned' = [returned EXCEPT ![h] = s]
    /\ pc' = [pc EXCEPT ![h] = "idle"]

Continue(h, step, s) ==
    /\ pc' = [pc EXCEPT ![h] = step]
    /\ status' = [status EXCEPT ![h] = s]
    /\ UNCHANGED returned

\* Unknown is returned, and nothing is set.
Unanswered(h) ==
    /\ returned' = [returned EXCEPT ![h] = "Unknown"]
    /\ pc' = [pc EXCEPT ![h] = "idle"]
    /\ UNCHANGED status

\* The custom resource of the controller is read; when that fails the
\* workload is, under each of its names.  Without a client nothing is read.
GetStatus(h) ==
    /\ pc[h] = "idle"
    /\ \/ CASE cluster[h] = "absent" -> Return(h, "Undeployed")
            [] cluster[h] = "error"  -> Continue(h, "workload", status[h])
            [] h = "broker" /\ cluster[h] = "present"   -> Continue(h, "endpoint", status[h])
            [] h = "meshsync" /\ cluster[h] = "present" -> Continue(h, "pods", "Enabled")
       \/ Unanswered(h)
    /\ UNCHANGED <<cluster, endpoint, changes>>

\* The first workload that can be read decides; the error that counts is
\* that of the last name.
GetWorkload(h) ==
    LET names == IF h = "broker" THEN Names ELSE <<"meshery-meshsync">>
        state == [i \in DOMAIN names |-> cluster.workload[names[i]]]
        read == {i \in DOMAIN names : state[i] \notin {"absent", "error"}}
    IN  /\ pc[h] = "workload"
        /\ IF read # {}
           THEN Return(h, CASE state[First(read)] = "rolling" -> "Deploying"
                            [] state[First(read)] = "done"    -> "Deployed"
                            [] state[First(read)] = "odd"     -> "Unknown")
           ELSE IF cluster.workload[Last(names)] = "absent"
           THEN Return(h, "Undeployed")
           ELSE Unanswered(h)
        /\ UNCHANGED <<cluster, endpoint, changes>>

\* MeshSync: a running pod, if there is one, decides.
ListPods ==
    /\ pc["meshsync"] = "pods"
    /\ IF "Running" \in {cluster.pods[i] : i \in DOMAIN cluster.pods}
       THEN Continue("meshsync", "endpoint", "Running")
       ELSE Return("meshsync", IF cluster.pods = <<>> THEN "Enabled" ELSE "Deployed")
    /\ UNCHANGED <<cluster, endpoint, changes>>

\* The monitoring port is found, or the broker counts as deployed and
\* MeshSync as running.
FindEndpoint(h) ==
    LET e == GetEndpointForPort(cluster, "monitor")
    IN  /\ pc[h] = "endpoint"
        /\ endpoint' = [endpoint EXCEPT ![h] = e]
        /\ IF e = <<>> THEN Return(h, IF h = "broker" THEN "Deployed" ELSE "Running")
           ELSE Continue(h, "ping", status[h])
        /\ UNCHANGED <<cluster, changes>>

Ping(h) ==
    /\ pc[h] = "ping"
    /\ Return(h, IF ConnectivityTest(cluster, IF h = "broker" THEN "meshery-server"
                                              ELSE "meshsync", endpoint[h])
                 THEN "Connected"
                 ELSE IF h = "broker" THEN "Deployed" ELSE "Running")
    /\ UNCHANGED <<cluster, endpoint, changes>>

Change ==
    /\ changes < MaxChanges
    /\ changes' = changes + 1
    /\ cluster' \in Clusters
    /\ UNCHANGED <<pc, status, returned, endpoint>>

ClusterNext ==
    \/ \E h \in Controllers : GetStatus(h) \/ GetWorkload(h) \/ FindEndpoint(h) \/ Ping(h)
    \/ ListPods
    \/ Change
-----------------------------------------------------------------------------
ClusterTypeOK ==
    /\ pc \in [Controllers -> {"idle", "workload", "pods", "endpoint", "ping"}]
    /\ \A h \in Controllers :
         {status[h], returned[h]} \subseteq
            {"Unknown", "Undeployed", "Deploying", "Deployed", "Enabled", "Running",
             "Connected"}
    /\ \A h \in Controllers : pc[h] = "ping" => Len(endpoint[h]) = 2
    /\ changes \in 0 .. MaxChanges

\* The broker's resource publishes the endpoints of one of its services.
Published(c, s) ==
    /\ s # <<>>
    /\ c.internal = <<s.ip, SelectedPort(s, "client").port>>
    /\ c.external = LET e == Outside(s, SelectedPort(s, "client"), "localhost", Unset)
                    IN  IF e[2] = 0 THEN <<>> ELSE e

DataUp(c) == c.broker = "present" /\ TcpCheck(c, GetPublicEndpoint(c))

(***************************************************************************)
(* meshery_broker.go:233-235 says that the search probes the way the data  *)
(* connection does, so that a status cannot say "not connected" while the  *)
(* data path is up.  This says when it can.  Let the data connection reach *)
(* what the first service publishes.  The search for the same port misses  *)
(* it if the load balancer does not answer, for then it goes on to another *)
(* service, however well the internal address answers; or if there is a    *)
(* node port, and nothing answers but a fallback with the service's port,  *)
(* for the search tries the fallbacks with the node port only.  It misses  *)
(* it in no other case.                                                    *)
(***************************************************************************)
SearchMisses(c, s) ==
    LET p == SelectedPort(s, "client").port
        e == Outside(s, SelectedPort(s, "client"), "localhost", Unset)
        next == Found(c, "client") \ {1}
    IN  IF e[2] # 0 /\ e[1] # "localhost" /\ ~TcpCheck(c, e)
        THEN next = {} \/ Answering(c, First(next), "client") = <<>>
        ELSE /\ e[2] \notin {0, p}
             /\ c.reach \cap {<<s.ip, p>>, e, DockerHost(e[2]), KubeHost(e[2])} = {}
             /\ c.reach \cap {DockerHost(p), KubeHost(p)} # {}

ProbesAgree ==
    LET s == cluster.service[Names[1]]
    IN  Published(cluster, s) /\ DataUp(cluster) =>
            (GetEndpointForPort(cluster, "client") = <<>> <=> SearchMisses(cluster, s))
=============================================================================
