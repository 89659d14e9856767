------------------------------ MODULE MCLibrary ------------------------------
(* The components that do not interact, on small instances, for TLC.         *)
EXTENDS Library

Symmetry == Permutations(Callers)
-----------------------------------------------------------------------------
Filter(t, n, m) == [type |-> t, name |-> n, display |-> FALSE, greedy |-> FALSE,
                    model |-> m, status |-> "", offset |-> 0, limit |-> 0]
SomeFilters ==
    {Filter("relationship", "r1", "m1"), Filter("connection", "k1", "all"),
     Filter("policy", "p", ""), Filter("model", "m1", ""),
     [Filter("component", "c", "m1") EXCEPT !.greedy = TRUE, !.limit = 1]}
Def(k, n, h, s) == [kind |-> k, name |-> n, host |-> h, status |-> s, inside |-> <<>>]
ModelOne == Def("model", "m1", "h1", "")
SomeDirs ==
    {[accessible |-> TRUE, files |-> <<Def("component", "c1", "", "enabled"),
                                       Def("connection", "k1", "", ""), ModelOne>>],
     [accessible |-> TRUE,
      files |-> <<Def("badYaml", "y", "", ""),
                  [Def("archive", "z", "", "") EXCEPT !.inside =
                     <<Def("badEntity", "x", "", ""), Def("model", "m0", "h1", "")>>],
                  Def("asset", "a", "", ""), Def("component", "c1", "", "ignored"),
                  ModelOne, Def("relationship", "r1", "", "")>>],
     [accessible |-> TRUE, files |-> <<Def("component", "c1", "", "none"), ModelOne>>],
     [accessible |-> FALSE, files |-> <<>>]}

Likes == {<<"c1", "c">>}
SomePolicies == {[host |-> "h1", name |-> "p", model |-> "m1"]}

Entry(r, n, a, v, u) == [repo |-> r, name |-> n, app |-> a, version |-> v, url |-> u]
Config(url, local, name, app) ==
    [local |-> local, url |-> url, repo |-> "", chart |-> name, version |-> "", app |-> app,
     release |-> "", action |-> "install", upgrade |-> FALSE, dryRun |-> FALSE]
SomeOthers ==
    {[Config("x/op.tgz", "", "", "") EXCEPT !.release = "mine", !.upgrade = TRUE],
     Config("", "", "lib", "1"), Config("", "", "lib", "9"),
     [Config("", "x/op.tgz", "", "") EXCEPT !.dryRun = TRUE]}

SomeIndex ==
    <<Entry("meshery", "meshery-operator", "v1", "v1", "op.tgz"),
      Entry("stable", "lib", "v1", "v1", "lib.tgz"),
      Entry("stable", "lib", "v2", "v2", "op.tgz")>>
SomeCharts ==
    ("op.tgz" :> [name |-> "meshery-operator", type |-> ""])
    @@ ("lib.tgz" :> [name |-> "lib", type |-> "library"])
    @@ ("x/op.tgz" :> [name |-> "other", type |-> "application"])
BaseNames == [u \in {"op.tgz", "x/op.tgz"} |-> "op.tgz"] @@ ("lib.tgz" :> "lib.tgz")
WithPrefix == [a \in {"1", "v1"} |-> "v1"] @@ ("2" :> "v2") @@ ("9" :> "v9")
TwoCredentials == <<"ca", "key">>

\* The broker's service: a ClusterIP, a NodePort, or behind a load balancer.
Port(n, p, np) == [name |-> n, port |-> p, nodePort |-> np]
Nats(ingress, np) ==
    [ip |-> "ip", ingress |-> ingress,
     ports |-> <<Port("monitor", 8222, np), Port("client", 4222, np)>>]
\* The services, each with the external endpoint that its resource publishes.
SomeServices == {<<Nats(<<>>, 0), <<>>>>,
                 <<Nats(<<>>, 30000), <<"localhost", 30000>>>>,
                 <<Nats(<<"lb", "">>, 30000), <<"lb", 4222>>>>,
                 <<Nats(<<"", "name">>, 0), <<"name", 4222>>>>,
                 <<Nats(<<"ip", "">>, 30000), <<"ip", 4222>>>>}
Reaching == {{}, {<<"ip", 8222>>, <<"ip", 4222>>}, {<<"lb", 4222>>}, {<<"localhost", 30000>>},
              {<<"host.docker.internal", 4222>>}, {<<"api", 4222>>, <<"api", 8222>>}}
Cluster(b, m, w, pods, s, int, ext, up) ==
    [broker |-> b, meshsync |-> m, pods |-> pods,
     workload |-> [n \in {"nats", "broker", "meshery-meshsync"} |->
                     IF n = "nats" THEN "absent" ELSE w],
     service |-> [n \in {"nats", "broker"} |-> IF n = "nats" THEN s ELSE <<>>],
     internal |-> int, external |-> ext, reach |-> up,
     clients |-> [e \in up \cap {<<"ip", 8222>>, <<"api", 8222>>} |->
                    IF e[1] = "ip" THEN {"meshery-server"} ELSE {"meshsync"}]]
SomeClusters ==
    {Cluster("present", "present", "done", <<"Pending", "Running">>, s[1], <<"ip", 4222>>, s[2], up) :
        s \in SomeServices, up \in Reaching}
    \cup {[Cluster("present", "absent", "done", <<>>, Nats(<<"lb", "">>, 30000), <<"ip", 4222>>,
                   <<"lb", 4222>>, up) EXCEPT !.service["broker"] = Nats(<<>>, 0)] :
            up \in Reaching}
    \cup {Cluster(b, b, w, pods, <<>>, <<>>, <<"lb">>, {}) :
            b \in {"present", "absent", "error"},
            w \in {"absent", "error", "rolling", "done", "odd"},
            pods \in {<<>>, <<"Pending">>}}

TwoNames == <<"nats", "broker">>

Pod(n, r, d) == [name |-> n, running |-> r, deleted |-> d]
SomeTargets ==
    {[pod |-> "nats-0", labels |-> {}, port |-> 4222],
     [pod |-> "", labels |-> {"nats"}, port |-> 4222],
     [pod |-> "", labels |-> {}, port |-> 4222],
     [pod |-> "nats-0", labels |-> {}, port |-> 0]}
SomePods ==
    {<<>>, <<Pod("nats-0", TRUE, TRUE), Pod("nats-1", FALSE, FALSE)>>,
     <<Pod("nats-0", FALSE, FALSE), Pod("nats-1", TRUE, FALSE)>>}

Doc(k, ns, n, known, short) ==
    [kind |-> k, ns |-> ns, name |-> n, known |-> known, short |-> short]
SomeDocuments ==
    {Doc("Deployment", "prod", "a", TRUE, FALSE), Doc("Deployment", "", "a", TRUE, FALSE),
     Doc("NAMESPACE", "", "prod", TRUE, TRUE), Doc("", "", "", FALSE, FALSE),
     Doc("Widget", "", "w", FALSE, FALSE)}
Fixed == {c \in SomeDocuments : c.ns = "prod"}
SomeRequests ==
    {[documents |-> ds, ns |-> ns, update |-> d, delete |-> d, ignore |-> i] :
       ds \in {<<>>} \cup {<<c, d>> : c \in SomeDocuments, d \in Fixed}, ns \in {"", "dev"}, d \in BOOLEAN,
       i \in BOOLEAN}
Object(t, ns, n, selector, expr, ports) ==
    [type |-> t, ns |-> ns, name |-> n, labels |-> {n}, selector |-> selector,
     expressions |-> expr, ports |-> ports]
Resource(o) == [type |-> o.type, ns |-> o.ns, name |-> o.name]
SomeObjects ==
    {Object("Pod", "dev", "a", {}, FALSE, <<<<80, "">>, <<80, "UDP">>>>),
     Object("Deployment", "prod", "b", {"b"}, FALSE, <<<<443, "TCP">>>>),
     Object("ReplicaSet", "prod", "c", {"c"}, TRUE, <<<<443, "TCP">>>>),
     Object("ReplicationController", "dev", "d", {}, FALSE, <<>>)}
SomeResources == {Resource(o) : o \in SomeObjects}
                 \cup {[type |-> "Secret", ns |-> "dev", name |-> "s"],
                       [type |-> "Pod", ns |-> "dev", name |-> "gone"]}
SomeExposures ==
    {[config |-> [name |-> "svc", ns |-> c[1], type |-> "", affinity |-> c[2], ip |-> c[3]],
      resources |-> rs] :
       c \in {<<"", "", "">>, <<"dev", "", "None">>, <<"", "odd", "">>},
       rs \in SomeResources \X {r \in SomeResources : r.name \in {"a", "b"}}}
\* Words "policies" and "components"; the schema of policies names no version.
ComponentWord == <<"component", "s">>
PolicyWord == <<"polic", "ies">>
Asset(l, shape, type, version, prop) ==
    [location |-> l, skipped |-> FALSE, shape |-> shape, candidates |-> 1, type |-> type,
     asset |-> version, property |-> <<{}, prop, {}, {}, {}>>, literals |-> {},
     templates |-> {}]
SomeAssets ==
    <<Asset("c1", "root", <<"component", "">>, "v1", {<<ComponentWord, "v1">>}),
      Asset("c2", "openapi", <<"component", "">>, "v2", {<<ComponentWord, "v2">>}),
      Asset("p1", "root", <<"polic", "y">>, "v1", {}),
      [Asset("two", "openapi", <<"two", "">>, "v1", {}) EXCEPT !.candidates = 2],
      [Asset("api", "root", <<"api", "">>, "v1", {}) EXCEPT !.skipped = TRUE]>>
Text(field, v) ==
    [decodes |-> TRUE, object |-> TRUE, field |-> field, version |-> v,
     valid |-> {"c1", "mine"}, lax |-> {"p1"}]
SomeTexts ==
    {Text("string", <<ComponentWord, "v1">>), Text("string", <<PolicyWord, "v1">>),
     Text("absent", <<>>), [Text("string", <<ComponentWord, "v3">>) EXCEPT !.decodes = FALSE]}
SomeExtra ==
    {[version |-> <<ComponentWord, "v1">>, type |-> <<"component", "">>,
      location |-> "mine", asset |-> "v1"],
     [version |-> <<>>, type |-> <<"polic", "y">>, location |-> "mine", asset |-> "v2"],
     [version |-> <<>>, type |-> <<"", "">>, location |-> "mine", asset |-> ""]}
SomeRefs ==
    {[version |-> <<ComponentWord, "v3">>, type |-> <<"component", "">>],
     [version |-> <<>>, type |-> <<"component", "">>],
     [version |-> <<PolicyWord, "v1">>, type |-> <<"component", "">>]}

Spec_(n, k, c) == [names |-> <<n>>, value |-> [kind |-> k, code |-> c]]
GoFile(class, specs, details_) == [class |-> class, specs |-> specs, details |-> details_]
SomeGoFiles ==
    <<GoFile("error", <<[Spec_("ErrACode", "text", 0) EXCEPT !.names = <<"ErrACode", "ErrGCode">>],
                        Spec_("ErrBCode", "int", 1001)>>,
             <<"ErrACode">>),
      GoFile("other", <<Spec_("ErrCCode", "text", 0)>>, <<>>),
      GoFile("test", <<Spec_("ErrTCode", "int", 1001)>>, <<>>),
      GoFile("error", <<Spec_("ErrDCode", "text", 0), Spec_("ErrECode", "call", 0),
                        Spec_("ErrFCode", "text", 0)>>, <<"ErrDCode", "ErrDCode">>)>>
Line(n, v, f) == [name |-> n, version |-> v, form |-> f]
Repl(f, v, t, a) == [from |-> f, version |-> v, to |-> t, at |-> a]
SomeLines == {Line("a/b", "v1", "block"), Line("a/b", "v2", "block"), Line("b", "v1", "block"),
              Line("b", "v2", "single"), Line("b", "v1", "comment")}
SomeReplaces == {Repl("b", "", "./b", ""), Repl("b", "v1", "b", "v3"), Repl("a/b", "", "c", "v1")}
UpTo2(S) == UNION {[1 .. i -> S] : i \in 0 .. 2}
SomeGoMods == {[requires |-> ls, replaces |-> rs] : ls \in UpTo2(SomeLines), rs \in UpTo2(SomeReplaces)}
SomeSources ==
    {[requires |-> ls, replaces |-> rs] :
       ls \in {l \in UpTo2(SomeLines) : \A i, j \in DOMAIN l : l[i].name = l[j].name => i = j},
       rs \in {<<>>, <<Repl("b", "", "./b", "")>>}}
EndIn == {<<"a/b", "a/b">>, <<"b", "b">>, <<"b", "a/b">>}
WithIn == {<<"v1", "v1">>, <<"v2", "v2">>}

\* A file of every type that the intake tells apart.
File(n, ext) ==
    [name |-> n, ext |-> ext, valid |-> TRUE, design |-> "no", docs |-> <<"odd">>,
     chart |-> FALSE, compose |-> "error", kustomize |-> FALSE]
SomeFiles ==
    {[File("compose", ".yml") EXCEPT !.compose = "ok"],
     [File("web", ".json") EXCEPT !.compose = "ok"],
     [File("broken", ".yaml") EXCEPT !.compose = "fatal"],
     [File("new", ".yml") EXCEPT !.compose = "version", !.kustomize = TRUE],
     [File("design", ".json") EXCEPT !.design = "current"],
     [File("image", ".gz") EXCEPT !.design = "current", !.chart = TRUE],
     [File("pods", ".yml") EXCEPT !.docs = <<"known", "empty", "unknown">>],
     [File("layer", ".tar") EXCEPT !.design = "other"],
     [File("old", ".yml") EXCEPT !.design = "other"],
     [File("torn", ".zip") EXCEPT !.valid = FALSE],
     File("notes", ".txt")}

\* A repository, a release or a chart, with what is in it.
Yaml(n, k, g, fs) ==
    [name |-> n, kind |-> k, group |-> g, complete |-> TRUE, scope |-> "Namespaced",
     fields |-> fs]
Crd(n) == Yaml(n, "crd", "g", <<>>)
Field(k, complete, scope, inPath) ==
    [kind |-> k, complete |-> complete, scope |-> scope, inPath |-> inPath]
Api == Yaml("api", "openapi", "", <<Field("B", TRUE, "", TRUE), Field("C", TRUE, "Cluster", TRUE),
                                    Field("List", FALSE, "", FALSE)>>)
Other == Yaml("other", "other", "", <<>>)
Odd == Yaml("odd", "odd", "", <<>>)
Item(k, c, large, docs) == 
    [kind |-> k, chart |-> c, large |-> large, docs |-> docs, inside |-> <<>>]
Packed(k, es) == [Item(k, "none", FALSE, <<>>) EXCEPT !.inside = es]
TextPage(docs) == Item("text", "none", FALSE, docs)
Chart(v, o, u, docs) == [verified |-> v, official |-> o, url |-> u, docs |-> docs]
OriginOf(registrant, scheme) ==
    [registrant |-> registrant, scheme |-> scheme, parts |-> 4, tags |-> 1, reachable |-> TRUE,
     root |-> "dir", recurse |-> FALSE, chart |-> "none", format |-> "", entries |-> <<>>,
     yaml |-> FALSE, packages |-> <<>>]
Contents == <<Item("dir", "ok", FALSE, <<Crd("x"), Other>>), TextPage(<<Crd("y"), Crd("lost")>>),
          Packed("zip", <<Item("dir", "ok", FALSE, <<Crd("z"), Yaml("l", "link", "", <<>>)>>),
                          Item("dir", "none", FALSE, <<Crd("deep")>>), TextPage(<<Crd("loose")>>),
                          Item("dir", "bad", FALSE, <<>>), TextPage(<<Crd("after")>>)>>),
          TextPage(<<Odd>>),
          Item("text", "none", TRUE, <<Crd("large")>>), Item("dir", "bad", FALSE, <<>>),
          Packed("tar", <<Item("dir", "ok", FALSE, <<Crd("gone"), Yaml("k", "link", "", <<>>)>>)>>),
          Item("dir", "none", FALSE, <<Crd("plain"), Crd("dir")>>), TextPage(<<Api>>),
          Item("dir", "ok", FALSE, <<Crd("w"), Crd("u")>>), Item("binary", "none", FALSE, <<>>)>>
SomeOrigins ==
    LET git == OriginOf("github", "git")
        url == OriginOf("github", "https")
        hub == OriginOf("artifacthub", "")
    IN  {[git EXCEPT !.entries = Contents],
         [git EXCEPT !.entries = SubSeq(Contents, 1, 3), !.recurse = TRUE],
         [git EXCEPT !.entries = SubSeq(Contents, 1, 1)],
         [git EXCEPT !.entries = Contents, !.recurse = TRUE],
         [git EXCEPT !.entries = <<TextPage(<<Api>>)>>, !.root = "file"],
         [git EXCEPT !.entries = <<TextPage(<<Odd>>)>>, !.root = "file"],
         [git EXCEPT !.entries = <<TextPage(<<Other>>)>>, !.chart = "ok"],
         [git EXCEPT !.root = "missing", !.entries = <<TextPage(<<>>)>>],
         [git EXCEPT !.entries = <<[Packed("zip", <<Item("dir", "ok", FALSE, <<Crd("g")>>)>>) EXCEPT !.large = TRUE],
                                  TextPage(<<Other>>)>>],
         [git EXCEPT !.parts = 3], [git EXCEPT !.tags = 0],
         [url EXCEPT !.yaml = TRUE, !.entries =
            <<TextPage(<<[Crd("v") EXCEPT !.complete = FALSE], Crd("x"), Odd, Crd("y")>>)>>],
         [url EXCEPT !.entries = SubSeq(Contents, 1, 2)],
         [url EXCEPT !.entries = SubSeq(Contents, 4, 4)], [url EXCEPT !.reachable = FALSE],
         [url EXCEPT !.format = "tar", !.chart = "ok", !.entries = <<TextPage(<<Crd("x")>>)>>],
         [git EXCEPT !.entries = <<[Packed("tar", <<TextPage(<<Crd("x")>>), TextPage(<<>>)>>)
                                      EXCEPT !.chart = "ok"]>>],
         [git EXCEPT !.entries = SubSeq(Contents, 8, 10), !.recurse = TRUE],
         [url EXCEPT !.format = "zip", !.entries = <<TextPage(<<Crd("x"), Yaml("cut", "cut", "", <<>>)>>)>>],
         [hub EXCEPT !.packages =
            <<Chart(FALSE, TRUE, "http", <<Other>>), Chart(TRUE, FALSE, "http", <<Crd("x"), Api>>),
              Chart(TRUE, FALSE, "oci", <<>>)>>],
         [hub EXCEPT !.packages = <<Chart(TRUE, TRUE, "bad", <<>>)>>],
         [hub EXCEPT !.packages = <<Chart(FALSE, FALSE, "http", <<Crd("x"), Odd>>)>>],
         hub, OriginOf("docker", "https")}

\* Circles through one, two and three schemas, and a schema used twice.
References(es) == [r \in {<<"components", "a">>, <<"components", "b">>} \cup es |-> r[2]]
SomeApiDocuments ==
    {References(es) : es \in SUBSET {<<"a", "b">>, <<"b", "c">>, <<"c", "a">>,
                                    <<"a", "c">>, <<"b", "b">>, <<"c", "b">>}}

\* A root with a file, a directory of two files and a link, walked with and
\* without "/**", as if it were a file, and one file alone.
SomeTree(root, named, recurse) ==
    [root |-> root, named |-> named, recurse |-> recurse,
     kind |-> [p \in {"r", "d"} |-> "dir"] @@ ("l" :> "link")
              @@ [p \in {"f", "g", "h"} |-> "file"],
     entries |-> ("r" :> <<"f", "d", "l">>) @@ ("d" :> <<"g", "h">>)
                 @@ [p \in {"f", "g", "h", "l"} |-> <<>>]]
SomeTrees ==
    {SomeTree("r", FALSE, TRUE), SomeTree("r", FALSE, FALSE),
     SomeTree("r", TRUE, FALSE),
     [root |-> "f", named |-> TRUE, recurse |-> FALSE, kind |-> "f" :> "file",
      entries |-> "f" :> <<>>]}
-----------------------------------------------------------------------------
\* Which document there is matters only for its references.
MCInit == LibraryInit /\ (part # "references" => refs = References({}))
=============================================================================
