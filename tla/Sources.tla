------------------------------- MODULE Sources -------------------------------
(***************************************************************************)
(* The generators: a package manager finds the package of a model in a git *)
(* repository, behind a URL or on Artifact Hub, writes the Kubernetes      *)
(* documents it finds into one file, and generates components from them.   *)
(* In a repository the walker clones, reads the files of the root itself,  *)
(* and hands each directory to a goroutine; all of them write through one  *)
(* buffered writer, which no lock protects.                                *)
(***************************************************************************)
EXTENDS Selections, FiniteSets, SequencesExt

CONSTANTS
    Origins,  \* what a model is generated from: records, see below
    Groups,   \* group filters of GenerateComponents; "" is none
    MaxPackages  \* bound: packages asked for

\* An origin is [registrant, scheme, parts, tags, reachable, root, recurse,
\* chart, format, entries, yaml, packages], format being that of an archive
\* behind a URL.  An entry is [kind, chart, large, docs, inside]: a "dir" of files,
\* a "text" or "binary" file, with the documents in it (text of less than 512
\* bytes is binary: IsYaml looks at the zeroes behind it), or a "tar" or "zip"
\* with the entries at its top inside it; chart is "none", "ok", or "bad" for
\* one that cannot be loaded, and says of an archive what its top is.  A
\* document is [name, kind, group, complete, scope, fields]: a "crd", an
\* "openapi" document, whose definitions are [kind, complete, scope, inPath],
\* "odd" text that is no mapping, "link" or "cut", what is no file or cannot be
\* read in an archive, or "other".
\* A hub package is [verified, official, url, docs]: its url "", "oci", "http" or "bad".

Archives == {"tar", "zip"}

\* The name of a document and the kind of a definition stand for what it is: no
\* two in an origin have the same.
DocumentOK(d) ==
    /\ d.name # "" /\ d.kind # "torn"
    /\ IsSequence(d.fields)
    /\ \A i, j \in DOMAIN d.fields : d.fields[i].kind = d.fields[j].kind => i = j
FileOK(e) ==
    /\ IsSequence(e.docs)
    /\ \A k \in DOMAIN e.docs : DocumentOK(e.docs[k])
    /\ \A k, l \in DOMAIN e.docs : e.docs[k].name = e.docs[l].name => k = l
DocsIn(e) ==
    IF e.kind \in Archives THEN UNION {ToSet(e.inside[k].docs) : k \in DOMAIN e.inside}
    ELSE ToSet(e.docs)
Separate(es) ==
    \A i, j \in DOMAIN es :
      \A d \in DocsIn(es[i]), x \in DocsIn(es[j]) : d.name = x.name => i = j
ASSUME SourcesAssumption ==
    /\ \A o \in Origins :
         /\ IsSequence(o.entries) /\ Separate(o.entries)
         /\ \A i \in DOMAIN o.entries :
              LET e == o.entries[i]
              IN  IF e.kind \in Archives
                  THEN /\ IsSequence(e.inside) /\ Separate(e.inside)
                       /\ \A k \in DOMAIN e.inside :
                            FileOK(e.inside[k]) /\ e.inside[k].kind \notin Archives
                  ELSE FileOK(e)
    /\ MaxPackages \in Nat

VARIABLES
    asked,     \* <<origin>>, once a package was asked for
    phase,     \* idle, walk, abort, package, failed, or panicked
    position,  \* of the walk in the entries
    pending,   \* by writer: documents to write; writer 0 is the walker
    writing,   \* writers in the middle of a write
    stream,    \* what the file holds
    clone,     \* the clone exists
    generated, \* <<components>> of GenerateComponents
    overlapped,\* history: two writes overlapped
    packages

sourceVars == <<asked, phase, position, pending, writing, stream, clone,
                generated, overlapped, packages>>

NoDocs == [i \in {} |-> <<>>]

SourcesInit ==
    /\ asked = <<>> /\ phase = "idle" /\ position = 1 /\ pending = NoDocs
    /\ writing = {} /\ stream = <<>> /\ clone = FALSE
    /\ generated = <<>> /\ overlapped = FALSE /\ packages = 0

Origin == asked[1]

\* Text of several documents, that is one no longer or one that is none of them.
Torn == [name |-> "", kind |-> "torn", group |-> "", complete |-> FALSE, scope |-> "",
         fields |-> <<>>]
Mixed == [Torn EXCEPT !.kind = "crd", !.complete = TRUE]
-----------------------------------------------------------------------------
Crds(docs) == Those(docs, {d \in ToSet(docs) : d.kind = "crd"})
AllCrds(es) == Joined([i \in DOMAIN es |-> Crds(es[i].docs)])

\* writeToFile: the first document of a file, which must be a mapping.
NoMapping == {"odd", "link"}
FirstDocument(docs) ==
    IF docs = <<>> THEN [ok |-> TRUE, docs |-> <<>>]
    ELSE [ok |-> docs[1].kind \notin NoMapping,
          docs |-> IF docs[1].kind \in NoMapping THEN <<>> ELSE <<docs[1]>>]

\* ConvertToK8sManifest: a file in a chart stands for the whole chart, of
\* which the CRDs count; a directory that is no chart for nothing, as IsYaml
\* cannot read one, and the walk of its files is never reached.
Converted(e, parent, around) ==
    LET chart == IF e.kind = "dir" THEN e.chart ELSE parent
        docs  == IF e.kind = "dir" THEN Crds(e.docs) ELSE around
    IN  CASE chart = "ok"                       -> [ok |-> TRUE, docs |-> docs]
          [] chart = "bad"                      -> [ok |-> FALSE, docs |-> <<>>]
          [] chart = "none" /\ e.kind = "text"  -> FirstDocument(e.docs)
          [] OTHER                              -> [ok |-> TRUE, docs |-> <<>>]

\* Entries one after another, up to the first error.
InOrder(es, parent) ==
    LET c == [i \in DOMAIN es |-> Converted(es[i], parent, AllCrds(es))]
        reached == {i \in DOMAIN es : \A j \in 1 .. i - 1 : c[j].ok}
    IN  [ok   |-> \A i \in DOMAIN es : c[i].ok,
         docs |-> Joined([i \in DOMAIN es |-> IF i \in reached THEN c[i].docs ELSE <<>>])]

\* ExtractTarGz and ExtractZip: one entry that cannot be read fails the whole
\* archive; a tar may hold files and directories only, while in a zip a link
\* becomes a file.
Extractable(format, es) ==
    \A i \in DOMAIN es : \A d \in ToSet(es[i].docs) :
      d.kind \notin {"cut"} \cup IF format = "tar" THEN {"link"} ELSE {}

\* ProcessContent of a file of a repository: an archive is extracted first,
\* and what is at its top converted.
Processed(e, parent, around) ==
    IF e.kind \notin Archives THEN Converted(e, parent, around)
    ELSE IF Extractable(e.kind, e.inside) THEN InOrder(e.inside, e.chart)
    ELSE [ok |-> FALSE, docs |-> <<>>]
-----------------------------------------------------------------------------
Score(p) == 1 + (IF p.verified THEN 10 ELSE 0) + (IF p.official THEN 5 ELSE 0)

\* UpdatePackageData: the chart's URL from the index of the repository; its
\* error is dropped and the package stays without one.
UpdatePackageData(p) == IF p.url = "bad" THEN [p EXCEPT !.url = ""] ELSE p

\* SortPackagesWithScore is stable: the first of the best ones.
BestPackage(ps) ==
    ps[CHOOSE i \in DOMAIN ps :
         /\ \A j \in DOMAIN ps : Score(ps[j]) <= Score(ps[i])
         /\ \A j \in 1 .. (i - 1) : Score(ps[j]) < Score(ps[i])]

Fails == phase' = "failed" /\ stream' = <<>> /\ UNCHANGED <<clone, pending>>
Packaged(docs) == phase' = "package" /\ stream' = docs /\ UNCHANGED <<clone, pending>>

\* Artifact Hub: the source's URL is not looked at; without a chart's URL, or
\* with one for OCI, there are no documents.
FetchFromHub(o) ==
    IF ~o.reachable \/ o.packages = <<>> THEN Fails
    ELSE LET best == BestPackage([i \in DOMAIN o.packages |-> UpdatePackageData(o.packages[i])])
         IN  Packaged(IF best.url = "http" THEN best.docs ELSE <<>>)

\* A URL: a YAML file is taken as it is, anything else is processed; an
\* archive lies beside what is extracted from it.
Download == [kind |-> "binary", chart |-> "none", large |-> FALSE, docs |-> <<>>, inside |-> <<>>]
FetchFromURL(o) ==
    LET es == IF o.format \in Archives THEN Append(o.entries, Download) ELSE o.entries
        c  == InOrder(es, o.chart)
    IN  IF ~o.reachable \/ ~Extractable(o.format, o.entries) THEN Fails
        ELSE IF o.yaml THEN Packaged(Joined([i \in DOMAIN o.entries |-> o.entries[i].docs]))
        ELSE IF c.ok THEN Packaged(c.docs) ELSE Fails

\* A repository: owner, repository, branch and root must be in the URL and a
\* release be known; it is cloned and the walk begins.
CloneRepo(o) ==
    IF o.parts < 4 \/ o.tags = 0 \/ ~o.reachable THEN Fails
    ELSE /\ phase' = "walk"
         /\ clone' = TRUE
         /\ pending' = [w \in {0} |-> <<>>]
         /\ stream' = <<>>

GetPackage(o) ==
    /\ phase \in {"idle", "failed"} \/ generated # <<>>
    /\ packages < MaxPackages
    /\ packages' = packages + 1
    /\ asked' = <<o>>
    /\ generated' = <<>> /\ position' = 1 /\ overlapped' = FALSE
    /\ CASE o.registrant = "artifacthub"                            -> FetchFromHub(o)
         [] o.registrant = "github" /\ o.scheme \in {"http", "https"} -> FetchFromURL(o)
         [] o.registrant = "github" /\ o.scheme = "git"              -> CloneRepo(o)
         [] OTHER                                                   -> Fails
    /\ UNCHANGED writing
-----------------------------------------------------------------------------
WalkUnchanged == UNCHANGED <<asked, generated, packages, writing, stream, overlapped>>

Walking == phase = "walk" /\ pending[0] = <<>> /\ 0 \notin writing

\* A root that is a file, or is missing.
WalkFile ==
    /\ Walking /\ Origin.root # "dir" /\ position = 1
    /\ LET e == Origin.entries[1]
           c == Processed(e, Origin.chart, AllCrds(Origin.entries))
       IN  IF Origin.root = "missing" \/ e.large \/ ~c.ok
           THEN phase' = "abort" /\ UNCHANGED <<pending, position>>
           ELSE /\ pending' = [pending EXCEPT ![0] = c.docs]
                /\ position' = Len(Origin.entries) + 1
                /\ UNCHANGED phase
    /\ UNCHANGED clone
    /\ WalkUnchanged

\* With "/**" the root itself, then every directory and file is visited in
\* turn; an error ends the walk.  What a directory stands for is written, and
\* then what each file in it does: a chart once more for each.
FilesIn(e) ==
    [k \in 1 .. Len(e.docs) + IF e.chart = "none" THEN 0 ELSE 1 |->
       [Download EXCEPT !.kind = "text",
                        !.docs = IF k \in DOMAIN e.docs THEN <<e.docs[k]>> ELSE <<>>]]

Visited(o) ==
    LET root == [ok |-> o.chart # "bad",
                 docs |-> IF o.chart = "ok" THEN AllCrds(o.entries) ELSE <<>>]
    IN  FoldLeft(LAMBDA acc, e :
                   LET c == Processed(e, o.chart, AllCrds(o.entries))
                       files == InOrder(IF e.kind = "dir" THEN FilesIn(e) ELSE <<>>, e.chart)
                   IN  [ok   |-> acc.ok /\ c.ok /\ files.ok /\ (e.kind = "dir" \/ ~e.large),
                        docs |-> acc.docs \o c.docs \o files.docs], root, o.entries)

WalkRecursively ==
    /\ Walking /\ Origin.root = "dir" /\ Origin.recurse /\ position = 1
    /\ IF Visited(Origin).ok
       THEN pending' = [pending EXCEPT ![0] = Visited(Origin).docs] /\ UNCHANGED phase
       ELSE phase' = "abort" /\ UNCHANGED pending
    /\ position' = Len(Origin.entries) + 1
    /\ UNCHANGED clone
    /\ WalkUnchanged

\* Otherwise a goroutine per directory, and the files by the walker; an error
\* is printed and passed over, and what was written before it stays.
WalkEntry ==
    /\ Walking /\ Origin.root = "dir" /\ ~Origin.recurse
    /\ position <= Len(Origin.entries)
    /\ LET e == Origin.entries[position]
           c == Processed(e, Origin.chart, AllCrds(Origin.entries))
           w == IF e.kind = "dir" THEN position ELSE 0
           docs == IF e.kind # "dir" /\ e.large THEN <<>> ELSE c.docs
       IN  pending' = [x \in DOMAIN pending \cup {w} |-> IF x = w THEN docs ELSE pending[x]]
    /\ position' = position + 1
    /\ UNCHANGED <<phase, clone>>
    /\ WalkUnchanged

\* A document is written in two or three calls of Write, each of which copies
\* to the buffer and then counts what it has copied.
BeginWrite(w) ==
    /\ phase = "walk"
    /\ w \notin writing /\ pending[w] # <<>>
    /\ writing' = writing \cup {w}
    /\ overlapped' = (overlapped \/ writing # {})
    /\ UNCHANGED <<asked, phase, position, pending, stream, clone, generated, packages>>

\* Once writes have overlapped, the buffer and its count are in no known state:
\* what is written may be lost, or be other text, which decodes or not.  What
\* comes after text that does not is never read.
EndWrite(w) ==
    /\ w \in writing
    /\ writing' = writing \ {w}
    /\ pending' = [pending EXCEPT ![w] = Tail(@)]
    /\ stream' \in IF ~overlapped THEN {Append(stream, pending[w][1])}
                  ELSE IF Torn \in ToSet(stream) THEN {stream}
                  ELSE {stream} \cup {Append(stream, d) : d \in {pending[w][1], Torn, Mixed}}
    /\ UNCHANGED <<asked, phase, position, clone, generated, overlapped, packages>>

\* A count beyond the end of the buffer makes the next write panic.  That ends
\* the process, and the clone stays.
PanicInWrite(w) ==
    /\ w \in writing /\ overlapped
    /\ phase' = "panicked"
    /\ pending' = NoDocs /\ writing' = {}
    /\ UNCHANGED <<asked, position, stream, clone, generated, overlapped, packages>>

\* Mutant: the clone is removed when the walker is done.
EndWalkAtOnce ==
    /\ Walking
    /\ position > Len(Origin.entries)
    /\ phase' = "package"
    /\ clone' = FALSE
    /\ UNCHANGED <<position, pending>>
    /\ WalkUnchanged

\* The clone is removed when all goroutines are done; then the writer is
\* flushed, where it may panic too, and the package returned.
EndWalk ==
    /\ phase = "walk" /\ position > Len(Origin.entries)
    /\ \A w \in DOMAIN pending : pending[w] = <<>>
    /\ phase' \in {"package"} \cup IF overlapped THEN {"panicked"} ELSE {}
    /\ clone' = FALSE
    /\ UNCHANGED <<position, pending>>
    /\ WalkUnchanged

\* Mutant: the clone is removed only after a walk that succeeds.
AbortWalkKeeping ==
    /\ phase = "abort"
    /\ phase' = "failed"
    /\ UNCHANGED <<position, pending, clone>>
    /\ WalkUnchanged

\* ErrCloningRepo
AbortWalk ==
    /\ phase = "abort"
    /\ phase' = "failed"
    /\ clone' = FALSE
    /\ UNCHANGED <<position, pending>>
    /\ WalkUnchanged
-----------------------------------------------------------------------------
\* getResourceScope: without a scope of its own, a resource is namespaced if
\* the path of a namespaced one has its name in it.
Namespaced(f) == f.scope = "Namespaced" \/ (f.scope = "" /\ f.inPath)

\* A CRD is a component if it has a name, a version and a group.
Generate(d) ==
    [i \in {j \in {1} : d.complete} |->
       [from |-> d.name, kind |-> d.name, namespaced |-> d.scope = "Namespaced"]]

\* Of an OpenAPI document each definition with kind, version and group is;
\* a document without definitions has none.
GenerateFromOpenAPI(d) ==
    LET fields == Those(d.fields, {f \in ToSet(d.fields) : f.complete})
    IN  [i \in DOMAIN fields |->
           [from |-> d.name, kind |-> fields[i].kind, namespaced |-> Namespaced(fields[i])]]

GeneratedFrom(d) ==
    CASE d.kind = "crd"     -> Generate(d)
      [] d.kind = "openapi" -> GenerateFromOpenAPI(d)
      [] OTHER              -> <<>>

Decodes(d) == d.kind \notin {"torn", "odd"}
Readable ==
    CHOOSE n \in 0 .. Len(stream) :
      /\ \A i \in 1 .. n : Decodes(stream[i])
      /\ n = Len(stream) \/ ~Decodes(stream[n + 1])

\* Of a chart of the hub: the CRDs, and nothing if a document does not decode.
OfHub == IF Readable < Len(stream) THEN <<>> ELSE Crds(stream)

\* Of a repository or URL: what comes before the first such document and is
\* of the group asked for.
OfGithub(group) ==
    Those(SubSeq(stream, 1, Readable), {d \in ToSet(stream) : group \in {"", d.group}})

GenerateComponents(group) ==
    /\ phase = "package" /\ generated = <<>>
    /\ LET wanted == IF Origin.registrant = "artifacthub" THEN OfHub ELSE OfGithub(group)
       IN  generated' = <<[group |-> group, cut |-> Readable < Len(stream),
                           comps |-> Joined([i \in DOMAIN wanted |-> GeneratedFrom(wanted[i])])]>>
    /\ UNCHANGED <<asked, phase, position, pending, writing, stream, clone, overlapped, packages>>

SourcesNext ==
    \/ \E o \in Origins : GetPackage(o)
    \/ WalkFile \/ WalkRecursively \/ WalkEntry \/ EndWalk \/ AbortWalk
    \/ \E w \in DOMAIN pending : BeginWrite(w) \/ EndWrite(w) \/ PanicInWrite(w)
    \/ \E group \in Groups : GenerateComponents(group)
-----------------------------------------------------------------------------
SourcesTypeOK ==
    /\ asked = <<>> \/ Origin \in Origins
    /\ phase \in {"idle", "walk", "abort", "package", "failed", "panicked"}
    /\ writing \subseteq DOMAIN pending
    /\ clone => phase \in {"walk", "abort", "panicked"}
    /\ packages \in 0 .. MaxPackages

\* What a directory or file stands for: a chart for its CRDs, a file for its
\* first document.  A directory that is no chart stands for nothing here,
\* though the comment on ConvertToK8sManifest says that several manifests are
\* converted into one: the code for them is never reached.
Manifest(e) ==
    CASE e.kind = "dir" /\ e.chart = "ok"     -> ToSet(Crds(e.docs))
      [] e.kind = "text" /\ e.docs # <<>>     -> {e.docs[1]}
      [] OTHER                                -> {}
Unconvertible(e) ==
    \/ e.kind = "dir" /\ e.chart = "bad"
    \/ e.kind = "text" /\ e.docs # <<>> /\ e.docs[1].kind \in NoMapping

\* An archive stands for what is at its top, up to what cannot be converted.
Promises(e) ==
    IF e.kind # "dir" /\ e.large THEN {}
    ELSE IF e.kind \notin Archives THEN Manifest(e)
    ELSE UNION {Manifest(e.inside[k]) :
                  k \in {k \in DOMAIN e.inside :
                           /\ Extractable(e.kind, e.inside)
                           /\ \A l \in 1 .. k - 1 : ~Unconvertible(e.inside[l])}}
Promised(o) == UNION {Promises(o.entries[i]) : i \in DOMAIN o.entries}

\* A root directory that is no chart, and no archive in it is one: a chart is
\* converted once for each file beside its Chart.yaml.
Plain(o) ==
    /\ o.registrant = "github" /\ o.scheme = "git" /\ o.root = "dir"
    /\ ~o.recurse /\ o.chart = "none"
    /\ \A i \in DOMAIN o.entries : o.entries[i].kind \in Archives => o.entries[i].chart = "none"

(***************************************************************************)
(* A repository is walked completely: the clone outlives every goroutine   *)
(* that reads it, and if no two writes overlapped, the components of each  *)
(* document that the root directory stands for are generated exactly once  *)
(* and no others, in whatever order directories and files were written;    *)
(* after a document that cannot be decoded some may be missing, but none   *)
(* is of another document.                                                 *)
(***************************************************************************)
WalkComplete ==
    /\ (\E w \in DOMAIN pending : pending[w] # <<>>) => clone
    /\ generated # <<>> /\ Plain(Origin) /\ ~overlapped =>
         LET g == generated[1]
             wanted == {d \in Promised(Origin) : g.group \in {"", d.group}}
             kinds == UNION {ToSet(GeneratedFrom(d)) : d \in wanted}
         IN  /\ ToSet(g.comps) \subseteq kinds
             /\ ~g.cut => ToSet(g.comps) = kinds /\ Cardinality(kinds) = Len(g.comps)
=============================================================================
