----------------------------- MODULE HelmCharts -----------------------------
(***************************************************************************)
(* Client.ApplyHelmChart: the chart is looked up and downloaded unless a   *)
(* file of its name is there already, the credentials of the client are    *)
(* written to temporary files, an INSTALL becomes an UPGRADE when the      *)
(* release is found, and helm runs.  Calls run concurrently and share the  *)
(* download directory and the cluster: several may miss a file and         *)
(* download to it at once.                                                 *)
(*                                                                         *)
(* A file is two halves.  It is taken that an archive is opened at one     *)
(* moment, and opened only if both are of one download.                    *)
(***************************************************************************)
EXTENDS Naturals, Sequences, FiniteSets, SequencesExt

CONSTANTS
    Callers,     \* goroutines that apply charts
    Index,       \* index.yaml of the repositories: records [repo, name, app, version, url]
    ChartAt,     \* the chart behind a URL or a local path: records [name, type]
    FileName,    \* filepath.Base of a URL
    Normal,      \* normalizeVersion: an app version with its prefix "v"
    Credentials  \* the data of the REST configuration that goes to files

VARIABLES
    step,        \* where the call of each caller is
    cfg,         \* its configuration, after setupDefaults
    chart,       \* the URL or path of the chart it has loaded
    downloads,   \* the download directory: the URLs a file's halves came from
    spoiled,     \* history: files that a call, since they were made, failed to copy
    temp,        \* the temporary files of each call
    releases     \* the releases in the cluster

helmVars == <<step, cfg, chart, downloads, spoiled, temp, releases>>

\* The empty string, of a field that is not set.
Unset == ""

\* A configuration is a record of these fields.
Fields == {"local", "url", "repo", "chart", "version", "app", "release", "action",
           "upgrade", "dryRun"}
IsConfig(c) == c = [f \in Fields |-> c[f]]

NoConfig == [local |-> Unset, url |-> Unset, repo |-> Unset, chart |-> Unset,
             version |-> Unset, app |-> Unset, release |-> Unset,
             action |-> "install", upgrade |-> FALSE, dryRun |-> FALSE]

HelmInit ==
    /\ step = [p \in Callers |-> "idle"]
    /\ cfg = [p \in Callers |-> NoConfig]
    /\ chart = [p \in Callers |-> Unset]
    /\ downloads = <<>> /\ spoiled = {}
    /\ temp = [p \in Callers |-> {}]
    /\ releases = {}

Ended == {"idle", "ok", "failed"}
Goto(p, s) == step' = [step EXCEPT ![p] = s]
-----------------------------------------------------------------------------
\* setupDefaults: the stable repository and the latest version, without a URL.
Defaults(c) ==
    IF c.url # Unset THEN c
    ELSE [c EXCEPT !.repo = IF @ = Unset THEN "stable" ELSE @,
                   !.version = IF @ = Unset THEN "latest" ELSE @]

\* GetEntryWithAppVersion and GetEntryWithChartVersion: the first entry of a
\* chart in the index of its repository.
Entries(repo, name) == {i \in DOMAIN Index : Index[i].repo = repo /\ Index[i].name = name}
WithApp(repo, name, app) == {i \in Entries(repo, name) : Index[i].app = Normal[app]}
WithVersion(repo, name, version) ==
    {i \in Entries(repo, name) : version \in {"latest", Index[i].version}}
FirstOf(places) == Index[CHOOSE i \in places : \A j \in places : i <= j]

\* setupChartVersion: an app version decides the chart version.
KnowsApp(c) == IF c.app = Unset THEN TRUE ELSE WithApp(c.repo, c.chart, c.app) # {}
ChartVersion(c) ==
    IF c.app = Unset THEN c
    ELSE [c EXCEPT !.version = FirstOf(WithApp(c.repo, c.chart, c.app)).version]

\* getHelmChartURL: the URL, or what the repository has for the location.
HasURL(c) == c.url # Unset \/ (c.chart # Unset /\ WithVersion(c.repo, c.chart, c.version) # {})
ChartURL(c) ==
    IF c.url # Unset THEN c.url ELSE FirstOf(WithVersion(c.repo, c.chart, c.version)).url

\* ApplyHelmChart begins.  getHelmLocalPath: a local path is taken as it is,
\* and os.Stat tells whether a file of the chart's name is there already.
ApplyHelmChart(p, c0) ==
    LET d     == Defaults(c0)
        known == KnowsApp(d)
        c     == IF known THEN ChartVersion(d) ELSE d
        found == known /\ (IF c.local # Unset THEN TRUE ELSE HasURL(c))
        from  == IF ~found THEN Unset ELSE IF c.local # Unset THEN c.local ELSE ChartURL(c)
        there == found /\ (IF c.local # Unset THEN TRUE
                           ELSE FileName[from] \in DOMAIN downloads)
    IN  /\ step[p] = "idle"
        /\ cfg' = [cfg EXCEPT ![p] = c]
        /\ chart' = [chart EXCEPT ![p] = from]
        /\ \/ ~there /\ Goto(p, "failed")
           \/ there /\ Goto(p, "load")
           \/ found /\ ~there /\ Goto(p, "fetch")
        /\ UNCHANGED <<downloads, spoiled, temp, releases>>

\* DownloadFile: when http.Get has answered, os.Create makes the file, or
\* empties the one that another call has made meanwhile.
Fetch(p) ==
    LET f == FileName[chart[p]]
    IN  /\ step[p] = "fetch"
        /\ \/ /\ downloads' = [g \in DOMAIN downloads \cup {f} |->
                                IF g = f THEN <<Unset, Unset>> ELSE downloads[g]]
              /\ spoiled' = spoiled \ {f}
              /\ Goto(p, "head")
           \/ Goto(p, "failed") /\ UNCHANGED <<downloads, spoiled>>
        /\ UNCHANGED <<cfg, chart, temp, releases>>

\* Mutant: the error of io.Copy is dropped.
CopyUnreported(p) ==
    LET f == FileName[chart[p]]
        half == IF step[p] = "head" THEN 1 ELSE 2
    IN  /\ step[p] \in {"head", "tail"}
        /\ \/ /\ downloads' = [downloads EXCEPT ![f][half] = chart[p]]
              /\ Goto(p, IF half = 1 THEN "tail" ELSE "load")
           \/ Goto(p, "load") /\ UNCHANGED downloads
        /\ UNCHANGED <<cfg, chart, spoiled, temp, releases>>

\* io.Copy writes at the place in the file that this call has reached; a copy
\* that breaks off leaves what has arrived.
Copy(p) ==
    LET f == FileName[chart[p]]
        half == IF step[p] = "head" THEN 1 ELSE 2
    IN  /\ step[p] \in {"head", "tail"}
        /\ \/ /\ downloads' = [downloads EXCEPT ![f][half] = chart[p]]
              /\ Goto(p, IF half = 1 THEN "tail" ELSE "load")
              /\ UNCHANGED spoiled
           \/ /\ spoiled' = spoiled \cup {f}
              /\ Goto(p, "failed")
              /\ UNCHANGED downloads
        /\ UNCHANGED <<cfg, chart, temp, releases>>

Whole(halves) == halves[1] = halves[2] /\ halves[1] # Unset

\* loader.Load fails on a file that is not whole, and loads whatever chart
\* has the name; only applications are installable.
Load(p) ==
    LET halves == IF cfg[p].local # Unset THEN <<chart[p], chart[p]>>
                                         ELSE downloads[FileName[chart[p]]]
        found == halves[1]
    IN  /\ step[p] = "load"
        /\ IF ~Whole(halves) \/ ChartAt[found].type \notin {Unset, "application"}
           THEN Goto(p, "failed") /\ UNCHANGED <<cfg, chart>>
           ELSE /\ Goto(p, "prepare")
                /\ chart' = [chart EXCEPT ![p] = found]
                /\ cfg' = [cfg EXCEPT ![p].release = IF @ = Unset THEN ChartAt[found].name ELSE @]
        /\ UNCHANGED <<downloads, spoiled, temp, releases>>

\* The call returns, and its temporary files are removed.
Return(p, s) ==
    /\ Goto(p, s)
    /\ temp' = [temp EXCEPT ![p] = {}]

\* createHelmActionConfig writes the credentials to temporary files, one
\* after the other; when one cannot be written, or helm's configuration
\* fails, those that exist are removed.
Prepare(p) ==
    /\ step[p] = "prepare"
    /\ \/ /\ temp' = [temp EXCEPT ![p] = ToSet(Credentials)]
          /\ Goto(p, "decide")
       \/ Return(p, "failed")
    /\ UNCHANGED <<cfg, chart, downloads, spoiled, releases>>

\* updateActionIfReleaseFound: the releases are listed, which may fail.
Decide(p) ==
    /\ step[p] = "decide"
    /\ \/ /\ cfg[p].action = "install" /\ cfg[p].upgrade
          /\ Return(p, "failed")
          /\ UNCHANGED cfg
       \/ /\ Goto(p, "run")
          /\ cfg' = IF cfg[p].action = "install" /\ cfg[p].upgrade
                       /\ cfg[p].release \in releases
                    THEN [cfg EXCEPT ![p].action = "upgrade"] ELSE cfg
          /\ UNCHANGED temp
    /\ UNCHANGED <<chart, downloads, spoiled, releases>>

\* generateAction: an UPGRADE is of the release with the chart's name.
Target(p) == IF cfg[p].action = "upgrade" THEN ChartAt[chart[p]].name
                                          ELSE cfg[p].release
Possible(p) == (Target(p) \in releases) = (cfg[p].action # "install")

\* helm runs the action, or fails; a failed install may leave its release.
Run(p) ==
    /\ step[p] = "run"
    /\ \/ /\ Possible(p)
          /\ Return(p, "ok")
          /\ releases' = IF cfg[p].dryRun THEN releases
                         ELSE IF cfg[p].action = "uninstall" THEN releases \ {Target(p)}
                         ELSE releases \cup {Target(p)}
       \/ /\ Return(p, "failed")
          /\ \/ UNCHANGED releases
             \/ /\ cfg[p].action = "install" /\ Possible(p) /\ ~cfg[p].dryRun
                /\ releases' = releases \cup {Target(p)}
    /\ UNCHANGED <<cfg, chart, downloads, spoiled>>

\* ApplyHelmChart has returned to its caller.
Returned(p) ==
    /\ step[p] \in {"ok", "failed"}
    /\ Goto(p, "idle")
    /\ cfg' = [cfg EXCEPT ![p] = NoConfig]
    /\ chart' = [chart EXCEPT ![p] = Unset]
    /\ UNCHANGED <<downloads, spoiled, temp, releases>>

HelmStep(p) == Fetch(p) \/ Copy(p) \/ Load(p) \/ Prepare(p) \/ Decide(p) \/ Run(p)
-----------------------------------------------------------------------------
HelmTypeOK ==
    /\ step \in [Callers -> Ended \cup {"fetch", "head", "tail", "load", "prepare", "decide",
                                  "run"}]
    /\ DOMAIN cfg = Callers
    /\ \A f \in DOMAIN downloads : downloads[f] \in Seq(DOMAIN ChartAt \cup {Unset})
    /\ spoiled \subseteq DOMAIN downloads
    /\ temp \in [Callers -> SUBSET ToSet(Credentials)]
    /\ IsFiniteSet(releases)

(***************************************************************************)
(* No file with the certificates or the key of the cluster outlives the    *)
(* call that wrote it, whichever of its steps fails.                       *)
(***************************************************************************)
NoCredentialsLeft == \A p \in Callers : step[p] \in Ended => temp[p] = {}

(***************************************************************************)
(* A chart that helm runs was loaded from a file whose halves are of one   *)
(* download: one that is under way, was broken off or was emptied by       *)
(* another call is never applied, although its file is found and not       *)
(* downloaded again.  It is the chart at the local path, or the one that   *)
(* was asked for unless another URL has the same file name.                *)
(***************************************************************************)
RunsWholeChart ==
    \A p \in Callers : step[p] \in {"prepare", "decide", "run"} =>
        /\ chart[p] # Unset
        /\ cfg[p].local # Unset => chart[p] = cfg[p].local
        /\ cfg[p].local = Unset => FileName[chart[p]] = FileName[ChartURL(cfg[p])]

(***************************************************************************)
(* Calls that missed the same file empty it under one another's hands and  *)
(* write to it together.  Still, once none writes to it, and none said     *)
(* that it failed to since it was last made, nothing is missing from it:   *)
(* each half came from a URL with its name, so it is whole if only one URL *)
(* has that name.                                                          *)
(***************************************************************************)
DownloadsComplete ==
    \A f \in DOMAIN downloads \ spoiled :
        \/ \E p \in Callers : step[p] \in {"head", "tail"} /\ FileName[chart[p]] = f
        \/ \A half \in 1 .. 2 : downloads[f][half] # Unset /\ FileName[downloads[f][half]] = f
=============================================================================
