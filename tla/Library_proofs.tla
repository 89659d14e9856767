--------------------------- MODULE Library_proofs ---------------------------
(***************************************************************************)
(* Proofs about the components that do not interact.  Each has an          *)
(* inductive invariant of its own; a step of the library is a step of the  *)
(* component or leaves its variables alone.                                *)
(***************************************************************************)
EXTENDS Library, Registration_proofs, Parts_proofs

-----------------------------------------------------------------------------
(***************************************************************************)
(* The operator over Helm.  What is in a file of the download directory    *)
(* came from URLs with its name; a half that is missing is about to be     *)
(* written, unless a copy to the file failed; and a call that has not      *)
(* reached helm has no temporary files.                                    *)
(***************************************************************************)
HelmSteps ==
    O!Ended \cup {"fetch", "head", "tail", "load", "prepare", "decide", "run"}

HelmTypes ==
    /\ helmStep \in [Callers -> HelmSteps]
    /\ DOMAIN cfg = Callers
    /\ \A p \in Callers : O!IsConfig(cfg[p])
    /\ DOMAIN chart = Callers
    /\ temp \in [Callers -> SUBSET O!ToSet(Credentials)]

\* What a call is about to read is the file of what it asked for.
Sought(p) ==
    /\ cfg[p].local # O!Unset => chart[p] = cfg[p].local
    /\ cfg[p].local = O!Unset => /\ chart[p] = O!ChartURL(cfg[p])
                            /\ FileName[chart[p]] \in DOMAIN downloads

\* What it downloads is what it asked for, and a chart.
SoughtChart(p) ==
    /\ cfg[p].local = O!Unset
    /\ chart[p] = O!ChartURL(cfg[p]) /\ chart[p] \in DOMAIN ChartAt

Whole(p) ==
    /\ chart[p] # O!Unset
    /\ cfg[p].local # O!Unset => chart[p] = cfg[p].local
    /\ cfg[p].local = O!Unset => FileName[chart[p]] = FileName[O!ChartURL(cfg[p])]

Under(p) ==
    /\ helmStep[p] \in {"fetch", "head", "tail"} => SoughtChart(p)
    /\ helmStep[p] \in {"head", "tail", "load"} => Sought(p)
    /\ helmStep[p] \in {"prepare", "decide", "run"} => Whole(p)
    /\ helmStep[p] \notin {"decide", "run"} => temp[p] = {}

\* A call that has still to write this half of a file.
Fills(p, f, h) ==
    /\ helmStep[p] = "head" \/ (helmStep[p] = "tail" /\ h = 2)
    /\ FileName[chart[p]] = f

Halves(f) ==
    /\ downloads[f] \in Seq(DOMAIN ChartAt \cup {O!Unset}) /\ Len(downloads[f]) = 2
    /\ \A h \in 1 .. 2 : downloads[f][h] = O!Unset \/ FileName[downloads[f][h]] = f
    /\ f \notin spoiled =>
         \A h \in 1 .. 2 : downloads[f][h] # O!Unset \/ \E p \in Callers : Fills(p, f, h)

HelmInv ==
    /\ HelmTypes
    /\ spoiled \subseteq DOMAIN downloads
    /\ \A f \in DOMAIN downloads : Halves(f)
    /\ \A p \in Callers : Under(p)

\* The defaults, and the version found for an app version, make configurations.
LEMMA ConfigKept ==
    ASSUME NEW c, O!IsConfig(c)
    PROVE  O!IsConfig(O!Defaults(c)) /\ O!IsConfig(O!ChartVersion(c))
<1>1. O!IsConfig(O!Defaults(c))
  BY DEF O!Defaults, O!IsConfig
<1>2. O!IsConfig(O!ChartVersion(c))
  BY DEF O!ChartVersion, O!IsConfig
<1> QED
  BY <1>1, <1>2

\* A URL that is found stands for a chart.
LEMMA Located ==
    ASSUME NEW c, O!HasURL(c), c.url # O!Unset => c.url \in DOMAIN ChartAt
    PROVE  O!ChartURL(c) \in DOMAIN ChartAt
<1> DEFINE places == O!WithVersion(c.repo, c.chart, c.version)
<1>1. CASE c.url # O!Unset
  BY <1>1 DEF O!ChartURL
<1>2. CASE c.url = O!Unset
  <2>1. places # {} /\ places \subseteq DOMAIN Index
    BY <1>2 DEF O!HasURL, O!WithVersion, O!Entries
  <2>2. places \subseteq Nat
    BY <2>1, PartsAssumption
  <2> HIDE DEF places
  <2>3. PICK i \in places : \A j \in places : i <= j
    BY <2>1, <2>2, LeastNumber
  <2>4. (CHOOSE n \in places : \A j \in places : n <= j) \in places
    BY <2>3
  <2>5. O!FirstOf(places).url \in DOMAIN ChartAt
    BY <2>1, <2>4, PartsAssumption DEF O!FirstOf
  <2> QED
    BY <1>2, <2>5 DEF places, O!ChartURL
<1> QED
  BY <1>1, <1>2

\* The defaults and the version leave the URL.
LEMMA SameLocation ==
    ASSUME NEW c, O!IsConfig(c)
    PROVE  O!Defaults(c).url = c.url /\ O!ChartVersion(c).url = c.url
<1>1. O!Defaults(c).url = c.url
  BY DEF O!Defaults, O!IsConfig, O!Fields
<1>2. O!ChartVersion(c).url = c.url
  BY DEF O!ChartVersion, O!IsConfig, O!Fields
<1> QED
  BY <1>1, <1>2

\* A step of one call leaves what holds of another, unless it removes files.
LEMMA OtherCall ==
    ASSUME NEW q \in Callers, Under(q), helmStep'[q] = helmStep[q], cfg'[q] = cfg[q],
           chart'[q] = chart[q], temp'[q] = temp[q],
           DOMAIN downloads \subseteq DOMAIN downloads'
    PROVE  Under(q)'
<1>1. Sought(q) => Sought(q)'
  BY DEF Sought
<1>2. Whole(q) => Whole(q)'
  BY DEF Whole
<1>3. SoughtChart(q) => SoughtChart(q)'
  BY DEF SoughtChart
<1> QED
  BY <1>1, <1>2, <1>3 DEF Under

\* The files stay as they are when nobody writes and no writer goes away.
LEMMA FilesKept ==
    ASSUME HelmInv, UNCHANGED <<downloads, spoiled>>, NEW p \in Callers,
           helmStep[p] \notin {"head", "tail"},
           \A q \in Callers : q # p => helmStep'[q] = helmStep[q] /\ chart'[q] = chart[q]
    PROVE  spoiled' \subseteq DOMAIN downloads' /\ \A f \in DOMAIN downloads' : Halves(f)'
<1>1. ASSUME NEW q \in Callers, NEW f, NEW h, Fills(q, f, h)
      PROVE  Fills(q, f, h)'
  BY <1>1 DEF Fills
<1>2. ASSUME NEW f \in DOMAIN downloads
      PROVE  Halves(f)'
  <2>1. Halves(f)
    BY DEF HelmInv
  <2> QED
    BY <1>1, <2>1 DEF Halves
<1> QED
  BY <1>2 DEF HelmInv

LEMMA HApply ==
    ASSUME HelmInv, NEW p \in Callers, NEW c0, O!IsConfig(c0),
           c0.url # O!Unset => c0.url \in DOMAIN ChartAt, O!ApplyHelmChart(p, c0)
    PROVE  HelmInv'
<1> DEFINE d     == O!Defaults(c0)
           c     == IF O!KnowsApp(d) THEN O!ChartVersion(d) ELSE d
           known == O!KnowsApp(d) /\ (IF c.local # O!Unset THEN TRUE ELSE O!HasURL(c))
           from  == IF ~known THEN O!Unset ELSE IF c.local # O!Unset THEN c.local ELSE O!ChartURL(c)
           there == known /\ (IF c.local # O!Unset THEN TRUE ELSE FileName[from] \in DOMAIN downloads)
<1>1. /\ helmStep[p] = "idle" /\ temp' = temp /\ UNCHANGED <<downloads, spoiled>>
      /\ cfg' = [cfg EXCEPT ![p] = c] /\ chart' = [chart EXCEPT ![p] = from]
      /\ \/ helmStep' = [helmStep EXCEPT ![p] = "failed"]
         \/ there /\ helmStep' = [helmStep EXCEPT ![p] = "load"]
         \/ known /\ ~there /\ helmStep' = [helmStep EXCEPT ![p] = "fetch"]
  BY DEF O!ApplyHelmChart, O!Goto
<1>2. O!IsConfig(c) /\ c.url = c0.url
  <2>1. O!IsConfig(d) /\ d.url = c0.url
    BY ConfigKept, SameLocation
  <2> HIDE DEF d
  <2> QED
    BY <2>1, ConfigKept, SameLocation
<1>3. known => IF c.local # O!Unset THEN from = c.local ELSE from = O!ChartURL(c)
  OBVIOUS
<1>4. known /\ ~there => c.local = O!Unset /\ from \in DOMAIN ChartAt
  <2> HIDE DEF c
  <2> QED
    BY <1>2, Located
<1>5. there => known /\ (c.local = O!Unset => FileName[from] \in DOMAIN downloads)
  OBVIOUS
<1> HIDE DEF c, from, known, d, there
<1>6. /\ cfg'[p] = c /\ chart'[p] = from
      /\ \A q \in Callers : q # p => /\ cfg'[q] = cfg[q] /\ chart'[q] = chart[q]
                                     /\ helmStep'[q] = helmStep[q]
  BY <1>1 DEF HelmInv, HelmTypes
<1>7. /\ \/ helmStep'[p] = "failed"
         \/ there /\ helmStep'[p] = "load"
         \/ known /\ ~there /\ helmStep'[p] = "fetch"
      /\ helmStep' \in [Callers -> HelmSteps]
  BY <1>1 DEF HelmInv, HelmTypes, HelmSteps, O!Ended
<1>8. /\ DOMAIN cfg' = Callers /\ \A q \in Callers : O!IsConfig(cfg'[q])
      /\ DOMAIN chart' = Callers
      /\ temp' \in [Callers -> SUBSET O!ToSet(Credentials)]
  BY <1>1, <1>2 DEF HelmInv, HelmTypes
<1>9. ASSUME NEW q \in Callers, q # p
      PROVE  Under(q)'
  BY <1>1, <1>6, <1>9, OtherCall DEF HelmInv
<1>10. Under(p)'
  <2>1. temp'[p] = {}
    BY <1>1 DEF HelmInv, Under
  <2> QED
    BY <1>1, <1>3, <1>4, <1>5, <1>6, <1>7, <2>1 DEF Under, Sought, SoughtChart
<1>11. spoiled' \subseteq DOMAIN downloads' /\ \A f \in DOMAIN downloads' : Halves(f)'
  BY <1>1, <1>6, FilesKept
<1> QED
  BY <1>7, <1>8, <1>9, <1>10, <1>11 DEF HelmInv, HelmTypes

\* The release and the action of a configuration do not matter for its URL.
LEMMA SameURL ==
    ASSUME NEW c, NEW d, c.url = d.url, c.repo = d.repo, c.chart = d.chart,
           c.version = d.version
    PROVE  O!ChartURL(c) = O!ChartURL(d)
BY DEF O!ChartURL

LEMMA HFetch ==
    ASSUME HelmInv, NEW p \in Callers, O!Fetch(p)
    PROVE  HelmInv'
<1>0. PICK f : f = FileName[chart[p]]
  OBVIOUS
<1>1. /\ helmStep[p] = "fetch" /\ UNCHANGED <<cfg, chart, temp>>
      /\ \/ /\ downloads' = [g \in DOMAIN downloads \cup {f} |->
                               IF g = f THEN <<O!Unset, O!Unset>> ELSE downloads[g]]
            /\ spoiled' = spoiled \ {f}
            /\ helmStep' = [helmStep EXCEPT ![p] = "head"]
         \/ /\ helmStep' = [helmStep EXCEPT ![p] = "failed"]
            /\ UNCHANGED <<downloads, spoiled>>
  BY <1>0 DEF O!Fetch, O!Goto
<1>2. SoughtChart(p) /\ temp[p] = {}
  BY <1>1 DEF HelmInv, Under
<1>3. /\ helmStep' \in [Callers -> HelmSteps]
      /\ \A q \in Callers : q # p => helmStep'[q] = helmStep[q]
  BY <1>1 DEF HelmInv, HelmTypes, HelmSteps, O!Ended
<1>4. HelmTypes'
  BY <1>1, <1>3 DEF HelmInv, HelmTypes
<1>5. DOMAIN downloads \subseteq DOMAIN downloads'
  BY <1>1
<1>6. ASSUME NEW q \in Callers, q # p
      PROVE  Under(q)'
  BY <1>1, <1>3, <1>5, <1>6, OtherCall DEF HelmInv
<1>7. CASE UNCHANGED <<downloads, spoiled>> /\ helmStep' = [helmStep EXCEPT ![p] = "failed"]
  <2>1. helmStep'[p] = "failed"
    BY <1>7 DEF HelmInv, HelmTypes
  <2>2. Under(p)'
    BY <1>1, <1>2, <2>1 DEF Under
  <2>3. spoiled' \subseteq DOMAIN downloads' /\ \A g \in DOMAIN downloads' : Halves(g)'
    BY <1>1, <1>3, <1>7, FilesKept
  <2> QED
    BY <1>4, <1>6, <2>2, <2>3 DEF HelmInv
<1>8. CASE /\ downloads' = [g \in DOMAIN downloads \cup {f} |->
                              IF g = f THEN <<O!Unset, O!Unset>> ELSE downloads[g]]
           /\ spoiled' = spoiled \ {f}
           /\ helmStep' = [helmStep EXCEPT ![p] = "head"]
  <2>1. /\ helmStep'[p] = "head" /\ DOMAIN downloads' = DOMAIN downloads \cup {f}
        /\ downloads'[f] = <<O!Unset, O!Unset>>
        /\ \A g \in DOMAIN downloads : g # f => downloads'[g] = downloads[g]
    BY <1>8 DEF HelmInv, HelmTypes
  <2>2. Under(p)'
    BY <1>0, <1>1, <1>2, <2>1 DEF Under, SoughtChart, Sought
  <2>3. spoiled' \subseteq DOMAIN downloads'
    BY <1>8, <2>1 DEF HelmInv
  <2>4. Halves(f)'
    <3>1. \A h \in 1 .. 2 : Fills(p, f, h)'
      BY <1>0, <1>1, <2>1 DEF Fills
    <3> QED
      BY <2>1, <3>1 DEF Halves
  <2>5. ASSUME NEW g \in DOMAIN downloads, g # f
        PROVE  Halves(g)'
    <3>1. Halves(g)
      BY DEF HelmInv
    <3>2. ASSUME NEW q \in Callers, NEW h, Fills(q, g, h)
          PROVE  Fills(q, g, h)'
      BY <1>1, <1>3, <3>2 DEF Fills
    <3> QED
      BY <1>8, <2>1, <2>5, <3>1, <3>2 DEF Halves
  <2> QED
    BY <1>4, <1>6, <2>1, <2>2, <2>3, <2>4, <2>5 DEF HelmInv
<1> QED
  BY <1>1, <1>7, <1>8

LEMMA HCopy ==
    ASSUME HelmInv, NEW p \in Callers, O!Copy(p)
    PROVE  HelmInv'
<1>0. PICK f : f = FileName[chart[p]]
  OBVIOUS
<1> DEFINE half == IF helmStep[p] = "head" THEN 1 ELSE 2
           on == IF half = 1 THEN "tail" ELSE "load"
<1>1. /\ helmStep[p] \in {"head", "tail"} /\ UNCHANGED <<cfg, chart, temp>>
      /\ \/ /\ downloads' = [downloads EXCEPT ![f] = [downloads[f] EXCEPT ![half] = chart[p]]]
            /\ helmStep' = [helmStep EXCEPT ![p] = on]
            /\ spoiled' = spoiled
         \/ /\ helmStep' = [helmStep EXCEPT ![p] = "failed"]
            /\ spoiled' = spoiled \cup {f} /\ downloads' = downloads
  BY <1>0 DEF O!Copy, O!Goto
<1>2. SoughtChart(p) /\ Sought(p) /\ temp[p] = {} /\ f \in DOMAIN downloads
  BY <1>0, <1>1 DEF HelmInv, Under, Sought, SoughtChart
<1>3. /\ half \in 1 .. 2 /\ on \in {"tail", "load"}
      /\ helmStep[p] = "head" <=> half = 1
      /\ on = "tail" <=> half = 1
  BY <1>1
<1>4. FileName[chart[p]] = f
  BY <1>0
<1> HIDE DEF half, on
<1>5. /\ helmStep' \in [Callers -> HelmSteps] /\ helmStep'[p] \in {"failed", on}
      /\ \A q \in Callers : q # p => helmStep'[q] = helmStep[q]
  BY <1>1, <1>3 DEF HelmInv, HelmTypes, HelmSteps, O!Ended
<1>6. HelmTypes'
  BY <1>1, <1>5 DEF HelmInv, HelmTypes
<1>7. DOMAIN downloads' = DOMAIN downloads
  BY <1>1
<1>8. ASSUME NEW q \in Callers, q # p
      PROVE  Under(q)'
  BY <1>1, <1>5, <1>7, <1>8, OtherCall DEF HelmInv
<1>9. Under(p)'
  BY <1>1, <1>2, <1>3, <1>5, <1>7 DEF Under, SoughtChart, Sought
<1>10. spoiled' \subseteq DOMAIN downloads'
  BY <1>1, <1>2, <1>7 DEF HelmInv
<1>11. ASSUME NEW g \in DOMAIN downloads, g # f
       PROVE  Halves(g)'
  <2>1. Halves(g) /\ downloads'[g] = downloads[g] /\ (g \in spoiled' <=> g \in spoiled)
    BY <1>1, <1>11 DEF HelmInv
  <2>2. ASSUME NEW q \in Callers, NEW h, Fills(q, g, h)
        PROVE  Fills(q, g, h)'
    BY <1>1, <1>4, <1>5, <1>11, <2>2 DEF Fills
  <2> QED
    BY <2>1, <2>2 DEF Halves
<1>12. Halves(f)'
  <2>0. Halves(f)
    BY <1>2 DEF HelmInv
  <2>1. CASE downloads' = downloads /\ spoiled' = spoiled \cup {f}
    BY <2>0, <2>1 DEF Halves
  <2>2. CASE /\ downloads' = [downloads EXCEPT ![f] = [downloads[f] EXCEPT ![half] = chart[p]]]
             /\ helmStep' = [helmStep EXCEPT ![p] = on]
             /\ spoiled' = spoiled
    <3>1. downloads'[f] = [downloads[f] EXCEPT ![half] = chart[p]]
      BY <1>2, <2>2
    <3>2. /\ downloads'[f] \in Seq(DOMAIN ChartAt \cup {O!Unset}) /\ Len(downloads'[f]) = 2
          /\ downloads'[f][half] = chart[p]
          /\ \A h \in 1 .. 2 : h # half => downloads'[f][h] = downloads[f][h]
      BY <1>2, <1>3, <2>0, <3>1 DEF Halves, SoughtChart
    <3>3. helmStep'[p] = on /\ chart[p] # O!Unset
      BY <1>2, <2>2, PartsAssumption DEF HelmInv, HelmTypes, SoughtChart
    <3>4. ASSUME NEW h \in 1 .. 2, h # half, NEW q \in Callers, Fills(q, f, h)
          PROVE  Fills(q, f, h)'
      <4>1. CASE q = p
        BY <1>1, <1>3, <3>3, <3>4, <4>1 DEF Fills
      <4>2. CASE q # p
        BY <1>1, <1>5, <3>4, <4>2 DEF Fills
      <4> QED
        BY <4>1, <4>2
    <3>5. \A h \in 1 .. 2 : downloads'[f][h] = O!Unset \/ FileName[downloads'[f][h]] = f
      BY <1>4, <2>0, <3>2 DEF Halves
    <3>6. f \notin spoiled' =>
            \A h \in 1 .. 2 : downloads'[f][h] # O!Unset \/ \E q \in Callers : Fills(q, f, h)'
      BY <2>0, <2>2, <3>2, <3>3, <3>4 DEF Halves
    <3> QED
      BY <3>2, <3>5, <3>6 DEF Halves
  <2> QED
    BY <1>1, <2>1, <2>2
<1> QED
  BY <1>6, <1>7, <1>8, <1>9, <1>10, <1>11, <1>12 DEF HelmInv

LEMMA HLoad ==
    ASSUME HelmInv, NEW p \in Callers, O!Load(p)
    PROVE  HelmInv'
<1> DEFINE halves == IF cfg[p].local # O!Unset THEN <<chart[p], chart[p]>>
                                               ELSE downloads[FileName[chart[p]]]
           loaded == halves[1]
           name  == IF cfg[p].release = O!Unset THEN ChartAt[loaded].name ELSE cfg[p].release
<1>1. /\ helmStep[p] = "load" /\ UNCHANGED <<downloads, spoiled, temp>>
      /\ \/ helmStep' = [helmStep EXCEPT ![p] = "failed"] /\ UNCHANGED <<cfg, chart>>
         \/ /\ loaded # O!Unset
            /\ helmStep' = [helmStep EXCEPT ![p] = "prepare"]
            /\ chart' = [chart EXCEPT ![p] = loaded]
            /\ cfg' = [cfg EXCEPT ![p] = [cfg[p] EXCEPT !.release = name]]
  BY DEF O!Load, O!Goto, O!Whole
<1>2. Sought(p) /\ temp[p] = {}
  BY <1>1 DEF HelmInv, Under
<1>3. /\ cfg[p].local # O!Unset => loaded = cfg[p].local
      /\ cfg[p].local = O!Unset /\ loaded # O!Unset => FileName[loaded] = FileName[O!ChartURL(cfg[p])]
  BY <1>2 DEF HelmInv, Sought, Halves
<1> HIDE DEF loaded, name, halves
<1>4. /\ helmStep' \in [Callers -> HelmSteps]
      /\ helmStep'[p] \in {"prepare", "failed"}
      /\ \A q \in Callers : q # p => /\ helmStep'[q] = helmStep[q] /\ chart'[q] = chart[q]
                                     /\ cfg'[q] = cfg[q]
  BY <1>1 DEF HelmInv, HelmTypes, HelmSteps, O!Ended
<1>5. /\ DOMAIN cfg' = Callers /\ DOMAIN chart' = Callers
      /\ helmStep'[p] = "prepare" =>
           loaded # O!Unset /\ chart'[p] = loaded /\ cfg'[p] = [cfg[p] EXCEPT !.release = name]
      /\ helmStep'[p] = "failed" => cfg'[p] = cfg[p]
  BY <1>1 DEF HelmInv, HelmTypes
<1>6. /\ O!IsConfig(cfg'[p])
      /\ cfg'[p].local = cfg[p].local /\ cfg'[p].url = cfg[p].url
      /\ cfg'[p].repo = cfg[p].repo /\ cfg'[p].chart = cfg[p].chart
      /\ cfg'[p].version = cfg[p].version
  BY <1>4, <1>5 DEF HelmInv, HelmTypes, O!IsConfig, O!Fields
<1>7. HelmTypes'
  BY <1>1, <1>4, <1>5, <1>6 DEF HelmInv, HelmTypes
<1>8. Under(p)'
  <2>1. O!ChartURL(cfg'[p]) = O!ChartURL(cfg[p])
    BY <1>6, SameURL
  <2> QED
    BY <1>1, <1>2, <1>3, <1>4, <1>5, <1>6, <2>1 DEF Under, Whole
<1>9. ASSUME NEW q \in Callers, q # p
      PROVE  Under(q)'
  BY <1>1, <1>4, <1>9, OtherCall DEF HelmInv
<1>10. spoiled' \subseteq DOMAIN downloads' /\ \A f \in DOMAIN downloads' : Halves(f)'
  BY <1>1, <1>4, FilesKept
<1> QED
  BY <1>1, <1>7, <1>8, <1>9, <1>10 DEF HelmInv

LEMMA HPrepare ==
    ASSUME HelmInv, NEW p \in Callers, O!Prepare(p)
    PROVE  HelmInv'
<1>1. /\ helmStep[p] = "prepare" /\ UNCHANGED <<cfg, chart, downloads, spoiled>>
      /\ \/ /\ temp' = [temp EXCEPT ![p] = O!ToSet(Credentials)]
            /\ helmStep' = [helmStep EXCEPT ![p] = "decide"]
         \/ /\ temp' = [temp EXCEPT ![p] = {}]
            /\ helmStep' = [helmStep EXCEPT ![p] = "failed"]
  BY DEF O!Prepare, O!Goto, O!Return
<1>2. /\ helmStep'[p] = "decide" \/ (helmStep'[p] = "failed" /\ temp'[p] = {})
      /\ \A q \in Callers : q # p => helmStep'[q] = helmStep[q] /\ temp'[q] = temp[q]
      /\ HelmTypes'
  BY <1>1 DEF HelmInv, HelmTypes, HelmSteps, O!Ended
<1>3. Under(p)'
  BY <1>1, <1>2 DEF HelmInv, Under, Whole
<1>4. ASSUME NEW q \in Callers, q # p
      PROVE  Under(q)'
  BY <1>1, <1>2, <1>4, OtherCall DEF HelmInv
<1>5. spoiled' \subseteq DOMAIN downloads' /\ \A f \in DOMAIN downloads' : Halves(f)'
  BY <1>1, <1>2, FilesKept
<1> QED
  BY <1>1, <1>2, <1>3, <1>4, <1>5 DEF HelmInv

LEMMA HDecide ==
    ASSUME HelmInv, NEW p \in Callers, O!Decide(p)
    PROVE  HelmInv'
<1>1. /\ helmStep[p] = "decide" /\ UNCHANGED <<chart, downloads, spoiled>>
      /\ \/ /\ cfg' = cfg /\ temp' = [temp EXCEPT ![p] = {}]
            /\ helmStep' = [helmStep EXCEPT ![p] = "failed"]
         \/ /\ temp' = temp /\ helmStep' = [helmStep EXCEPT ![p] = "run"]
            /\ cfg' \in {cfg, [cfg EXCEPT ![p] = [cfg[p] EXCEPT !.action = "upgrade"]]}
  BY DEF O!Decide, O!Goto, O!Return
<1>2. /\ helmStep'[p] = "run" \/ (helmStep'[p] = "failed" /\ temp'[p] = {})
      /\ \A q \in Callers : q # p => /\ helmStep'[q] = helmStep[q] /\ temp'[q] = temp[q]
                                     /\ cfg'[q] = cfg[q]
      /\ temp' \in [Callers -> SUBSET O!ToSet(Credentials)]
      /\ helmStep' \in [Callers -> HelmSteps]
  BY <1>1 DEF HelmInv, HelmTypes, HelmSteps, O!Ended
<1>3. /\ DOMAIN cfg' = Callers
      /\ cfg'[p] = cfg[p] \/ cfg'[p] = [cfg[p] EXCEPT !.action = "upgrade"]
  BY <1>1 DEF HelmInv, HelmTypes
<1>4. /\ O!IsConfig(cfg'[p])
      /\ cfg'[p].local = cfg[p].local /\ cfg'[p].url = cfg[p].url
      /\ cfg'[p].repo = cfg[p].repo /\ cfg'[p].chart = cfg[p].chart
      /\ cfg'[p].version = cfg[p].version
  BY <1>3 DEF HelmInv, HelmTypes, O!IsConfig, O!Fields
<1>5. HelmTypes'
  BY <1>1, <1>2, <1>3, <1>4 DEF HelmInv, HelmTypes
<1>6. Under(p)'
  <2>1. O!ChartURL(cfg'[p]) = O!ChartURL(cfg[p])
    BY <1>4, SameURL
  <2> QED
    BY <1>1, <1>2, <1>4, <2>1 DEF HelmInv, Under, Whole
<1>7. ASSUME NEW q \in Callers, q # p
      PROVE  Under(q)'
  BY <1>1, <1>2, <1>7, OtherCall DEF HelmInv
<1>8. spoiled' \subseteq DOMAIN downloads' /\ \A f \in DOMAIN downloads' : Halves(f)'
  BY <1>1, <1>2, FilesKept
<1> QED
  BY <1>1, <1>5, <1>6, <1>7, <1>8 DEF HelmInv

LEMMA HRun ==
    ASSUME HelmInv, NEW p \in Callers, O!Run(p)
    PROVE  HelmInv'
<1>1. /\ helmStep[p] = "run" /\ UNCHANGED <<cfg, chart, downloads, spoiled>>
      /\ temp' = [temp EXCEPT ![p] = {}]
      /\ \/ helmStep' = [helmStep EXCEPT ![p] = "ok"]
         \/ helmStep' = [helmStep EXCEPT ![p] = "failed"]
  BY DEF O!Run, O!Goto, O!Return
<1>2. /\ helmStep'[p] \in {"ok", "failed"} /\ temp'[p] = {}
      /\ \A q \in Callers : q # p => helmStep'[q] = helmStep[q] /\ temp'[q] = temp[q]
      /\ HelmTypes'
  BY <1>1 DEF HelmInv, HelmTypes, HelmSteps, O!Ended
<1>3. Under(p)'
  BY <1>2 DEF Under
<1>4. ASSUME NEW q \in Callers, q # p
      PROVE  Under(q)'
  BY <1>1, <1>2, <1>4, OtherCall DEF HelmInv
<1>5. spoiled' \subseteq DOMAIN downloads' /\ \A f \in DOMAIN downloads' : Halves(f)'
  BY <1>1, <1>2, FilesKept
<1> QED
  BY <1>1, <1>2, <1>3, <1>4, <1>5 DEF HelmInv

LEMMA NoConfigOK == O!IsConfig(O!NoConfig)
BY DEF O!IsConfig, O!Fields, O!NoConfig

LEMMA HReturned ==
    ASSUME HelmInv, NEW p \in Callers, O!Returned(p)
    PROVE  HelmInv'
<1> DEFINE none == O!NoConfig
<1>1. /\ helmStep[p] \in {"ok", "failed"} /\ UNCHANGED <<downloads, spoiled, temp>>
      /\ helmStep' = [helmStep EXCEPT ![p] = "idle"]
      /\ cfg' = [cfg EXCEPT ![p] = none] /\ chart' = [chart EXCEPT ![p] = O!Unset]
  BY DEF O!Returned, O!Goto
<1>2. O!IsConfig(none)
  BY NoConfigOK
<1> HIDE DEF none
<1>3. /\ helmStep'[p] = "idle" /\ helmStep' \in [Callers -> HelmSteps]
      /\ \A q \in Callers : q # p => /\ helmStep'[q] = helmStep[q] /\ cfg'[q] = cfg[q]
                                     /\ chart'[q] = chart[q]
  BY <1>1 DEF HelmInv, HelmTypes, HelmSteps, O!Ended
<1>4. HelmTypes'
  BY <1>1, <1>2, <1>3 DEF HelmInv, HelmTypes
<1>5. Under(p)'
  BY <1>1, <1>3 DEF HelmInv, Under
<1>6. ASSUME NEW q \in Callers, q # p
      PROVE  Under(q)'
  BY <1>1, <1>3, <1>6, OtherCall DEF HelmInv
<1>7. spoiled' \subseteq DOMAIN downloads' /\ \A f \in DOMAIN downloads' : Halves(f)'
  BY <1>1, <1>3, FilesKept
<1> QED
  BY <1>4, <1>5, <1>6, <1>7 DEF HelmInv

LEMMA HelmUnchanged ==
    ASSUME HelmInv, UNCHANGED O!helmVars
    PROVE  HelmInv'
<1> USE DEF O!helmVars
<1>1. HelmTypes'
  BY DEF HelmInv, HelmTypes
<1>2. ASSUME NEW q \in Callers
      PROVE  Under(q)'
  BY OtherCall DEF HelmInv
<1>3. ASSUME NEW f \in DOMAIN downloads
      PROVE  Halves(f)'
  <2>1. \A q \in Callers : \A h \in 1 .. 2 : Fills(q, f, h) => Fills(q, f, h)'
    BY DEF Fills
  <2> QED
    BY <2>1 DEF HelmInv, Halves
<1> QED
  BY <1>1, <1>2, <1>3 DEF HelmInv

\* A step of the library is one of the operator, or leaves it alone.
LEMMA OperatorStep ==
    ASSUME [LibraryNext]_libraryVars
    PROVE  O!Next \/ UNCHANGED operator
BY DEF LibraryNext, libraryVars, RestA, RestB, RestC

\* The configurations of the operator.
LEMMA OperatorConfig ==
    ASSUME NEW act
    PROVE  O!IsConfig(O!Operator(act)) /\ O!Operator(act).url = O!Unset
<1> DEFINE n == O!NoConfig
           o == O!Operator(act)
<1>1. n = [f \in O!Fields |-> n[f]] /\ n.url = O!Unset
  BY NoConfigOK DEF O!IsConfig, O!NoConfig
<1>2. o = [n EXCEPT !.chart = "meshery-operator", !.release = "meshery-operator",
                    !.repo = "meshery", !.version = "v1", !.action = act, !.upgrade = TRUE]
  BY DEF O!Operator
<1> HIDE DEF n, o
<1>3. DOMAIN n = O!Fields
  BY <1>1
<1>4. DOMAIN o = O!Fields /\ o = [f \in DOMAIN o |-> o[f]] /\ o.url = n.url
  BY <1>2, <1>3 DEF O!Fields
<1> QED
  BY <1>1, <1>4 DEF o, O!IsConfig

LEMMA HelmStepInv ==
    ASSUME HelmInv, O!Next \/ UNCHANGED operator
    PROVE  HelmInv'
<1>1. \/ \E p \in Callers : O!HelmStep(p) \/ O!Returned(p)
      \/ \E p \in Callers : \E c : /\ O!IsConfig(c) /\ O!ApplyHelmChart(p, c)
                                   /\ c.url # O!Unset => c.url \in DOMAIN ChartAt
      \/ UNCHANGED O!helmVars
  <2>1. /\ O!IsConfig(O!Operator("install")) /\ O!Operator("install").url = O!Unset
        /\ O!IsConfig(O!Operator("uninstall")) /\ O!Operator("uninstall").url = O!Unset
    BY OperatorConfig
  <2>2. CASE UNCHANGED operator
    BY <2>2 DEF operator, O!helmVars
  <2>3. ASSUME NEW p \in Callers
        PROVE  /\ O!GetStatus(p) => UNCHANGED O!helmVars
               /\ (\E force \in BOOLEAN : O!Deploy(p, force)) => UNCHANGED O!helmVars
               /\ O!Query(p) => UNCHANGED O!helmVars
               /\ O!SetStatus(p) => UNCHANGED O!helmVars
               /\ O!Reread(p) => UNCHANGED O!helmVars
               /\ O!ChartApplied(p) => O!Returned(p)
    BY DEF O!GetStatus, O!Deploy, O!Query, O!SetStatus, O!Reread, O!ChartApplied
  <2>4. O!Reconcile => UNCHANGED O!helmVars
    BY DEF O!Reconcile
  <2>5. ASSUME NEW p \in Callers
        PROVE  /\ O!Undeploy(p) => O!ApplyHelmChart(p, O!Operator("uninstall"))
               /\ O!StatusReturned(p) => \/ O!ApplyHelmChart(p, O!Operator("install"))
                                         \/ UNCHANGED O!helmVars
               /\ \A c \in Others : O!ApplyOther(p, c) => O!ApplyHelmChart(p, c)
    BY DEF O!Undeploy, O!StatusReturned, O!ApplyOther
  <2>6. \A c \in Others : O!IsConfig(c) /\ (c.url # O!Unset => c.url \in DOMAIN ChartAt)
    BY LibraryAssumption, PartsAssumption
  <2>7. CASE O!Next
    BY <2>1, <2>3, <2>4, <2>5, <2>6, <2>7 DEF O!Next
  <2> QED
    BY <2>2, <2>7
<1> QED
  BY <1>1, HApply, HFetch, HCopy, HLoad, HPrepare, HDecide, HRun, HReturned, HelmUnchanged
  DEF O!HelmStep

LEMMA HelmInit ==
    ASSUME LibraryInit
    PROVE  HelmInv
<1>1. O!HelmInit
  BY DEF LibraryInit, O!Init
<1>2. DOMAIN downloads = {} /\ spoiled = {}
  <2>1. downloads = <<>> /\ spoiled = {}
    BY <1>1 DEF O!HelmInit
  <2> QED
    BY <2>1
<1>3. HelmTypes
  BY <1>1, <1>2, NoConfigOK DEF O!HelmInit, HelmTypes, HelmSteps, O!Ended
<1>4. ASSUME NEW p \in Callers
      PROVE  Under(p)
  BY <1>1 DEF O!HelmInit, Under
<1> QED
  BY <1>2, <1>3, <1>4 DEF HelmInv

(***************************************************************************)
(* No credentials stay behind, helm runs whole charts that were asked for, *)
(* and calls that download one file at once do not spoil it: HelmSafe, for *)
(* any callers, repositories and charts.                                   *)
(***************************************************************************)
THEOREM ChartsWhole == LibrarySpec => []HelmSafe
<1>1. LibraryInit => HelmInv
  BY HelmInit
<1>2. HelmInv /\ [LibraryNext]_libraryVars => HelmInv'
  BY OperatorStep, HelmStepInv
<1>3. HelmInv => O!NoCredentialsLeft /\ O!RunsWholeChart
  BY DEF HelmInv, Under, Whole, O!NoCredentialsLeft, O!RunsWholeChart, O!Ended
<1>4. HelmInv => O!DownloadsComplete
  BY DEF HelmInv, Halves, Fills, O!DownloadsComplete
<1> QED
  BY <1>1, <1>2, <1>3, <1>4, PTL DEF LibrarySpec, HelmSafe

-----------------------------------------------------------------------------
(***************************************************************************)
(* The operator stays undeployed.  While the status is Undeployed, a call  *)
(* that can still overwrite it or apply the chart is forced, or was under  *)
(* way when the Undeploy ended: one that began later has seen Undeployed.  *)
(***************************************************************************)
Late(p) ==
    \/ opPc[p] \in {"query", "write"}
    \/ opPc[p] = "returned" /\ call[p] = "deploy" /\ seen[p] # "Undeployed"
    \/ call[p] = "deploying"

OperatorInv ==
    /\ deployment \in {"absent", "rolling", "ready"}
    /\ DOMAIN call = Callers /\ DOMAIN opPc = Callers
    /\ DOMAIN seen = Callers /\ DOMAIN forced = Callers
    /\ answer \in [Callers -> {"absent", "rolling", "ready"}]
    /\ \A p \in Callers : opPc[p] # "off" => call[p] \in {"status", "deploy"}
    /\ status = "Undeployed" => \A p \in Callers : Late(p) => p \in stale \/ forced[p]

LEMMA OBegin ==
    ASSUME OperatorInv, NEW p \in Callers, NEW name, NEW force,
           O!Begin(p, name, force), UNCHANGED <<status, deployment, answer>>,
           \/ name # "deploying" /\ UNCHANGED <<opPc, seen>>
           \/ name \in {"status", "deploy"} /\ O!ReadStatus(p)
    PROVE  OperatorInv'
<1>1. /\ call[p] = "none"
      /\ call' = [call EXCEPT ![p] = name] /\ forced' = [forced EXCEPT ![p] = force]
      /\ stale' = stale \ {p}
  BY DEF O!Begin
<1>2. opPc[p] = "off"
  BY <1>1 DEF OperatorInv
<1>3. /\ DOMAIN opPc' = Callers /\ DOMAIN seen' = Callers
      /\ \A q \in Callers : q # p => opPc'[q] = opPc[q] /\ seen'[q] = seen[q]
      /\ \/ name # "deploying" /\ opPc'[p] = "off"
         \/ name \in {"status", "deploy"} /\ status = "Undeployed"
              /\ opPc'[p] = "returned" /\ seen'[p] = "Undeployed"
         \/ name \in {"status", "deploy"} /\ status # "Undeployed"
  BY <1>2 DEF OperatorInv, O!ReadStatus
<1>4. /\ DOMAIN call' = Callers /\ DOMAIN forced' = Callers
      /\ call'[p] = name
      /\ \A q \in Callers : q # p => call'[q] = call[q] /\ forced'[q] = forced[q]
  BY <1>1 DEF OperatorInv
<1> QED
  BY <1>1, <1>3, <1>4 DEF OperatorInv, Late

LEMMA OQuery ==
    ASSUME OperatorInv, NEW p \in Callers, O!Query(p)
    PROVE  OperatorInv'
<1>1. /\ opPc[p] = "query" /\ UNCHANGED <<status, deployment, call, forced, stale>>
      /\ \/ /\ answer' = [answer EXCEPT ![p] = deployment]
            /\ opPc' = [opPc EXCEPT ![p] = "write"] /\ seen' = seen
         \/ /\ answer' = answer
            /\ opPc' = [opPc EXCEPT ![p] = "returned"]
            /\ seen' = [seen EXCEPT ![p] = "Unknown"]
  BY DEF O!Query
<1>2. /\ DOMAIN opPc' = Callers /\ DOMAIN seen' = Callers
      /\ answer' \in [Callers -> {"absent", "rolling", "ready"}]
      /\ \A q \in Callers : q # p => opPc'[q] = opPc[q] /\ seen'[q] = seen[q]
  BY <1>1 DEF OperatorInv
<1> QED
  BY <1>1, <1>2 DEF OperatorInv, Late

LEMMA OSetStatus ==
    ASSUME OperatorInv, NEW p \in Callers, O!SetStatus(p)
    PROVE  OperatorInv'
<1>1. /\ opPc[p] = "write" /\ UNCHANGED <<deployment, call, seen, forced, stale>>
      /\ opPc' = [opPc EXCEPT ![p] = "reread"]
      /\ answer' = [answer EXCEPT ![p] = "absent"]
  BY DEF O!SetStatus
<1>2. status' # "Undeployed"
  BY DEF O!SetStatus, OperatorInv
<1>3. /\ DOMAIN opPc' = Callers /\ answer' \in [Callers -> {"absent", "rolling", "ready"}]
      /\ \A q \in Callers : opPc'[q] # "off" => opPc[q] # "off"
  BY <1>1 DEF OperatorInv
<1> QED
  BY <1>1, <1>2, <1>3 DEF OperatorInv

LEMMA OReread ==
    ASSUME OperatorInv, NEW p \in Callers, O!Reread(p)
    PROVE  OperatorInv'
<1>1. /\ opPc[p] = "reread" /\ UNCHANGED <<status, deployment, call, answer, forced, stale>>
      /\ opPc' = [opPc EXCEPT ![p] = "returned"] /\ seen' = [seen EXCEPT ![p] = status]
  BY DEF O!Reread
<1>2. /\ DOMAIN opPc' = Callers /\ DOMAIN seen' = Callers
      /\ opPc'[p] = "returned" /\ seen'[p] = status
      /\ \A q \in Callers : q # p => opPc'[q] = opPc[q] /\ seen'[q] = seen[q]
  BY <1>1 DEF OperatorInv
<1> QED
  BY <1>1, <1>2 DEF OperatorInv, Late

LEMMA OStatusReturned ==
    ASSUME OperatorInv, NEW p \in Callers, O!StatusReturned(p)
    PROVE  OperatorInv'
<1>1. /\ opPc[p] = "returned" /\ UNCHANGED <<status, deployment, answer, stale>>
      /\ opPc' = [opPc EXCEPT ![p] = "off"] /\ seen' = [seen EXCEPT ![p] = "Unknown"]
      /\ \/ /\ call' = [call EXCEPT ![p] = "none"]
            /\ forced' = [forced EXCEPT ![p] = FALSE]
         \/ /\ call[p] # "status" /\ (seen[p] # "Undeployed" \/ forced[p])
            /\ call' = [call EXCEPT ![p] = "deploying"] /\ forced' = forced
  BY DEF O!StatusReturned, O!Done
<1>2. call[p] \in {"status", "deploy"}
  BY <1>1 DEF OperatorInv
<1>3. /\ DOMAIN opPc' = Callers /\ DOMAIN call' = Callers
      /\ DOMAIN seen' = Callers /\ DOMAIN forced' = Callers
      /\ opPc'[p] = "off" /\ call'[p] \in {"none", "deploying"}
      /\ call'[p] = "deploying" => /\ call[p] = "deploy" /\ (seen[p] # "Undeployed" \/ forced[p])
                                   /\ forced'[p] = forced[p]
      /\ \A q \in Callers : q # p => /\ opPc'[q] = opPc[q] /\ call'[q] = call[q]
                                     /\ seen'[q] = seen[q] /\ forced'[q] = forced[q]
  BY <1>1, <1>2 DEF OperatorInv
<1> QED
  BY <1>1, <1>2, <1>3 DEF OperatorInv, Late

LEMMA OChartApplied ==
    ASSUME OperatorInv, NEW p \in Callers, O!ChartApplied(p)
    PROVE  OperatorInv'
<1>1. /\ call[p] \in {"deploying", "undeploying", "other"}
      /\ UNCHANGED <<deployment, opPc, answer, seen>>
      /\ call' = [call EXCEPT ![p] = "none"]
      /\ forced' = [forced EXCEPT ![p] = FALSE]
      /\ \/ call[p] = "undeploying" /\ stale' = {q \in Callers \ {p} : call[q] # "none"}
         \/ stale' = stale /\ status' \in {status, "Deployed"}
  BY DEF O!ChartApplied, O!Done
<1>2. opPc[p] = "off"
  BY <1>1 DEF OperatorInv
<1>3. /\ DOMAIN call' = Callers /\ call'[p] = "none" /\ DOMAIN forced' = Callers
      /\ \A q \in Callers : q # p => call'[q] = call[q] /\ forced'[q] = forced[q]
  BY <1>1 DEF OperatorInv
<1>4. \A q \in Callers : Late(q)' => q # p /\ Late(q) /\ call[q] # "none"
  BY <1>1, <1>2, <1>3 DEF OperatorInv, Late
<1>5. status' = "Undeployed" => \A q \in Callers : Late(q)' => q \in stale' \/ forced'[q]
  BY <1>1, <1>3, <1>4 DEF OperatorInv
<1> QED
  BY <1>1, <1>2, <1>3, <1>5 DEF OperatorInv

LEMMA OReconcile ==
    ASSUME OperatorInv, O!Reconcile
    PROVE  OperatorInv'
BY DEF OperatorInv, O!Reconcile, Late

LEMMA OUnchanged ==
    ASSUME OperatorInv, UNCHANGED O!operatorVars
    PROVE  OperatorInv'
BY DEF OperatorInv, O!operatorVars, Late

LEMMA OperatorStepInv ==
    ASSUME OperatorInv, O!Next \/ UNCHANGED operator
    PROVE  OperatorInv'
<1>1. ASSUME NEW p \in Callers
      PROVE  /\ O!GetStatus(p) => OperatorInv'
             /\ O!Undeploy(p) => OperatorInv'
             /\ \A force \in BOOLEAN : O!Deploy(p, force) => OperatorInv'
             /\ \A c \in Others : O!ApplyOther(p, c) => OperatorInv'
  BY OBegin DEF O!GetStatus, O!Undeploy, O!Deploy, O!ApplyOther
<1>2. ASSUME NEW p \in Callers
      PROVE  O!HelmStep(p) /\ UNCHANGED O!operatorVars => OperatorInv'
  BY OUnchanged
<1>3. CASE UNCHANGED operator
  BY <1>3, OUnchanged DEF operator, O!operatorVars
<1>4. CASE O!Next
  BY <1>1, <1>2, <1>4, OQuery, OSetStatus, OReread, OStatusReturned, OChartApplied, OReconcile DEF O!Next
<1> QED
  BY <1>3, <1>4

LEMMA OperatorInit ==
    ASSUME LibraryInit
    PROVE  OperatorInv
BY DEF LibraryInit, O!Init, OperatorInv, Late

(***************************************************************************)
(* StaysUndeployed, for any callers and any other charts: a poll or a      *)
(* Deploy brings the operator back only when it is forced or was under way *)
(* when the Undeploy ended.                                                *)
(***************************************************************************)
THEOREM NoComeback == LibrarySpec => StaysUndeployed
<1>1. LibraryInit => OperatorInv
  BY OperatorInit
<1>2. OperatorInv /\ [LibraryNext]_libraryVars => OperatorInv'
  BY OperatorStep, OperatorStepInv
<1>3. OperatorInv => [status = "Undeployed" /\ status' # "Undeployed" =>
                        \A p \in Callers : O!SetStatus(p) \/ O!ChartApplied(p) =>
                          p \in stale \/ forced[p]]_(O!vars)
  BY DEF OperatorInv, Late, O!SetStatus, O!ChartApplied
<1> QED
  BY <1>1, <1>2, <1>3, PTL DEF LibrarySpec, StaysUndeployed, O!StaysUndeployed

-----------------------------------------------------------------------------
(***************************************************************************)
(* Conversions leave nothing behind.  Undisturbed, at most one of them is  *)
(* under way: the shared files and the logger's exit function are then as  *)
(* that one has left them so far, and otherwise as they were.              *)
(***************************************************************************)
Busy(p) == taking[p] \in {"write", "check", "kompose", "read", "clean", "restore"}
Clear == tempData = <<>> /\ resultYaml = <<>> /\ ~env

Progress(p) ==
    /\ exitFunc = "ignore" /\ saved[p] = "exit"
    /\ taking[p] = "write" => Clear
    /\ taking[p] \in {"check", "kompose"} => tempData = <<taken[p].name>> /\ resultYaml = <<>>
    /\ taking[p] = "read" => resultYaml \in {<<>>, <<taken[p].name>>}
    /\ taking[p] \in {"clean", "restore"} /\ ~failed[p] => parsed[p] = <<taken[p].name>>
    /\ taking[p] = "restore" => Clear

Undisturbed ==
    /\ ~exited
    /\ \A p \in Callers : identified[p] = "compose" => parsed[p] = <<taken[p].name>>
    /\ \A p, q \in Callers : Busy(p) /\ Busy(q) => p = q
    /\ \A p \in Callers : Busy(p) => Progress(p)
    /\ (\A p \in Callers : ~Busy(p)) => Clear /\ exitFunc = "exit"

IntakeTypes ==
    /\ DOMAIN taking = Callers /\ DOMAIN taken = Callers
    /\ DOMAIN identified = Callers
    /\ DOMAIN parsed = Callers /\ DOMAIN saved = Callers
    /\ DOMAIN failed = Callers

IntakeInv ==
    /\ IntakeTypes
    /\ \A p \in Callers : taking[p] # "idle" => identified[p] # "compose"
    /\ ~disturbed => Undisturbed

\* What a step of p leaves as it was.
OthersKept(p) ==
    \A q \in Callers : q # p => /\ taking'[q] = taking[q] /\ taken'[q] = taken[q]
                                /\ identified'[q] = identified[q] /\ parsed'[q] = parsed[q]

\* The steps of a call before it converts and after it did.
LEMMA IQuiet ==
    ASSUME IntakeInv, IntakeTypes', NEW p \in Callers, ~Busy(p), ~Busy(p)', OthersKept(p),
           identified'[p] # "compose", UNCHANGED I!convertVars, UNCHANGED disturbed
    PROVE  IntakeInv'
<1>1. \A q \in Callers : Busy(q)' <=> Busy(q) /\ q # p
  BY DEF Busy, OthersKept
<1>2. UNCHANGED <<tempData, resultYaml, env, exitFunc, saved, failed, exited>>
  BY DEF I!convertVars
<1>3. Undisturbed => Undisturbed'
  BY <1>1, <1>2 DEF Undisturbed, Progress, Clear, OthersKept
<1> QED
  BY <1>3 DEF IntakeInv, OthersKept

LEMMA ISanitize ==
    ASSUME IntakeInv, NEW p \in Callers, NEW f, I!SanitizeFile(p, f)
    PROVE  IntakeInv'
<1>1. /\ ~Busy(p) /\ taken' = [taken EXCEPT ![p] = f]
      /\ parsed' = [parsed EXCEPT ![p] = <<>>]
      /\ UNCHANGED I!convertVars /\ UNCHANGED disturbed
  BY DEF I!SanitizeFile, Busy
<1>2. \/ /\ taking' = [taking EXCEPT ![p] = "identify"]
         /\ identified' = [identified EXCEPT ![p] = "none"]
      \/ /\ taking' = [taking EXCEPT ![p] = "idle"]
         /\ identified' = [identified EXCEPT ![p] = "error"]
  BY DEF I!SanitizeFile, I!Goto, I!Identified
<1>3. UNCHANGED saved /\ UNCHANGED failed
  BY <1>1 DEF I!convertVars
<1>4. /\ IntakeTypes' /\ OthersKept(p)
      /\ taking'[p] \in {"identify", "idle"} /\ identified'[p] \in {"none", "error"}
  BY <1>1, <1>2, <1>3 DEF IntakeInv, IntakeTypes, OthersKept
<1>5. ~Busy(p)'
  BY <1>4 DEF Busy
<1> QED
  BY <1>1, <1>4, <1>5, IQuiet

LEMMA IIdentify ==
    ASSUME IntakeInv, NEW p \in Callers, I!IdentifyFile(p) \/ I!ParseKustomization(p)
    PROVE  IntakeInv'
<1>1. /\ ~Busy(p) /\ taking[p] # "idle"
      /\ UNCHANGED taken /\ UNCHANGED I!convertVars /\ UNCHANGED disturbed
  BY DEF I!IdentifyFile, I!ParseKustomization, Busy
<1>2. /\ \/ /\ taking' = [taking EXCEPT ![p] = "idle"]
            /\ \/ identified' = [identified EXCEPT ![p] = "design"]
               \/ identified' = [identified EXCEPT ![p] = "manifest"]
               \/ identified' = [identified EXCEPT ![p] = "chart"]
               \/ identified' = [identified EXCEPT ![p] = "kustomize"]
               \/ identified' = [identified EXCEPT ![p] = "error"]
         \/ taking' = [taking EXCEPT ![p] = "convert"] /\ identified' = identified
      /\ \/ parsed' = parsed
         \/ parsed' = [parsed EXCEPT ![p] = I!ManifestObjects(taken[p].docs)]
  BY DEF I!IdentifyFile, I!ParseKustomization, I!Goto, I!Identified
<1>3. UNCHANGED saved /\ UNCHANGED failed
  BY <1>1 DEF I!convertVars
<1>4. /\ IntakeTypes' /\ OthersKept(p)
      /\ taking'[p] \in {"idle", "convert"} /\ identified'[p] # "compose"
  BY <1>1, <1>2, <1>3 DEF IntakeInv, IntakeTypes, OthersKept
<1>5. ~Busy(p)'
  BY <1>4 DEF Busy
<1> QED
  BY <1>1, <1>4, <1>5, IQuiet

\* The steps of a conversion: with no other under way, it is enough to look at
\* this one.
LEMMA IConvert ==
    ASSUME IntakeInv, IntakeTypes', NEW p \in Callers, OthersKept(p),
           taking'[p] # "idle" => identified'[p] # "compose",
           ~disturbed' =>
             /\ ~disturbed /\ exited' = exited
             /\ \A q \in Callers : Busy(q) => q = p
             /\ identified'[p] = "compose" => parsed'[p] = <<taken'[p].name>>
             /\ IF Busy(p)' THEN Progress(p)' ELSE Clear' /\ exitFunc' = "exit"
    PROVE  IntakeInv'
<1>1. \A q \in Callers : taking'[q] # "idle" => identified'[q] # "compose"
  BY DEF IntakeInv, OthersKept
<1>2. ASSUME ~disturbed'
      PROVE  Undisturbed'
  <2>1. Undisturbed
    BY <1>2 DEF IntakeInv
  <2>2. \A q \in Callers : Busy(q)' => q = p
    BY <1>2 DEF Busy, OthersKept
  <2>3. /\ ~exited'
        /\ \A q \in Callers : identified'[q] = "compose" => parsed'[q] = <<taken'[q].name>>
    BY <1>2, <2>1 DEF Undisturbed, OthersKept
  <2> QED
    BY <1>2, <2>2, <2>3 DEF Undisturbed
<1> QED
  BY <1>1, <1>2 DEF IntakeInv

\* What a conversion under way knows, undisturbed.
LEMMA IUnderWay ==
    ASSUME IntakeInv, NEW p \in Callers, Busy(p)
    PROVE  /\ identified[p] # "compose"
           /\ ~disturbed => /\ Progress(p)
                            /\ \A q \in Callers : Busy(q) => q = p
BY DEF IntakeInv, Undisturbed, Busy

LEMMA IBeginConvert ==
    ASSUME IntakeInv, NEW p \in Callers, I!BeginConvert(p)
    PROVE  IntakeInv'
<1>1. /\ taking[p] = "convert" /\ taking' = [taking EXCEPT ![p] = "write"]
      /\ saved' = [saved EXCEPT ![p] = exitFunc] /\ failed' = [failed EXCEPT ![p] = FALSE]
      /\ exitFunc' = "ignore"
      /\ UNCHANGED <<taken, identified, parsed, tempData, resultYaml, env, exited>>
      /\ ~disturbed' => ~disturbed /\ I!Converting = {}
  BY DEF I!BeginConvert, I!Goto, I!Unconverted
<1>2. ~disturbed' => \A q \in Callers : ~Busy(q)
  BY <1>1 DEF I!Converting, Busy
<1>3. /\ IntakeTypes' /\ OthersKept(p) /\ identified'[p] # "compose"
      /\ taking'[p] = "write" /\ saved'[p] = exitFunc
  <2>1. IntakeTypes'
    <3>1. DOMAIN failed' = Callers
      BY <1>1, Zenon DEF IntakeInv, IntakeTypes
    <3>2. /\ DOMAIN taking' = Callers /\ DOMAIN saved' = Callers
      BY <1>1 DEF IntakeInv, IntakeTypes
    <3> QED
      BY <1>1, <3>1, <3>2 DEF IntakeInv, IntakeTypes
  <2>2. /\ OthersKept(p) /\ taking'[p] = "write" /\ saved'[p] = exitFunc
    BY <1>1 DEF IntakeInv, IntakeTypes, OthersKept
  <2> QED
    BY <1>1, <2>1, <2>2 DEF IntakeInv
<1>4. ~disturbed' => Progress(p)'
  BY <1>1, <1>2, <1>3 DEF IntakeInv, Undisturbed, Progress, Clear
<1>5. Busy(p)'
  BY <1>3 DEF Busy
<1> QED
  BY <1>1, <1>2, <1>3, <1>4, <1>5, IConvert

LEMMA IWriteInput ==
    ASSUME IntakeInv, NEW p \in Callers, I!WriteInput(p)
    PROVE  IntakeInv'
<1>1. /\ taking[p] = "write"
      /\ UNCHANGED <<taken, identified, parsed, resultYaml, exitFunc, saved, exited>>
      /\ \/ /\ tempData' = Append(tempData, taken[p].name)
            /\ taking' = [taking EXCEPT ![p] = "check"]
            /\ UNCHANGED <<failed, disturbed>>
         \/ /\ failed' = [failed EXCEPT ![p] = TRUE]
            /\ taking' = [taking EXCEPT ![p] = "restore"]
            /\ ~disturbed' => ~disturbed /\ ~env' /\ tempData' = tempData
  BY Zenon DEF I!WriteInput, I!Goto, I!Unconverted
<1>2. Busy(p)
  BY <1>1 DEF Busy
<1>3. ~disturbed' => ~disturbed /\ Progress(p) /\ Clear
  BY <1>1, <1>2, IUnderWay DEF Progress
<1>4. CASE taking' = [taking EXCEPT ![p] = "check"] /\ UNCHANGED failed
           /\ tempData' = Append(tempData, taken[p].name)
  <2>1. ~disturbed' => tempData' = <<taken[p].name>>
    BY <1>3, <1>4 DEF Clear
  <2>2. taking'[p] = "check" /\ IntakeTypes' /\ OthersKept(p) /\ Busy(p)'
    BY <1>1, <1>4 DEF IntakeInv, IntakeTypes, OthersKept, Busy
  <2>3. ~disturbed' => Progress(p)'
    BY <1>1, <1>3, <2>1, <2>2 DEF Progress, Clear
  <2> QED
    BY <1>1, <1>2, <1>3, <1>4, <2>2, <2>3, IUnderWay, IConvert
<1>5. CASE taking' = [taking EXCEPT ![p] = "restore"] /\ failed' = [failed EXCEPT ![p] = TRUE]
           /\ (~disturbed' => ~env' /\ tempData' = tempData)
  <2>1. /\ taking'[p] = "restore" /\ failed'[p] = TRUE
        /\ IntakeTypes' /\ OthersKept(p) /\ Busy(p)'
    <3>1. UNCHANGED <<taken, identified, parsed, saved>>
      BY <1>1
    <3>2. failed'[p] = TRUE /\ DOMAIN failed' = Callers
      BY <1>5, Zenon DEF IntakeInv, IntakeTypes
    <3>3. IntakeTypes' /\ taking'[p] = "restore"
      BY <1>5, <3>1, <3>2 DEF IntakeInv, IntakeTypes
    <3>4. OthersKept(p)
      BY <1>5, <3>1 DEF IntakeInv, IntakeTypes, OthersKept
    <3> QED
      BY <3>2, <3>3, <3>4 DEF Busy
  <2>2. ~disturbed' => Progress(p)'
    BY <1>1, <1>3, <1>5, <2>1 DEF Progress, Clear
  <2> QED
    BY <1>1, <1>2, <1>3, <1>5, <2>1, <2>2, IUnderWay, IConvert
<1> QED
  BY <1>1, <1>4, <1>5

LEMMA IVersionCheck ==
    ASSUME IntakeInv, NEW p \in Callers, I!VersionCheck(p)
    PROVE  IntakeInv'
<1> DEFINE bad == taken[p].compose = "version"
<1>1. /\ taking[p] = "check"
      /\ taking' = [taking EXCEPT ![p] = IF bad THEN "clean" ELSE "kompose"]
      /\ failed' = [failed EXCEPT ![p] = bad]
      /\ UNCHANGED <<taken, identified, parsed, tempData, resultYaml, env, exitFunc, saved,
                     exited, disturbed>>
  BY DEF I!VersionCheck, I!Goto, I!Unconverted
<1> HIDE DEF bad
<1>2. Busy(p)
  BY <1>1 DEF Busy
<1>3. /\ taking'[p] = (IF bad THEN "clean" ELSE "kompose") /\ failed'[p] = bad
      /\ IntakeTypes' /\ OthersKept(p) /\ Busy(p)'
  BY <1>1 DEF IntakeInv, IntakeTypes, OthersKept, Busy
<1>4. ~disturbed' => Progress(p)'
  BY <1>1, <1>2, <1>3, IUnderWay DEF Progress
<1> QED
  BY <1>1, <1>2, <1>3, <1>4, IUnderWay, IConvert

LEMMA IKompose ==
    ASSUME IntakeInv, NEW p \in Callers, I!Kompose(p)
    PROVE  IntakeInv'
<1>1. /\ taking[p] = "kompose"
      /\ \/ /\ resultYaml' = tempData /\ failed' = failed
            /\ taking' = [taking EXCEPT ![p] = "read"]
         \/ /\ resultYaml' = resultYaml /\ failed' = [failed EXCEPT ![p] = TRUE]
            /\ taking' = [taking EXCEPT ![p] = "clean"]
         \/ /\ resultYaml' = resultYaml /\ failed' = failed
            /\ taking' = [taking EXCEPT ![p] = "read"]
      /\ UNCHANGED <<taken, identified, parsed, tempData, env, exitFunc, saved, exited,
                     disturbed>>
  BY DEF I!Kompose, I!Goto, I!Unconverted
<1>2. Busy(p)
  BY <1>1 DEF Busy
<1>3. ~disturbed => /\ Progress(p) /\ tempData = <<taken[p].name>> /\ resultYaml = <<>>
  BY <1>1, <1>2, IUnderWay DEF Progress
<1>4. CASE /\ resultYaml' \in {tempData, resultYaml} /\ failed' = failed
           /\ taking' = [taking EXCEPT ![p] = "read"]
  <2>1. taking'[p] = "read" /\ IntakeTypes' /\ OthersKept(p) /\ Busy(p)'
    BY <1>1, <1>4 DEF IntakeInv, IntakeTypes, OthersKept, Busy
  <2>2. ~disturbed' => Progress(p)'
    BY <1>1, <1>3, <1>4, <2>1 DEF Progress
  <2> QED
    BY <1>1, <1>2, <1>4, <2>1, <2>2, IUnderWay, IConvert
<1>5. CASE /\ resultYaml' = resultYaml /\ failed' = [failed EXCEPT ![p] = TRUE]
           /\ taking' = [taking EXCEPT ![p] = "clean"]
  <2>1. /\ taking'[p] = "clean" /\ failed'[p] = TRUE
        /\ IntakeTypes' /\ OthersKept(p) /\ Busy(p)'
    <3>1. UNCHANGED <<taken, identified, parsed, saved>>
      BY <1>1
    <3>2. failed'[p] = TRUE /\ DOMAIN failed' = Callers
      BY <1>5, Zenon DEF IntakeInv, IntakeTypes
    <3>3. IntakeTypes' /\ taking'[p] = "clean"
      BY <1>5, <3>1, <3>2 DEF IntakeInv, IntakeTypes
    <3>4. OthersKept(p)
      BY <1>5, <3>1 DEF IntakeInv, IntakeTypes, OthersKept
    <3> QED
      BY <3>2, <3>3, <3>4 DEF Busy
  <2>2. ~disturbed' => Progress(p)'
    BY <1>1, <1>3, <1>5, <2>1 DEF Progress
  <2> QED
    BY <1>1, <1>2, <1>5, <2>1, <2>2, IUnderWay, IConvert
<1> QED
  BY <1>1, <1>4, <1>5

LEMMA IReadResult ==
    ASSUME IntakeInv, NEW p \in Callers, I!ReadResult(p)
    PROVE  IntakeInv'
<1>1. /\ taking[p] = "read" /\ taking' = [taking EXCEPT ![p] = "clean"]
      /\ parsed' = [parsed EXCEPT ![p] = resultYaml]
      /\ failed' = [failed EXCEPT ![p] = (resultYaml = <<>>)]
      /\ UNCHANGED <<taken, identified, tempData, resultYaml, env, exitFunc, saved, exited,
                     disturbed>>
  BY DEF I!ReadResult, I!Goto, I!Unconverted
<1>2. Busy(p)
  BY <1>1 DEF Busy
<1>3. /\ taking'[p] = "clean" /\ parsed'[p] = resultYaml /\ failed'[p] = (resultYaml = <<>>)
      /\ IntakeTypes' /\ OthersKept(p) /\ Busy(p)'
  BY <1>1 DEF IntakeInv, IntakeTypes, OthersKept, Busy
<1>4. ~disturbed' => Progress(p)'
  BY <1>1, <1>2, <1>3, IUnderWay DEF Progress
<1> QED
  BY <1>1, <1>2, <1>3, <1>4, IUnderWay, IConvert

LEMMA IRemoveFiles ==
    ASSUME IntakeInv, NEW p \in Callers, I!RemoveFiles(p)
    PROVE  IntakeInv'
<1>1. /\ taking[p] = "clean" /\ taking' = [taking EXCEPT ![p] = "restore"] /\ Clear'
      /\ UNCHANGED <<taken, identified, parsed, exitFunc, saved, failed, exited, disturbed>>
  BY DEF I!RemoveFiles, I!Goto, I!Unconverted, Clear
<1>2. Busy(p)
  BY <1>1 DEF Busy
<1>3. taking'[p] = "restore" /\ IntakeTypes' /\ OthersKept(p) /\ Busy(p)'
  BY <1>1 DEF IntakeInv, IntakeTypes, OthersKept, Busy
<1>4. ~disturbed' => Progress(p)'
  BY <1>1, <1>2, <1>3, IUnderWay DEF Progress
<1> QED
  BY <1>1, <1>2, <1>3, <1>4, IUnderWay, IConvert

LEMMA IRestoreExit ==
    ASSUME IntakeInv, NEW p \in Callers, I!RestoreExit(p)
    PROVE  IntakeInv'
<1>1. /\ taking[p] = "restore" /\ exitFunc' = saved[p]
      /\ \/ /\ taking' = [taking EXCEPT ![p] = "kustomize"] /\ identified' = identified
         \/ /\ ~failed[p] /\ taking' = [taking EXCEPT ![p] = "idle"]
            /\ identified' = [identified EXCEPT ![p] = "compose"]
      /\ UNCHANGED <<taken, parsed, tempData, resultYaml, env, saved, failed, exited, disturbed>>
  BY DEF I!RestoreExit, I!Goto, I!Identified, I!Unconverted
<1>2. Busy(p)
  BY <1>1 DEF Busy
<1>3. ~disturbed' => /\ Clear' /\ exitFunc' = "exit"
                     /\ ~failed[p] => parsed[p] = <<taken[p].name>>
  BY <1>1, <1>2, IUnderWay DEF Progress, Clear
<1>4. /\ IntakeTypes' /\ OthersKept(p) /\ ~Busy(p)'
      /\ \/ identified'[p] = identified[p]
         \/ ~failed[p] /\ taking'[p] = "idle"
  BY <1>1 DEF IntakeInv, IntakeTypes, OthersKept, Busy
<1> QED
  BY <1>1, <1>2, <1>3, <1>4, IUnderWay, IConvert

\* The next process finds the home as it is; the caller says why exited is.
LEMMA IRestart ==
    ASSUME IntakeInv, I!Restart, ~disturbed' => exited' = exited
    PROVE  IntakeInv'
<1>1. /\ taking' = [p \in Callers |-> "idle"] /\ identified' = [p \in Callers |-> "none"]
      /\ parsed' = [p \in Callers |-> <<>>] /\ taken' = [p \in Callers |-> I!NoFile]
      /\ saved' = [p \in Callers |-> "exit"] /\ failed' = [p \in Callers |-> FALSE]
      /\ exitFunc' = "exit" /\ UNCHANGED <<tempData, resultYaml, env>>
      /\ ~disturbed' => ~disturbed /\ I!Converting = {}
  BY DEF I!Restart
<1>2. ~disturbed' => \A q \in Callers : ~Busy(q)
  BY <1>1 DEF I!Converting, Busy
<1>3. \A q \in Callers : taking'[q] = "idle" /\ identified'[q] = "none"
  BY <1>1
<1>4. IntakeTypes'
  BY <1>1 DEF IntakeTypes
<1>5. ~disturbed' => Undisturbed'
  BY <1>1, <1>2, <1>3 DEF IntakeInv, Undisturbed, Busy, Clear
<1> QED
  BY <1>3, <1>4, <1>5 DEF IntakeInv

LEMMA IUnchanged ==
    ASSUME IntakeInv, UNCHANGED fileIntake
    PROVE  IntakeInv'
<1>1. UNCHANGED <<taking, taken, identified, parsed, tempData, resultYaml, env, exitFunc,
                  saved, failed, exited, disturbed>>
  BY DEF fileIntake
<1>2. Undisturbed => Undisturbed'
  BY <1>1 DEF Undisturbed, Busy, Progress, Clear
<1> QED
  BY <1>1, <1>2 DEF IntakeInv, IntakeTypes

LEMMA IntakeStep ==
    ASSUME [LibraryNext]_libraryVars
    PROVE  I!IntakeNext \/ UNCHANGED fileIntake
BY DEF LibraryNext, libraryVars, RestA, RestB, RestC

LEMMA IntakeStepInv ==
    ASSUME IntakeInv, I!IntakeNext \/ UNCHANGED fileIntake
    PROVE  IntakeInv'
<1>1. ASSUME NEW p \in Callers, I!KomposeExits(p)
      PROVE  IntakeInv'
  <2>1. taking[p] = "kompose" /\ I!Restart
    BY <1>1 DEF I!KomposeExits
  <2>2. p \in I!Converting
    BY <2>1 DEF I!Converting
  <2>3. disturbed'
    BY <2>1, <2>2 DEF I!Restart
  <2> QED
    BY <2>1, <2>3, IRestart
<1>2. I!Kill => IntakeInv'
  BY IRestart DEF I!Kill
<1>3. ASSUME NEW p \in Callers
      PROVE  I!Convert(p) => IntakeInv'
  BY IBeginConvert, IWriteInput, IVersionCheck, IKompose, IReadResult, IRemoveFiles,
     IRestoreExit DEF I!Convert
<1> QED
  BY <1>1, <1>2, <1>3, ISanitize, IIdentify, IUnchanged DEF I!IntakeNext

LEMMA IntakeInitInv ==
    ASSUME LibraryInit
    PROVE  IntakeInv
<1>1. I!IntakeInit
  BY DEF LibraryInit
<1>2. \A p \in Callers : ~Busy(p) /\ identified[p] = "none"
  BY <1>1 DEF I!IntakeInit, Busy
<1>3. Undisturbed
  BY <1>1, <1>2 DEF I!IntakeInit, Undisturbed, Clear
<1> QED
  BY <1>1, <1>2, <1>3 DEF I!IntakeInit, IntakeInv, IntakeTypes

(***************************************************************************)
(* CleanConversions, for any files and any number of callers and kills.    *)
(***************************************************************************)
THEOREM ConversionsClean == LibrarySpec => []CleanConversions
<1>1. LibraryInit => IntakeInv
  BY IntakeInitInv
<1>2. IntakeInv /\ [LibraryNext]_libraryVars => IntakeInv'
  BY IntakeStep, IntakeStepInv
<1>3. IntakeInv => CleanConversions
  <2>1. I!Converting = {} => \A p \in Callers : ~Busy(p)
    BY DEF I!Converting, Busy
  <2> QED
    BY <2>1 DEF IntakeInv, Undisturbed, Clear, CleanConversions, I!CleanConversions
<1> QED
  BY <1>1, <1>2, <1>3, PTL DEF LibrarySpec

-----------------------------------------------------------------------------
(***************************************************************************)
(* Manifests.  Besides what is settled, the namespace of the document at   *)
(* hand counts: it is the one of the call, if that has one, and exists     *)
(* before the object is touched.                                           *)
(***************************************************************************)
ManifestInv ==
    request # <<>> =>
        /\ \A o \in settled :
             /\ o \in objects <=> ~request[1].delete
             /\ o[1] \in spaces \cup {M!Unset}
             /\ request[1].ns # M!Unset => o[1] = request[1].ns
        /\ docStep \in {"namespace", "object"} /\ request[1].ns # M!Unset => space = request[1].ns
        /\ docStep = "object" => space \in spaces \cup {M!Unset}

LEMMA MBegin ==
    ASSUME ManifestInv, NEW r, M!Begin(r)
    PROVE  ManifestInv'
<1>1. settled' = {} /\ docStep' \in {"return", "decode"}
  BY DEF M!Begin
<1> QED
  BY <1>1 DEF ManifestInv

LEMMA MDecode ==
    ASSUME ManifestInv, M!Decode
    PROVE  ManifestInv'
<1>1. /\ docStep' # "object" /\ UNCHANGED <<request, objects, spaces, settled>>
      /\ request[1].ns # M!Unset => space' = request[1].ns
  BY DEF M!Decode, M!Advance, M!Fail
<1> QED
  BY <1>1 DEF ManifestInv

LEMMA MCreateNamespace ==
    ASSUME ManifestInv, M!CreateNamespaceIfNotExist
    PROVE  ManifestInv'
<1>1. /\ docStep = "namespace" /\ UNCHANGED <<request, space, objects, settled>>
      /\ \/ spaces' = (IF space = M!Unset THEN spaces ELSE spaces \cup {space})
         \/ spaces' = spaces /\ docStep' \in {"decode", "return"}
  BY DEF M!CreateNamespaceIfNotExist, M!Fail, M!Advance
<1>2. space \in spaces' \cup {M!Unset} \/ docStep' \in {"decode", "return"}
  BY <1>1
<1>3. spaces \subseteq spaces'
  BY <1>1
<1> QED
  BY <1>1, <1>2, <1>3 DEF ManifestInv

LEMMA MObject ==
    ASSUME ManifestInv, M!DeleteObject \/ M!CreateObject
    PROVE  ManifestInv'
<1> DEFINE o == M!Target
<1>1. /\ docStep = "object" /\ docStep' \in {"decode", "return"}
      /\ UNCHANGED <<request, space, spaces>>
      /\ \/ UNCHANGED <<objects, settled>>
         \/ /\ settled' = settled \cup {o}
            /\ \/ request[1].delete /\ objects' = objects \ {o}
               \/ ~request[1].delete /\ objects' = objects \cup {o}
  BY DEF M!DeleteObject, M!CreateObject, M!Fail, M!Advance
<1>2. o[1] = space
  BY DEF M!Target
<1> HIDE DEF o
<1> QED
  BY <1>1, <1>2 DEF ManifestInv

LEMMA MRest ==
    ASSUME ManifestInv,
           M!Return \/ (\E o \in objects : M!DeleteByOther(o)) \/ UNCHANGED manifest
    PROVE  ManifestInv'
<1>1. CASE M!Return
  BY <1>1 DEF M!Return, ManifestInv
<1>2. ASSUME NEW o \in objects, M!DeleteByOther(o)
      PROVE  ManifestInv'
  BY <1>2 DEF M!DeleteByOther, ManifestInv
<1>3. CASE UNCHANGED manifest
  BY <1>3 DEF manifest, ManifestInv
<1> QED
  BY <1>1, <1>2, <1>3

LEMMA ManifestStep ==
    ASSUME [LibraryNext]_libraryVars
    PROVE  M!ManifestNext \/ UNCHANGED manifest
BY DEF LibraryNext, libraryVars, RestA, RestB, RestC

LEMMA ManifestStepInv ==
    ASSUME ManifestInv, M!ManifestNext \/ UNCHANGED manifest
    PROVE  ManifestInv'
BY MBegin, MDecode, MCreateNamespace, MObject, MRest DEF M!ManifestNext

LEMMA ManifestInit ==
    ASSUME LibraryInit
    PROVE  ManifestInv
BY DEF LibraryInit, M!ManifestInit, ManifestInv

-----------------------------------------------------------------------------
(***************************************************************************)
(* Exposed services.  The configuration the calls of the callback share    *)
(* has its namespace from the first object on, and every service created   *)
(* has that namespace and the one name: the second meets the first.        *)
(***************************************************************************)
ExposeInv ==
    /\ removed \in Nat
    /\ exposing # <<>> => {"name", "ns"} \subseteq DOMAIN config
    /\ found # <<>> => exposing # <<>> /\ config.ns # X!Unset
    /\ \E T : created \in Seq(T)
    /\ \A i \in DOMAIN created :
         created[i].ns = config.ns /\ created[i].name = config.name /\ config.ns # X!Unset
    /\ Len(created) # 0 => config.ns # X!Unset
    /\ IsFiniteSet(X!ToSet(created)) /\ Cardinality(X!ToSet(created) \ services) <= removed
    /\ removed = 0 => Len(created) <= 1

LEMMA SameCardinality == \A T : X!Cardinality(T) = Cardinality(T)
BY DEF X!Cardinality, Cardinality

LEMMA XVisit ==
    ASSUME ExposeInv, X!Visit
    PROVE  ExposeInv'
<1> DEFINE r == Head(left)
           there == {o \in Objects : o.type = r.type /\ o.ns = r.ns /\ o.name = r.name}
           o == CHOOSE x \in there : TRUE
           c == [config EXCEPT !.ns = IF config.ns = X!Unset THEN o.ns ELSE config.ns]
<1>1. /\ exposing # <<>> /\ UNCHANGED <<exposing, services, created, removed>>
      /\ found = <<>>
      /\ \/ config' = config /\ found' = found
         \/ there # {} /\ config' = c
  BY DEF X!Visit
<1>2. there # {} => o \in Objects
  OBVIOUS
<1> HIDE DEF there, o
<1>3. /\ {"name", "ns"} \subseteq DOMAIN config'
      /\ config'.name = config.name
      /\ config.ns # X!Unset => config'.ns = config.ns
      /\ found' # <<>> => config'.ns # X!Unset
  BY <1>1, <1>2, LibraryAssumption DEF ExposeInv
<1>4. \A i \in DOMAIN created : created[i].ns = config'.ns /\ created[i].name = config'.name
                               /\ config'.ns # X!Unset
  BY <1>3 DEF ExposeInv
<1> QED
  BY <1>1, <1>3, <1>4 DEF ExposeInv

LEMMA Appended ==
    ASSUME NEW T, NEW c \in Seq(T), NEW x
    PROVE  /\ Append(c, x) \in Seq(T \cup {x})
           /\ Len(Append(c, x)) = Len(c) + 1 /\ Len(c) \in Nat
           /\ \A i \in DOMAIN Append(c, x) : \/ i \in DOMAIN c /\ Append(c, x)[i] = c[i]
                                             \/ Append(c, x)[i] = x
           /\ X!ToSet(Append(c, x)) = X!ToSet(c) \cup {x}
<1>1. c \in Seq(T \cup {x})
  OBVIOUS
<1>2. /\ Append(c, x) \in Seq(T \cup {x})
      /\ Len(Append(c, x)) = Len(c) + 1 /\ Len(c) \in Nat
      /\ DOMAIN Append(c, x) = 1 .. Len(c) + 1 /\ DOMAIN c = 1 .. Len(c)
      /\ \A i \in 1 .. Len(c) : Append(c, x)[i] = c[i]
      /\ Append(c, x)[Len(c) + 1] = x
  BY <1>1
<1>3. \A i \in 1 .. Len(c) + 1 : i \in 1 .. Len(c) \/ i = Len(c) + 1
  BY <1>2
<1>4. X!ToSet(Append(c, x)) = X!ToSet(c) \cup {x}
  <2>1. x \in X!ToSet(Append(c, x)) /\ X!ToSet(c) \subseteq X!ToSet(Append(c, x))
    BY <1>2 DEF X!ToSet
  <2>2. X!ToSet(Append(c, x)) \subseteq X!ToSet(c) \cup {x}
    BY <1>2, <1>3 DEF X!ToSet
  <2> QED
    BY <2>1, <2>2
<1> QED
  BY <1>2, <1>3, <1>4

LEMMA XBegin ==
    ASSUME ExposeInv, NEW e \in Exposures, X!BeginExpose(e)
    PROVE  ExposeInv'
<1>1. /\ exposing' = <<e>> /\ config' = e.config /\ found' = <<>> /\ created' = <<>>
      /\ UNCHANGED <<services, removed>>
  BY DEF X!BeginExpose
<1>2. /\ Len(created') = 0 /\ created' \in Seq({}) /\ DOMAIN created' = {}
  BY <1>1
<1>3. X!ToSet(created') = {}
  BY <1>2 DEF X!ToSet
<1>4. IsFiniteSet(X!ToSet(created')) /\ Cardinality(X!ToSet(created') \ services') = 0
  BY <1>3, FS_EmptySet
<1>5. {"name", "ns"} \subseteq DOMAIN config'
  BY <1>1, LibraryAssumption
<1> QED
  BY <1>1, <1>2, <1>4, <1>5 DEF ExposeInv

LEMMA XCreate ==
    ASSUME ExposeInv, X!CreateService
    PROVE  ExposeInv'
<1> DEFINE s == X!Generated(found[1], config)
<1>1. /\ found # <<>> /\ found' = <<>> /\ UNCHANGED <<exposing, config, removed>>
      /\ \/ UNCHANGED <<services, created>>
         \/ /\ ~\E t \in services : t.ns = s.ns /\ t.name = s.name
            /\ services' = services \cup {s} /\ created' = Append(created, s)
  BY DEF X!CreateService
<1>2. s.ns = config.ns /\ s.name = config.name /\ config.ns # X!Unset
  BY <1>1 DEF ExposeInv, X!Generated
<1> HIDE DEF s
<1>3. CASE UNCHANGED <<services, created>>
  BY <1>1, <1>3 DEF ExposeInv
<1>4. CASE /\ ~\E t \in services : t.ns = s.ns /\ t.name = s.name
           /\ services' = services \cup {s} /\ created' = Append(created, s)
  <2>1. PICK T : created \in Seq(T)
    BY DEF ExposeInv
  <2>2. /\ created' \in Seq(T \cup {s}) /\ Len(created') = Len(created) + 1
        /\ Len(created) \in Nat
        /\ \A i \in DOMAIN created' : \/ i \in DOMAIN created /\ created'[i] = created[i]
                                      \/ created'[i] = s
        /\ X!ToSet(created') = X!ToSet(created) \cup {s}
    <3> DEFINE more == Append(created, s)
    <3>1. /\ more \in Seq(T \cup {s}) /\ Len(more) = Len(created) + 1 /\ Len(created) \in Nat
          /\ \A i \in DOMAIN more : (i \in DOMAIN created /\ more[i] = created[i]) \/ more[i] = s
          /\ X!ToSet(more) = X!ToSet(created) \cup {s}
      BY <2>1, Appended
    <3> HIDE DEF more
    <3>2. created' = more
      BY <1>4 DEF more
    <3>3. X!ToSet(created') = X!ToSet(more)
      BY <3>2 DEF X!ToSet
    <3> QED
      BY <3>1, <3>2, <3>3
  <2>3. /\ IsFiniteSet(X!ToSet(created'))
        /\ Cardinality(X!ToSet(created') \ services') <= removed
    <3>1. /\ IsFiniteSet(X!ToSet(created)) /\ removed \in Nat
          /\ Cardinality(X!ToSet(created) \ services) <= removed
      BY DEF ExposeInv
    <3>2. X!ToSet(created') \ services' \in SUBSET (X!ToSet(created) \ services)
      BY <1>4, <2>2
    <3>3. IsFiniteSet(X!ToSet(created) \ services)
      BY <3>1, FS_Subset
    <3>4. /\ IsFiniteSet(X!ToSet(created') \ services')
          /\ Cardinality(X!ToSet(created') \ services') <= Cardinality(X!ToSet(created) \ services)
      BY <3>2, <3>3, FS_Subset
    <3>5. /\ Cardinality(X!ToSet(created') \ services') \in Nat
          /\ Cardinality(X!ToSet(created) \ services) \in Nat
      BY <3>3, <3>4, FS_CardinalityType
    <3>6. IsFiniteSet(X!ToSet(created'))
      BY <2>2, <3>1, FS_AddElement
    <3> QED
      BY <3>1, <3>4, <3>5, <3>6
  <2>4. ASSUME removed = 0
        PROVE  Len(created) = 0
    <3>1. IsFiniteSet(X!ToSet(created) \ services)
      BY FS_Subset DEF ExposeInv
    <3>2. Cardinality(X!ToSet(created) \ services) = 0
      BY <2>4, <3>1, FS_CardinalityType DEF ExposeInv
    <3>3. X!ToSet(created) \subseteq services
      BY <3>1, <3>2, FS_EmptySet
    <3>4. ASSUME Len(created) # 0
          PROVE  FALSE
      <4>1. 1 \in DOMAIN created
        BY <2>1, <3>4
      <4>2. created[1] \in services
        BY <3>3, <4>1 DEF X!ToSet
      <4> QED
        BY <1>2, <1>4, <4>1, <4>2 DEF ExposeInv
    <3> QED
      BY <3>4
  <2>5. \A i \in DOMAIN created' :
          created'[i].ns = config'.ns /\ created'[i].name = config'.name /\ config'.ns # X!Unset
    BY <1>1, <1>2, <2>2 DEF ExposeInv
  <2>6. removed' = 0 => Len(created') <= 1
    BY <1>1, <2>2, <2>4
  <2> QED
    BY <1>1, <1>2, <2>2, <2>3, <2>5, <2>6 DEF ExposeInv
<1> QED
  BY <1>1, <1>3, <1>4

LEMMA XRemove ==
    ASSUME ExposeInv, NEW s \in services, X!RemoveService(s)
    PROVE  ExposeInv'
<1>1. /\ removed' = removed + 1 /\ services' = services \ {s}
      /\ UNCHANGED <<exposing, config, found, created>>
  BY DEF X!RemoveService
<1> DEFINE gone == X!ToSet(created) \ services
<1>2. /\ IsFiniteSet(gone) /\ Cardinality(gone) <= removed /\ removed \in Nat
  BY FS_Subset DEF ExposeInv
<1>3. X!ToSet(created') \ services' \in SUBSET (gone \cup {s})
  BY <1>1
<1> HIDE DEF gone
<1>4. /\ IsFiniteSet(gone \cup {s})
      /\ Cardinality(gone \cup {s}) <= Cardinality(gone) + 1 /\ Cardinality(gone) \in Nat
  <2>1. Cardinality(gone) \in Nat
    BY <1>2, FS_CardinalityType
  <2>2. /\ IsFiniteSet(gone \cup {s})
        /\ Cardinality(gone \cup {s}) = IF s \in gone THEN Cardinality(gone)
                                        ELSE Cardinality(gone) + 1
    BY <1>2, FS_AddElement
  <2> QED
    BY <2>1, <2>2
<1>5. /\ Cardinality(X!ToSet(created') \ services') <= Cardinality(gone \cup {s})
      /\ Cardinality(X!ToSet(created') \ services') \in Nat
      /\ Cardinality(gone \cup {s}) \in Nat
  BY <1>3, <1>4, FS_Subset, FS_CardinalityType
<1>6. Cardinality(X!ToSet(created') \ services') <= removed'
  BY <1>1, <1>2, <1>4, <1>5
<1>7. removed' \in Nat /\ removed' # 0
  BY <1>1, <1>2
<1> QED
  BY <1>1, <1>6, <1>7 DEF ExposeInv

LEMMA XRest ==
    ASSUME ExposeInv, X!ReturnExposed \/ UNCHANGED exposure
    PROVE  ExposeInv'
<1>1. /\ UNCHANGED <<config, found, services, created, removed>>
      /\ (exposing' = <<>> /\ found = <<>>) \/ exposing' = exposing
  BY DEF X!ReturnExposed, exposure
<1> QED
  BY <1>1 DEF ExposeInv

(***************************************************************************)
(* The resources of a call: those it has passed have a service or an       *)
(* error, the object being exposed is the one of the next, and a namespace *)
(* that was not configured is that of a resource already looked at.        *)
(***************************************************************************)
Listed == exposing[1].resources
Behind == Len(Listed) - Len(left)

Settles(r) ==
    r.type \notin X!Kinds \/ r \in failures \/ \E s \in X!ToSet(created) : X!Serves(s, r)

Near(ns, j) ==
    exposing[1].config.ns = X!Unset => \E i \in DOMAIN Listed : i <= j /\ ns = Listed[i].ns

Placed(s, j) == X!Serves(s, Listed[j]) /\ Near(s.ns, j)

AtHand ==
    /\ left # <<>>
    /\ found[1] \in Objects /\ found[1].type = Head(left).type
    /\ found[1].ns = Head(left).ns /\ found[1].name = Head(left).name

VisitInv ==
    exposing # <<>> =>
        /\ exposing[1] \in Exposures
        /\ \E T : left \in Seq(T) /\ Listed \in Seq(T)
        /\ EndOf(left, Listed)
        /\ found # <<>> => AtHand
        /\ exposing[1].config.ns # X!Unset => config.ns = exposing[1].config.ns
        /\ config.ns # X!Unset => Near(config.ns, IF found = <<>> THEN Behind ELSE Behind + 1)
        /\ \A i \in DOMAIN Listed : i <= Behind => Settles(Listed[i])
        /\ \A s \in X!ToSet(created) : \E j \in DOMAIN Listed : j <= Behind /\ Placed(s, j)

\* The next resource of a call.
LEMMA NextListed ==
    ASSUME VisitInv, exposing # <<>>, left # <<>>
    PROVE  /\ Behind \in Nat /\ Behind + 1 \in DOMAIN Listed /\ Listed[Behind + 1] = Head(left)
           /\ EndOf(Tail(left), Listed) /\ \E T : Tail(left) \in Seq(T) /\ Listed \in Seq(T)
           /\ Len(Listed) - Len(Tail(left)) = Behind + 1
<1>1. PICK T : left \in Seq(T) /\ Listed \in Seq(T)
  BY DEF VisitInv
<1>2. EndOf(left, Listed)
  BY DEF VisitInv
<1> DEFINE n == Len(Listed)
           m == Len(left)
<1>3. /\ n \in Nat /\ m \in Nat /\ m >= 1 /\ m <= n /\ DOMAIN Listed = 1 .. n
      /\ Head(left) = left[1] /\ Tail(left) \in Seq(T) /\ Len(Tail(left)) = m - 1
  BY <1>1, <1>2 DEF EndOf
<1>4. left[1] = Listed[n - m + 1]
  BY <1>2, <1>3 DEF EndOf
<1>5. EndOf(Tail(left), Listed)
  BY <1>1, <1>2, TailEnds
<1>6. Behind = n - m
  BY DEF Behind
<1> HIDE DEF n, m
<1>7. Behind \in Nat /\ Behind + 1 \in 1 .. n /\ n - (m - 1) = Behind + 1
  BY <1>3, <1>6
<1> QED
  BY <1>1, <1>3, <1>4, <1>5, <1>6, <1>7 DEF n, m

LEMMA VBeginExpose ==
    ASSUME NEW e \in Exposures, X!BeginExpose(e)
    PROVE  VisitInv'
<1>1. /\ exposing' = <<e>> /\ config' = e.config /\ left' = e.resources
      /\ found' = <<>> /\ created' = <<>>
  BY DEF X!BeginExpose
<1>2. exposing'[1] = e /\ X!ToSet(created') = {}
  BY <1>1 DEF X!ToSet
<1>3. PICK T : e.resources \in Seq(T)
  BY LibraryAssumption DEF IsSequence
<1>4. EndOf(left', e.resources)
  BY <1>1, <1>3 DEF EndOf
<1>5. Listed' = e.resources /\ Behind' = 0 /\ \A i \in DOMAIN Listed' : ~(i <= 0)
  <2>1. Listed' = e.resources
    BY <1>2 DEF Listed
  <2>2. Len(e.resources) - Len(e.resources) = 0 /\ \A i \in DOMAIN e.resources : ~(i <= 0)
    BY <1>3
  <2> QED
    BY <1>1, <2>1, <2>2 DEF Behind
<1>6. config'.ns # X!Unset => Near(config.ns, Behind)'
  BY <1>1, <1>2 DEF Near
<1> QED
  BY <1>1, <1>2, <1>3, <1>4, <1>5, <1>6 DEF VisitInv

LEMMA VVisit ==
    ASSUME ExposeInv, VisitInv, X!Visit
    PROVE  VisitInv'
<1>0. PICK r : r = Head(left)
  OBVIOUS
<1> DEFINE there == {o \in Objects : o.type = r.type /\ o.ns = r.ns /\ o.name = r.name}
           o == CHOOSE x \in there : TRUE
           c == [config EXCEPT !.ns = IF config.ns = X!Unset THEN o.ns ELSE config.ns]
<1>1. /\ exposing # <<>> /\ found = <<>> /\ left # <<>>
      /\ UNCHANGED <<exposing, services, created, removed>>
      /\ \/ /\ left' = Tail(left) /\ found' = found
            /\ config' = config \/ (there # {} /\ config' = c)
            /\ \/ r.type \notin X!Kinds /\ failures' = failures
               \/ failures' = failures \cup {r}
         \/ /\ left' = left /\ found' = <<o>> /\ there # {} /\ config' = c
            /\ failures' = failures
  BY <1>0 DEF X!Visit
<1>2. there # {} => /\ o \in Objects /\ o.type = r.type /\ o.ns = r.ns /\ o.name = r.name
                    /\ o.ns # X!Unset
  <2>1. there # {} => o \in there
    OBVIOUS
  <2> QED
    BY <2>1, LibraryAssumption
<1>3. /\ Behind \in Nat /\ Behind + 1 \in DOMAIN Listed /\ Listed[Behind + 1] = r
      /\ EndOf(Tail(left), Listed) /\ \E T : Tail(left) \in Seq(T) /\ Listed \in Seq(T)
      /\ Len(Listed) - Len(Tail(left)) = Behind + 1
  BY <1>0, <1>1, NextListed
<1> HIDE DEF there, o
<1>4. /\ exposing[1].config.ns # X!Unset => config.ns = exposing[1].config.ns
      /\ config.ns # X!Unset => Near(config.ns, Behind)
      /\ \A i \in DOMAIN Listed : i <= Behind => Settles(Listed[i])
      /\ \A s \in X!ToSet(created) : \E j \in DOMAIN Listed : j <= Behind /\ Placed(s, j)
      /\ exposing[1] \in Exposures /\ EndOf(left, Listed)
      /\ \E T : left \in Seq(T) /\ Listed \in Seq(T)
  BY <1>1 DEF VisitInv
<1>5. Listed' = Listed /\ exposing' = exposing /\ created' = created
  BY <1>1 DEF Listed
<1>6. DOMAIN Listed \subseteq Nat
  <2>1. PICK T : Listed \in Seq(T)
    BY <1>4
  <2> QED
    BY <2>1
<1>7. ASSUME config' = config \/ (there # {} /\ config' = c)
      PROVE  /\ exposing[1].config.ns # X!Unset => config'.ns = exposing[1].config.ns
             /\ config'.ns # X!Unset => Near(config'.ns, Behind + 1)
  <2>1. "ns" \in DOMAIN config
    BY <1>1 DEF ExposeInv
  <2>2. config'.ns = config.ns \/ (config.ns = X!Unset /\ there # {} /\ config'.ns = o.ns)
    BY <1>7, <2>1
  <2>3. config.ns # X!Unset => Near(config.ns, Behind + 1)
    BY <1>3, <1>4, <1>6 DEF Near
  <2>4. there # {} => Near(o.ns, Behind + 1)
    <3>1. there # {} => Behind + 1 \in DOMAIN Listed /\ o.ns = Listed[Behind + 1].ns
      BY <1>2, <1>3
    <3>2. Behind + 1 <= Behind + 1
      BY <1>3
    <3> QED
      BY <3>1, <3>2 DEF Near
  <2> QED
    BY <1>4, <2>2, <2>3, <2>4
<1>8. \A x : Settles(x) => Settles(x)'
  BY <1>1 DEF Settles
<1>9. \A s, j : Placed(s, j) => Placed(s, j)'
  BY <1>5 DEF Placed, Near
<1>10. \A ns, j : Near(ns, j) => Near(ns, j)'
  BY <1>5 DEF Near
<1>11. CASE /\ left' = Tail(left) /\ found' = found
            /\ config' = config \/ (there # {} /\ config' = c)
            /\ \/ r.type \notin X!Kinds /\ failures' = failures
               \/ failures' = failures \cup {r}
  <2>1. Behind' = Behind + 1
    BY <1>3, <1>5, <1>11 DEF Behind
  <2>2. Settles(r)'
    BY <1>11 DEF Settles
  <2>3. \A i \in DOMAIN Listed : i <= Behind + 1 => Settles(Listed[i])'
    BY <1>3, <1>4, <1>5, <1>6, <1>8, <2>2
  <2>4. \A s \in X!ToSet(created) : \E j \in DOMAIN Listed : j <= Behind + 1 /\ Placed(s, j)'
    BY <1>3, <1>4, <1>6, <1>9
  <2>5. config'.ns # X!Unset => Near(config.ns, Behind)'
    BY <1>7, <1>10, <1>11, <2>1
  <2>6. \A i \in DOMAIN Listed' : i <= Behind' => Settles(Listed[i])'
    BY <1>5, <2>1, <2>3
  <2>7. \A s \in X!ToSet(created)' : \E j \in DOMAIN Listed' : j <= Behind' /\ Placed(s, j)'
    BY <1>5, <2>1, <2>4
  <2> QED
    BY <1>1, <1>3, <1>4, <1>5, <1>7, <1>11, <2>5, <2>6, <2>7 DEF VisitInv
<1>12. CASE /\ left' = left /\ found' = <<o>> /\ there # {} /\ config' = c
            /\ failures' = failures
  <2>1. Behind' = Behind
    BY <1>5, <1>12 DEF Behind
  <2>2. AtHand'
    BY <1>0, <1>1, <1>2, <1>12 DEF AtHand
  <2>3. config'.ns # X!Unset => Near(config.ns, Behind + 1)'
    BY <1>7, <1>10, <1>12, <2>1
  <2>4. found' # <<>>
    BY <1>12
  <2>6. \A i \in DOMAIN Listed' : i <= Behind' => Settles(Listed[i])'
    BY <1>4, <1>5, <1>8, <2>1
  <2>7. \A s \in X!ToSet(created)' : \E j \in DOMAIN Listed' : j <= Behind' /\ Placed(s, j)'
    BY <1>4, <1>5, <1>9, <2>1
  <2> QED
    BY <1>4, <1>5, <1>7, <1>12, <2>2, <2>3, <2>4, <2>6, <2>7 DEF VisitInv
<1> QED
  BY <1>1, <1>11, <1>12

LEMMA VCreate ==
    ASSUME ExposeInv, VisitInv, X!CreateService
    PROVE  VisitInv'
<1>0. PICK r : r = Head(left)
  OBVIOUS
<1> DEFINE s == X!Generated(found[1], config)
<1>1. /\ found # <<>> /\ found' = <<>> /\ UNCHANGED <<exposing, config>>
      /\ left' = Tail(left)
      /\ \/ created' = Append(created, s) /\ failures' = failures
         \/ created' = created /\ failures' = failures \cup {r}
  BY <1>0 DEF X!CreateService
<1>2. exposing # <<>> /\ config.ns # X!Unset
  BY <1>1 DEF ExposeInv
<1>3. /\ left # <<>> /\ found[1] \in Objects /\ found[1].type = r.type
      /\ found[1].ns = r.ns /\ found[1].name = r.name
      /\ exposing[1].config.ns # X!Unset => config.ns = exposing[1].config.ns
      /\ Near(config.ns, Behind + 1)
      /\ \A i \in DOMAIN Listed : i <= Behind => Settles(Listed[i])
      /\ \A t \in X!ToSet(created) : \E j \in DOMAIN Listed : j <= Behind /\ Placed(t, j)
      /\ exposing[1] \in Exposures
  BY <1>0, <1>1, <1>2 DEF VisitInv, AtHand
<1>4. /\ Behind \in Nat /\ Behind + 1 \in DOMAIN Listed /\ Listed[Behind + 1] = r
      /\ EndOf(Tail(left), Listed) /\ \E T : Tail(left) \in Seq(T) /\ Listed \in Seq(T)
      /\ Len(Listed) - Len(Tail(left)) = Behind + 1
  BY <1>0, <1>2, <1>3, NextListed
<1>5. /\ s.ns = config.ns /\ s.selector = X!Selector(found[1])
      /\ s.ports = X!ServicePorts(found[1].ports)
  BY DEF X!Generated
<1> HIDE DEF s
<1>6. X!Serves(s, r)
  BY <1>3, <1>5 DEF X!Serves
<1>7. /\ Listed' = Listed /\ exposing' = exposing /\ Behind' = Behind + 1
  BY <1>1, <1>4 DEF Listed, Behind
<1>8. DOMAIN Listed \subseteq Nat
  <2>1. PICK T : Listed \in Seq(T)
    BY <1>4
  <2> QED
    BY <2>1
<1>9. \/ X!ToSet(created') = X!ToSet(created) \cup {s} /\ failures' = failures
      \/ X!ToSet(created') = X!ToSet(created) /\ failures' = failures \cup {r}
  <2>1. PICK T : created \in Seq(T)
    BY DEF ExposeInv
  <2>2. X!ToSet(Append(created, s)) = X!ToSet(created) \cup {s}
    BY <2>1, Appended
  <2> QED
    BY <1>1, <2>2
<1>10. \A x : Settles(x) => Settles(x)'
  BY <1>9 DEF Settles
<1>11. Settles(r)'
  BY <1>6, <1>9 DEF Settles
<1>12. \A t, j : Placed(t, j) => Placed(t, j)'
  BY <1>7 DEF Placed, Near
<1>13. Placed(s, Behind + 1)
  BY <1>3, <1>4, <1>5, <1>6 DEF Placed
<1>14. Near(config.ns, Behind)'
  BY <1>1, <1>3, <1>7 DEF Near
<1>15. \A i \in DOMAIN Listed' : i <= Behind' => Settles(Listed[i])'
  <2>1. \A i \in DOMAIN Listed : i <= Behind + 1 => Settles(Listed[i])'
    BY <1>3, <1>4, <1>7, <1>8, <1>10, <1>11
  <2> QED
    BY <1>7, <2>1
<1>16. \A t \in X!ToSet(created') : \E j \in DOMAIN Listed' : j <= Behind' /\ Placed(t, j)'
  <2>1. ASSUME NEW t \in X!ToSet(created')
        PROVE  \E j \in DOMAIN Listed : j <= Behind + 1 /\ Placed(t, j)
    BY <1>3, <1>4, <1>8, <1>9, <1>13
  <2> QED
    BY <1>7, <1>12, <2>1
<1> QED
  BY <1>1, <1>3, <1>4, <1>7, <1>14, <1>15, <1>16 DEF VisitInv

LEMMA VOthers ==
    ASSUME VisitInv,
           X!ReturnExposed \/ (\E s \in services : X!RemoveService(s)) \/ UNCHANGED exposure
    PROVE  VisitInv'
<1>1. \/ exposing' = <<>>
      \/ UNCHANGED <<exposing, config, left, found, created, failures>>
  BY DEF X!ReturnExposed, X!RemoveService, exposure
<1>2. CASE exposing' = <<>>
  BY <1>2 DEF VisitInv
<1>3. CASE UNCHANGED <<exposing, config, left, found, created, failures>>
  BY <1>3, Zenon DEF VisitInv, Listed, Behind, Settles, Placed, Near, AtHand
<1> QED
  BY <1>1, <1>2, <1>3

LEMMA ExposeStep ==
    ASSUME [LibraryNext]_libraryVars
    PROVE  X!ExposeNext \/ UNCHANGED exposure
BY DEF LibraryNext, libraryVars, RestA, RestB, RestC

LEMMA ExposeStepInv ==
    ASSUME ExposeInv, VisitInv, X!ExposeNext \/ UNCHANGED exposure
    PROVE  ExposeInv' /\ VisitInv'
<1>1. ExposeInv'
  BY XBegin, XVisit, XCreate, XRemove, XRest DEF X!ExposeNext
<1>2. VisitInv'
  BY VBeginExpose, VVisit, VCreate, VOthers DEF X!ExposeNext
<1> QED
  BY <1>1, <1>2

LEMMA ExposeInit ==
    ASSUME LibraryInit
    PROVE  ExposeInv /\ VisitInv
<1>1. exposing = <<>> /\ found = <<>> /\ created = <<>> /\ removed = 0
  BY DEF LibraryInit, X!ExposeInit
<1>2. Len(created) = 0 /\ created \in Seq({}) /\ DOMAIN created = {}
  BY <1>1
<1>3. X!ToSet(created) = {}
  BY <1>2 DEF X!ToSet
<1>4. IsFiniteSet(X!ToSet(created)) /\ Cardinality(X!ToSet(created) \ services) = 0
  BY <1>3, FS_EmptySet
<1> QED
  BY <1>1, <1>2, <1>4 DEF ExposeInv, VisitInv

LEMMA ExposedExist ==
    ASSUME ExposeInv, VisitInv
    PROVE  X!ReturnedExist
<1>1. /\ X!Cardinality(X!ToSet(created) \ services) <= removed
      /\ removed = 0 =>
           \A i, j \in DOMAIN created :
              created[i].ns = created[j].ns /\ created[i].name = created[j].name => i = j
  <2>1. PICK T : created \in Seq(T)
    BY DEF ExposeInv
  <2>2. removed = 0 => \A i, j \in DOMAIN created : i = j
    BY <2>1 DEF ExposeInv
  <2> QED
    BY <2>2, SameCardinality DEF ExposeInv
<1>2. ASSUME exposing # <<>>, NEW i \in X!Visited
      PROVE  \/ Listed[i].type \notin X!Kinds \/ Listed[i] \in failures
             \/ \E s \in X!ToSet(created) : X!Serves(s, Listed[i])
  BY <1>2 DEF VisitInv, X!Visited, Listed, Behind, Settles
<1>3. ASSUME exposing # <<>>, NEW s \in X!ToSet(created)
      PROVE  IF exposing[1].config.ns # X!Unset THEN s.ns = exposing[1].config.ns
             ELSE \E i, j \in X!Visited :
                     i <= j /\ s.ns = Listed[i].ns /\ X!Serves(s, Listed[j])
  <2>1. CASE exposing[1].config.ns # X!Unset
    <3>1. config.ns = exposing[1].config.ns
      BY <1>3, <2>1 DEF VisitInv
    <3>2. s.ns = config.ns
      BY DEF ExposeInv, X!ToSet
    <3> QED
      BY <2>1, <3>1, <3>2
  <2>2. CASE exposing[1].config.ns = X!Unset
    <3>1. PICK j \in DOMAIN Listed : j <= Behind /\ Placed(s, j)
      BY <1>3 DEF VisitInv
    <3>2. PICK i \in DOMAIN Listed : i <= j /\ s.ns = Listed[i].ns
      BY <2>2, <3>1 DEF Placed, Near
    <3>3. PICK T : left \in Seq(T) /\ Listed \in Seq(T)
      BY <1>3 DEF VisitInv
    <3>4. i <= Behind
      <4>1. Len(left) \in Nat /\ Len(Listed) \in Nat /\ DOMAIN Listed = 1 .. Len(Listed)
        BY <3>3
      <4> QED
        BY <3>1, <3>2, <4>1 DEF Behind
    <3> QED
      BY <2>2, <3>1, <3>2, <3>4 DEF X!Visited, Listed, Behind, Placed
  <2> QED
    BY <2>1, <2>2
<1> QED
  BY <1>1, <1>2, <1>3, Zenon DEF X!ReturnedExist, Listed

(***************************************************************************)
(* KubernetesObjects, for any manifests, objects and services: what a      *)
(* manifest has dealt with is as asked; each resource passed has a service *)
(* of its own or an error; and the services that are returned exist,       *)
(* unless others remove them, in the namespace configured or in that of a  *)
(* resource looked at before.                                              *)
(***************************************************************************)
THEOREM ObjectsInCluster == LibrarySpec => []KubernetesObjects
<1>1. LibraryInit => ManifestInv /\ ExposeInv /\ VisitInv
  BY ManifestInit, ExposeInit
<1>2. /\ ManifestInv /\ ExposeInv /\ VisitInv /\ [LibraryNext]_libraryVars
      => (ManifestInv /\ ExposeInv /\ VisitInv)'
  BY ManifestStep, ManifestStepInv, ExposeStep, ExposeStepInv
<1>3. ManifestInv => M!SettledAsAsked
  BY DEF ManifestInv, M!SettledAsAsked
<1>4. ExposeInv /\ VisitInv => X!ReturnedExist
  BY ExposedExist
<1> QED
  BY <1>1, <1>2, <1>3, <1>4, PTL DEF LibrarySpec, KubernetesObjects

-----------------------------------------------------------------------------
LEMMA RegistryStep ==
    ASSUME [LibraryNext]_libraryVars
    PROVE  Next \/ UNCHANGED vars
BY DEF LibraryNext, libraryVars, RestA, RestB, RestC

(***************************************************************************)
(* NoOrphans, for any callers, directories and policies: however calls     *)
(* that register packages interleave and fail, and wherever the tables are *)
(* dropped under them or the process ends, the model of a component or     *)
(* relationship has its entry in the registry, unless a call that a        *)
(* Cleanup cut short went on to write it.                                  *)
(***************************************************************************)
THEOREM ModelsRegistered == LibrarySpec => []NoOrphans
<1>1. LibraryInit => RegistryInv
  BY RegistryInitInv DEF LibraryInit
<1>2. RegistryInv /\ [LibraryNext]_libraryVars => RegistryInv'
  BY RegistryStep, RegistryStepInv
<1>3. RegistryInv => NoOrphans
  BY RegistryNoOrphans
<1> QED
  BY <1>1, <1>2, <1>3, PTL DEF LibrarySpec

(***************************************************************************)
(* RegistryConsistent, for any callers, directories and policies: a call   *)
(* that has returned told of every file of its directory that is not       *)
(* passed over, as registered or in an error; and of what it said was      *)
(* registered, the host is listed, the model has an entry and a            *)
(* registrant, and each definition has a row.                              *)
(***************************************************************************)
THEOREM CallsTellAll == LibrarySpec => []RegistryConsistent
<1>1. LibraryInit => CallsInv
  BY CallsInitInv DEF LibraryInit
<1>2. CallsInv /\ [LibraryNext]_libraryVars => CallsInv'
  BY RegistryStep, CallsStepInv
<1>3. CallsInv => RegistryConsistent
  BY CallsConsistent DEF RegistryConsistent
<1> QED
  BY <1>1, <1>2, <1>3, PTL DEF LibrarySpec

(***************************************************************************)
(* NeverHidden, for any filters: the memo answers only with what is not    *)
(* empty, so entities registered after a first, empty answer are found.    *)
(***************************************************************************)
THEOREM AnswersFresh == LibrarySpec => NeverHidden
<1> DEFINE Fresh == \A f \in Filters : GetEntitiesMemoized(f) =>
                      (memo'[f].entities = <<>> => Get(f).entities = <<>>)
<1>1. Fresh
  BY MemoAsked
<1>2. [LibraryNext]_libraryVars => [Fresh]_vars
  BY <1>1
<1> QED
  BY <1>2, PTL DEF LibrarySpec, NeverHidden

-----------------------------------------------------------------------------
(***************************************************************************)
(* Error codes.  What is unique are the codes in the files; they are below *)
(* the next code of the pass that gives them, or of the component.         *)
(***************************************************************************)
Bound == IF E!Updating THEN next ELSE counter

CodesInv ==
    /\ counter \in Nat /\ next \in Nat /\ file \in Nat \ {0}
    /\ E!Updating => counter <= next
    /\ DOMAIN values = DOMAIN GoFiles
    /\ \A i \in DOMAIN GoFiles :
         /\ DOMAIN values[i] = DOMAIN GoFiles[i].specs
         /\ \A j \in DOMAIN values[i] : values[i][j].code \in Nat
    /\ ~behind =>
         \A i, k \in DOMAIN GoFiles : E!Included(i) /\ E!Included(k) =>
           \A j \in DOMAIN values[i], l \in DOMAIN values[k] :
             values[i][j].kind = "int" /\ values[k][l].kind = "int" =>
               /\ values[i][j].code < Bound
               /\ values[i][j].code = values[k][l].code => i = k /\ j = l
    /\ \A e, f \in exported : e.code = f.code => e = f

\* The pairs of a set up to a number: fewer than up to a later one that has a pair.
UpTo(pairs, j) == {g \in pairs : g[1] <= j}

LEMMA Ranks ==
    ASSUME NEW pairs, IsFiniteSet(pairs), \A g \in pairs : g[1] \in Nat
    PROVE  /\ Cardinality(pairs) \in Nat
           /\ \A g \in pairs : /\ Cardinality(UpTo(pairs, g[1])) \in Nat \ {0}
                              /\ Cardinality(UpTo(pairs, g[1])) <= Cardinality(pairs)
           /\ \A g, h \in pairs : g[1] < h[1] =>
                Cardinality(UpTo(pairs, g[1])) < Cardinality(UpTo(pairs, h[1]))
<1>1. \A g : UpTo(pairs, g[1]) \subseteq pairs
  BY DEF UpTo
<1>2. \A g : IsFiniteSet(UpTo(pairs, g[1])) /\ Cardinality(UpTo(pairs, g[1])) <= Cardinality(pairs)
  BY <1>1, FS_Subset
<1>3. \A g : Cardinality(UpTo(pairs, g[1])) \in Nat
  BY <1>2, FS_CardinalityType
<1>4. \A g \in pairs : g \in UpTo(pairs, g[1])
  BY DEF UpTo
<1>5. \A g \in pairs : Cardinality(UpTo(pairs, g[1])) # 0
  <2>1. ASSUME NEW g \in pairs
        PROVE  UpTo(pairs, g[1]) # {}
    BY <1>4
  <2> QED
    BY <1>2, <2>1, FS_EmptySet
<1>6. ASSUME NEW g \in pairs, NEW h \in pairs, g[1] < h[1]
      PROVE  Cardinality(UpTo(pairs, g[1])) < Cardinality(UpTo(pairs, h[1]))
  <2> DEFINE A == UpTo(pairs, g[1])
             B == UpTo(pairs, h[1])
  <2>1. A \subseteq B \ {h} /\ h \in B
    <3>1. \A k \in pairs : k[1] <= g[1] => k[1] <= h[1] /\ k[1] # h[1]
      BY <1>6
    <3> QED
      BY <3>1, <1>4 DEF UpTo
  <2>2. IsFiniteSet(A) /\ IsFiniteSet(B) /\ Cardinality(A) \in Nat /\ Cardinality(B) \in Nat
    BY <1>2, <1>3
  <2> HIDE DEF A, B
  <2>3. IsFiniteSet(B \ {h}) /\ Cardinality(B \ {h}) = Cardinality(B) - 1
    BY <2>1, <2>2, FS_RemoveElement
  <2>4. Cardinality(A) <= Cardinality(B \ {h})
    BY <2>1, <2>3, FS_Subset
  <2>5. Cardinality(A) < Cardinality(B)
    BY <2>2, <2>3, <2>4
  <2> QED
    BY <2>5 DEF A, B
<1>7. Cardinality(pairs) \in Nat
  BY FS_CardinalityType
<1> QED
  BY <1>2, <1>3, <1>5, <1>6, <1>7

LEMMA CodesCardinality == \A set : E!Cardinality(set) = Cardinality(set)
BY DEF E!Cardinality, Cardinality

\* A specification in which some name gets a code.
Touched(i, j) == \E g \in E!Gets(i) : g[1] = j

LEMMA Intervals == \A n \in Nat : IsFiniteSet(1 .. n)
BY FS_Interval

LEMMA GetsFinite ==
    ASSUME NEW i \in DOMAIN GoFiles, DOMAIN values[i] = DOMAIN GoFiles[i].specs
    PROVE  IsFiniteSet(E!Gets(i)) /\ \A g \in E!Gets(i) : g[1] \in DOMAIN values[i]
<1> DEFINE Names_(j) == {j} \X DOMAIN GoFiles[i].specs[j].names
           m == Len(GoFiles[i].specs)
           all == {Names_(j) : j \in 1 .. m}
<1>1. DOMAIN values[i] = 1 .. m /\ m \in Nat
  BY LibraryAssumption
<1>2. ASSUME NEW j \in 1 .. m
      PROVE  IsFiniteSet(Names_(j))
  <2>1. IsSequence(GoFiles[i].specs[j].names)
    BY <1>1, LibraryAssumption
  <2>2. PICK T : GoFiles[i].specs[j].names \in Seq(T)
    BY <2>1 DEF IsSequence
  <2>3. /\ DOMAIN GoFiles[i].specs[j].names = 1 .. Len(GoFiles[i].specs[j].names)
        /\ Len(GoFiles[i].specs[j].names) \in Nat
    BY <2>2
  <2>4. IsFiniteSet(DOMAIN GoFiles[i].specs[j].names)
    BY <2>3, Intervals
  <2> QED
    BY <2>4, FS_Singleton, FS_Product
<1>3. IsFiniteSet(all)
  <2> DEFINE f == [j \in 1 .. m |-> Names_(j)]
  <2>1. f \in Surjection(1 .. m, all)
    BY DEF Surjection
  <2>2. IsFiniteSet(1 .. m)
    BY <1>1, Intervals
  <2> QED
    BY <2>1, <2>2, FS_Surjection
<1>4. IsFiniteSet(UNION all)
  BY <1>2, <1>3, FS_UNION
<1>5. E!Gets(i) \subseteq UNION all
  BY <1>1 DEF E!Gets, E!NamesOf
<1>6. \A g \in UNION all : g[1] \in 1 .. m
  OBVIOUS
<1> QED
  BY <1>1, <1>4, <1>5, <1>6, FS_Subset

\* A file whose variables are given codes from n on.
LEMMA GivenCodes ==
    ASSUME NEW i \in DOMAIN GoFiles, DOMAIN values[i] = DOMAIN GoFiles[i].specs, NEW n \in Nat
    PROVE  LET c == E!Coded(i, n)
           IN  /\ DOMAIN c.values = DOMAIN values[i]
               /\ c.next \in Nat /\ n <= c.next
               /\ \A j \in DOMAIN values[i] : ~Touched(i, j) => c.values[j] = values[i][j]
               /\ \A j \in DOMAIN values[i] : Touched(i, j) =>
                    c.values[j].code \in Nat /\ n <= c.values[j].code /\ c.values[j].code < c.next
               /\ \A j, l \in DOMAIN values[i] :
                    Touched(i, j) /\ Touched(i, l) /\ c.values[j].code = c.values[l].code => j = l
<1> DEFINE pairs == E!Gets(i)
           c == E!Coded(i, n)
           Rank(j) == Cardinality(UpTo(pairs, j))
<1>1. IsFiniteSet(pairs) /\ \A g \in pairs : g[1] \in Nat
  <2>1. DOMAIN values[i] \subseteq Nat
    BY LibraryAssumption
  <2> QED
    BY <2>1, GetsFinite
<1>2. /\ DOMAIN c.values = DOMAIN values[i]
      /\ c.next = n + Cardinality(pairs)
      /\ \A j \in DOMAIN values[i] : ~Touched(i, j) => c.values[j] = values[i][j]
      /\ \A j \in DOMAIN values[i] : Touched(i, j) => c.values[j].code = n + Rank(j) - 1
  BY CodesCardinality DEF E!Coded, Touched, UpTo
<1>3. \A j : Touched(i, j) => \E g \in pairs : g[1] = j
  BY DEF Touched
<1> HIDE DEF c, pairs
<1>4. /\ Cardinality(pairs) \in Nat
      /\ \A j : Touched(i, j) => /\ j \in Nat /\ Rank(j) \in Nat \ {0}
                                /\ Rank(j) <= Cardinality(pairs)
      /\ \A j, l : Touched(i, j) /\ Touched(i, l) /\ j < l => Rank(j) < Rank(l)
  <2>1. /\ Cardinality(pairs) \in Nat
        /\ \A g \in pairs : Rank(g[1]) \in Nat \ {0} /\ Rank(g[1]) <= Cardinality(pairs)
        /\ \A g, h \in pairs : g[1] < h[1] => Rank(g[1]) < Rank(h[1])
    BY <1>1, Ranks
  <2> HIDE DEF Rank
  <2> QED
    BY <1>1, <1>3, <2>1
<1> HIDE DEF Rank
<1>5. ASSUME NEW j \in DOMAIN values[i], NEW l \in DOMAIN values[i], Touched(i, j), Touched(i, l),
             c.values[j].code = c.values[l].code
      PROVE  j = l
  <2>1. /\ j \in Nat /\ l \in Nat /\ Rank(j) \in Nat /\ Rank(l) \in Nat
        /\ n + Rank(j) - 1 = n + Rank(l) - 1
    BY <1>2, <1>4, <1>5
  <2>2. ~(j < l) /\ ~(l < j)
    BY <1>4, <1>5, <2>1
  <2> QED
    BY <2>1, <2>2
<1>6. ASSUME NEW j \in DOMAIN values[i], Touched(i, j)
      PROVE  c.values[j].code \in Nat /\ n <= c.values[j].code /\ c.values[j].code < c.next
  <2>1. /\ Rank(j) \in Nat \ {0} /\ Rank(j) <= Cardinality(pairs) /\ Cardinality(pairs) \in Nat
        /\ c.values[j].code = n + Rank(j) - 1 /\ c.next = n + Cardinality(pairs)
    BY <1>2, <1>4, <1>6
  <2> QED
    BY <2>1
<1>7. c.next \in Nat /\ n <= c.next
  BY <1>2, <1>4
<1> QED
  BY <1>2, <1>5, <1>6, <1>7 DEF c

\* A pass that gives codes: the file, its codes, and the next one.
LEMMA CodesGiven ==
    ASSUME CodesInv, E!HandleFile
    PROVE  CodesInv'
<1>1. /\ UNCHANGED <<counter, exported, behind>> /\ job # <<>>
      /\ (E!Updating <=> E!Updating')
  BY DEF E!HandleFile, E!Updating, E!WalkError, E!EndJob
<1>2. file' \in Nat \ {0}
  <2>1. file' \in {file, file + 1, Len(GoFiles) + 1}
    BY DEF E!HandleFile, E!WalkError
  <2> QED
    BY <2>1, LibraryAssumption DEF CodesInv
<1> DEFINE c == E!Coded(file, next)
<1>3. CASE values' = values /\ next' = next
  BY <1>2, <1>1, <1>3 DEF CodesInv, Bound
<1>4. CASE /\ values' \in {values, [values EXCEPT ![file] = c.values]}
           /\ next' = c.next /\ E!Updating /\ E!Included(file) /\ file \in DOMAIN GoFiles
  <2>1. file \in DOMAIN GoFiles /\ DOMAIN values[file] = DOMAIN GoFiles[file].specs
    BY <1>4 DEF CodesInv
  <2>2. next \in Nat
    BY DEF CodesInv
  <2>3. /\ DOMAIN c.values = DOMAIN values[file]
        /\ c.next \in Nat /\ next <= c.next
        /\ \A j \in DOMAIN values[file] :
             ~Touched(file, j) => c.values[j] = values[file][j]
        /\ \A j \in DOMAIN values[file] : Touched(file, j) =>
             /\ c.values[j].code \in Nat
             /\ next <= c.values[j].code /\ c.values[j].code < c.next
        /\ \A j, l \in DOMAIN values[file] :
             /\ Touched(file, j) /\ Touched(file, l)
             /\ c.values[j].code = c.values[l].code
             => j = l
    BY <2>1, <2>2, GivenCodes
  <2> HIDE DEF c
  <2>4. CASE values' = values
    BY <1>2, <1>1, <1>4, <2>3, <2>4 DEF CodesInv, Bound
  <2>5. CASE values' = [values EXCEPT ![file] = c.values]
    <3>1. /\ DOMAIN values' = DOMAIN GoFiles
          /\ values'[file] = c.values
          /\ \A i \in DOMAIN GoFiles : i # file => values'[i] = values[i]
      BY <1>4, <2>5 DEF CodesInv
    <3>2. \A i \in DOMAIN GoFiles :
            /\ DOMAIN values'[i] = DOMAIN GoFiles[i].specs
            /\ \A j \in DOMAIN values'[i] : values'[i][j].code \in Nat
      BY <2>3, <3>1 DEF CodesInv
    <3>3. Bound = next /\ Bound' = c.next /\ counter <= next
      BY <1>1, <1>4 DEF Bound, CodesInv
    <3>4. \A i \in DOMAIN GoFiles : \A j \in DOMAIN values'[i] :
            \/ values'[i][j] = values[i][j] /\ j \in DOMAIN values[i]
            \/ /\ i = file /\ j \in DOMAIN values[file] /\ Touched(file, j)
               /\ values'[i][j] = c.values[j]
               /\ next <= values'[i][j].code /\ values'[i][j].code < c.next
      BY <2>3, <3>1
    <3>5. ASSUME ~behind', NEW i \in DOMAIN GoFiles, NEW k \in DOMAIN GoFiles,
                 E!Included(i), E!Included(k),
                 NEW j \in DOMAIN values'[i], NEW l \in DOMAIN values'[k],
                 values'[i][j].kind = "int", values'[k][l].kind = "int"
          PROVE  /\ values'[i][j].code < Bound'
                 /\ values'[i][j].code = values'[k][l].code => i = k /\ j = l
      <4>1. /\ values'[i][j] = values[i][j] /\ j \in DOMAIN values[i] => values[i][j].code < next
            /\ values'[k][l] = values[k][l] /\ l \in DOMAIN values[k] => values[k][l].code < next
        BY <1>1, <3>3, <3>5 DEF CodesInv
      <4>2. values'[i][j].code \in Nat /\ values'[k][l].code \in Nat /\ next \in Nat /\ c.next \in Nat
        BY <2>3, <3>2, <3>5 DEF CodesInv
      <4>3. values'[i][j].code < Bound'
        BY <2>3, <3>3, <3>4, <3>5, <4>1, <4>2
      <4>4. ASSUME values'[i][j].code = values'[k][l].code
            PROVE  i = k /\ j = l
        <5>1. CASE /\ values'[i][j] = values[i][j] /\ j \in DOMAIN values[i]
                   /\ values'[k][l] = values[k][l] /\ l \in DOMAIN values[k]
          BY <1>1, <3>5, <4>4, <5>1 DEF CodesInv
        <5>2. CASE /\ i = file /\ j \in DOMAIN values[file] /\ Touched(file, j)
                   /\ k = file /\ l \in DOMAIN values[file] /\ Touched(file, l)
                   /\ values'[i][j] = c.values[j] /\ values'[k][l] = c.values[l]
          BY <2>3, <4>4, <5>2
        <5> QED
          BY <3>4, <3>5, <4>1, <4>2, <4>4, <5>1, <5>2
      <4> QED
        BY <4>3, <4>4
    <3> QED
      BY <1>2, <1>1, <1>4, <2>3, <3>1, <3>2, <3>3, <3>5 DEF CodesInv
  <2> QED
    BY <1>4, <2>4, <2>5
<1>5. \/ values' = values /\ next' = next
      \/ /\ values' \in {values, [values EXCEPT ![file] = c.values]}
         /\ next' = c.next /\ E!Updating /\ E!Included(file)
  BY DEF E!HandleFile
<1>6. file \in DOMAIN GoFiles
  BY LibraryAssumption DEF E!HandleFile, CodesInv
<1> QED
  BY <1>3, <1>4, <1>5, <1>6

\* The counter takes over what the pass has given, or the files are ahead.
LEMMA CodesWritten ==
    ASSUME CodesInv, E!WriteComponent
    PROVE  CodesInv'
<1>1. UNCHANGED <<values, next, exported>> /\ file' \in {1, file}
  BY DEF E!WriteComponent
<1>2. ~E!Updating' /\ Bound = next /\ Bound' = counter'
  BY DEF E!WriteComponent, E!Updating, E!EndJob, Bound
<1>3. \/ counter' = next /\ behind' = behind
      \/ counter' = counter /\ behind' = (behind \/ next > counter)
  BY Zenon DEF E!WriteComponent
<1>4. counter \in Nat /\ next \in Nat /\ counter <= next
  BY DEF E!WriteComponent, CodesInv
<1>5. ~behind' => /\ ~behind
                  /\ counter' = next \/ (counter' = counter /\ ~(next > counter))
  BY <1>3, Zenon
<1>6. counter' \in Nat /\ (~behind' => ~behind /\ counter' = next)
  BY <1>3, <1>4, <1>5
<1> QED
  BY <1>1, <1>2, <1>4, <1>6 DEF CodesInv

LEMMA CodesKilled ==
    ASSUME CodesInv, E!Kill
    PROVE  CodesInv'
<1>1. UNCHANGED <<values, counter, next, exported, file>>
  BY DEF E!Kill
<1>2. ~E!Updating' /\ Bound' = counter
  BY <1>1 DEF E!Kill, E!Updating, E!EndJob, Bound
<1>3. ~behind' => ~behind /\ ~(E!Updating /\ next > counter)
  BY DEF E!Kill
<1>4. counter \in Nat /\ next \in Nat /\ (E!Updating => counter <= next)
  BY DEF CodesInv
<1>5. ~behind' => ~behind /\ counter = Bound
  BY <1>3, <1>4 DEF Bound
<1> QED
  BY <1>1, <1>2, <1>5 DEF CodesInv

LEMMA CodesExported ==
    ASSUME CodesInv, E!Export
    PROVE  CodesInv'
<1>1. UNCHANGED <<values, counter, next, file, behind>>
  BY DEF E!Export
<1>2. ~E!Updating /\ ~E!Updating' /\ Bound' = Bound
  BY <1>1 DEF E!Export, E!Updating, E!EndJob, Bound
<1>3. ASSUME NEW e \in exported', NEW f \in exported', e.code = f.code
      PROVE  e = f
  <2>1. exported' = E!Exported(infos, details)
    BY DEF E!Export
  <2>2. PICK i \in E!Numbered(infos) \ E!Duplicated(infos) :
           e = [name |-> infos[i].name, code |-> infos[i].code,
                described |-> E!Cardinality({k \in DOMAIN details : details[k] = infos[i].name}) = 1]
    BY <2>1 DEF E!Exported
  <2>3. PICK j \in E!Numbered(infos) \ E!Duplicated(infos) :
           f = [name |-> infos[j].name, code |-> infos[j].code,
                described |-> E!Cardinality({k \in DOMAIN details : details[k] = infos[j].name}) = 1]
    BY <2>1 DEF E!Exported
  <2>4. infos[i].code = infos[j].code
    BY <1>3, <2>2, <2>3
  <2>5. i = j
    BY <2>4 DEF E!Duplicated
  <2> QED
    BY <2>2, <2>3, <2>5
<1> QED
  BY <1>1, <1>2, <1>3 DEF CodesInv

LEMMA CodesRest ==
    ASSUME CodesInv,
           \/ \E u, f \in BOOLEAN : E!BeginJob(u, f)
           \/ \E i \in DOMAIN values : \E j \in DOMAIN values[i] : E!Edit(i, j)
           \/ UNCHANGED errorCodes
    PROVE  CodesInv'
<1>1. ASSUME NEW u \in BOOLEAN, NEW f \in BOOLEAN, E!BeginJob(u, f)
      PROVE  CodesInv'
  <2>1. UNCHANGED <<values, counter, exported, behind>> /\ next' = counter /\ file' = 1
    BY <1>1 DEF E!BeginJob
  <2>2. Bound = counter /\ Bound' = counter
    BY <1>1, <2>1 DEF E!BeginJob, E!Updating, Bound
  <2> QED
    BY <2>1, <2>2 DEF CodesInv
<1>2. ASSUME NEW i \in DOMAIN values, NEW j \in DOMAIN values[i], E!Edit(i, j)
      PROVE  CodesInv'
  <2>1. /\ UNCHANGED <<counter, next, file, exported, behind>>
        /\ ~E!Updating /\ ~E!Updating' /\ Bound' = Bound
    BY <1>2 DEF E!Edit, E!Updating, Bound
  <2>2. PICK v \in {E!Placeholder, E!NoValue} : values' = [values EXCEPT ![i][j] = v]
    BY <1>2 DEF E!Edit
  <2>3. v.code = 0 /\ v.kind # "int"
    BY DEF E!Placeholder, E!NoValue
  <2>4. \A k \in DOMAIN values : \A l \in DOMAIN values[k] :
          /\ DOMAIN values' = DOMAIN values /\ DOMAIN values'[k] = DOMAIN values[k]
          /\ values'[k][l] = IF k = i /\ l = j THEN v ELSE values[k][l]
    BY <2>2
  <2>5. DOMAIN values' = DOMAIN values /\ \A k \in DOMAIN values : DOMAIN values'[k] = DOMAIN values[k]
    BY <2>2
  <2> QED
    BY <2>1, <2>3, <2>4, <2>5 DEF CodesInv
<1>3. CASE UNCHANGED errorCodes
  <2>1. /\ UNCHANGED <<values, counter, next, file, exported, behind>>
        /\ Bound' = Bound /\ (E!Updating' <=> E!Updating)
    BY <1>3 DEF errorCodes, Bound, E!Updating
  <2> QED
    BY <2>1 DEF CodesInv
<1> QED
  BY <1>1, <1>2, <1>3

LEMMA CodesStep ==
    ASSUME [LibraryNext]_libraryVars
    PROVE  E!ErrorCodesNext \/ UNCHANGED errorCodes
BY DEF LibraryNext, libraryVars, RestA, RestB, RestC

LEMMA CodesStepInv ==
    ASSUME CodesInv, E!ErrorCodesNext \/ UNCHANGED errorCodes
    PROVE  CodesInv'
BY CodesGiven, CodesWritten, CodesExported, CodesKilled, CodesRest DEF E!ErrorCodesNext

LEMMA CodesInit ==
    ASSUME LibraryInit
    PROVE  CodesInv
<1>1. /\ values = [i \in DOMAIN GoFiles |-> [j \in DOMAIN GoFiles[i].specs |->
                                             GoFiles[i].specs[j].value]]
      /\ counter = FirstCode /\ next = FirstCode /\ job = <<>> /\ file = 1 /\ exported = {}
  BY DEF LibraryInit, E!ErrorCodesInit
<1>2. Bound = FirstCode /\ ~E!Updating
  BY <1>1 DEF Bound, E!Updating
<1>3. ASSUME NEW i \in DOMAIN GoFiles, NEW k \in DOMAIN GoFiles, E!Included(i), E!Included(k),
             NEW j \in DOMAIN values[i], NEW l \in DOMAIN values[k],
             values[i][j].kind = "int", values[k][l].kind = "int"
      PROVE  /\ values[i][j].code < FirstCode
             /\ values[i][j].code = values[k][l].code => i = k /\ j = l
  <2>1. <<i, j>> \in Given /\ <<k, l>> \in Given
    BY <1>1, <1>3 DEF Given, InitialValue
  <2>2. InitialValue(<<i, j>>) = values[i][j] /\ InitialValue(<<k, l>>) = values[k][l]
    BY <1>1, <1>3 DEF InitialValue
  <2> QED
    BY <2>1, <2>2, LibraryAssumption
<1>4. \A i \in DOMAIN GoFiles :
         /\ DOMAIN values[i] = DOMAIN GoFiles[i].specs
         /\ \A j \in DOMAIN values[i] : values[i][j].code \in Nat
  BY <1>1, LibraryAssumption
<1>5. counter \in Nat /\ next \in Nat /\ file \in Nat \ {0} /\ DOMAIN values = DOMAIN GoFiles
  BY <1>1, LibraryAssumption
<1>6. exported = {}
  BY <1>1
<1> QED
  BY <1>2, <1>3, <1>4, <1>5, <1>6 DEF CodesInv

LEMMA CodesInvUnique == CodesInv => CodesUnique
<1> SUFFICES ASSUME CodesInv
             PROVE  CodesUnique
  OBVIOUS
<1>1. ASSUME ~behind, NEW c \in E!Codes, NEW d \in E!Codes
      PROVE  /\ values[c[1]][c[2]].code = values[d[1]][d[2]].code => c = d
             /\ values[c[1]][c[2]].code < Bound
  <2>1. ASSUME NEW x \in E!Codes
        PROVE  \E i \in DOMAIN GoFiles : \E j \in DOMAIN values[i] :
                 x = <<i, j>> /\ E!Included(i) /\ values[i][j].kind = "int"
    BY DEF E!Codes
  <2>2. PICK i \in DOMAIN GoFiles : \E j \in DOMAIN values[i] :
           c = <<i, j>> /\ E!Included(i) /\ values[i][j].kind = "int"
    BY <2>1
  <2>3. PICK j \in DOMAIN values[i] :
           c = <<i, j>> /\ E!Included(i) /\ values[i][j].kind = "int"
    BY <2>2
  <2>4. PICK k \in DOMAIN GoFiles : \E l \in DOMAIN values[k] :
           d = <<k, l>> /\ E!Included(k) /\ values[k][l].kind = "int"
    BY <2>1
  <2>5. PICK l \in DOMAIN values[k] :
           d = <<k, l>> /\ E!Included(k) /\ values[k][l].kind = "int"
    BY <2>4
  <2> QED
    BY <1>1, <2>3, <2>5 DEF CodesInv
<1> QED
  BY <1>1 DEF CodesUnique, E!CodesUnique, CodesInv, Bound

(***************************************************************************)
(* CodesUnique, for any files, edits, passes and kills: two errors of the  *)
(* component have the same code only if the files are ahead of the next    *)
(* code that the component's file keeps.                                   *)
(***************************************************************************)
THEOREM UniqueCodes == LibrarySpec => []CodesUnique
<1>1. LibraryInit => CodesInv
  BY CodesInit
<1>2. CodesInv /\ [LibraryNext]_libraryVars => CodesInv'
  BY CodesStep, CodesStepInv
<1>3. CodesInv => CodesUnique
  BY CodesInvUnique
<1> QED
  BY <1>1, <1>2, <1>3, PTL DEF LibrarySpec

-----------------------------------------------------------------------------
(***************************************************************************)
(* The broker.  The search for the port of a service and the data          *)
(* connection try the same places, but for the port of the fallbacks and   *)
(* the service, which the search leaves when what it shows outside is dead.*)
(***************************************************************************)
ProbesInv ==
    cluster.broker = "present" => \A e \in cluster.reach : e[1] # C!Unset

LEMMA ProbesStep ==
    ASSUME ProbesInv, [LibraryNext]_libraryVars
    PROVE  ProbesInv'
<1>1. C!ClusterNext \/ UNCHANGED probes
  BY DEF LibraryNext, libraryVars, RestA, RestB, RestC
<1>2. cluster' = cluster \/ cluster' \in Clusters
  BY <1>1 DEF C!ClusterNext, C!GetStatus, C!GetWorkload, C!FindEndpoint, C!Ping, C!ListPods,
              C!Change, probes
<1> QED
  BY <1>2, LibraryAssumption DEF ProbesInv

LEMMA ProbesInit ==
    ASSUME LibraryInit
    PROVE  ProbesInv
<1>1. cluster.broker = "error"
  BY DEF LibraryInit, C!ClusterInit
<1> QED
  BY <1>1 DEF ProbesInv

\* Of what is tried, something is found when one place answers.
LEMMA Reached ==
    ASSUME NEW c, NEW a, NEW b, NEW d, NEW k
    PROVE  /\ C!FirstReachable(c, <<a, b, d, k>>) # <<>> <=>
                \E e \in {a, b, d, k} : e # <<>> /\ e[1] # C!Unset /\ e \in c.reach
           /\ C!FirstReachable(c, <<a, b, d, k>>) \in {<<>>, a, b, d, k}
<1> DEFINE places == <<a, b, d, k>>
           up == {i \in DOMAIN places :
                    LET e == places[i] IN e # <<>> /\ e[1] # C!Unset /\ C!TcpCheck(c, e)}
<1>1. /\ DOMAIN places = 1 .. 4
      /\ places[1] = a /\ places[2] = b /\ places[3] = d /\ places[4] = k
  OBVIOUS
<1>2. C!FirstReachable(c, places) = IF up = {} THEN <<>> ELSE places[C!First(up)]
  BY DEF C!FirstReachable
<1> HIDE DEF places
<1>3. \A i : i \in up <=> /\ i \in {1, 2, 3, 4} /\ places[i] # <<>>
                          /\ places[i][1] # C!Unset /\ places[i] \in c.reach
  BY <1>1 DEF C!TcpCheck
<1> HIDE DEF up
<1>4. ASSUME up # {}
      PROVE  C!First(up) \in up
  <2>1. up \subseteq {1, 2, 3, 4}
    BY <1>3
  <2>2. \E i \in up : \A j \in up : i <= j
    <3>1. CASE 1 \in up
      BY <2>1, <3>1
    <3>2. CASE 1 \notin up /\ 2 \in up
      BY <2>1, <3>2
    <3>3. CASE 1 \notin up /\ 2 \notin up /\ 3 \in up
      BY <2>1, <3>3
    <3>4. CASE up = {4}
      BY <3>4
    <3> QED
      BY <1>4, <2>1, <3>1, <3>2, <3>3, <3>4
  <2> QED
    BY <2>2 DEF C!First
<1>5. up # {} <=> \E e \in {a, b, d, k} : e # <<>> /\ e[1] # C!Unset /\ e \in c.reach
  BY <1>1, <1>3
<1>6. C!FirstReachable(c, places) # <<>> <=> up # {}
  BY <1>2, <1>3, <1>4
<1>7. C!FirstReachable(c, places) \in {<<>>, a, b, d, k}
  BY <1>1, <1>2, <1>3, <1>4
<1> QED
  BY <1>5, <1>6, <1>7 DEF places

\* What a service shows outside has a host and a port.
LEMMA OutsidePair ==
    ASSUME NEW s, NEW p
    PROVE  LET e == C!Outside(s, p, "localhost", C!Unset)
           IN  /\ Len(e) = 2 /\ e # <<>>
               /\ s.ingress = <<>> => e[1] = "localhost"
BY DEF C!Outside

LEMMA Agree ==
    ASSUME ProbesInv
    PROVE  C!ProbesAgree
<1> DEFINE s == cluster.service[Names[1]]
           p == C!SelectedPort(s, "client")
           e == C!Outside(s, p, "localhost", C!Unset)
           out == IF e[2] = 0 THEN <<>> ELSE e
           in == <<s.ip, p.port>>
           port == IF out # <<>> THEN out[2] ELSE p.port
           dataPort == IF p.port # 0 THEN p.port ELSE IF out # <<>> THEN out[2] ELSE 0
           data == C!FirstReachable(cluster, <<in, out, C!DockerHost(dataPort), C!KubeHost(dataPort)>>)
           search == C!GetEndpointForPort(cluster, "client")
           dead == e[2] # 0 /\ e[1] # "localhost" /\ e \notin cluster.reach
<1> SUFFICES ASSUME C!Published(cluster, s), C!DataUp(cluster)
             PROVE  search = <<>> <=> C!SearchMisses(cluster, s)
  BY DEF C!ProbesAgree
<1>1. s # <<>> /\ cluster.internal = in /\ cluster.external = out
  BY DEF C!Published
<1>2. cluster.broker = "present" /\ C!GetPublicEndpoint(cluster) \in cluster.reach
  BY DEF C!DataUp, C!TcpCheck
<1>3. Len(e) = 2 /\ e # <<>>
  BY OutsidePair
<1>4. in # <<>> /\ Len(in) = 2 /\ in[1] = s.ip /\ in[2] = p.port /\ Len(<<>>) = 0
  OBVIOUS
<1>5. LET x == C!EndpointOf(cluster, 1, "client")
      IN  /\ dead => ~x.ok
          /\ ~dead => x.ok /\ x.internal = in /\ x.external = out
  <2>1. C!EndpointOf(cluster, 1, "client") =
          C!GetEndpoint(cluster, s, "client", "localhost", C!Unset)
    BY DEF C!EndpointOf
  <2>2. ~dead => C!GetEndpoint(cluster, s, "client", "localhost", C!Unset) =
                   [ok |-> TRUE, internal |-> in, external |-> out]
    BY DEF C!GetEndpoint, C!TcpCheck
  <2>3. dead => C!GetEndpoint(cluster, s, "client", "localhost", C!Unset) =
                  [ok |-> FALSE, internal |-> <<>>, external |-> <<>>]
    BY DEF C!GetEndpoint, C!TcpCheck
  <2> QED
    BY <2>1, <2>2, <2>3
<1>6. /\ dead => 1 \notin C!Found(cluster, "client")
      /\ ~dead => /\ 1 \in C!Found(cluster, "client")
                  /\ C!First(C!Found(cluster, "client")) = 1
  <2>1. 1 \in C!Found(cluster, "client") <=> C!EndpointOf(cluster, 1, "client").ok
    BY <1>1, LibraryAssumption DEF C!Found
  <2>2. \A i \in C!Found(cluster, "client") : i \in Nat /\ 1 <= i
    BY LibraryAssumption DEF C!Found
  <2> QED
    BY <1>5, <2>1, <2>2 DEF C!First
<1>7. C!SearchMisses(cluster, s) <=>
        IF dead
        THEN LET rest == C!Found(cluster, "client") \ {1}
             IN  rest = {} \/ C!Answering(cluster, C!First(rest), "client") = <<>>
        ELSE /\ e[2] \notin {0, p.port}
             /\ cluster.reach \cap {in, e, C!DockerHost(e[2]), C!KubeHost(e[2])} = {}
             /\ cluster.reach \cap {C!DockerHost(p.port), C!KubeHost(p.port)} # {}
  BY DEF C!SearchMisses, C!TcpCheck
<1>8. CASE dead
  <2>1. C!Found(cluster, "client") \ {1} = C!Found(cluster, "client")
    BY <1>6, <1>8
  <2> HIDE DEF dead
  <2> QED
    BY <1>7, <1>8, <2>1, Zenon DEF C!GetEndpointForPort
<1>9. CASE ~dead
  <2>1. search = C!FirstReachable(cluster, <<in, out, C!DockerHost(port), C!KubeHost(port)>>)
    <3>1. search = C!Answering(cluster, 1, "client")
      BY <1>6, <1>9 DEF C!GetEndpointForPort
    <3> QED
      BY <1>5, <1>9, <3>1 DEF C!Answering
  <2> HIDE DEF e, p, s, dead
  <2>2. out = <<>> \/ (Len(out) = 2 /\ out # <<>>)
    BY <1>3
  <2>3. C!GetBrokerEndpoint(cluster) = IF data # <<>> THEN data ELSE in
    BY <1>1, <1>4, <2>2 DEF C!GetBrokerEndpoint
  <2>4. C!GetPublicEndpoint(cluster) = C!GetBrokerEndpoint(cluster)
    BY <1>1, <1>2, <1>4 DEF C!GetPublicEndpoint
  <2>5. \A x \in cluster.reach : x[1] # C!Unset
    BY <1>2 DEF ProbesInv
  <2>6. (IF data # <<>> THEN data ELSE in) \in cluster.reach
    BY <1>2, <2>3, <2>4
  <2>7. /\ search # <<>> <=>
             \E x \in {in, out, C!DockerHost(port), C!KubeHost(port)} :
                x # <<>> /\ x[1] # C!Unset /\ x \in cluster.reach
        /\ data # <<>> <=>
             \E x \in {in, out, C!DockerHost(dataPort), C!KubeHost(dataPort)} :
                x # <<>> /\ x[1] # C!Unset /\ x \in cluster.reach
        /\ data \in {<<>>, in, out, C!DockerHost(dataPort), C!KubeHost(dataPort)}
    BY <2>1, Reached
  <2>8. CASE e[2] \in {0, p.port}
    <3>1. port = p.port /\ dataPort = p.port
      BY <2>8, <1>3
    <3>2. search # <<>>
      BY <1>4, <2>5, <2>6, <2>7, <3>1
    <3> QED
      BY <1>7, <1>9, <2>8, <3>2
  <2>9. CASE e[2] \notin {0, p.port}
    <3> DEFINE places == {in, e, C!DockerHost(e[2]), C!KubeHost(e[2])}
    <3>1. out = e /\ port = e[2] /\ dataPort \in {p.port, e[2]}
      BY <2>9, <1>3
    <3>2. \A x \in places : x # <<>>
      BY <1>3, <1>4, <2>9 DEF C!DockerHost, C!KubeHost
    <3>3. search = <<>> <=> cluster.reach \cap places = {}
      BY <2>5, <2>7, <3>1, <3>2
    <3>4. ASSUME cluster.reach \cap places = {}
          PROVE  cluster.reach \cap {C!DockerHost(p.port), C!KubeHost(p.port)} # {}
      <4>1. data # <<>> /\ data \in cluster.reach
        BY <2>6, <3>4
      <4>2. data \in {C!DockerHost(dataPort), C!KubeHost(dataPort)} /\ data \notin places
        BY <2>7, <3>1, <3>4, <4>1
      <4> QED
        BY <3>1, <4>1, <4>2
    <3> QED
      BY <1>7, <1>9, <2>9, <3>3, <3>4
  <2> QED
    BY <2>8, <2>9
<1> QED
  BY <1>8, <1>9

\* The goroutines that wait to log belong to attempts that have been made.
ForwarderInv ==
    attempts \in Nat /\ loggers \subseteq 1 .. attempts

LEMMA ForwarderStep ==
    ASSUME ForwarderInv, [LibraryNext]_libraryVars
    PROVE  ForwarderInv'
<1>1. P!ForwarderNext \/ UNCHANGED forwarder
  BY DEF LibraryNext, libraryVars, RestA, RestB, RestC
<1>2. \/ UNCHANGED <<attempts, loggers>>
      \/ attempts' = attempts + 1 /\ loggers' = loggers \cup {attempts + 1}
      \/ \E a \in loggers : UNCHANGED attempts /\ loggers' = loggers \ {a}
  BY <1>1 DEF P!ForwarderNext, P!NewPortForwarder, P!Start, P!Stop, P!Check, P!ResolvePod,
              P!Dial, P!TunnelUp, P!TunnelDown, P!Backoff, P!Log, forwarder
<1>3. attempts \in Nat /\ \A a \in loggers : a \in Nat /\ 1 <= a /\ a <= attempts
  BY DEF ForwarderInv
<1>4. attempts' \in Nat /\ \A a \in loggers' : a \in Nat /\ 1 <= a /\ a <= attempts'
  BY <1>2, <1>3
<1> QED
  BY <1>4 DEF ForwarderInv

LEMMA ForwarderInit ==
    ASSUME LibraryInit
    PROVE  ForwarderInv
BY DEF LibraryInit, P!ForwarderInit, ForwarderInv

LEMMA NotStuck ==
    ASSUME ForwarderInv
    PROVE  P!NoLoggerStuck
<1> SUFFICES ASSUME NEW a \in loggers
             PROVE  P!Released(a) \/ (a = attempts /\ running = "forward" /\ ~stopped)
  BY DEF P!NoLoggerStuck
<1>1. a < attempts \/ a = attempts
  BY DEF ForwarderInv
<1> QED
  BY <1>1, Zenon DEF P!Released

(***************************************************************************)
(* BrokerReached, for any states of the cluster and of the network: where  *)
(* the data connection finds the broker, so does the search for its port,  *)
(* with the exceptions that ProbesAgree names; and no goroutine of a       *)
(* tunnel waits to log when its attempt or the forwarder has ended.        *)
(***************************************************************************)
THEOREM BrokerFound == LibrarySpec => []BrokerReached
<1>1. LibraryInit => ProbesInv /\ ForwarderInv
  BY ProbesInit, ForwarderInit
<1>2. ProbesInv /\ ForwarderInv /\ [LibraryNext]_libraryVars => (ProbesInv /\ ForwarderInv)'
  BY ProbesStep, ForwarderStep
<1>3. ProbesInv /\ ForwarderInv => BrokerReached
  BY Agree, NotStuck DEF BrokerReached
<1> QED
  BY <1>1, <1>2, <1>3, PTL DEF LibrarySpec

-----------------------------------------------------------------------------
(***************************************************************************)
(* The components whose invariants are in Parts_proofs.                    *)
(***************************************************************************)
LEMMA PartsStep ==
    ASSUME [LibraryNext]_libraryVars
    PROVE  /\ ModSyncNext \/ UNCHANGED syncVars
           /\ ValidatorNext \/ UNCHANGED validatorVars
           /\ RefsNext \/ UNCHANGED refVars
           /\ SourcesNext \/ UNCHANGED sourceVars
           /\ GithubNext \/ UNCHANGED githubVars
BY DEF LibraryNext, libraryVars, RestA, RestB, RestC

(***************************************************************************)
(* OneReplacement, for any go.mod files: whatever is synced into which     *)
(* file, and how often, each module has one replacement at most, each that *)
(* the source requires has the source's own or its pin, and another sync   *)
(* would write the same replacements and, unless one module's name ends in *)
(* another's, the same lines.                                              *)
(***************************************************************************)
THEOREM ReplacedOnce == LibrarySpec => []OneReplacement
<1>1. LibraryInit => SyncInv
  BY SyncInitInv DEF LibraryInit
<1>2. SyncInv /\ [LibraryNext]_libraryVars => SyncInv'
  BY PartsStep, SyncStepInv
<1> QED
  BY <1>1, <1>2, SyncedOnce, PTL DEF LibrarySpec

(***************************************************************************)
(* RightSchema, for any schemas, documents and callers: a document is      *)
(* validated against the schema of its own reference, although others are  *)
(* registered meanwhile; and after the inlining every reference in a       *)
(* component is inlined or, where it closes a circle, cut, so that none    *)
(* contains itself.                                                        *)
(***************************************************************************)
THEOREM SchemasRight == LibrarySpec => []RightSchema
<1>1. LibraryInit => ValidatorInv /\ RefsInv
  BY ValidatorInitInv, RefsInitInv DEF LibraryInit
<1>2. ValidatorInv /\ RefsInv /\ [LibraryNext]_libraryVars => (ValidatorInv /\ RefsInv)'
  BY PartsStep, ValidatorStepInv, RefsStepInv
<1>3. ValidatorInv /\ RefsInv => RightSchema
  BY ValidatorOwn, RefsInlined DEF RightSchema
<1> QED
  BY <1>1, <1>2, <1>3, PTL DEF LibrarySpec

(***************************************************************************)
(* SourceComplete, for any repositories: the clone outlives the goroutines *)
(* that read it, the components of each document of a plain directory are  *)
(* generated exactly once if no two writes overlapped; and through the API *)
(* a directory is intercepted after all that it has in it.                 *)
(***************************************************************************)
THEOREM SourcesWalked == LibrarySpec => []SourceComplete
<1>1. LibraryInit => SourcesInv /\ GithubInv
  BY SourcesInitInv, GithubInitInv DEF LibraryInit
<1>2. SourcesInv /\ GithubInv /\ [LibraryNext]_libraryVars => (SourcesInv /\ GithubInv)'
  BY PartsStep, SourcesStepInv, GithubStepInv
<1>3. SourcesInv /\ GithubInv => SourceComplete
  BY SourcesComplete, GithubEntries DEF SourceComplete
<1> QED
  BY <1>1, <1>2, <1>3, PTL DEF LibrarySpec
-----------------------------------------------------------------------------
(***************************************************************************)
(* The types of the components.  What is in a file of the download         *)
(* directory came from the URLs of charts, because only such URLs are      *)
(* downloaded.                                                             *)
(***************************************************************************)
FewReleases == IsFiniteSet(releases)

LEMMA FinitelyMany == \A T : O!IsFiniteSet(T) <=> IsFiniteSet(T)
BY DEF O!IsFiniteSet, IsFiniteSet

LEMMA FStep ==
    ASSUME FewReleases, NEW p \in Callers, O!HelmStep(p)
    PROVE  FewReleases'
<1>1. \/ releases' = releases
      \/ releases' = releases \cup {O!Target(p)}
      \/ releases' = releases \ {O!Target(p)}
  BY DEF O!HelmStep, O!Fetch, O!Copy, O!Load, O!Prepare, O!Decide, O!Run
<1> QED
  BY <1>1, FS_AddElement, FS_RemoveElement DEF FewReleases

OperatorTypes ==
    /\ status \in O!Statuses /\ seen \in [Callers -> O!Statuses]
    /\ deployment \in {"absent", "rolling", "ready"}
    /\ call \in [Callers -> {"none", "status", "deploy", "deploying", "undeploying",
                             "other"}]
    /\ opPc \in [Callers -> {"off", "query", "write", "reread", "returned"}]
    /\ answer \in [Callers -> {"absent", "rolling", "ready"}]
    /\ forced \in [Callers -> BOOLEAN] /\ stale \subseteq Callers
    /\ opCalls \in 0 .. MaxOperatorCalls

LEMMA OperatorBound == MaxOperatorCalls \in Nat
BY PartsAssumption

LEMMA TBegin ==
    ASSUME OperatorTypes, NEW p \in Callers, NEW name, NEW force \in BOOLEAN,
           name \in {"status", "deploy", "undeploying", "other"},
           O!Begin(p, name, force), UNCHANGED <<status, deployment, answer>>,
           UNCHANGED <<opPc, seen>> \/ O!ReadStatus(p)
    PROVE  OperatorTypes'
<1>1. /\ opCalls < MaxOperatorCalls /\ opCalls' = opCalls + 1
      /\ call' = [call EXCEPT ![p] = name] /\ forced' = [forced EXCEPT ![p] = force]
      /\ stale' = stale \ {p}
  BY DEF O!Begin
<1>2. /\ seen' = seen \/ seen' = [seen EXCEPT ![p] = status]
      /\ \E s \in {"returned", "query"} : opPc' = opPc \/ opPc' = [opPc EXCEPT ![p] = s]
  BY DEF O!ReadStatus
<1>3. /\ seen' \in [Callers -> O!Statuses]
      /\ opPc' \in [Callers -> {"off", "query", "write", "reread", "returned"}]
  BY <1>2 DEF OperatorTypes
<1>4. forced' \in [Callers -> BOOLEAN]
  BY <1>1, Zenon DEF OperatorTypes
<1>5. opCalls' \in 0 .. MaxOperatorCalls
  BY <1>1, OperatorBound DEF OperatorTypes
<1>6. call' \in [Callers -> {"none", "status", "deploy", "deploying", "undeploying", "other"}]
  BY <1>1 DEF OperatorTypes
<1> QED
  BY <1>1, <1>3, <1>4, <1>5, <1>6 DEF OperatorTypes

LEMMA TPoll ==
    ASSUME OperatorTypes, NEW p \in Callers,
           \/ O!Query(p) \/ O!SetStatus(p) \/ O!Reread(p) \/ O!StatusReturned(p)
           \/ O!ChartApplied(p) \/ O!Reconcile
    PROVE  OperatorTypes'
<1>1. CASE O!Query(p) \/ O!SetStatus(p) \/ O!Reread(p)
  <2>1. UNCHANGED <<deployment, call, forced, stale, opCalls>>
    BY <1>1 DEF O!Query, O!SetStatus, O!Reread
  <2>2. status' \in O!Statuses
    <3>1. CASE O!SetStatus(p)
      <4>1. answer[p] \in {"absent", "rolling", "ready"}
        BY DEF OperatorTypes
      <4> QED
        BY <3>1, <4>1 DEF O!SetStatus, O!Statuses
    <3> QED
      BY <1>1, <3>1 DEF O!Query, O!Reread, OperatorTypes
  <2>3. seen' = seen \/ \E s \in O!Statuses : seen' = [seen EXCEPT ![p] = s]
    BY <1>1 DEF O!Query, O!SetStatus, O!Reread, OperatorTypes, O!Statuses
  <2>4. \E s \in {"write", "reread", "returned"} : opPc' = [opPc EXCEPT ![p] = s]
    BY <1>1 DEF O!Query, O!SetStatus, O!Reread
  <2>5. answer' = answer \/ \E s \in {"absent", "rolling", "ready"} :
                               answer' = [answer EXCEPT ![p] = s]
    BY <1>1 DEF O!Query, O!SetStatus, O!Reread, OperatorTypes
  <2> QED
    BY <2>1, <2>2, <2>3, <2>4, <2>5 DEF OperatorTypes
<1>2. CASE O!StatusReturned(p)
  <2>1. /\ UNCHANGED <<status, deployment, answer, stale, opCalls>>
        /\ forced' = forced \/ forced' = [forced EXCEPT ![p] = FALSE]
        /\ seen' = [seen EXCEPT ![p] = "Unknown"]
        /\ opPc' = [opPc EXCEPT ![p] = "off"]
        /\ \E s \in {"none", "deploying"} : call' = [call EXCEPT ![p] = s]
    BY <1>2 DEF O!StatusReturned, O!Done
  <2>2. forced' \in [Callers -> BOOLEAN]
    BY <2>1, Zenon DEF OperatorTypes
  <2>3. /\ seen' \in [Callers -> O!Statuses]
        /\ call' \in [Callers -> {"none", "status", "deploy", "deploying", "undeploying", "other"}]
        /\ opPc' \in [Callers -> {"off", "query", "write", "reread", "returned"}]
    BY <2>1 DEF OperatorTypes, O!Statuses
  <2> QED
    BY <2>1, <2>2, <2>3 DEF OperatorTypes
<1>3. CASE O!ChartApplied(p)
  <2>1. /\ UNCHANGED <<deployment, opPc, answer, seen, opCalls>>
        /\ forced' = [forced EXCEPT ![p] = FALSE]
        /\ call' = [call EXCEPT ![p] = "none"]
        /\ status' \in {status, "Deployed", "Undeployed"}
        /\ stale' \in {stale, {q \in Callers \ {p} : call[q] # "none"}}
    BY <1>3 DEF O!ChartApplied, O!Done
  <2>2. forced' \in [Callers -> BOOLEAN]
    BY <2>1, Zenon DEF OperatorTypes
  <2>3. /\ call' \in [Callers -> {"none", "status", "deploy", "deploying", "undeploying", "other"}]
        /\ status' \in O!Statuses
    BY <2>1 DEF OperatorTypes, O!Statuses
  <2> QED
    BY <2>1, <2>2, <2>3 DEF OperatorTypes
<1>4. CASE O!Reconcile
  <2>1. /\ UNCHANGED <<status, call, opPc, answer, seen, forced, stale, opCalls>>
        /\ deployment' \in {"absent", "rolling", "ready"}
    BY <1>4 DEF O!Reconcile
  <2> QED
    BY <2>1 DEF OperatorTypes
<1> QED
  BY <1>1, <1>2, <1>3, <1>4

LEMMA OperatorTypesUnchanged ==
    ASSUME OperatorTypes, UNCHANGED O!operatorVars
    PROVE  OperatorTypes'
BY DEF OperatorTypes, O!operatorVars

OperatorTyped == HelmInv /\ FewReleases /\ OperatorTypes

LEMMA OperatorTypedStep ==
    ASSUME OperatorTyped, O!Next \/ UNCHANGED operator
    PROVE  OperatorTyped'
<1>1. HelmInv'
  BY HelmStepInv DEF OperatorTyped
<1>2. ASSUME NEW p \in Callers
      PROVE  /\ O!GetStatus(p) => releases' = releases /\ OperatorTypes'
             /\ \A force \in BOOLEAN :
                  O!Deploy(p, force) => releases' = releases /\ OperatorTypes'
             /\ O!Undeploy(p) => releases' = releases /\ OperatorTypes'
             /\ \A c \in Others : O!ApplyOther(p, c) => releases' = releases /\ OperatorTypes'
  <2>1. \A c0 : O!ApplyHelmChart(p, c0) => releases' = releases
    BY DEF O!ApplyHelmChart
  <2>2. O!GetStatus(p) => releases' = releases /\ OperatorTypes'
    BY TBegin DEF O!GetStatus, O!helmVars, OperatorTyped
  <2>3. ASSUME NEW force \in BOOLEAN, O!Deploy(p, force)
        PROVE  releases' = releases /\ OperatorTypes'
    BY <2>3, TBegin DEF O!Deploy, O!helmVars, OperatorTyped
  <2>4. O!Undeploy(p) => releases' = releases /\ OperatorTypes'
    BY <2>1, TBegin DEF O!Undeploy, OperatorTyped
  <2>5. ASSUME NEW c \in Others, O!ApplyOther(p, c)
        PROVE  releases' = releases /\ OperatorTypes'
    BY <2>1, <2>5, TBegin DEF O!ApplyOther, OperatorTyped
  <2> QED
    BY <2>2, <2>3, <2>4, <2>5
<1>3. ASSUME NEW p \in Callers
      PROVE  O!Query(p) \/ O!SetStatus(p) \/ O!Reread(p) \/ O!StatusReturned(p)
               \/ O!ChartApplied(p) \/ O!Reconcile => releases' = releases
  <2>1. O!StatusReturned(p) => O!ApplyHelmChart(p, O!Operator("install")) \/ UNCHANGED O!helmVars
    BY DEF O!StatusReturned
  <2> QED
    BY <2>1 DEF O!Query, O!SetStatus, O!Reread, O!ChartApplied, O!Returned, O!Reconcile,
                O!ApplyHelmChart, O!helmVars
<1>4. releases' = releases => (FewReleases => FewReleases')
  BY DEF FewReleases
<1>5. CASE O!Next
  <2>1. CASE O!Reconcile
    <3>1. releases' = releases
      BY <2>1 DEF O!Reconcile, O!helmVars
    <3> QED
      BY <2>1, <3>1, <1>1, <1>4 DEF OperatorTyped, OperatorTypes, O!Reconcile
  <2>2. CASE \E p \in Callers : \/ O!Query(p) \/ O!SetStatus(p) \/ O!Reread(p)
                                \/ O!StatusReturned(p) \/ O!ChartApplied(p)
    BY <2>2, <1>1, <1>3, <1>4, TPoll DEF OperatorTyped
  <2>3. CASE \E p \in Callers : \/ O!GetStatus(p) \/ O!Undeploy(p)
                                \/ \E force \in BOOLEAN : O!Deploy(p, force)
                                \/ \E c \in Others : O!ApplyOther(p, c)
    BY <2>3, <1>1, <1>2, <1>4 DEF OperatorTyped
  <2>4. CASE \E p \in Callers : O!HelmStep(p) /\ UNCHANGED O!operatorVars
    BY <2>4, <1>1, FStep, OperatorTypesUnchanged DEF OperatorTyped
  <2> QED
    BY <1>5, <2>1, <2>2, <2>3, <2>4 DEF O!Next
<1>6. CASE UNCHANGED operator
  <2>1. releases' = releases /\ UNCHANGED O!operatorVars
    BY <1>6 DEF operator, O!operatorVars
  <2> QED
    BY <2>1, <1>1, <1>4, OperatorTypesUnchanged DEF OperatorTyped
<1> QED
  BY <1>5, <1>6

LEMMA OperatorTypedInit ==
    ASSUME LibraryInit
    PROVE  OperatorTyped
<1>1. O!HelmInit /\ O!Init
  BY DEF LibraryInit, O!Init
<1>3. FewReleases
  BY <1>1, FS_EmptySet DEF O!HelmInit, FewReleases
<1>4. /\ status = "Unknown" /\ deployment = "absent"
      /\ call = [p \in Callers |-> "none"] /\ opPc = [p \in Callers |-> "off"]
      /\ answer = [p \in Callers |-> "absent"]
      /\ seen = [p \in Callers |-> "Unknown"] /\ forced = [p \in Callers |-> FALSE]
      /\ stale = {} /\ opCalls = 0
  BY <1>1 DEF O!Init
<1>5. forced \in [Callers -> BOOLEAN]
  BY <1>4, Zenon
<1>6. opCalls \in 0 .. MaxOperatorCalls
  BY <1>4, OperatorBound
<1>7. OperatorTypes
  BY <1>4, <1>5, <1>6 DEF OperatorTypes, O!Statuses
<1> QED
  BY <1>3, <1>7, HelmInit DEF OperatorTyped

LEMMA OperatorTypeOK == OperatorTyped => O!TypeOK
<1>1. ASSUME OperatorTyped
      PROVE  O!HelmTypeOK
  <2>1. /\ \A f \in DOMAIN downloads : downloads[f] \in Seq(DOMAIN ChartAt \cup {O!Unset})
        /\ spoiled \subseteq DOMAIN downloads
    BY <1>1 DEF OperatorTyped, HelmInv, Halves
  <2> QED
    BY <1>1, <2>1, FinitelyMany
    DEF OperatorTyped, HelmInv, HelmTypes, HelmSteps, FewReleases, O!HelmTypeOK
<1> QED
  BY <1>1 DEF OperatorTyped, OperatorTypes, O!TypeOK

\* The cluster can be told about, and a monitoring endpoint that was found has
\* a host and a port.
Told(c) ==
    /\ {c.broker, c.meshsync} \subseteq Resources
    /\ \A n \in {Names[i] : i \in DOMAIN Names} \cup {"meshery-meshsync"} :
         c.workload[n] \in Read \cup {"absent", "error"}

Answers == {"Unknown", "Undeployed", "Deploying", "Deployed", "Enabled", "Running", "Connected"}

ClusterTyped ==
    /\ Told(cluster)
    /\ probing \in [C!Controllers -> {"idle", "workload", "pods", "endpoint", "ping"}]
    /\ probed \in [C!Controllers -> Answers] /\ returned \in [C!Controllers -> Answers]
    /\ DOMAIN endpoint = C!Controllers
    /\ \A h \in C!Controllers : probing[h] = "ping" => Len(endpoint[h]) = 2
    /\ changes \in 0 .. MaxChanges

LEMMA ChangesBound == MaxChanges \in Nat
BY PartsAssumption

\* An endpoint is an error or has a host and a port.
LEMMA EndpointPair ==
    ASSUME NEW c, NEW name
    PROVE  LET e == C!GetEndpointForPort(c, name) IN e = <<>> \/ Len(e) = 2
<1> DEFINE n == C!First(C!Found(c, name))
           ep == C!EndpointOf(c, n, name)
           port == IF ep.external # <<>> THEN ep.external[2] ELSE ep.internal[2]
<1>1. /\ ep.internal = <<>> \/ Len(ep.internal) = 2
      /\ ep.external = <<>> \/ Len(ep.external) = 2
  <2>1. ASSUME NEW s, NEW p
        PROVE  Len(C!Outside(s, p, "localhost", C!Unset)) = 2
    BY OutsidePair
  <2> QED
    BY <2>1 DEF C!EndpointOf, C!GetEndpoint
<1> HIDE DEF n, ep
<1>2. /\ C!DockerHost(port) = <<>> \/ Len(C!DockerHost(port)) = 2
      /\ C!KubeHost(port) = <<>> \/ Len(C!KubeHost(port)) = 2
  BY DEF C!DockerHost, C!KubeHost
<1>3. C!GetEndpointForPort(c, name) =
        IF C!Found(c, name) = {} THEN <<>>
        ELSE C!FirstReachable(c, <<ep.internal, ep.external, C!DockerHost(port), C!KubeHost(port)>>)
  BY DEF C!GetEndpointForPort, C!Answering, n, ep
<1> QED
  BY <1>1, <1>2, <1>3, Reached

LEMMA CWorkload ==
    ASSUME ClusterTyped, NEW h \in C!Controllers, C!GetWorkload(h)
    PROVE  ClusterTyped'
<1> DEFINE names == IF h = "broker" THEN Names ELSE <<"meshery-meshsync">>
           state == [i \in DOMAIN names |-> cluster.workload[names[i]]]
           told == {i \in DOMAIN names : state[i] \notin {"absent", "error"}}
           reply == CASE state[C!First(told)] = "rolling" -> "Deploying"
                       [] state[C!First(told)] = "done"    -> "Deployed"
                       [] state[C!First(told)] = "odd"     -> "Unknown"
<1>1. DOMAIN names \subseteq Nat /\ \A i \in DOMAIN names : state[i] \in Read \cup {"absent", "error"}
  BY LibraryAssumption DEF ClusterTyped, Told, C!Controllers
<1>2. /\ UNCHANGED <<cluster, endpoint, changes>>
      /\ \/ told # {} /\ C!Return(h, reply)
         \/ C!Return(h, "Undeployed")
         \/ C!Unanswered(h)
  BY Zenon DEF C!GetWorkload
<1> HIDE DEF state, names
<1>3. told # {} => state[C!First(told)] \in Read
  <2> SUFFICES ASSUME told # {}
               PROVE  state[C!First(told)] \in Read
    OBVIOUS
  <2>1. told \subseteq Nat /\ \A i \in told : i \in DOMAIN names /\ state[i] \in Read
    BY <1>1
  <2> HIDE DEF told
  <2>2. PICK i \in told : \A j \in told : i <= j
    BY <2>1, LeastNumber
  <2>3. C!First(told) \in told
    BY <2>2 DEF C!First
  <2> QED
    BY <2>1, <2>3
<1> HIDE DEF told
<1>4. told # {} => reply \in Answers
  BY <1>3 DEF Read, Answers
<1> HIDE DEF reply
<1>5. /\ probing' = [probing EXCEPT ![h] = "idle"]
      /\ probed' = probed \/ \E s \in Answers : probed' = [probed EXCEPT ![h] = s]
      /\ \E s \in Answers : returned' = [returned EXCEPT ![h] = s]
  BY <1>2, <1>4 DEF C!Return, C!Unanswered, Answers
<1> QED
  BY <1>2, <1>5 DEF ClusterTyped

LEMMA COther ==
    ASSUME ClusterTyped, NEW h \in C!Controllers,
           C!GetStatus(h) \/ C!FindEndpoint(h) \/ C!Ping(h) \/ (C!ListPods /\ h = "meshsync")
    PROVE  ClusterTyped'
<1>1. cluster' = cluster /\ changes' = changes
  BY DEF C!GetStatus, C!FindEndpoint, C!Ping, C!ListPods
<1>2. /\ probed' = probed \/ \E s \in Answers : probed' = [probed EXCEPT ![h] = s]
      /\ returned' = returned \/ \E s \in Answers : returned' = [returned EXCEPT ![h] = s]
      /\ \E s \in {"idle", "workload", "pods", "endpoint", "ping"} :
           probing' = [probing EXCEPT ![h] = s]
  <2>1. probed[h] \in Answers
    BY DEF ClusterTyped
  <2>2. CASE C!GetStatus(h)
    <3>1. cluster[h] \in Resources /\ h \in {"broker", "meshsync"}
      BY DEF ClusterTyped, Told, C!Controllers
    <3> QED
      BY <2>1, <2>2, <3>1 DEF C!GetStatus, C!Return, C!Continue, C!Unanswered, Answers, Resources
  <2>3. CASE C!FindEndpoint(h)
    BY <2>1, <2>3 DEF C!FindEndpoint, C!Return, C!Continue, Answers
  <2>4. CASE C!Ping(h)
    BY <2>4 DEF C!Ping, C!Return, Answers
  <2>5. CASE C!ListPods /\ h = "meshsync"
    BY <2>5 DEF C!ListPods, C!Return, C!Continue, Answers
  <2> QED
    BY <2>2, <2>3, <2>4, <2>5
<1>3. /\ DOMAIN endpoint' = C!Controllers
      /\ \A q \in C!Controllers : q # h => endpoint'[q] = endpoint[q] /\ probing'[q] = probing[q]
  BY <1>2 DEF ClusterTyped, C!GetStatus, C!FindEndpoint, C!Ping, C!ListPods
<1>4. probing'[h] = "ping" => Len(endpoint'[h]) = 2
  <2>1. CASE C!FindEndpoint(h)
    <3>1. /\ endpoint'[h] = C!GetEndpointForPort(cluster, "monitor")
          /\ endpoint'[h] = <<>> => probing'[h] = "idle"
      BY <2>1 DEF C!FindEndpoint, C!Return, ClusterTyped
    <3> QED
      BY <3>1, EndpointPair
  <2>2. CASE C!GetStatus(h) \/ C!Ping(h) \/ (C!ListPods /\ h = "meshsync")
    <3>1. probing'[h] # "ping"
      <4>1. CASE C!GetStatus(h)
        <5>1. cluster[h] \in Resources /\ h \in {"broker", "meshsync"}
          BY DEF ClusterTyped, Told, C!Controllers
        <5> QED
          BY <4>1, <5>1 DEF C!GetStatus, C!Return, C!Continue, C!Unanswered, ClusterTyped, Resources
      <4>2. CASE C!Ping(h) \/ (C!ListPods /\ h = "meshsync")
        BY <4>2 DEF C!Ping, C!ListPods, C!Return, C!Continue, ClusterTyped
      <4> QED
        BY <2>2, <4>1, <4>2
    <3> QED
      BY <3>1
  <2> QED
    BY <2>1, <2>2
<1> QED
  BY <1>1, <1>2, <1>3, <1>4 DEF ClusterTyped

LEMMA ClusterTypedStep ==
    ASSUME ClusterTyped, [LibraryNext]_libraryVars
    PROVE  ClusterTyped'
<1>1. C!ClusterNext \/ UNCHANGED probes
  BY DEF LibraryNext, libraryVars, RestA, RestB, RestC
<1>2. C!Change => ClusterTyped'
  <2>1. ASSUME NEW c \in Clusters
        PROVE  Told(c)
    BY PartsAssumption DEF Told
  <2> QED
    BY <2>1, ChangesBound DEF C!Change, ClusterTyped
<1>3. UNCHANGED probes => ClusterTyped'
  BY DEF ClusterTyped, probes
<1>4. "meshsync" \in C!Controllers
  BY DEF C!Controllers
<1> QED
  BY <1>1, <1>2, <1>3, <1>4, CWorkload, COther DEF C!ClusterNext

LEMMA ClusterTypedInit ==
    ASSUME LibraryInit
    PROVE  ClusterTyped
<1>1. C!ClusterInit
  BY DEF LibraryInit
<1>2. Told(cluster)
  BY <1>1 DEF C!ClusterInit, Told, Resources
<1> QED
  BY <1>1, <1>2, ChangesBound DEF C!ClusterInit, ClusterTyped, Answers

LEMMA ClusterTypeOK == ClusterTyped => C!ClusterTypeOK
BY DEF ClusterTyped, C!ClusterTypeOK, Answers

\* The port forwarder: an attempt that is dialled is one that may be made.
ForwarderTyped ==
    /\ started \in BOOLEAN /\ stopped \in BOOLEAN /\ ready \in BOOLEAN
    /\ running \in {"none", "check", "resolve", "dial", "forward", "backoff", "ended"}
    /\ attempts \in 0 .. MaxAttempts
    /\ running = "dial" => attempts < MaxAttempts

LEMMA ForwarderTypedStep ==
    ASSUME ForwarderTyped, [LibraryNext]_libraryVars
    PROVE  ForwarderTyped'
<1>1. P!ForwarderNext \/ UNCHANGED forwarder
  BY DEF LibraryNext, libraryVars, RestA, RestB, RestC
<1>2. /\ started' = started \/ started' = TRUE
      /\ stopped' = stopped \/ stopped' = TRUE
      /\ ready' = ready \/ ready' = TRUE \/ ready' = FALSE
  BY <1>1, Zenon DEF P!ForwarderNext, P!NewPortForwarder, P!Start, P!Stop, P!Check, P!ResolvePod,
              P!Dial, P!TunnelUp, P!TunnelDown, P!Backoff, P!Log, forwarder
<1>3. /\ \/ running' = running
         \/ running' \in {"check", "resolve", "forward", "backoff", "ended"}
         \/ running' = "dial" /\ attempts < MaxAttempts
      /\ \/ attempts' = attempts
         \/ running = "dial" /\ running' = "forward" /\ attempts' = attempts + 1
  BY <1>1 DEF P!ForwarderNext, P!NewPortForwarder, P!Start, P!Stop, P!Check, P!ResolvePod,
              P!Dial, P!TunnelUp, P!TunnelDown, P!Backoff, P!Log, forwarder
<1>4. started' \in BOOLEAN /\ stopped' \in BOOLEAN /\ ready' \in BOOLEAN
  BY <1>2, Zenon DEF ForwarderTyped
<1>5. /\ running' \in {"none", "check", "resolve", "dial", "forward", "backoff", "ended"}
      /\ attempts' \in 0 .. MaxAttempts
      /\ running' = "dial" => attempts' < MaxAttempts
  <2>1. MaxAttempts \in Nat
    BY PartsAssumption
  <2> QED
    BY <1>3, <2>1 DEF ForwarderTyped
<1> QED
  BY <1>4, <1>5 DEF ForwarderTyped

LEMMA ForwarderTypedInit ==
    ASSUME LibraryInit
    PROVE  ForwarderTyped
<1>1. MaxAttempts \in Nat
  BY PartsAssumption
<1>2. started \in BOOLEAN /\ stopped \in BOOLEAN /\ ready \in BOOLEAN
  BY Zenon DEF LibraryInit, P!ForwarderInit
<1> QED
  BY <1>1, <1>2 DEF LibraryInit, P!ForwarderInit, ForwarderTyped

LEMMA ForwarderTypeOK == ForwarderTyped /\ ForwarderInv => P!ForwarderTypeOK
<1>1. ForwarderTyped => {started, stopped, ready} \subseteq BOOLEAN
  BY Zenon DEF ForwarderTyped
<1> QED
  BY <1>1 DEF ForwarderTyped, ForwarderInv, P!ForwarderTypeOK

\* A manifest: the document the call is at is one of its documents.
ManifestTyped ==
    /\ request = <<>> \/ \E r \in Requests : request = <<r>>
    /\ docStep \in {"none", "decode", "namespace", "object", "return"}
    /\ docStep \in {"decode", "namespace", "object"} =>
         request # <<>> /\ document \in DOMAIN request[1].documents
    /\ result \in {"none", "ok", "error"}
    /\ others \in 0 .. MaxOthers

LEMMA ManifestTypedStep ==
    ASSUME ManifestTyped, [LibraryNext]_libraryVars
    PROVE  ManifestTyped'
<1>1. CASE UNCHANGED manifest
  BY <1>1 DEF manifest, ManifestTyped
<1>2. CASE \E r \in Requests : M!Begin(r)
  <2>1. PICK r \in Requests : M!Begin(r)
    BY <1>2
  <2>2. r.documents # <<>> => 1 \in DOMAIN r.documents
    <3>1. IsSequence(r.documents)
      BY PartsAssumption
    <3> QED
      BY <3>1 DEF IsSequence
  <2> QED
    BY <2>1, <2>2 DEF M!Begin, ManifestTyped
<1>3. CASE M!Decode \/ M!CreateNamespaceIfNotExist \/ M!DeleteObject \/ M!CreateObject
  <2>1. PICK r \in Requests : request = <<r>>
    BY <1>3 DEF M!Decode, M!CreateNamespaceIfNotExist, M!DeleteObject, M!CreateObject, ManifestTyped
  <2>2. document \in DOMAIN r.documents
    BY <1>3, <2>1 DEF M!Decode, M!CreateNamespaceIfNotExist, M!DeleteObject, M!CreateObject, ManifestTyped
  <2>3. /\ request' = request /\ others' = others
        /\ \/ M!Advance
           \/ docStep' = "return" /\ result' = "error"
           \/ docStep' \in {"namespace", "object"} /\ document' = document /\ result' = result
    BY <1>3 DEF M!Decode, M!CreateNamespaceIfNotExist, M!DeleteObject, M!CreateObject, M!Fail
  <2>4. M!Advance => /\ result' = result
                     /\ \/ docStep' = "return"
                        \/ docStep' = "decode" /\ document' \in DOMAIN r.documents
    <3>1. IsSequence(r.documents)
      BY PartsAssumption
    <3> QED
      BY <2>1, <2>2, <3>1 DEF M!Advance, IsSequence
  <2> QED
    BY <2>1, <2>2, <2>3, <2>4 DEF ManifestTyped
<1>4. CASE M!Return
  BY <1>4 DEF M!Return, ManifestTyped
<1>5. CASE \E o \in objects : M!DeleteByOther(o)
  <2>1. MaxOthers \in Nat
    BY PartsAssumption
  <2> QED
    BY <1>5, <2>1 DEF M!DeleteByOther, ManifestTyped
<1> QED
  BY <1>1, <1>2, <1>3, <1>4, <1>5, ManifestStep DEF M!ManifestNext

LEMMA ManifestTypedInit ==
    ASSUME LibraryInit
    PROVE  ManifestTyped
<1>1. MaxOthers \in Nat
  BY PartsAssumption
<1> QED
  BY <1>1 DEF LibraryInit, M!ManifestInit, ManifestTyped

LEMMA ManifestTypeOK == ManifestTyped => M!ManifestTypeOK
BY DEF ManifestTyped, M!ManifestTypeOK

\* Exposing: the object that is exposed is there, and of a kind that can be.
ExposeTyped ==
    /\ exposing = <<>> \/ exposing[1] \in Exposures
    /\ \/ found = <<>>
       \/ /\ \E o \in Objects : found = <<o>>
          /\ left # <<>> /\ Head(left).type \in X!Kinds
    /\ \A r \in failures : r.type \in X!Kinds
    /\ removed \in 0 .. MaxRemoved

LEMMA ExposeTypedStep ==
    ASSUME ExposeTyped, [LibraryNext]_libraryVars
    PROVE  ExposeTyped'
<1>1. CASE UNCHANGED exposure
  BY <1>1 DEF exposure, ExposeTyped
<1>2. CASE \E e \in Exposures : X!BeginExpose(e)
  BY <1>2 DEF X!BeginExpose, ExposeTyped
<1>3. CASE X!Visit
  <2> DEFINE r == Head(left)
             there == {o \in Objects : o.type = r.type /\ o.ns = r.ns /\ o.name = r.name}
             o == CHOOSE x \in there : TRUE
  <2>1. /\ found = <<>> /\ left # <<>> /\ UNCHANGED <<exposing, removed>>
        /\ \/ found' = found /\ failures' = failures
           \/ r.type \in X!Kinds /\ found' = found /\ failures' = failures \cup {r}
           \/ /\ r.type \in X!Kinds /\ there # {} /\ found' = <<o>>
              /\ left' = left /\ failures' = failures
    BY <1>3 DEF X!Visit
  <2>2. there # {} => o \in Objects
    OBVIOUS
  <2> HIDE DEF there, o
  <2> QED
    BY <2>1, <2>2 DEF ExposeTyped
<1>4. CASE X!CreateService
  <2>1. /\ found # <<>> /\ found' = <<>> /\ UNCHANGED <<exposing, removed>>
        /\ failures' = failures \/ failures' = failures \cup {Head(left)}
    BY <1>4 DEF X!CreateService
  <2> QED
    BY <2>1 DEF ExposeTyped
<1>5. CASE X!ReturnExposed
  BY <1>5 DEF X!ReturnExposed, ExposeTyped
<1>6. CASE \E s \in services : X!RemoveService(s)
  <2>1. MaxRemoved \in Nat
    BY PartsAssumption
  <2> QED
    BY <1>6, <2>1 DEF X!RemoveService, ExposeTyped
<1> QED
  BY <1>1, <1>2, <1>3, <1>4, <1>5, <1>6, ExposeStep DEF X!ExposeNext

LEMMA ExposeTypedInit ==
    ASSUME LibraryInit
    PROVE  ExposeTyped
<1>1. MaxRemoved \in Nat
  BY PartsAssumption
<1> QED
  BY <1>1 DEF LibraryInit, X!ExposeInit, ExposeTyped

LEMMA ExposeTypeOK == ExposeTyped => X!ExposeTypeOK
<1>1. ASSUME ExposeTyped, NEW o \in X!ToSet(found)
      PROVE  o \in Objects /\ left # <<>>
  BY <1>1 DEF ExposeTyped, X!ToSet
<1> QED
  BY <1>1 DEF ExposeTyped, X!ExposeTypeOK

\* The error codes: the next code is not behind the counter during a run.
CodesTyped ==
    /\ CodesInv
    /\ job # <<>> => counter <= next
    /\ file \in 1 .. Len(GoFiles) + 1
    /\ behind \in BOOLEAN /\ jobs \in 0 .. MaxJobs /\ edits \in 0 .. MaxEdits

LEMMA CodesBounds == MaxJobs \in Nat /\ MaxEdits \in Nat /\ Len(GoFiles) \in Nat
BY PartsAssumption, LibraryAssumption

LEMMA CodesTypedStep ==
    ASSUME CodesTyped, [LibraryNext]_libraryVars
    PROVE  CodesTyped'
<1>1. E!ErrorCodesNext \/ UNCHANGED errorCodes
  BY CodesStep
<1>2. CodesInv'
  BY <1>1, CodesStepInv DEF CodesTyped
<1>3. /\ behind' = behind \/ behind' \in BOOLEAN
      /\ jobs' = jobs \/ (jobs < MaxJobs /\ jobs' = jobs + 1)
      /\ edits' = edits \/ (edits < MaxEdits /\ edits' = edits + 1)
  BY <1>1, Zenon DEF E!ErrorCodesNext, E!BeginJob, E!HandleFile, E!WriteComponent, E!Export, E!Kill,
                     E!Edit, errorCodes
<1>4. behind' \in BOOLEAN
  BY <1>3, Zenon DEF CodesTyped
<1>5. jobs' \in 0 .. MaxJobs /\ edits' \in 0 .. MaxEdits
  BY <1>3, CodesBounds DEF CodesTyped
<1>6. file' \in 1 .. Len(GoFiles) + 1
  <2>1. file' \in {1, file, Len(GoFiles) + 1} \/ (file <= Len(GoFiles) /\ file' = file + 1)
    BY <1>1 DEF E!ErrorCodesNext, E!BeginJob, E!HandleFile, E!WriteComponent, E!Export, E!Kill,
                E!Edit, E!WalkError, errorCodes
  <2> QED
    BY <2>1, CodesBounds DEF CodesTyped
<1>7. job' # <<>> => counter' <= next'
  <2>1. counter \in Nat /\ next \in Nat
    BY DEF CodesTyped, CodesInv
  <2>2. CASE E!HandleFile
    <3>1. /\ job # <<>> /\ counter' = counter
          /\ \/ next' = next
             \/ next' = E!Coded(file, next).next /\ file \in DOMAIN GoFiles
      BY <2>2, LibraryAssumption DEF E!HandleFile, CodesTyped, CodesInv
    <3>2. ASSUME file \in DOMAIN GoFiles
          PROVE  E!Coded(file, next).next >= next /\ E!Coded(file, next).next \in Nat
      <4>1. DOMAIN values[file] = DOMAIN GoFiles[file].specs
        BY <3>2 DEF CodesTyped, CodesInv
      <4> DEFINE g == E!Coded(file, next)
      <4>2. g.next \in Nat /\ next <= g.next
        BY <2>1, <3>2, <4>1, GivenCodes
      <4> HIDE DEF g
      <4>3. g.next >= next /\ g.next \in Nat
        BY <2>1, <4>2
      <4> QED
        BY <4>3 DEF g
    <3> DEFINE m == E!Coded(file, next).next
    <3> HIDE DEF m
    <3>3. next' = next \/ (next' = m /\ m \in Nat /\ m >= next)
      BY <3>1, <3>2 DEF m
    <3> QED
      BY <2>1, <3>1, <3>3 DEF CodesTyped
  <2>3. CASE E!WriteComponent
    <3>1. next' = next /\ (counter' = next \/ job' = <<>>)
      BY <2>3 DEF E!WriteComponent, E!EndJob
    <3> QED
      BY <2>1, <3>1
  <2>4. ASSUME ~E!HandleFile, ~E!WriteComponent
        PROVE  job' # <<>> => counter' <= next'
    <3>1. \/ job' = <<>>
          \/ next' = counter /\ counter' = counter
          \/ job' = job /\ next' = next /\ counter' = counter
      BY <1>1, <2>4 DEF E!ErrorCodesNext, E!BeginJob, E!Export, E!Kill, E!Edit, E!EndJob, errorCodes
    <3> QED
      BY <2>1, <3>1 DEF CodesTyped
  <2> QED
    BY <2>2, <2>3, <2>4
<1> QED
  BY <1>2, <1>4, <1>5, <1>6, <1>7 DEF CodesTyped

LEMMA CodesTypedInit ==
    ASSUME LibraryInit
    PROVE  CodesTyped
<1>1. E!ErrorCodesInit
  BY DEF LibraryInit
<1>2. behind \in BOOLEAN
  BY <1>1, Zenon DEF E!ErrorCodesInit
<1>3. job = <<>> /\ file = 1 /\ jobs = 0 /\ edits = 0
  BY <1>1 DEF E!ErrorCodesInit
<1> QED
  BY <1>2, <1>3, CodesInit, CodesBounds DEF CodesTyped

LEMMA CodesTypeOK == CodesTyped => E!ErrorCodesTypeOK
<1>1. ASSUME CodesTyped, NEW i \in DOMAIN GoFiles
      PROVE  Len(values[i]) = Len(GoFiles[i].specs)
  <2> DEFINE n == Len(GoFiles[i].specs)
  <2>1. DOMAIN values[i] = 1 .. n /\ n \in Nat
    BY <1>1, LibraryAssumption DEF CodesTyped, CodesInv
  <2> HIDE DEF n
  <2>2. Len(values[i]) = n
    BY <2>1
  <2> QED
    BY <2>2 DEF n
<1> QED
  BY <1>1 DEF CodesTyped, E!ErrorCodesTypeOK

\* The intake of files.
Places == {"idle", "identify", "convert", "kustomize",
           "write", "check", "kompose", "read", "clean", "restore"}
Identities == {"none", "error", "design", "manifest", "chart", "compose", "kustomize"}
Exits == {"exit", "ignore"}

IntakeFlags == exited \in BOOLEAN /\ disturbed \in BOOLEAN

IntakeTyped ==
    /\ taking \in [Callers -> Places] /\ taken \in [Callers -> Files \cup {I!NoFile}]
    /\ identified \in [Callers -> Identities]
    /\ saved \in [Callers -> Exits] /\ exitFunc \in Exits
    /\ IntakeFlags
    /\ intakes \in 0 .. MaxIntakes /\ kills \in 0 .. MaxKills

\* A step of p: it goes somewhere, and keeps or takes the exit function.
Moved(p) ==
    /\ \E s \in Places : taking' = [taking EXCEPT ![p] = s]
    /\ taken' = taken \/ \E f \in Files : taken' = [taken EXCEPT ![p] = f]
    /\ identified' = identified \/ \E s \in Identities : identified' = [identified EXCEPT ![p] = s]
    /\ saved' = saved \/ saved' = [saved EXCEPT ![p] = exitFunc]
    /\ exitFunc' \in {exitFunc, "ignore", saved[p]}
    /\ intakes' = intakes \/ (intakes < MaxIntakes /\ intakes' = intakes + 1)
    /\ kills' = kills

LEMMA TMoved ==
    ASSUME IntakeTyped, NEW p \in Callers, Moved(p), IntakeFlags'
    PROVE  IntakeTyped'
<1>1. MaxIntakes \in Nat
  BY PartsAssumption
<1>2. exitFunc' \in Exits
  BY DEF Moved, IntakeTyped, Exits
<1>3. intakes' \in 0 .. MaxIntakes /\ kills' \in 0 .. MaxKills
  BY <1>1 DEF Moved, IntakeTyped
<1>4. /\ taking' \in [Callers -> Places] /\ taken' \in [Callers -> Files \cup {I!NoFile}]
      /\ identified' \in [Callers -> Identities] /\ saved' \in [Callers -> Exits]
  BY DEF Moved, IntakeTyped
<1> QED
  BY <1>2, <1>3, <1>4 DEF IntakeTyped

LEMMA TQuiet ==
    ASSUME IntakeTyped, NEW p \in Callers,
           (\E f \in Files : I!SanitizeFile(p, f)) \/ I!IdentifyFile(p) \/ I!ParseKustomization(p)
    PROVE  Moved(p) /\ IntakeFlags'
<1>1. UNCHANGED I!convertVars /\ UNCHANGED disturbed
  BY DEF I!SanitizeFile, I!IdentifyFile, I!ParseKustomization
<1>2. IntakeFlags'
  BY <1>1 DEF IntakeTyped, IntakeFlags, I!convertVars
<1>3. ASSUME NEW f \in Files, I!SanitizeFile(p, f)
      PROVE  Moved(p)
  BY <1>1, <1>3 DEF I!SanitizeFile, I!Goto, I!Identified, I!convertVars, Moved, Places, Identities
<1>4. ASSUME I!IdentifyFile(p) \/ I!ParseKustomization(p)
      PROVE  Moved(p)
  <2>1. UNCHANGED <<taken, intakes, kills, saved, exitFunc>>
    BY <1>1, <1>4 DEF I!IdentifyFile, I!ParseKustomization, I!convertVars
  <2>2. \/ I!Goto(p, "convert") /\ identified' = identified
        \/ \E s \in {"design", "manifest", "chart", "kustomize", "error"} : I!Identified(p, s)
    <3>1. I!ParseKustomization(p) => I!Identified(p, "kustomize") \/ I!Identified(p, "error")
      BY DEF I!ParseKustomization
    <3>2. I!IdentifyFile(p) => \/ I!Goto(p, "convert") /\ identified' = identified
                              \/ I!Identified(p, "design") \/ I!Identified(p, "manifest")
                              \/ I!Identified(p, "chart")
      BY Zenon DEF I!IdentifyFile
    <3> QED
      BY <1>4, <3>1, <3>2
  <2> QED
    BY <2>1, <2>2 DEF I!Identified, I!Goto, Moved, Places, Identities
<1> QED
  BY <1>2, <1>3, <1>4

LEMMA TConvert ==
    ASSUME IntakeTyped, NEW p \in Callers, I!Convert(p)
    PROVE  Moved(p) /\ IntakeFlags'
<1>1. IntakeFlags'
  <2>1. exited' = exited /\ (disturbed' = disturbed \/ disturbed' \in BOOLEAN)
    BY Zenon DEF I!Convert, I!BeginConvert, I!WriteInput, I!VersionCheck, I!Kompose, I!ReadResult,
                 I!RemoveFiles, I!RestoreExit
  <2> QED
    BY <2>1, Zenon DEF IntakeTyped, IntakeFlags
<1>2. UNCHANGED <<taken, intakes, kills>>
  BY DEF I!Convert, I!BeginConvert, I!WriteInput, I!VersionCheck, I!Kompose, I!ReadResult,
         I!RemoveFiles, I!RestoreExit, I!Unconverted
<1>3. \E s \in Places : I!Goto(p, s)
  <2>1. I!RestoreExit(p) => I!Goto(p, "kustomize") \/ I!Goto(p, "idle")
    BY Zenon DEF I!RestoreExit, I!Identified
  <2>2. I!VersionCheck(p) => I!Goto(p, "clean") \/ I!Goto(p, "kompose")
    BY DEF I!VersionCheck
  <2>3. /\ I!BeginConvert(p) => I!Goto(p, "write")
        /\ I!WriteInput(p) => I!Goto(p, "check") \/ I!Goto(p, "restore")
        /\ I!Kompose(p) => I!Goto(p, "read") \/ I!Goto(p, "clean")
        /\ I!ReadResult(p) => I!Goto(p, "clean")
        /\ I!RemoveFiles(p) => I!Goto(p, "restore")
    BY Zenon DEF I!BeginConvert, I!WriteInput, I!Kompose, I!ReadResult, I!RemoveFiles
  <2> QED
    BY <2>1, <2>2, <2>3 DEF I!Convert, Places
<1>4. identified' = identified \/ identified' = [identified EXCEPT ![p] = "compose"]
  BY Zenon DEF I!Convert, I!BeginConvert, I!WriteInput, I!VersionCheck, I!Kompose, I!ReadResult,
         I!RemoveFiles, I!RestoreExit, I!Identified
<1>5. /\ saved' = saved \/ saved' = [saved EXCEPT ![p] = exitFunc]
      /\ exitFunc' = exitFunc \/ exitFunc' = "ignore" \/ exitFunc' = saved[p]
  BY Zenon DEF I!Convert, I!BeginConvert, I!WriteInput, I!VersionCheck, I!Kompose, I!ReadResult,
         I!RemoveFiles, I!RestoreExit
<1> QED
  BY <1>1, <1>2, <1>3, <1>4, <1>5 DEF Moved, I!Goto, Identities

LEMMA IntakeTypedStep ==
    ASSUME IntakeTyped, [LibraryNext]_libraryVars
    PROVE  IntakeTyped'
<1>1. ASSUME I!Restart, exited' = exited \/ exited' = TRUE,
             kills' = kills \/ (kills < MaxKills /\ kills' = kills + 1)
      PROVE  IntakeTyped'
  <2>1. IntakeFlags'
    <3>1. disturbed' = (disturbed \/ I!Converting # {})
      BY <1>1, Zenon DEF I!Restart
    <3> QED
      BY <3>1, <1>1, Zenon DEF IntakeTyped, IntakeFlags
  <2>2. /\ taking' = [q \in Callers |-> "idle"] /\ taken' = [q \in Callers |-> I!NoFile]
        /\ identified' = [q \in Callers |-> "none"] /\ saved' = [q \in Callers |-> "exit"]
        /\ exitFunc' = "exit" /\ intakes' = intakes
    BY <1>1, Zenon DEF I!Restart
  <2>3. MaxKills \in Nat
    BY PartsAssumption
  <2>4. kills' \in 0 .. MaxKills
    BY <1>1, <2>3 DEF IntakeTyped
  <2> QED
    BY <2>1, <2>2, <2>4 DEF IntakeTyped, Places, Identities, Exits
<1>2. CASE UNCHANGED fileIntake
  <2>1. UNCHANGED <<taking, taken, identified, exitFunc, saved, intakes, kills, exited, disturbed>>
    BY <1>2 DEF fileIntake
  <2> QED
    BY <2>1 DEF IntakeTyped, IntakeFlags
<1>3. ASSUME NEW p \in Callers, I!KomposeExits(p)
      PROVE  IntakeTyped'
  BY <1>1, <1>3, Zenon DEF I!KomposeExits
<1>4. CASE I!Kill
  BY <1>1, <1>4, Zenon DEF I!Kill
<1>5. ASSUME NEW p \in Callers,
             \/ (\E f \in Files : I!SanitizeFile(p, f)) \/ I!IdentifyFile(p)
             \/ I!ParseKustomization(p) \/ I!Convert(p)
      PROVE  IntakeTyped'
  BY <1>5, TQuiet, TConvert, TMoved
<1> QED
  BY <1>2, <1>3, <1>4, <1>5, IntakeStep DEF I!IntakeNext

LEMMA IntakeTypedInit ==
    ASSUME LibraryInit
    PROVE  IntakeTyped
<1>1. I!IntakeInit
  BY DEF LibraryInit
<1>2. IntakeFlags
  BY <1>1, Zenon DEF I!IntakeInit, IntakeFlags
<1>3. MaxIntakes \in Nat /\ MaxKills \in Nat
  BY PartsAssumption
<1>4. /\ taking = [q \in Callers |-> "idle"] /\ taken = [q \in Callers |-> I!NoFile]
      /\ identified = [q \in Callers |-> "none"] /\ saved = [q \in Callers |-> "exit"]
      /\ exitFunc = "exit" /\ intakes = 0 /\ kills = 0
  BY <1>1, Zenon DEF I!IntakeInit
<1> QED
  BY <1>2, <1>3, <1>4 DEF IntakeTyped, Places, Identities, Exits

LEMMA IntakeTypeOK == IntakeTyped => I!IntakeTypeOK
<1>1. ASSUME IntakeTyped, NEW p \in Callers
      PROVE  /\ taking[p] \in {"idle", "identify", "convert", "kustomize"} \/ p \in I!Converting
             /\ taken[p] \in Files \cup {I!NoFile}
             /\ saved[p] \in {"exit", "ignore"}
             /\ identified[p] \in {"none", "error", "design", "manifest", "chart", "compose",
                                   "kustomize"}
  BY <1>1 DEF IntakeTyped, Places, Identities, Exits, I!Converting
<1>2. IntakeTyped => /\ exitFunc \in {"exit", "ignore"} /\ intakes \in 0 .. MaxIntakes
                     /\ kills \in 0 .. MaxKills
  BY DEF IntakeTyped, Exits
<1>3. IntakeTyped => exited \in BOOLEAN /\ disturbed \in BOOLEAN
  BY Zenon DEF IntakeTyped, IntakeFlags
<1> QED
  BY <1>1, <1>2, <1>3, Zenon DEF I!IntakeTypeOK

-----------------------------------------------------------------------------
\* Every component is typed; those that are not of the part that runs are as
\* they were at the beginning.
AllTyped ==
    /\ part \in Parts
    /\ CallsTyped /\ OperatorTyped /\ ClusterTyped
    /\ ForwarderTyped /\ ForwarderInv
    /\ ManifestTyped /\ ExposeTyped
    /\ ValidatorTypes /\ ValidatorInv
    /\ CodesTyped
    /\ ModSyncTypeOK /\ SyncInv
    /\ IntakeTyped
    /\ SourcesTypeOK /\ SourcesInv
    /\ RefsInv /\ GithubInv

LEMMA AllTypedStep ==
    ASSUME AllTyped, [LibraryNext]_libraryVars
    PROVE  AllTyped'
<1>1. part' \in Parts
  BY Zenon DEF AllTyped, LibraryNext, libraryVars
<1>2. CallsTyped'
  BY RegistryStep, CallsTypedStep DEF AllTyped
<1>3. OperatorTyped'
  BY OperatorStep, OperatorTypedStep DEF AllTyped
<1>4. ClusterTyped' /\ ManifestTyped' /\ ExposeTyped' /\ CodesTyped' /\ IntakeTyped'
  BY ClusterTypedStep, ManifestTypedStep, ExposeTypedStep, CodesTypedStep, IntakeTypedStep
     DEF AllTyped
<1>5. ForwarderTyped' /\ ForwarderInv'
  BY ForwarderTypedStep, ForwarderStep DEF AllTyped
<1>6. ValidatorInv' /\ ValidatorTypes'
  BY PartsStep, ValidatorStepInv, VTypesStep DEF AllTyped
<1>7. ModSyncTypeOK' /\ SyncInv'
  BY PartsStep, SyncTypes, SyncStepInv DEF AllTyped
<1>8. SourcesTypeOK' /\ SourcesInv'
  <2>1. ClonePhases
    BY DEF AllTyped, SourcesInv
  <2> QED
    BY <2>1, PartsStep, SourceTypesStep, SourcesStepInv DEF AllTyped
<1>9. RefsInv' /\ GithubInv'
  BY PartsStep, RefsStepInv, GithubStepInv DEF AllTyped
<1> QED
  BY <1>1, <1>2, <1>3, <1>4, <1>5, <1>6, <1>7, <1>8, <1>9 DEF AllTyped

LEMMA AllTypedInit ==
    ASSUME LibraryInit
    PROVE  AllTyped
<1>1. /\ part \in Parts /\ Init /\ ValidatorInit /\ ModSyncInit
      /\ SourcesInit /\ RefsInit /\ GithubInit
  BY DEF LibraryInit
<1>2. CallsTyped /\ OperatorTyped /\ ClusterTyped /\ ForwarderTyped /\ ForwarderInv
  BY <1>1, CallsTypedInit, OperatorTypedInit, ClusterTypedInit, ForwarderTypedInit, ForwarderInit
<1>3. ManifestTyped /\ ExposeTyped /\ CodesTyped /\ IntakeTyped
  BY ManifestTypedInit, ExposeTypedInit, CodesTypedInit, IntakeTypedInit
<1>4. ValidatorTypes /\ ValidatorInv /\ ModSyncTypeOK /\ SyncInv
  BY <1>1, VTypesInit, ValidatorInitInv, SyncTypesInit, SyncInitInv
<1>5. SourcesTypeOK /\ SourcesInv /\ RefsInv /\ GithubInv
  BY <1>1, SourceTypesInit, SourcesInitInv, RefsInitInv, GithubInitInv
<1> QED
  BY <1>1, <1>2, <1>3, <1>4, <1>5 DEF AllTyped

LEMMA AllTypesOK == AllTyped => TypesOK
<1> SUFFICES ASSUME AllTyped
             PROVE  TypesOK
  OBVIOUS
<1>1. part \in {"registration", "operator", "cluster", "forwarder", "manifest", "expose",
                "validator", "codes", "modsync", "files", "sources", "references", "github"}
  BY PartsAssumption DEF AllTyped
<1>2. TypeOK /\ O!TypeOK /\ C!ClusterTypeOK /\ P!ForwarderTypeOK
  BY CallsTypeOK, OperatorTypeOK, ClusterTypeOK, ForwarderTypeOK DEF AllTyped
<1>3. M!ManifestTypeOK /\ X!ExposeTypeOK /\ E!ErrorCodesTypeOK /\ I!IntakeTypeOK
  BY ManifestTypeOK, ExposeTypeOK, CodesTypeOK, IntakeTypeOK DEF AllTyped
<1>4. ValidatorTypeOK /\ ModSyncTypeOK /\ SourcesTypeOK
  BY DEF AllTyped, ValidatorTypes
<1>5. RefsTypeOK /\ GithubTypeOK
  BY RefsTypes, GithubTypes DEF AllTyped
<1>6. CASE part = "registration"
  BY <1>2, <1>6, Zenon DEF TypesOK
<1>7. CASE part = "operator"
  BY <1>2, <1>7, Zenon DEF TypesOK
<1>8. CASE part = "cluster"
  BY <1>2, <1>8, Zenon DEF TypesOK
<1>9. CASE part = "forwarder"
  BY <1>2, <1>9, Zenon DEF TypesOK
<1>10. CASE part = "manifest"
  BY <1>3, <1>10, Zenon DEF TypesOK
<1>11. CASE part = "expose"
  BY <1>3, <1>11, Zenon DEF TypesOK
<1>12. CASE part = "validator"
  BY <1>4, <1>12, Zenon DEF TypesOK
<1>13. CASE part = "codes"
  BY <1>3, <1>13, Zenon DEF TypesOK
<1>14. CASE part = "modsync"
  BY <1>4, <1>14, Zenon DEF TypesOK
<1>15. CASE part = "files"
  BY <1>3, <1>15, Zenon DEF TypesOK
<1>16. CASE part = "sources"
  BY <1>4, <1>16, Zenon DEF TypesOK
<1>17. CASE part = "references"
  BY <1>5, <1>17, Zenon DEF TypesOK
<1>18. CASE part = "github"
  BY <1>5, <1>18, Zenon DEF TypesOK
<1> QED
  BY <1>1, <1>6, <1>7, <1>8, <1>9, <1>10, <1>11, <1>12, <1>13, <1>14, <1>15, <1>16, <1>17, <1>18

(***************************************************************************)
(* TypesOK, for any constants: whichever component runs, its variables     *)
(* have their types.  Beyond types that says that what is still to be      *)
(* registered is an end of what the directory defines, a downloaded file   *)
(* is a chart or broken off, what is being compiled is not in the cache, a *)
(* clone is there only while it is walked or given up, and the code that a *)
(* pass gives next is not behind the counter.                              *)
(***************************************************************************)
THEOREM LibraryTyped == LibrarySpec => []TypesOK
<1>1. LibraryInit => AllTyped
  BY AllTypedInit
<1>2. AllTyped /\ [LibraryNext]_libraryVars => AllTyped'
  BY AllTypedStep
<1> QED
  BY <1>1, <1>2, AllTypesOK, PTL DEF LibrarySpec

=============================================================================
