------------------------------- MODULE ModSync -------------------------------
(***************************************************************************)
(* The module sync utility: the lines of a destination's go.mod that       *)
(* require a module of the source are changed to its version, and one      *)
(* block of replace directives is written that pins every module of the    *)
(* source.                                                                 *)
(***************************************************************************)
EXTENDS Selections, SequencesExt

CONSTANTS
    Sources,       \* go.mod files of the host: records [requires, replaces]
    Destinations,  \* go.mod files of extensions
    Suffix,        \* pairs of names <<a, b>>: a line that requires b contains "a "
    Infix,         \* pairs of versions <<v, w>>: the text w contains v
    MaxSyncs       \* bound: runs of the utility

\* A line that requires is [name, version, form], its form "block", "single"
\* for one outside a block, "comment", or "bare", which no Go tool accepts;
\* a replacement is [from, version, to, at], with the version or "".

IsLine(l) ==
    /\ l = [name |-> l.name, version |-> l.version, form |-> l.form]
    /\ l.form \in {"block", "single", "comment"}

\* A go.mod file has lines, and the host's requires a module once.  A version
\* contains itself.
ASSUME ModSyncAssumption ==
    /\ \A g \in Sources \cup Destinations :
         /\ IsSequence(g.requires) /\ IsSequence(g.replaces)
         /\ \A l \in ToSet(g.requires) : IsLine(l) /\ <<l.version, l.version>> \in Infix
    /\ \A g \in Sources : \A l, m \in ToSet(g.requires) :
         l.form = "block" /\ m.form = "block" /\ l.name = m.name => l = m
    /\ MaxSyncs \in Nat

VARIABLES source, gomod, synced, syncs

syncVars == <<source, gomod, synced, syncs>>

NoFile == [requires |-> <<>>, replaces |-> <<>>]

ModSyncInit == source = <<>> /\ gomod = NoFile /\ synced = FALSE /\ syncs = 0
-----------------------------------------------------------------------------
\* New: requirements are read from blocks only, and not from comments.
RequiredVersions(g) == Those(g.requires, {l \in ToSet(g.requires) : l.form = "block"})

\* The line mentions the module with another version.
Differs(r, l) == <<r.name, l.name>> \in Suffix /\ <<r.version, l.version>> \notin Infix

\* It becomes the requirement of the source, without its "require" or "//".
Updated(r, l) ==
    IF Differs(r, l)
    THEN [r EXCEPT !.form = IF l.form = "single" THEN "bare" ELSE
                            IF l.form = "comment" THEN "block" ELSE l.form]
    ELSE l

\* A line after the requirements rs, one after the other.
Followed(rs, l) ==
    LET upTo[k \in 0 .. Len(rs)] == IF k = 0 THEN l ELSE Updated(rs[k], upTo[k - 1])
    IN  upTo[Len(rs)]

SyncedRequires(g, d) ==
    [i \in DOMAIN d.requires |-> Followed(RequiredVersions(g), d.requires[i])]

\* --err: the first line that differs is an error.
Mismatched(g, d) ==
    \E r \in ToSet(RequiredVersions(g)), l \in ToSet(d.requires) : Differs(r, l)

\* Mutant: the later replacement of a module is added too.
AddReplaceAgain(rs, r) == Append(rs, r)

AddReplace(rs, r) ==
    IF \E x \in ToSet(rs) : x.from = r.from THEN rs ELSE Append(rs, r)

\* Of the replacements of each module the first one.
Merged(rs) ==
    LET upTo[i \in 0 .. Len(rs)] ==
          IF i = 0 THEN <<>> ELSE AddReplace(upTo[i - 1], rs[i])
    IN  upTo[Len(rs)]

\* The source's replacements, a pin for each of its requirements, and what
\* the destination replaces besides.
Replaces(g, d) ==
    LET required == RequiredVersions(g)
        pins == [i \in DOMAIN required |->
                   [from |-> required[i].name, version |-> "",
                    to |-> required[i].name, at |-> required[i].version]]
    IN  Merged(g.replaces \o pins \o d.replaces)

Synced(g, d) == [requires |-> SyncedRequires(g, d), replaces |-> Replaces(g, d)]
-----------------------------------------------------------------------------
Choose ==
    /\ source = <<>>
    /\ \E g \in Sources : source' = <<g>>
    /\ gomod' \in Destinations
    /\ UNCHANGED <<synced, syncs>>

\* The destination is rewritten; with --err only if nothing differs.
SyncRequire(throwerr) ==
    /\ source # <<>>
    /\ syncs < MaxSyncs
    /\ syncs' = syncs + 1
    /\ ~(throwerr /\ Mismatched(source[1], gomod))
    /\ gomod' = Synced(source[1], gomod)
    /\ synced' = TRUE
    /\ UNCHANGED source

ModSyncNext ==
    \/ Choose
    \/ \E throwerr \in BOOLEAN : SyncRequire(throwerr)
-----------------------------------------------------------------------------
ModSyncTypeOK ==
    /\ source = <<>> \/ source[1] \in Sources
    /\ \A l \in ToSet(gomod.requires) : l.form \in {"block", "single", "comment", "bare"}
    /\ syncs \in 0 .. MaxSyncs

\* The line of one module of the source is taken for that of another too.
Confused(g) ==
    \E r, l \in ToSet(RequiredVersions(g)) : r # l /\ <<r.name, l.name>> \in Suffix

(***************************************************************************)
(* One replacement per module: after a sync each module that the source    *)
(* requires or replaces has exactly one, the source's own before the pin,  *)
(* however often the destination replaced it; and another sync is a no-op, *)
(* as TestIdempotent has it, for the replacements always and for the lines *)
(* that require unless the name of one module ends in that of another.     *)
(***************************************************************************)
OneReplacement ==
    synced =>
        LET rs == ToSet(gomod.replaces)
        IN  /\ \A i, j \in DOMAIN gomod.replaces :
                 gomod.replaces[i].from = gomod.replaces[j].from => i = j
            /\ \A r \in ToSet(RequiredVersions(source[1])) :
                 \/ \E x \in rs : x.from = r.name /\ x.at = r.version
                 \/ \E x \in ToSet(source[1].replaces) : x.from = r.name /\ x \in rs
            /\ Replaces(source[1], gomod) = gomod.replaces
            /\ Confused(source[1]) \/ SyncedRequires(source[1], gomod) = gomod.requires
=============================================================================
