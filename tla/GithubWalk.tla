----------------------------- MODULE GithubWalk -----------------------------
(***************************************************************************)
(* The walker of a repository through the API of GitHub: it asks for a     *)
(* path, hands a file to the file interceptor, and starts a goroutine for  *)
(* every entry of a directory, which it hands to the directory interceptor *)
(* when these are done.                                                    *)
(***************************************************************************)
EXTENDS Selections, SequencesExt, Functions

CONSTANTS Trees  \* see below

\* A tree is [root, named, recurse, kind, entries]: named says that the root
\* has an extension, which makes it a file for the walker; kind maps paths to
\* "file", "dir", or "link" for what is neither; entries their contents.

\* The root is in no directory and every other path in at most one, and what
\* contains what ends somewhere.
ASSUME GithubAssumption ==
    \A t \in Trees :
      LET paths == DOMAIN t.kind
          in(p) == ToSet(t.entries[p])
      IN  /\ t.root \in paths
          /\ \A p \in paths :
               /\ IsSequence(t.entries[p]) /\ IsInjective(t.entries[p])
               /\ in(p) \subseteq paths \ {t.root}
               /\ \A q \in paths : p # q => in(p) \cap in(q) = {}
          /\ \A ps \in SUBSET paths :
               ps # {} => \E p \in ps : \A q \in ps : p \notin in(q)

VARIABLES
    tree,        \* <<the tree>>, once Walk was called
    walker,      \* what the walker of each path does
    spawned,     \* goroutines started for the entries of a directory
    group,       \* its wait group
    broken,      \* paths whose walker returned an error
    intercepted  \* paths handed to an interceptor

githubVars == <<tree, walker, spawned, group, broken, intercepted>>

GithubInit ==
    /\ tree = <<>> /\ broken = {} /\ intercepted = <<>>
    /\ walker = <<>> /\ spawned = <<>> /\ group = <<>>

Tree == tree[1]
Paths == DOMAIN walker
IsFile(p) == IF p = Tree.root THEN Tree.named ELSE Tree.kind[p] = "file"

Walk(t) ==
    /\ tree = <<>>
    /\ tree' = <<t>>
    /\ walker' = [p \in DOMAIN t.kind |-> IF p = t.root THEN "asks" ELSE "none"]
    /\ spawned' = [p \in DOMAIN t.kind |-> 0]
    /\ group' = [p \in DOMAIN t.kind |-> 0]
    /\ UNCHANGED <<broken, intercepted>>

Returns(p) == walker' = [walker EXCEPT ![p] = "returned"]
Intercept(p) ==
    /\ intercepted' = Append(intercepted, p)
    /\ broken' \in {broken, broken \cup {p}}
    /\ Returns(p)

\* The request fails, by the limit of the API among others, or the answer is
\* not what was asked for: an array for a file, an object for a directory.
RequestFails(p) ==
    /\ walker[p] = "asks"
    /\ broken' = broken \cup {p}
    /\ Returns(p)
    /\ UNCHANGED <<tree, spawned, group, intercepted>>

Answered(p) == walker[p] = "asks" /\ IsFile(p) = (Tree.kind[p] # "dir")

FileAnswer(p) ==
    /\ Answered(p) /\ IsFile(p)
    /\ Intercept(p)
    /\ UNCHANGED <<tree, spawned, group>>

DirAnswer(p) ==
    /\ Answered(p) /\ ~IsFile(p)
    /\ walker' = [walker EXCEPT ![p] = "spawns"]
    /\ UNCHANGED <<tree, spawned, group, broken, intercepted>>

\* One turn of the loop; without "/**" directories are not walked.
Spawn(p) ==
    /\ walker[p] = "spawns" /\ spawned[p] < Len(Tree.entries[p])
    /\ LET e == Tree.entries[p][spawned[p] + 1]
       IN  walker' = [walker EXCEPT ![e] = IF Tree.recurse \/ IsFile(e) THEN "asks"
                                           ELSE "returned"]
    /\ spawned' = [spawned EXCEPT ![p] = @ + 1]
    /\ group' = [group EXCEPT ![p] = @ + 1]
    /\ UNCHANGED <<tree, broken, intercepted>>

\* The error of an entry's walker is logged.
EntryDone(e) ==
    /\ walker[e] = "returned" /\ e # Tree.root
    /\ walker' = [walker EXCEPT ![e] = "done"]
    /\ group' = [p \in Paths |-> IF e \in ToSet(Tree.entries[p]) THEN group[p] - 1 ELSE group[p]]
    /\ UNCHANGED <<tree, spawned, broken, intercepted>>

\* wg.Wait returned.
InterceptDir(p) ==
    /\ walker[p] = "spawns" /\ spawned[p] = Len(Tree.entries[p])
    /\ group[p] = 0
    /\ Intercept(p)
    /\ UNCHANGED <<tree, spawned, group>>

GithubNext ==
    \/ \E t \in Trees : Walk(t)
    \/ \E p \in Paths : RequestFails(p) \/ FileAnswer(p) \/ DirAnswer(p) \/ Spawn(p)
                        \/ EntryDone(p) \/ InterceptDir(p)
-----------------------------------------------------------------------------
GithubTypeOK ==
    /\ tree = <<>> \/ Tree \in Trees
    /\ \A p \in Paths : /\ walker[p] \in {"none", "asks", "spawns", "returned", "done"}
                        /\ group[p] \in 0 .. spawned[p]
    /\ broken \subseteq Paths

(***************************************************************************)
(* Walk returns after every goroutine it started, however deep, no path is *)
(* handed out twice, and a directory comes after all of its entries that   *)
(* are walked, but for those whose walker failed.                          *)
(***************************************************************************)
EntriesFirst ==
    /\ IsInjective(intercepted)
    /\ \A i \in DOMAIN intercepted, e \in Paths :
         (/\ Tree.kind[intercepted[i]] = "dir"
          /\ e \in ToSet(Tree.entries[intercepted[i]])
          /\ Tree.recurse \/ IsFile(e)) =>
            e \in broken \/ e \in ToSet(SubSeq(intercepted, 1, i - 1))
    /\ tree # <<>> /\ walker[Tree.root] = "returned" =>
         /\ \A p \in Paths \ {Tree.root} : walker[p] \in {"none", "done"}
         /\ Tree.root \in broken \cup ToSet(intercepted)
=============================================================================
