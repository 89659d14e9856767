----------------------------- MODULE Selections -----------------------------
(***************************************************************************)
(* What is selected from a sequence, and sequences one after another, as   *)
(* functions of how far one got.  Theorems can be proved about them;       *)
(* SelectSeq and the folds have no definition for a prover.                *)
(***************************************************************************)
EXTENDS Naturals, Sequences

\* The elements of s that are in S, in their order.
Those(s, S) ==
    LET upTo[i \in 0 .. Len(s)] ==
          IF i = 0 THEN <<>>
          ELSE IF s[i] \in S THEN Append(upTo[i - 1], s[i]) ELSE upTo[i - 1]
    IN  upTo[Len(s)]

\* The sequences of ss one after another.
Joined(ss) ==
    LET upTo[i \in 0 .. Len(ss)] == IF i = 0 THEN <<>> ELSE upTo[i - 1] \o ss[i]
    IN  upTo[Len(ss)]

IsSequence(s) == s \in Seq({s[i] : i \in DOMAIN s})
=============================================================================
