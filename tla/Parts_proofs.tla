---------------------------- MODULE Parts_proofs ----------------------------
(***************************************************************************)
(* Inductive invariants of the components of the library whose state no    *)
(* other one shares: the module sync utility, the schema validator, the    *)
(* inlining of references, the walk over the GitHub API and the            *)
(* generators.  Each has three facts: it holds at the beginning, a step of *)
(* the component or of another one keeps it, and it implies the property.  *)
(***************************************************************************)
EXTENDS ModSync, SchemaValidator, SchemaRefs, GithubWalk, Sources, Selections_proofs

-----------------------------------------------------------------------------
(***************************************************************************)
(* The replacements.  Merging takes the first of each module and keeps     *)
(* what it has: the merged list begins with what was merged before, and    *)
(* merging it again behind the same beginning changes nothing.             *)
(***************************************************************************)
MergeSteps(g, rs) ==
    /\ g[0] = <<>>
    /\ \A i \in 1 .. Len(rs) : g[i] = AddReplace(g[i - 1], rs[i])

OnePerModule(s) == \A i, j \in DOMAIN s : s[i].from = s[j].from => i = j

\* Sequence t begins with s.
Begins(s, t) == Len(s) <= Len(t) /\ \A i \in 1 .. Len(s) : t[i] = s[i]

\* What the first k replacements leave comes from them, and is of all of them.
FirstOf(s, rs, k) ==
    /\ ToSet(s) \subseteq {rs[j] : j \in 1 .. k}
    /\ \A j \in 1 .. k : \E x \in ToSet(s) : x.from = rs[j].from

LEMMA Adding ==
    ASSUME NEW A, NEW s \in Seq(A), NEW x \in A
    PROVE  /\ AddReplace(s, x) \in Seq(A)
           /\ ToSet(AddReplace(s, x)) \subseteq ToSet(s) \cup {x}
           /\ \E y \in ToSet(AddReplace(s, x)) : y.from = x.from
           /\ OnePerModule(s) => OnePerModule(AddReplace(s, x))
           /\ Begins(s, AddReplace(s, x))
<1>1. CASE \E y \in ToSet(s) : y.from = x.from
  <2>1. AddReplace(s, x) = s
    BY <1>1 DEF AddReplace
  <2> QED
    BY <1>1, <2>1 DEF Begins
<1>2. CASE ~\E y \in ToSet(s) : y.from = x.from
  <2>1. AddReplace(s, x) = Append(s, x)
    BY <1>2 DEF AddReplace
  <2>2. Append(s, x) \in Seq(A) /\ ToSet(Append(s, x)) = ToSet(s) \cup {x}
    BY AppendElements
  <2>3. /\ DOMAIN s = 1 .. Len(s) /\ Len(s) \in Nat
        /\ DOMAIN Append(s, x) = 1 .. Len(s) + 1 /\ Len(Append(s, x)) = Len(s) + 1
        /\ \A i \in 1 .. Len(s) : Append(s, x)[i] = s[i]
        /\ Append(s, x)[Len(s) + 1] = x
    OBVIOUS
  <2>4. \A i \in 1 .. Len(s) : s[i].from # x.from
    BY <1>2, <2>3 DEF ToSet
  <2>5. OnePerModule(s) => OnePerModule(Append(s, x))
    BY <2>3, <2>4 DEF OnePerModule
  <2> QED
    BY <2>1, <2>2, <2>3, <2>5 DEF Begins
<1> QED
  BY <1>1, <1>2

LEMMA MergedUpTo ==
    ASSUME NEW A, NEW rs \in Seq(A)
    PROVE  \E g \in [0 .. Len(rs) -> Seq(A)] : MergeSteps(g, rs) /\ Merged(rs) = g[Len(rs)]
<1> DEFINE n == Len(rs)
           F == [p \in Seq(A) \X (1 .. n) |-> AddReplace(p[1], rs[p[2]])]
           Step(w, i) == AddReplace(w[i - 1], rs[i])
           H(w) == w = [i \in 0 .. n |-> IF i = 0 THEN <<>> ELSE Step(w, i)]
<1>1. n \in Nat /\ <<>> \in Seq(A) /\ F \in [Seq(A) \X (1 .. n) -> Seq(A)]
  <2>1. n \in Nat /\ <<>> \in Seq(A)
    OBVIOUS
  <2>2. ASSUME NEW p \in Seq(A) \X (1 .. n)
        PROVE  AddReplace(p[1], rs[p[2]]) \in Seq(A)
    <3>1. p[1] \in Seq(A) /\ rs[p[2]] \in A
      OBVIOUS
    <3> QED
      BY <3>1, Adding
  <2> QED
    BY <2>1, <2>2
<1>2. PICK g \in [0 .. n -> Seq(A)] : Steps(g, n, <<>>, F)
  <2> DEFINE T == Seq(A)
  <2>1. <<>> \in T /\ F \in [T \X (1 .. n) -> T]
    BY <1>1
  <2> HIDE DEF n, F, T
  <2>2. \E g \in [0 .. n -> T] : Steps(g, n, <<>>, F)
    BY <1>1, <2>1, Recursion
  <2> QED
    BY <2>2 DEF T
<1>3. ASSUME NEW i \in 1 .. n
      PROVE  g[i] = Step(g, i)
  <2>1. i - 1 \in 0 .. n
    BY <1>1
  <2>2. g[i - 1] \in Seq(A)
    BY <2>1, <1>2
  <2>3. <<g[i - 1], i>> \in Seq(A) \X (1 .. n)
    BY <2>2
  <2> QED
    BY <2>3, <1>2 DEF Steps
<1>4. H(g)
  <2>1. \A i \in 0 .. n : g[i] = IF i = 0 THEN <<>> ELSE Step(g, i)
    <3>1. g[0] = <<>>
      BY <1>2 DEF Steps
    <3>2. \A i \in 0 .. n : i = 0 \/ i \in 1 .. n
      BY <1>1
    <3> HIDE DEF n, Step
    <3> QED
      BY <3>1, <3>2, <1>3
  <2> HIDE DEF n, Step
  <2> QED
    BY <2>1, <1>2
<1> DEFINE w == CHOOSE v : H(v)
<1>5. Merged(rs) = w[n]
  BY DEF Merged
<1>6. H(w)
  BY <1>4
<1> HIDE DEF w
<1>7. /\ w[0] = <<>>
      /\ \A i \in 1 .. n : w[i] = Step(w, i)
  <2>1. \A i \in 0 .. n : w[i] = IF i = 0 THEN <<>> ELSE Step(w, i)
    <3> HIDE DEF n, Step
    <3> QED
      BY <1>6
  <2>2. 0 \in 0 .. n /\ \A i \in 1 .. n : i \in 0 .. n /\ i # 0
    BY <1>1
  <2> HIDE DEF n, Step
  <2> QED
    BY <2>1, <2>2
<1>8. w[n] = g[n]
  <2> DEFINE G == {k \in 0 .. n : w[k] = g[k]}
  <2>1. 0 \in G
    BY <1>1, <1>2, <1>7 DEF Steps
  <2>2. ASSUME NEW i \in 1 .. n, i - 1 \in G
        PROVE  i \in G
    BY <2>2, <1>3, <1>7
  <2> HIDE DEF G
  <2>3. 0 .. n \subseteq G
    <3> HIDE DEF n
    <3> QED
      BY <1>1, <2>1, <2>2, Counting
  <2> QED
    BY <1>1, <2>3 DEF G
<1>9. MergeSteps(g, rs)
  <2>1. g[0] = <<>>
    BY <1>2 DEF Steps
  <2> QED
    BY <1>3, <2>1 DEF MergeSteps
<1> QED
  BY <1>2, <1>5, <1>8, <1>9

\* What is merged stays at the beginning, is of the list, one of each module.
LEMMA MergeElements ==
    ASSUME NEW A, NEW rs \in Seq(A), NEW g \in [0 .. Len(rs) -> Seq(A)], MergeSteps(g, rs)
    PROVE  \A k \in 0 .. Len(rs) : OnePerModule(g[k]) /\ FirstOf(g[k], rs, k)
<1> DEFINE n == Len(rs)
           Good(k) == /\ OnePerModule(g[k])
                      /\ ToSet(g[k]) \subseteq {rs[j] : j \in 1 .. k}
                      /\ \A j \in 1 .. k : \E x \in ToSet(g[k]) : x.from = rs[j].from
           G == {k \in 0 .. n : Good(k)}
<1>1. n \in Nat
  OBVIOUS
<1>2. 0 \in G
  <2>1. g[0] = <<>>
    BY DEF MergeSteps
  <2>2. Good(0)
    BY <2>1 DEF OnePerModule, ToSet
  <2> QED
    BY <1>1, <2>2
<1>3. ASSUME NEW i \in 1 .. n, i - 1 \in G
      PROVE  i \in G
  <2>1. /\ g[i - 1] \in Seq(A) /\ rs[i] \in A /\ i \in 0 .. n /\ i - 1 \in 0 .. n
        /\ g[i] = AddReplace(g[i - 1], rs[i])
        /\ \A j \in 1 .. i : j = i \/ j \in 1 .. i - 1
        /\ \A j \in 1 .. i - 1 : j \in 1 .. i
    BY <1>1 DEF MergeSteps
  <2>2. /\ ToSet(g[i]) \subseteq ToSet(g[i - 1]) \cup {rs[i]}
        /\ \E y \in ToSet(g[i]) : y.from = rs[i].from
        /\ OnePerModule(g[i - 1]) => OnePerModule(g[i])
        /\ Begins(g[i - 1], g[i]) /\ g[i] \in Seq(A)
    <3>1. ASSUME NEW b \in Seq(A), NEW x \in A
          PROVE  /\ ToSet(AddReplace(b, x)) \subseteq ToSet(b) \cup {x}
                 /\ \E y \in ToSet(AddReplace(b, x)) : y.from = x.from
                 /\ OnePerModule(b) => OnePerModule(AddReplace(b, x))
                 /\ Begins(b, AddReplace(b, x)) /\ AddReplace(b, x) \in Seq(A)
      BY Adding
    <3>2. /\ ToSet(AddReplace(g[i - 1], rs[i])) \subseteq ToSet(g[i - 1]) \cup {rs[i]}
          /\ \E y \in ToSet(AddReplace(g[i - 1], rs[i])) : y.from = rs[i].from
          /\ OnePerModule(g[i - 1]) => OnePerModule(AddReplace(g[i - 1], rs[i]))
          /\ Begins(g[i - 1], AddReplace(g[i - 1], rs[i])) /\ AddReplace(g[i - 1], rs[i]) \in Seq(A)
      BY <2>1, <3>1
    <3> QED
      BY <2>1, <3>2, Zenon
  <2>3. ToSet(g[i - 1]) \subseteq ToSet(g[i])
    <3>1. /\ DOMAIN g[i - 1] = 1 .. Len(g[i - 1]) /\ DOMAIN g[i] = 1 .. Len(g[i])
          /\ Len(g[i - 1]) \in Nat /\ Len(g[i]) \in Nat
      BY <2>1, <2>2
    <3> QED
      BY <2>2, <3>1 DEF ToSet, Begins
  <2>4. Good(i - 1)
    BY <1>3
  <2>5. \A j \in 1 .. i : \E x \in ToSet(g[i]) : x.from = rs[j].from
    BY <2>1, <2>2, <2>3, <2>4
  <2>6. ToSet(g[i]) \subseteq {rs[j] : j \in 1 .. i}
    <3>1. rs[i] \in {rs[j] : j \in 1 .. i}
      BY <2>1
    <3> QED
      BY <2>1, <2>2, <2>4, <3>1
  <2>7. Good(i)
    BY <2>2, <2>4, <2>5, <2>6
  <2> HIDE DEF Good
  <2> QED
    BY <2>1, <2>7
<1> HIDE DEF G
<1>4. 0 .. n \subseteq G
  <2> HIDE DEF n
  <2> QED
    BY <1>1, <1>2, <1>3, Counting
<1> QED
  BY <1>4 DEF G, FirstOf

LEMMA MergeGrows ==
    ASSUME NEW A, NEW rs \in Seq(A), NEW g \in [0 .. Len(rs) -> Seq(A)], MergeSteps(g, rs),
           NEW i \in 0 .. Len(rs)
    PROVE  Begins(g[i], g[Len(rs)])
<1> DEFINE n == Len(rs)
           m == n - i
           G == {k \in 0 .. m : Begins(g[i], g[i + k])}
<1>1. n \in Nat /\ m \in Nat /\ i \in Nat /\ g[i] \in Seq(A)
  OBVIOUS
<1>2. 0 \in G
  <2>1. Begins(g[i], g[i])
    BY <1>1 DEF Begins
  <2> QED
    BY <1>1, <2>1
<1>3. ASSUME NEW k \in 1 .. m, k - 1 \in G
      PROVE  k \in G
  <2>1. /\ i + k \in 1 .. n /\ i + (k - 1) \in 0 .. n /\ (i + k) - 1 = i + (k - 1)
        /\ k \in 0 .. m
    BY <1>1
  <2>2. g[i + k] = AddReplace(g[i + (k - 1)], rs[i + k])
    BY <2>1 DEF MergeSteps
  <2>3. g[i + (k - 1)] \in Seq(A) /\ rs[i + k] \in A
    BY <2>1
  <2>4. Begins(g[i + (k - 1)], g[i + k]) /\ g[i + k] \in Seq(A)
    <3>1. ASSUME NEW b \in Seq(A), NEW x \in A
          PROVE  Begins(b, AddReplace(b, x)) /\ AddReplace(b, x) \in Seq(A)
      BY Adding
    <3> QED
      BY <2>2, <2>3, <3>1
  <2>5. Begins(g[i], g[i + (k - 1)])
    BY <1>3
  <2>6. Begins(g[i], g[i + k])
    BY <1>1, <2>3, <2>4, <2>5 DEF Begins
  <2> QED
    BY <2>1, <2>6
<1> HIDE DEF G
<1>4. 0 .. m \subseteq G
  <2> HIDE DEF m
  <2> QED
    BY <1>1, <1>2, <1>3, Counting
<1>5. m \in G /\ i + m = n
  BY <1>1, <1>4
<1> HIDE DEF m, n
<1> QED
  BY <1>5 DEF G, n

\* Behind the same beginning, what was merged is merged to itself.
LEMMA MergedTwice ==
    ASSUME NEW A, NEW s \in Seq(A), NEW t \in Seq(A)
    PROVE  Merged(s \o Merged(s \o t)) = Merged(s \o t)
<1> DEFINE n == Len(s)
           R == Merged(s \o t)
           m == Len(R)
<1>1. s \o t \in Seq(A) /\ n \in Nat /\ Len(s \o t) \in Nat /\ n \in 0 .. Len(s \o t)
  OBVIOUS
<1>2. PICK g \in [0 .. Len(s \o t) -> Seq(A)] : MergeSteps(g, s \o t) /\ R = g[Len(s \o t)]
  BY <1>1, MergedUpTo
<1>3. R \in Seq(A) /\ OnePerModule(R) /\ Begins(g[n], R)
  <2> DEFINE u == s \o t
  <2> HIDE DEF u, R
  <2>1. /\ u \in Seq(A) /\ g \in [0 .. Len(u) -> Seq(A)] /\ MergeSteps(g, u)
        /\ n \in 0 .. Len(u) /\ Len(u) \in 0 .. Len(u) /\ R = g[Len(u)]
    BY <1>1, <1>2 DEF u
  <2>2. OnePerModule(g[Len(u)])
    BY <2>1, MergeElements
  <2>3. Begins(g[n], g[Len(u)])
    BY <2>1, MergeGrows
  <2> QED
    BY <2>1, <2>2, <2>3
<1> HIDE DEF R
<1>4. s \o R \in Seq(A) /\ Len(s \o R) = n + m /\ m \in Nat
  BY <1>3
<1>5. PICK h \in [0 .. Len(s \o R) -> Seq(A)] : MergeSteps(h, s \o R) /\ Merged(s \o R) = h[Len(s \o R)]
  BY <1>4, MergedUpTo
<1>6. h[n] = g[n]
  <2> DEFINE G == {k \in 0 .. n : h[k] = g[k]}
  <2>1. 0 \in G
    BY <1>1, <1>2, <1>5 DEF MergeSteps
  <2>2. ASSUME NEW k \in 1 .. n, k - 1 \in G
        PROVE  k \in G
    <3>1. k \in 1 .. Len(s \o t) /\ k \in 1 .. Len(s \o R) /\ k \in 0 .. n
      BY <1>1, <1>4
    <3>2. (s \o t)[k] = s[k] /\ (s \o R)[k] = s[k]
      BY <1>3
    <3> QED
      BY <1>2, <1>5, <2>2, <3>1, <3>2 DEF MergeSteps
  <2> HIDE DEF G
  <2>3. 0 .. n \subseteq G
    BY <1>1, <2>1, <2>2, Counting
  <2>4. n \in G
    BY <1>1, <2>3
  <2> QED
    BY <2>4 DEF G
<1> DEFINE p == Len(g[n])
           Longer(k) == IF p < k THEN k ELSE p
           Upto(k) == Begins(h[n + k], R) /\ Len(h[n + k]) = Longer(k)
           K == {k \in 0 .. m : Upto(k)}
<1>7. g[n] \in Seq(A) /\ p \in Nat /\ p <= m
  BY <1>1, <1>3 DEF Begins
<1>8. 0 \in K
  BY <1>1, <1>3, <1>4, <1>6, <1>7
<1>9. ASSUME NEW k \in 1 .. m, k - 1 \in K
      PROVE  k \in K
  <2> DEFINE q == h[n + (k - 1)]
  <2>1. /\ n + k \in 1 .. Len(s \o R) /\ (n + k) - 1 = n + (k - 1) /\ n + (k - 1) \in 0 .. Len(s \o R)
        /\ k \in 0 .. m /\ q \in Seq(A) /\ R[k] \in A
    <3>1. /\ n + k \in 1 .. Len(s \o R) /\ (n + k) - 1 = n + (k - 1)
          /\ n + (k - 1) \in 0 .. Len(s \o R) /\ k \in 0 .. m /\ k \in 1 .. Len(R)
      BY <1>1, <1>4
    <3>2. q \in Seq(A)
      BY <1>5, <3>1
    <3>3. R[k] \in A
      BY <1>3, <3>1
    <3> QED
      BY <3>1, <3>2, <3>3
  <2>2. (s \o R)[n + k] = R[k]
    BY <1>1, <1>3
  <2>3. h[n + k] = AddReplace(q, R[k])
    BY <1>5, <2>1, <2>2 DEF MergeSteps
  <2>4. Begins(q, R) /\ Len(q) = Longer(k - 1)
    BY <1>9
  <2> HIDE DEF q
  <2>5. CASE k <= Len(q)
    <3>1. q[k] = R[k] /\ q[k] \in ToSet(q)
      BY <2>1, <2>4, <2>5 DEF Begins, ToSet
    <3>2. h[n + k] = q
      BY <2>3, <3>1 DEF AddReplace
    <3>3. Longer(k) = Longer(k - 1)
      BY <1>7, <2>4, <2>5
    <3> QED
      BY <2>1, <2>4, <3>2, <3>3
  <2>6. CASE k > Len(q)
    <3>1. Len(q) = k - 1 /\ Longer(k) = k
      BY <1>7, <2>4, <2>6
    <3>2. \A x \in ToSet(q) : x.from # R[k].from
      <4>1. ASSUME NEW i \in 1 .. Len(q), q[i].from = R[k].from
            PROVE  FALSE
        <5>1. R[i] = q[i]
          BY <2>4 DEF Begins
        <5>2. i \in DOMAIN R /\ k \in DOMAIN R /\ i # k
          BY <1>3, <2>1, <2>4, <3>1, <4>1 DEF Begins
        <5> QED
          BY <1>3, <4>1, <5>1, <5>2 DEF OnePerModule
      <4>2. \A x \in ToSet(q) : \E i \in 1 .. Len(q) : x = q[i]
        BY <2>1 DEF ToSet
      <4> QED
        BY <4>1, <4>2
    <3>3. h[n + k] = Append(q, R[k])
      BY <2>3, <3>2 DEF AddReplace
    <3>4. /\ Len(Append(q, R[k])) = k /\ Append(q, R[k])[k] = R[k]
          /\ \A i \in 1 .. k - 1 : Append(q, R[k])[i] = q[i]
      BY <2>1, <3>1
    <3>5. Begins(Append(q, R[k]), R)
      BY <1>3, <2>1, <2>4, <3>1, <3>4 DEF Begins
    <3> QED
      BY <2>1, <3>1, <3>3, <3>4, <3>5
  <2> QED
    BY <2>1, <2>5, <2>6
<1> HIDE DEF K
<1>10. 0 .. m \subseteq K
  <2> HIDE DEF m
  <2> QED
    BY <1>4, <1>8, <1>9, Counting
<1>11. Begins(h[n + m], R) /\ Len(h[n + m]) = m
  <2>1. m \in K
    BY <1>4, <1>10
  <2> QED
    BY <1>7, <2>1 DEF K
<1>12. h[n + m] \in Seq(A)
  BY <1>1, <1>4
<1>13. h[n + m] = R
  <2>1. \A i \in 1 .. m : h[n + m][i] = R[i]
    BY <1>11 DEF Begins
  <2>2. Len(R) = m
    OBVIOUS
  <2> HIDE DEF m
  <2> HIDE DEF n
  <2>3. PICK v \in Seq(A) : v = h[n + m]
    BY <1>12
  <2>4. v \in [1 .. m -> A] /\ R \in [1 .. m -> A] /\ \A i \in 1 .. m : v[i] = R[i]
    BY <1>3, <1>11, <2>1, <2>2, <2>3
  <2>5. v = R
    <3>1. R = [i \in 1 .. m |-> R[i]]
      BY <2>4
    <3>2. v = [i \in 1 .. m |-> R[i]]
      BY <2>4
    <3> QED
      BY <3>1, <3>2
  <2> QED
    BY <2>3, <2>5
<1> QED
  BY <1>4, <1>5, <1>13 DEF R

-----------------------------------------------------------------------------
(***************************************************************************)
(* The lines that require.  A line is followed through the requirements    *)
(* one after the other; unless two modules are confused only its own       *)
(* changes it, and the line it then is none changes again.                 *)
(***************************************************************************)
FollowSteps(g, rs, l) ==
    /\ g[0] = l
    /\ \A i \in 1 .. Len(rs) : g[i] = Updated(rs[i], g[i - 1])

LEMMA FollowedUpTo ==
    ASSUME NEW rs, Len(rs) \in Nat, NEW V, NEW l \in V,
           \A i \in 1 .. Len(rs), m \in V : Updated(rs[i], m) \in V
    PROVE  \E g \in [0 .. Len(rs) -> V] : FollowSteps(g, rs, l) /\ Followed(rs, l) = g[Len(rs)]
<1> DEFINE n == Len(rs)
           F == [p \in V \X (1 .. n) |-> Updated(rs[p[2]], p[1])]
           Step(w, i) == Updated(rs[i], w[i - 1])
           H(w) == w = [i \in 0 .. n |-> IF i = 0 THEN l ELSE Step(w, i)]
<1>1. n \in Nat /\ F \in [V \X (1 .. n) -> V]
  OBVIOUS
<1>2. PICK g \in [0 .. n -> V] : Steps(g, n, l, F)
  <2> HIDE DEF n, F
  <2> QED
    BY <1>1, Recursion
<1>3. ASSUME NEW i \in 1 .. n
      PROVE  g[i] = Step(g, i)
  <2>1. i - 1 \in 0 .. n
    BY <1>1
  <2>2. <<g[i - 1], i>> \in V \X (1 .. n)
    BY <2>1, <1>2
  <2> QED
    BY <2>2, <1>2 DEF Steps
<1>4. H(g)
  <2>1. \A i \in 0 .. n : g[i] = IF i = 0 THEN l ELSE Step(g, i)
    <3>1. g[0] = l
      BY <1>2 DEF Steps
    <3>2. \A i \in 0 .. n : i = 0 \/ i \in 1 .. n
      BY <1>1
    <3> HIDE DEF n, Step
    <3> QED
      BY <3>1, <3>2, <1>3
  <2> HIDE DEF n, Step
  <2> QED
    BY <2>1, <1>2
<1> DEFINE w == CHOOSE v : H(v)
<1>5. Followed(rs, l) = w[n]
  BY DEF Followed
<1>6. H(w)
  BY <1>4
<1> HIDE DEF w
<1>7. /\ w[0] = l
      /\ \A i \in 1 .. n : w[i] = Step(w, i)
  <2>1. \A i \in 0 .. n : w[i] = IF i = 0 THEN l ELSE Step(w, i)
    <3> HIDE DEF n, Step
    <3> QED
      BY <1>6
  <2>2. 0 \in 0 .. n /\ \A i \in 1 .. n : i \in 0 .. n /\ i # 0
    BY <1>1
  <2> HIDE DEF n, Step
  <2> QED
    BY <2>1, <2>2
<1>8. w[n] = g[n]
  <2> DEFINE G == {k \in 0 .. n : w[k] = g[k]}
  <2>1. 0 \in G
    BY <1>1, <1>2, <1>7 DEF Steps
  <2>2. ASSUME NEW i \in 1 .. n, i - 1 \in G
        PROVE  i \in G
    BY <2>2, <1>1, <1>3, <1>7
  <2> HIDE DEF G
  <2>3. 0 .. n \subseteq G
    <3> HIDE DEF n
    <3> QED
      BY <1>1, <2>1, <2>2, Counting
  <2> QED
    BY <1>1, <2>3 DEF G
<1>9. FollowSteps(g, rs, l)
  <2>1. g[0] = l
    BY <1>2 DEF Steps
  <2> QED
    BY <1>3, <2>1 DEF FollowSteps
<1> QED
  BY <1>2, <1>5, <1>8, <1>9

\* A line that differs from no requirement stays as it is.
LEMMA FollowedSame ==
    ASSUME NEW rs, Len(rs) \in Nat, NEW l, \A i \in 1 .. Len(rs) : ~Differs(rs[i], l)
    PROVE  Followed(rs, l) = l
<1>1. \A i \in 1 .. Len(rs), m \in {l} : Updated(rs[i], m) \in {l}
  BY DEF Updated
<1>2. PICK g \in [0 .. Len(rs) -> {l}] :
             FollowSteps(g, rs, l) /\ Followed(rs, l) = g[Len(rs)]
  BY <1>1, FollowedUpTo
<1> QED
  BY <1>2

\* What a line can become.
FormsOf(l) == {l.form, "block", "single", "comment", "bare"}
LinesOf(rs, l) == {l} \cup {[rs[i] EXCEPT !.form = f] : i \in 1 .. Len(rs), f \in FormsOf(l)}

LEMMA LineOf ==
    ASSUME NEW r, IsLine(r), NEW f
    PROVE  /\ [r EXCEPT !.form = f].name = r.name /\ [r EXCEPT !.form = f].version = r.version
           /\ [r EXCEPT !.form = f].form = f
<1>1. r = [name |-> r.name, version |-> r.version, form |-> r.form]
  BY DEF IsLine
<1> QED
  BY <1>1

LEMMA LinesKept ==
    ASSUME NEW rs, NEW l, \A i \in 1 .. Len(rs) : IsLine(rs[i]), NEW m \in LinesOf(rs, l)
    PROVE  m.form \in FormsOf(l) /\ \A i \in 1 .. Len(rs) : Updated(rs[i], m) \in LinesOf(rs, l)
<1> DEFINE n == Len(rs)
<1>1. m.form \in FormsOf(l)
  <2>1. m = l \/ \E j \in 1 .. n, f \in FormsOf(l) : m = [rs[j] EXCEPT !.form = f]
    BY DEF LinesOf
  <2>2. l.form \in FormsOf(l)
    BY DEF FormsOf
  <2>3. ASSUME NEW j \in 1 .. n, NEW f \in FormsOf(l), m = [rs[j] EXCEPT !.form = f]
        PROVE  m.form \in FormsOf(l)
    <3>1. [rs[j] EXCEPT !.form = f].form = f
      BY LineOf
    <3> QED
      BY <2>3, <3>1
  <2> QED
    BY <2>1, <2>2, <2>3
<1>2. ASSUME NEW i \in 1 .. n
      PROVE  Updated(rs[i], m) \in LinesOf(rs, l)
  <2>1. \/ Updated(rs[i], m) = m
        \/ \E f \in FormsOf(l) : Updated(rs[i], m) = [rs[i] EXCEPT !.form = f]
    BY <1>1 DEF Updated, FormsOf
  <2>2. \A f \in FormsOf(l) : [rs[i] EXCEPT !.form = f] \in LinesOf(rs, l)
    BY DEF LinesOf
  <2> QED
    BY <2>1, <2>2
<1> QED
  BY <1>1, <1>2

LEMMA FollowedForm ==
    ASSUME NEW rs, Len(rs) \in Nat, NEW l, \A i \in 1 .. Len(rs) : IsLine(rs[i])
    PROVE  /\ Followed(rs, l).form \in FormsOf(l)
           /\ \E g \in [0 .. Len(rs) -> LinesOf(rs, l)] :
                FollowSteps(g, rs, l) /\ Followed(rs, l) = g[Len(rs)]
<1>1. l \in LinesOf(rs, l)
  BY DEF LinesOf
<1>2. \A i \in 1 .. Len(rs), m \in LinesOf(rs, l) : Updated(rs[i], m) \in LinesOf(rs, l)
  BY LinesKept
<1>3. PICK g \in [0 .. Len(rs) -> LinesOf(rs, l)] :
             FollowSteps(g, rs, l) /\ Followed(rs, l) = g[Len(rs)]
  BY <1>1, <1>2, FollowedUpTo
<1>4. Followed(rs, l) \in LinesOf(rs, l)
  BY <1>3
<1> QED
  BY <1>3, <1>4, LinesKept

\* What a line becomes differs from no requirement, if no two are confused.
LEMMA FollowedSettles ==
    ASSUME NEW rs, Len(rs) \in Nat, NEW l,
           \A i \in 1 .. Len(rs) : IsLine(rs[i]) /\ <<rs[i].version, rs[i].version>> \in Infix,
           \A i, j \in 1 .. Len(rs) : rs[i] = rs[j] \/ <<rs[i].name, rs[j].name>> \notin Suffix
    PROVE  \A i \in 1 .. Len(rs) : ~Differs(rs[i], Followed(rs, l))
<1> DEFINE n == Len(rs)
           Own(m, i) == m.name = rs[i].name /\ m.version = rs[i].version
<1>1. PICK g : FollowSteps(g, rs, l) /\ Followed(rs, l) = g[n]
  BY FollowedForm
<1> DEFINE Settled(k) ==
             \/ g[k] = l /\ \A i \in 1 .. k : ~Differs(rs[i], l)
             \/ \E i \in 1 .. k : Own(g[k], i)
           G == {k \in 0 .. n : Settled(k)}
<1> HIDE DEF Own
<1>2. 0 \in G
  BY <1>1 DEF FollowSteps
<1>3. ASSUME NEW k \in 1 .. n, k - 1 \in G
      PROVE  k \in G
  <2>1. /\ g[k] = Updated(rs[k], g[k - 1]) /\ Settled(k - 1) /\ k \in 1 .. k
        /\ \A i \in 1 .. k - 1 : i \in 1 .. k
        /\ \A i \in 1 .. k : i \in 1 .. k - 1 \/ i = k
    BY <1>1, <1>3 DEF FollowSteps
  <2>2. CASE Differs(rs[k], g[k - 1])
    <3>1. \E f : g[k] = [rs[k] EXCEPT !.form = f]
      BY <2>1, <2>2 DEF Updated
    <3>2. Own(g[k], k)
      BY <3>1, LineOf DEF Own
    <3> QED
      BY <3>2, <2>1
  <2>3. CASE ~Differs(rs[k], g[k - 1])
    <3>1. g[k] = g[k - 1]
      BY <2>1, <2>3 DEF Updated
    <3> QED
      BY <3>1, <2>1, <2>3
  <2> QED
    BY <2>2, <2>3
<1> HIDE DEF G
<1>4. n \in G
  <2> HIDE DEF n
  <2>1. n \in Nat
    BY DEF n
  <2>2. 0 .. n \subseteq G
    BY <1>2, <1>3, <2>1, Counting
  <2> QED
    BY <2>1, <2>2
<1>5. Settled(n)
  BY <1>4 DEF G
<1>6. ASSUME NEW i \in 1 .. n, NEW j \in 1 .. n, Own(g[n], j)
      PROVE  ~Differs(rs[i], g[n])
  BY <1>6 DEF Own, Differs
<1> QED
  BY <1>1, <1>5, <1>6

\* The requirements of a source are lines.
LEMMA RequiredLines ==
    ASSUME NEW g \in Sources
    PROVE  /\ Len(RequiredVersions(g)) \in Nat
           /\ \A i \in 1 .. Len(RequiredVersions(g)) :
                LET r == RequiredVersions(g)[i]
                IN  IsLine(r) /\ <<r.version, r.version>> \in Infix /\ r \in ToSet(RequiredVersions(g))
<1> DEFINE R == RequiredVersions(g)
<1>1. /\ g.requires \in Seq(ToSet(g.requires))
      /\ \A l \in ToSet(g.requires) : IsLine(l) /\ <<l.version, l.version>> \in Infix
  BY ModSyncAssumption DEF IsSequence, ToSet
<1>2. /\ R \in Seq(ToSet(g.requires)) /\ ToSet(R) \subseteq ToSet(g.requires)
  BY <1>1, ThoseElements DEF RequiredVersions
<1> HIDE DEF R
<1>3. Len(R) \in Nat /\ \A i \in 1 .. Len(R) : R[i] \in ToSet(R)
  BY <1>2 DEF ToSet
<1>4. \A i \in 1 .. Len(R) : IsLine(R[i]) /\ <<R[i].version, R[i].version>> \in Infix
  BY <1>1, <1>2, <1>3
<1> QED
  BY <1>3, <1>4 DEF R

\* A second sync leaves the lines of the first.
LEMMA SourceFollowed ==
    ASSUME NEW g \in Sources, ~Confused(g), NEW d, NEW e, e.requires = SyncedRequires(g, d)
    PROVE  SyncedRequires(g, e) = e.requires
<1> DEFINE R == RequiredVersions(g)
<1>3. Len(R) \in Nat /\ \A i \in 1 .. Len(R) : R[i] \in ToSet(R)
  BY RequiredLines
<1>4. /\ \A i \in 1 .. Len(R) : IsLine(R[i]) /\ <<R[i].version, R[i].version>> \in Infix
      /\ \A i, j \in 1 .. Len(R) : R[i] = R[j] \/ <<R[i].name, R[j].name>> \notin Suffix
  BY <1>3, RequiredLines DEF Confused
<1> HIDE DEF R
<1>5. \A l : Followed(R, Followed(R, l)) = Followed(R, l)
  <2> TAKE l
  <2>1. \A i \in 1 .. Len(R) : ~Differs(R[i], Followed(R, l))
    BY <1>3, <1>4, FollowedSettles
  <2> QED
    BY <1>3, <2>1, FollowedSame
<1>6. e.requires = [i \in DOMAIN d.requires |-> Followed(R, d.requires[i])]
  BY DEF SyncedRequires, R
<1>7. SyncedRequires(g, e) = [i \in DOMAIN e.requires |-> Followed(R, e.requires[i])]
  BY DEF SyncedRequires, R
<1> QED
  BY <1>5, <1>6, <1>7

-----------------------------------------------------------------------------
\* After a sync the file is what the source makes of some destination.
SyncInv ==
    /\ source # <<>> => source[1] \in Sources
    /\ gomod.replaces \in Seq(ToSet(gomod.replaces))
    /\ synced => /\ source # <<>>
                 /\ \E rs : rs \in Seq(ToSet(rs))
                           /\ gomod.replaces = Replaces(source[1], [replaces |-> rs])
                 /\ \E d : gomod.requires = SyncedRequires(source[1], d)

Pinned(g) ==
    [i \in DOMAIN RequiredVersions(g) |->
       [from |-> RequiredVersions(g)[i].name, version |-> "",
        to |-> RequiredVersions(g)[i].name, at |-> RequiredVersions(g)[i].version]]

\* The source's replacements and the pins, and what they stand for.
LEMMA SourceReplaces ==
    ASSUME NEW g \in Sources, NEW d, d.replaces \in Seq(ToSet(d.replaces))
    PROVE  /\ Replaces(g, d) \in Seq(ToSet(Replaces(g, d)))
           /\ Replaces(g, [replaces |-> Replaces(g, d)]) = Replaces(g, d)
           /\ OnePerModule(Replaces(g, d))
           /\ \A r \in ToSet(RequiredVersions(g)) :
                \/ \E x \in ToSet(Replaces(g, d)) : x.from = r.name /\ x.at = r.version
                \/ \E x \in ToSet(g.replaces) : x.from = r.name /\ x \in ToSet(Replaces(g, d))
<1> DEFINE S == g.replaces
           required == RequiredVersions(g)
           P == Pinned(g)
           D == d.replaces
           A == ToSet(S) \cup ToSet(P) \cup ToSet(D)
           R == Replaces(g, d)
<1>1. /\ g.requires \in Seq(ToSet(g.requires)) /\ S \in Seq(ToSet(S))
      /\ \A l, m \in ToSet(g.requires) :
           l.form = "block" /\ m.form = "block" /\ l.name = m.name => l = m
  BY ModSyncAssumption DEF IsSequence, ToSet
<1>2. /\ required \in Seq(ToSet(g.requires))
      /\ ToSet(required) = {l \in ToSet(g.requires) : l.form = "block"}
  BY <1>1, ThoseElements DEF RequiredVersions
<1>3. P \in Seq(ToSet(P)) /\ DOMAIN P = DOMAIN required /\ Len(P) = Len(required)
  <2>1. DOMAIN P = DOMAIN required /\ DOMAIN required = 1 .. Len(required) /\ Len(required) \in Nat
    BY <1>2 DEF Pinned
  <2>2. P \in [1 .. Len(required) -> ToSet(P)]
    <3>1. \A i \in DOMAIN P : P[i] \in ToSet(P)
      BY DEF ToSet
    <3>2. P = [i \in DOMAIN P |-> P[i]]
      BY DEF Pinned
    <3> HIDE DEF P
    <3> QED
      BY <2>1, <3>1, <3>2
  <2> HIDE DEF P
  <2> QED
    BY <2>1, <2>2, SeqDef
<1>4. \A i \in DOMAIN required : P[i].from = required[i].name /\ P[i].at = required[i].version
  BY ZenonT(60) DEF Pinned
<1> HIDE DEF P, S, required
<1>5. S \in Seq(A) /\ P \in Seq(A) /\ D \in Seq(A)
  BY <1>1, <1>3, WiderSeq DEF S
<1>6. R = Merged(S \o P \o D)
  BY DEF Replaces, Pinned, S, P
<1> HIDE DEF A, R, D
<1> DEFINE B == S \o P
<1>7. /\ B \in Seq(A) /\ Len(B) = Len(S) + Len(P) /\ Len(S) \in Nat /\ Len(P) \in Nat
      /\ \A i \in 1 .. Len(S) : B[i] = S[i]
      /\ \A i \in 1 .. Len(P) : B[Len(S) + i] = P[i]
      /\ R = Merged(B \o D)
  BY <1>5, <1>6
<1> HIDE DEF B
<1> DEFINE Q == B \o D
<1>8. /\ Q \in Seq(A) /\ Len(Q) \in Nat /\ Len(B) <= Len(Q) /\ Len(Q) \in 0 .. Len(Q)
      /\ \A i \in 1 .. Len(B) : Q[i] = B[i]
      /\ R = Merged(Q)
  BY <1>5, <1>7
<1> HIDE DEF Q
<1>9. PICK h \in [0 .. Len(Q) -> Seq(A)] : MergeSteps(h, Q) /\ R = h[Len(Q)]
  BY <1>7, <1>8, MergedUpTo
<1>10. R \in Seq(A) /\ OnePerModule(R)
  <2>1. h[Len(Q)] \in Seq(A)
    BY <1>8, <1>9
  <2>2. OnePerModule(h[Len(Q)])
    BY <1>8, <1>9, MergeElements
  <2> QED
    BY <1>9, <2>1, <2>2
<1>11. ASSUME NEW r \in ToSet(required)
       PROVE  \/ \E x \in ToSet(R) : x.from = r.name /\ x.at = r.version
              \/ \E x \in ToSet(S) : x.from = r.name /\ x \in ToSet(R)
  <2>1. PICK i \in DOMAIN required : required[i] = r
    BY DEF ToSet
  <2>2. i \in 1 .. Len(P) /\ P[i].from = r.name /\ Len(S) + i \in 1 .. Len(B) /\ B[Len(S) + i] = P[i]
    BY <1>2, <1>3, <1>4, <1>7, <2>1
  <2> DEFINE k == Len(S) + i
  <2>3. k \in 0 .. Len(Q) /\ k \in 1 .. k /\ Q[k].from = r.name /\ k <= Len(B) /\ k \in Nat
    BY <1>7, <1>8, <2>2
  <2> HIDE DEF k
  <2>4. /\ ToSet(h[k]) \subseteq {Q[j] : j \in 1 .. k}
        /\ \A j \in 1 .. k : \E x \in ToSet(h[k]) : x.from = Q[j].from
        /\ Begins(h[k], R)
    <3>1. Begins(h[k], h[Len(Q)])
      BY <1>8, <1>9, <2>3, MergeGrows
    <3>2. FirstOf(h[k], Q, k)
      BY <1>8, <1>9, <2>3, MergeElements
    <3> QED
      BY <1>9, <3>1, <3>2 DEF FirstOf
  <2>5. PICK x \in ToSet(h[k]) : x.from = r.name
    BY <2>3, <2>4
  <2>6. x \in ToSet(R)
    <3>a. h[k] \in Seq(A)
      BY <1>9, <2>3
    <3>1. /\ DOMAIN h[k] = 1 .. Len(h[k]) /\ Len(h[k]) \in Nat
          /\ DOMAIN R = 1 .. Len(R) /\ Len(R) \in Nat
      BY <1>10, <3>a
    <3> QED
      BY <2>4, <3>1 DEF ToSet, Begins
  <2>7. PICK j \in 1 .. k : x = Q[j]
    BY <2>4
  <2>8. j \in 1 .. Len(B) /\ x = B[j] /\ Len(B) = Len(S) + Len(P)
    BY <1>7, <1>8, <2>3, <2>7
  <2>9. CASE j \in 1 .. Len(S)
    <3>1. x \in ToSet(S)
      <4>1. DOMAIN S = 1 .. Len(S)
        BY <1>5
      <4>2. x = S[j] /\ j \in DOMAIN S
        BY <1>7, <2>8, <2>9, <4>1
      <4> QED
        BY <4>2 DEF ToSet
    <3> QED
      BY <2>5, <2>6, <3>1
  <2>10. CASE j \notin 1 .. Len(S)
    <3>1. PICK e \in 1 .. Len(P) : j = Len(S) + e
      <4>1. j - Len(S) \in 1 .. Len(P) /\ j = Len(S) + (j - Len(S))
        BY <1>7, <2>8, <2>10
      <4> QED
        BY <4>1
    <3>2. x = P[e] /\ e \in DOMAIN required
      BY <1>2, <1>3, <1>7, <2>8, <3>1
    <3>3. required[e].name = r.name /\ required[e] \in ToSet(required) /\ x.at = required[e].version
      BY <1>4, <2>5, <3>2 DEF ToSet
    <3>4. required[e] = r
      BY <1>1, <1>2, <3>3
    <3> QED
      BY <2>5, <2>6, <3>3, <3>4
  <2> QED
    BY <2>9, <2>10
<1>12. Replaces(g, [replaces |-> R]) = R
  <2>1. Replaces(g, [replaces |-> R]) = Merged(B \o R)
    BY DEF Replaces, Pinned, S, P, B
  <2> QED
    BY <1>5, <1>7, <2>1, MergedTwice
<1>13. R \in Seq(ToSet(R))
  BY <1>10 DEF ToSet
<1> QED
  BY <1>10, <1>11, <1>12, <1>13 DEF OnePerModule, R, S, required

LEMMA SyncStepInv ==
    ASSUME SyncInv, ModSyncNext \/ UNCHANGED syncVars
    PROVE  SyncInv'
<1>1. CASE Choose
  <2>1. /\ source = <<>> /\ gomod' \in Destinations /\ synced' = synced
        /\ \E g \in Sources : source' = <<g>>
    BY <1>1 DEF Choose
  <2>2. gomod'.replaces \in Seq(ToSet(gomod'.replaces))
    BY <2>1, ModSyncAssumption DEF IsSequence, ToSet
  <2>3. source' # <<>> /\ source'[1] \in Sources /\ ~synced'
    BY <2>1 DEF SyncInv
  <2> QED
    BY <2>2, <2>3 DEF SyncInv
<1>2. ASSUME NEW e \in BOOLEAN, SyncRequire(e)
      PROVE  SyncInv'
  <2>1. source # <<>> /\ source' = source /\ gomod'.replaces = Replaces(source[1], gomod)
    BY <1>2 DEF SyncRequire, Synced
  <2>2. /\ source[1] \in Sources /\ gomod.replaces \in Seq(ToSet(gomod.replaces))
    BY <2>1 DEF SyncInv
  <2>3. gomod'.replaces \in Seq(ToSet(gomod'.replaces))
    BY <2>1, <2>2, SourceReplaces
  <2>4. Replaces(source[1], gomod) = Replaces(source[1], [replaces |-> gomod.replaces])
    BY DEF Replaces
  <2>5. \E rs : rs \in Seq(ToSet(rs)) /\ gomod'.replaces = Replaces(source'[1], [replaces |-> rs])
    BY <2>1, <2>2, <2>4
  <2>6. \E d : gomod'.requires = SyncedRequires(source'[1], d)
    BY <1>2 DEF SyncRequire, Synced
  <2> QED
    BY <2>1, <2>2, <2>3, <2>5, <2>6 DEF SyncInv
<1>3. CASE UNCHANGED syncVars
  BY <1>3 DEF SyncInv, syncVars
<1> QED
  BY <1>1, <1>2, <1>3 DEF ModSyncNext

LEMMA SyncInitInv ==
    ASSUME ModSyncInit
    PROVE  SyncInv
BY DEF ModSyncInit, SyncInv, NoFile, ToSet

LEMMA SyncedOnce == SyncInv => OneReplacement
<1> SUFFICES ASSUME SyncInv, synced PROVE OneReplacement
  BY DEF OneReplacement
<1>1. source # <<>> /\ source[1] \in Sources
  BY DEF SyncInv
<1>2. PICK rs : rs \in Seq(ToSet(rs)) /\ gomod.replaces = Replaces(source[1], [replaces |-> rs])
  BY DEF SyncInv
<1> DEFINE d == [replaces |-> rs]
<1>3. d.replaces \in Seq(ToSet(d.replaces))
  BY <1>2
<1>4. Replaces(source[1], gomod) = Replaces(source[1], [replaces |-> gomod.replaces])
  BY DEF Replaces
<1> HIDE DEF d
<1>5. /\ Replaces(source[1], [replaces |-> Replaces(source[1], d)]) = Replaces(source[1], d)
      /\ OnePerModule(Replaces(source[1], d))
      /\ \A r \in ToSet(RequiredVersions(source[1])) :
           \/ \E x \in ToSet(Replaces(source[1], d)) : x.from = r.name /\ x.at = r.version
           \/ \E x \in ToSet(source[1].replaces) :
                x.from = r.name /\ x \in ToSet(Replaces(source[1], d))
  BY <1>1, <1>3, SourceReplaces
<1>6. gomod.replaces = Replaces(source[1], d)
  BY <1>2 DEF d
<1>7. Confused(source[1]) \/ SyncedRequires(source[1], gomod) = gomod.requires
  <2>1. PICK e : gomod.requires = SyncedRequires(source[1], e)
    BY DEF SyncInv
  <2> QED
    BY <1>1, <2>1, SourceFollowed
<1> QED
  BY <1>4, <1>5, <1>6, <1>7 DEF OneReplacement, OnePerModule

LEMMA SyncTypes ==
    ASSUME SyncInv, ModSyncTypeOK, ModSyncNext \/ UNCHANGED syncVars
    PROVE  ModSyncTypeOK'
<1> DEFINE Forms == {"block", "single", "comment", "bare"}
<1>1. CASE Choose
  <2>1. \A l \in ToSet(gomod'.requires) : l.form \in Forms
    BY <1>1, ModSyncAssumption DEF Choose, IsLine
  <2>2. source'[1] \in Sources /\ syncs' = syncs
    BY <1>1 DEF Choose
  <2> QED
    BY <2>1, <2>2 DEF ModSyncTypeOK
<1>2. ASSUME NEW e \in BOOLEAN, SyncRequire(e)
      PROVE  ModSyncTypeOK'
  <2>1. /\ source # <<>> /\ source' = source /\ source[1] \in Sources
        /\ gomod'.requires = SyncedRequires(source[1], gomod)
        /\ syncs < MaxSyncs /\ syncs' = syncs + 1
    BY <1>2 DEF SyncRequire, Synced, SyncInv
  <2> DEFINE R == RequiredVersions(source[1])
  <2>2. Len(R) \in Nat /\ \A i \in 1 .. Len(R) : IsLine(R[i])
    BY <2>1, RequiredLines
  <2>3. gomod'.requires = [i \in DOMAIN gomod.requires |-> Followed(R, gomod.requires[i])]
    BY <2>1 DEF SyncedRequires
  <2> HIDE DEF R
  <2>4. ASSUME NEW l \in ToSet(gomod.requires)
        PROVE  Followed(R, l).form \in Forms
    <3>1. l.form \in Forms
      BY DEF ModSyncTypeOK
    <3>2. Followed(R, l).form \in FormsOf(l)
      BY <2>2, FollowedForm
    <3> QED
      BY <3>1, <3>2 DEF FormsOf
  <2>5. \A l \in ToSet(gomod'.requires) : l.form \in Forms
    BY <2>3, <2>4 DEF ToSet
  <2>6. syncs' \in 0 .. MaxSyncs
    BY <2>1, ModSyncAssumption DEF ModSyncTypeOK
  <2> QED
    BY <2>1, <2>5, <2>6 DEF ModSyncTypeOK
<1>3. CASE UNCHANGED syncVars
  BY <1>3 DEF ModSyncTypeOK, syncVars
<1> QED
  BY <1>1, <1>2, <1>3 DEF ModSyncNext

LEMMA SyncTypesInit ==
    ASSUME ModSyncInit
    PROVE  ModSyncTypeOK
BY ModSyncAssumption DEF ModSyncInit, ModSyncTypeOK, NoFile, ToSet
-----------------------------------------------------------------------------
(***************************************************************************)
(* The schema validator.  Every key of a filled table is bound to the      *)
(* schema that was last registered under it, and whoever has resolved a    *)
(* document has that schema in hand.                                       *)
(***************************************************************************)
\* A set of places in a sequence has a greatest.
LEMMA GreatestPlace ==
    ASSUME NEW n \in Nat, NEW S, S \subseteq 1 .. n, S # {}
    PROVE  Max(S) \in S
<1> DEFINE B == {n - i : i \in S}
<1>1. B \subseteq Nat /\ B # {}
  <2>1. ASSUME NEW i \in S
        PROVE  n - i \in Nat
    <3>1. i \in 1 .. n
      OBVIOUS
    <3> QED
      BY <3>1
  <2>2. PICK i : i \in S
    OBVIOUS
  <2>3. n - i \in B
    BY <2>2
  <2> QED
    BY <2>1, <2>3
<1>2. PICK m \in B : \A k \in B : m <= k
  <2> HIDE DEF B
  <2> QED
    BY <1>1, LeastNumber
<1>3. PICK i \in S : m = n - i
  BY <1>2
<1>4. \A j \in S : i >= j
  <2>1. ASSUME NEW j \in S
        PROVE  i >= j
    <3>1. n - j \in B /\ j \in Int /\ i \in Int
      BY <1>3
    <3>2. n - i <= n - j
      BY <1>2, <1>3, <3>1
    <3> QED
      BY <3>1, <3>2
  <2> QED
    BY <2>1
<1> QED
  BY <1>4 DEF Max

-----------------------------------------------------------------------------
(***************************************************************************)
(* The schemas.  A registration is found under its own version, or under   *)
(* its own type and asset version; what a call resolved its reference to   *)
(* has the version that was asked for, whatever is registered later.       *)
(***************************************************************************)
OwnKeys ==
    /\ \A v \in DOMAIN byVersion : v # <<>> /\ byVersion[v].version = v
    /\ \A k \in DOMAIN versioned : k = <<versioned[k].type, versioned[k].asset>>

Asked(p) ==
    \/ ref[p].version = <<>>
    \/ reg[p].version = ref[p].version
    \/ <<reg[p].type, reg[p].asset>> = ParseSchemaVersion(ref[p].version)

Resolved == {"compile", "compiling", "visit"}

ValidatorInv ==
    /\ OwnKeys
    /\ DOMAIN at = Validating /\ DOMAIN text = Validating /\ DOMAIN ref = Validating
    /\ DOMAIN reg = Validating /\ DOMAIN verdict = Validating
    /\ \A p \in Validating :
         /\ at[p] \in Resolved \/ verdict[p] \in {"ok", "invalid"} => Asked(p)
         /\ at[p] \in Resolved \/ verdict[p] = "ok" => ~Mismatch(p, reg[p])

\* What is found under a key was registered with it.
LEMMA LatestOwn ==
    ASSUME NEW n \in Nat, NEW rs, NEW key, DOMAIN key \subseteq 1 .. n,
           NEW k \in DOMAIN Latest(rs, key)
    PROVE  \E i \in DOMAIN key : key[i] = k /\ Latest(rs, key)[k] = rs[i]
<1> DEFINE S == {i \in DOMAIN key : key[i] = k}
<1>1. S # {} /\ S \subseteq 1 .. n /\ Latest(rs, key)[k] = rs[Max(S)]
  BY DEF Latest
<1>2. Max(S) \in S
  <2> HIDE DEF S
  <2> QED
    BY <1>1, GreatestPlace
<1> QED
  BY <1>1, <1>2

\* Registrations keep their keys.
LEMMA AddsOwn ==
    ASSUME OwnKeys, NEW n \in Nat, NEW rs, DOMAIN rs \subseteq 1 .. n, Adds(rs)
    PROVE  OwnKeys'
<1> DEFINE versions == {i \in DOMAIN rs : rs[i].version # <<>>}
           types == {i \in DOMAIN rs : rs[i].type # NoWord}
           typed == {i \in types : rs[i].asset # ""}
           f == [i \in versions |-> rs[i].version]
           g == [i \in typed |-> <<rs[i].type, rs[i].asset>>]
           V == Latest(rs, f)
           T == Latest(rs, g)
<1>1. byVersion' = Over(byVersion, V) /\ versioned' = Over(versioned, T)
  BY Zenon DEF Adds
<1>2. /\ DOMAIN f \subseteq 1 .. n /\ \A i \in DOMAIN f : f[i] = rs[i].version /\ f[i] # <<>>
      /\ DOMAIN g \subseteq 1 .. n /\ \A i \in DOMAIN g : g[i] = <<rs[i].type, rs[i].asset>>
  <2>1. /\ versions \subseteq 1 .. n /\ typed \subseteq 1 .. n
        /\ \A i \in versions : rs[i].version # <<>>
    <3>1. versions \subseteq DOMAIN rs /\ \A i \in versions : rs[i].version # <<>>
      OBVIOUS
    <3>2. types \subseteq DOMAIN rs
      OBVIOUS
    <3>3. typed \subseteq types
      BY Zenon
    <3> HIDE DEF versions, types, typed
    <3> QED
      BY <3>1, <3>2, <3>3
  <2> HIDE DEF versions, typed
  <2>2. DOMAIN f = versions /\ \A i \in versions : f[i] = rs[i].version
    OBVIOUS
  <2>3. DOMAIN g = typed /\ \A i \in typed : g[i] = <<rs[i].type, rs[i].asset>>
    OBVIOUS
  <2> HIDE DEF f, g
  <2> QED
    BY <2>1, <2>2, <2>3
<1> HIDE DEF f, g
<1>3. ASSUME NEW k \in DOMAIN V
      PROVE  k # <<>> /\ V[k].version = k
  <2>1. \E i \in DOMAIN f : f[i] = k /\ V[k] = rs[i]
    BY <1>2, LatestOwn
  <2> QED
    BY <1>2, <2>1
<1>4. ASSUME NEW k \in DOMAIN T
      PROVE  k = <<T[k].type, T[k].asset>>
  <2>1. \E i \in DOMAIN g : g[i] = k /\ T[k] = rs[i]
    BY <1>2, LatestOwn
  <2> QED
    BY <1>2, <2>1
<1> HIDE DEF V, T
<1> QED
  BY <1>1, <1>3, <1>4 DEF OwnKeys, Over

LEMMA VResolve ==
    ASSUME ValidatorInv, NEW p \in Validating, ResolveRef(p)
    PROVE  ValidatorInv'
<1>1. /\ UNCHANGED <<byVersion, versioned, text, ref>>
      /\ \A q \in Validating : q # p => UNCHANGED <<at[q], verdict[q], reg[q]>>
      /\ DOMAIN at' = Validating /\ DOMAIN verdict' = Validating /\ DOMAIN reg' = Validating
  BY DEF ResolveRef, Ends, ValidatorInv
<1>2. CASE Resolve(ref[p]) = {} \/ ~text[p].decodes
  <2>1. at'[p] = "idle" /\ verdict'[p] = "error"
    BY <1>2 DEF ResolveRef, Ends, ValidatorInv
  <2> QED
    BY <1>1, <2>1 DEF ValidatorInv, OwnKeys, Asked, Mismatch, Expected, Resolved
<1>3. CASE ~(Resolve(ref[p]) = {} \/ ~text[p].decodes)
  <2> DEFINE r == CHOOSE x \in Resolve(ref[p]) : TRUE
  <2>1. /\ reg'[p] = r /\ at[p] = "resolve"
        /\ \/ Mismatch(p, r) /\ at'[p] = "idle" /\ verdict'[p] = "invalid"
           \/ ~Mismatch(p, r)
    BY <1>3 DEF ResolveRef, Ends, ValidatorInv
  <2>2. r \in Resolve(ref[p])
    BY <1>3
  <2> HIDE DEF r
  <2>3. Asked(p)'
    BY <1>1, <2>1, <2>2 DEF Asked, Resolve, Derived, ValidatorInv, OwnKeys
  <2>4. Mismatch(p, reg[p])' <=> Mismatch(p, r)
    BY <1>1, <2>1 DEF Mismatch, Expected
  <2> QED
    BY <1>1, <2>1, <2>3, <2>4 DEF ValidatorInv, OwnKeys, Asked, Mismatch, Expected, Resolved
<1> QED
  BY <1>2, <1>3

\* A step that leaves what was resolved, and makes no verdict of an open call.
LEMMA VRest ==
    ASSUME ValidatorInv, OwnKeys', UNCHANGED <<text, ref, reg>>,
           DOMAIN at' = Validating, DOMAIN verdict' = Validating,
           \A p \in Validating :
             /\ at'[p] \in Resolved => at[p] \in Resolved
             /\ verdict'[p] \in {"ok", "invalid"} => verdict'[p] = verdict[p] \/ at[p] \in Resolved
    PROVE  ValidatorInv'
<1>1. ASSUME NEW p \in Validating
      PROVE  /\ (at'[p] \in Resolved \/ verdict'[p] \in {"ok", "invalid"} => Asked(p)')
             /\ (at'[p] \in Resolved \/ verdict'[p] = "ok" => ~Mismatch(p, reg[p])')
  BY DEF ValidatorInv, Asked, Mismatch, Expected
<1> QED
  BY <1>1 DEF ValidatorInv

LEMMA VBegin ==
    ASSUME ValidatorInv, NEW p \in Validating, NEW t, NEW r, BeginValidate(p, t, r)
    PROVE  ValidatorInv'
<1>1. /\ at'[p] \in {"resolve", "idle"} /\ verdict'[p] \in {"none", "error"}
      /\ UNCHANGED <<byVersion, versioned>>
      /\ \A q \in Validating : q # p => UNCHANGED <<at[q], verdict[q], text[q], ref[q], reg[q]>>
      /\ DOMAIN at' = Validating /\ DOMAIN verdict' = Validating /\ DOMAIN text' = Validating
      /\ DOMAIN ref' = Validating /\ DOMAIN reg' = Validating
  BY DEF BeginValidate, Ends, ValidatorInv
<1>2. ASSUME NEW q \in Validating, q # p
      PROVE  /\ Asked(q)' <=> Asked(q)
             /\ Mismatch(q, reg[q])' <=> Mismatch(q, reg[q])
  BY <1>1, <1>2 DEF Asked, Mismatch, Expected
<1> QED
  BY <1>1, <1>2 DEF ValidatorInv, OwnKeys, Resolved

LEMMA ValidatorStepInv ==
    ASSUME ValidatorInv, ValidatorNext \/ UNCHANGED validatorVars
    PROVE  ValidatorInv'
<1>1. CASE NewValidator
  <2>1. DOMAIN BuiltinRegistrations \subseteq 1 .. Len(Assets) /\ Len(Assets) \in Nat
    BY ValidatorAssumption DEF IsSequence, BuiltinRegistrations
  <2>2. OwnKeys'
    BY <1>1, <2>1, AddsOwn DEF NewValidator, ValidatorInv
  <2> QED
    BY <1>1, <2>2, VRest DEF NewValidator, ValidatorInv
<1>2. ASSUME NEW r, RegisterSchema(r)
      PROVE  ValidatorInv'
  <2>1. ASSUME Adds(<<r>>)
        PROVE  OwnKeys'
    <3>1. PICK rs : rs = <<r>>
      OBVIOUS
    <3>2. DOMAIN rs \subseteq 1 .. 1
      BY <3>1
    <3>3. PICK n \in Nat : DOMAIN rs \subseteq 1 .. n
      BY <3>2
    <3>4. Adds(rs) /\ OwnKeys
      BY <2>1, <3>1 DEF ValidatorInv
    <3> QED
      BY <3>3, <3>4, AddsOwn
  <2>2. OwnKeys'
    BY <1>2, <2>1 DEF RegisterSchema, ValidatorInv, OwnKeys
  <2> QED
    BY <1>2, <2>2, VRest DEF RegisterSchema, ValidatorInv
<1>3. ASSUME NEW p \in Validating, Compile(p)
      PROVE  ValidatorInv'
  <2>1. OwnKeys'
    BY <1>3 DEF Compile, ValidatorInv, OwnKeys
  <2> QED
    BY <1>3, <2>1, VRest DEF Compile, ValidatorInv, Resolved
<1>4. ASSUME NEW p \in Validating, Visit(p)
      PROVE  ValidatorInv'
  <2>1. OwnKeys'
    BY <1>4 DEF Visit, ValidatorInv, OwnKeys
  <2> QED
    BY <1>4, <2>1, VRest DEF Visit, Ends, ValidatorInv, Resolved
<1>5. ASSUME NEW l, NEW ok \in BOOLEAN, Compiled(l, ok)
      PROVE  ValidatorInv'
  <2>1. OwnKeys'
    BY <1>5 DEF Compiled, ValidatorInv, OwnKeys
  <2> QED
    BY <1>5, <2>1, VRest DEF Compiled, ValidatorInv, Resolved
<1>6. CASE UNCHANGED validatorVars
  BY <1>6, VRest DEF validatorVars, ValidatorInv, OwnKeys
<1> QED
  BY <1>1, <1>2, <1>3, <1>4, <1>5, <1>6, VBegin, VResolve DEF ValidatorNext

LEMMA ValidatorInitInv ==
    ASSUME ValidatorInit
    PROVE  ValidatorInv
BY DEF ValidatorInit, ValidatorInv, OwnKeys, Resolved

LEMMA ValidatorOwn == ValidatorInv => OwnSchema
BY DEF ValidatorInv, OwnSchema, Asked

\* Who compiles a location has resolved its document to it, and is the one
\* that the others wait for.
ValidatorTypes ==
    /\ ValidatorTypeOK
    /\ \A l \in DOMAIN compiling : compiling[l] \in Validating /\ reg[compiling[l]].location = l

\* A step that compiles nothing else, and of no caller that compiles.
LEMMA VTypesRest ==
    ASSUME ValidatorTypes, ValidatorInv', UNCHANGED <<cache, compiling>>,
           built' \in BOOLEAN, extras' \in 0 .. MaxExtra,
           at' \in [Validating -> {"idle", "resolve", "compile", "compiling", "visit"}],
           \A q \in Validating :
             /\ verdict'[q] \in {"none", "ok", "invalid", "error"}
             /\ at[q] = "compiling" => at'[q] = "compiling" /\ reg'[q] = reg[q]
    PROVE  ValidatorTypes'
<1>1. \A v \in DOMAIN byVersion' : byVersion'[v].version = v
  BY DEF ValidatorInv, OwnKeys
<1>2. ASSUME NEW l \in DOMAIN compiling
      PROVE  /\ at'[compiling[l]] = "compiling" /\ l \notin cache
             /\ compiling[l] \in Validating /\ reg'[compiling[l]].location = l
  BY <1>2 DEF ValidatorTypes, ValidatorTypeOK
<1> QED
  BY <1>1, <1>2 DEF ValidatorTypes, ValidatorTypeOK

LEMMA VTypesStep ==
    ASSUME ValidatorTypes, ValidatorInv, ValidatorInv', ValidatorNext \/ UNCHANGED validatorVars
    PROVE  ValidatorTypes'
<1> DEFINE Ats == {"idle", "resolve", "compile", "compiling", "visit"}
<1>0. /\ built \in BOOLEAN /\ at \in [Validating -> Ats] /\ extras \in 0 .. MaxExtra
      /\ \A q \in Validating : verdict[q] \in {"none", "ok", "invalid", "error"}
      /\ DOMAIN verdict = Validating /\ DOMAIN reg = Validating
  BY DEF ValidatorTypes, ValidatorTypeOK, ValidatorInv
<1>1. CASE NewValidator
  BY <1>0, <1>1, VTypesRest DEF NewValidator
<1>2. ASSUME NEW r \in Extra, RegisterSchema(r)
      PROVE  ValidatorTypes'
  <2>1. /\ extras < MaxExtra /\ extras' = extras + 1
        /\ UNCHANGED <<built, cache, compiling, at, reg, verdict>>
    BY <1>2, Zenon DEF RegisterSchema
  <2>2. extras' \in 0 .. MaxExtra
    BY <1>0, <2>1, ValidatorAssumption
  <2> QED
    BY <1>0, <2>1, <2>2, VTypesRest
<1>3. ASSUME NEW p \in Validating, NEW t, NEW r, BeginValidate(p, t, r)
      PROVE  ValidatorTypes'
  <2>1. /\ at[p] = "idle" /\ at' \in [Validating -> Ats]
        /\ \A q \in Validating : verdict'[q] \in {"none", "ok", "invalid", "error"}
        /\ \A q \in Validating : q # p => at'[q] = at[q] /\ reg'[q] = reg[q]
        /\ UNCHANGED <<built, cache, compiling, extras>>
    BY <1>0, <1>3 DEF BeginValidate, Ends
  <2> QED
    BY <1>0, <2>1, VTypesRest
<1>4. ASSUME NEW p \in Validating, ResolveRef(p)
      PROVE  ValidatorTypes'
  <2>1. /\ at[p] = "resolve" /\ at' \in [Validating -> Ats]
        /\ \A q \in Validating : verdict'[q] \in {"none", "ok", "invalid", "error"}
        /\ \A q \in Validating : q # p => at'[q] = at[q] /\ reg'[q] = reg[q]
        /\ UNCHANGED <<built, cache, compiling, extras>>
    BY <1>0, <1>4 DEF ResolveRef, Ends
  <2> QED
    BY <1>0, <2>1, VTypesRest
<1>5. ASSUME NEW p \in Validating, Visit(p)
      PROVE  ValidatorTypes'
  <2>1. /\ at[p] = "visit" /\ at' \in [Validating -> Ats]
        /\ \A q \in Validating : verdict'[q] \in {"none", "ok", "invalid", "error"}
        /\ \A q \in Validating : q # p => at'[q] = at[q] /\ reg'[q] = reg[q]
        /\ UNCHANGED <<built, cache, compiling, extras>>
    BY <1>0, <1>5 DEF Visit, Ends
  <2> QED
    BY <1>0, <2>1, VTypesRest
<1>6. ASSUME NEW p \in Validating, Compile(p)
      PROVE  ValidatorTypes'
  <2> DEFINE l == reg[p].location
  <2>1. /\ at[p] = "compile" /\ at' \in [Validating -> Ats]
        /\ \A q \in Validating : q # p => at'[q] = at[q]
        /\ UNCHANGED <<built, byVersion, cache, reg, verdict, extras>>
        /\ \/ UNCHANGED compiling
           \/ l \notin cache /\ at'[p] = "compiling" /\ compiling' = With(compiling, l, p)
    BY <1>0, <1>6 DEF Compile
  <2>2. CASE UNCHANGED compiling
    BY <1>0, <2>1, <2>2, VTypesRest
  <2>3. CASE l \notin cache /\ at'[p] = "compiling" /\ compiling' = With(compiling, l, p)
    <3>1. ASSUME NEW k \in DOMAIN compiling'
          PROVE  /\ at'[compiling'[k]] = "compiling" /\ k \notin cache
                 /\ compiling'[k] \in Validating /\ reg'[compiling'[k]].location = k
      BY <2>1, <2>3, <3>1 DEF With, ValidatorTypes, ValidatorTypeOK
    <3> QED
      BY <1>0, <2>1, <3>1 DEF ValidatorTypes, ValidatorTypeOK
  <2> QED
    BY <2>1, <2>2, <2>3
<1>7. ASSUME NEW l \in DOMAIN compiling, NEW ok \in BOOLEAN, Compiled(l, ok)
      PROVE  ValidatorTypes'
  <2>1. /\ DOMAIN compiling' = DOMAIN compiling \ {l}
        /\ \A k \in DOMAIN compiling' : compiling'[k] = compiling[k]
        /\ cache' \subseteq cache \cup {l}
        /\ UNCHANGED <<built, byVersion, reg, extras>>
        /\ \A q \in Validating : /\ at'[q] \in Ats
                                 /\ verdict'[q] \in {"none", "ok", "invalid", "error"}
                                 /\ reg[q].location # l => at'[q] = at[q]
        /\ DOMAIN at' = Validating
    BY <1>0, <1>7 DEF Compiled, Restrict
  <2>2. at' \in [Validating -> Ats]
    BY <1>7, <2>1 DEF Compiled
  <2>3. ASSUME NEW k \in DOMAIN compiling'
        PROVE  /\ at'[compiling'[k]] = "compiling" /\ k \notin cache'
               /\ compiling'[k] \in Validating /\ reg'[compiling'[k]].location = k
    BY <2>1, <2>3 DEF ValidatorTypes, ValidatorTypeOK
  <2> QED
    BY <1>0, <2>1, <2>2, <2>3 DEF ValidatorTypes, ValidatorTypeOK
<1>8. CASE UNCHANGED validatorVars
  BY <1>0, <1>8, VTypesRest DEF validatorVars
<1> QED
  BY <1>1, <1>2, <1>3, <1>4, <1>5, <1>6, <1>7, <1>8 DEF ValidatorNext

LEMMA VTypesInit ==
    ASSUME ValidatorInit
    PROVE  ValidatorTypes
<1>1. built \in BOOLEAN /\ extras \in 0 .. MaxExtra
  <2>1. built = FALSE /\ extras = 0
    BY DEF ValidatorInit
  <2>2. built \in BOOLEAN
    BY <2>1, Zenon
  <2>3. extras \in 0 .. MaxExtra
    BY <2>1, ValidatorAssumption
  <2> QED
    BY <2>2, <2>3
<1>2. DOMAIN byVersion = {} /\ DOMAIN compiling = {}
  BY DEF ValidatorInit
<1>3. /\ at \in [Validating -> {"idle", "resolve", "compile", "compiling", "visit"}]
      /\ \A p \in Validating : verdict[p] \in {"none", "ok", "invalid", "error"}
  BY DEF ValidatorInit
<1> QED
  BY <1>1, <1>2, <1>3 DEF ValidatorTypes, ValidatorTypeOK
-----------------------------------------------------------------------------
(***************************************************************************)
(* The references.  F has the schemas that a call has returned from: what  *)
(* they refer to has returned too, so a schema that returns is in nothing  *)
(* that it refers to.                                                      *)
(***************************************************************************)
Frees(s) ==
    \E S \in SUBSET Schemas : TargetsOf(refs, s) \subseteq S /\ Closed(refs, S) /\ s \notin S

Pointed(i) == IF i < Len(inlining) THEN {inlining[i + 1].schema} ELSE {}

Cuts ==
    /\ original \in ApiDocuments
    /\ refs \in [DOMAIN original -> Schemas \cup {NoSchema}]
    /\ cleared \subseteq DOMAIN original
    /\ \A r \in DOMAIN original :
         \/ refs[r] = original[r]
         \/ refs[r] = NoSchema /\ r \in cleared /\ r[1] # Components /\ ClosesCircle(r)

Stacked ==
    /\ inlining \in Seq([schema : Schemas \cup {NoSchema, Components}, left : SUBSET DOMAIN original])
    /\ inlining # <<>> => inlining[1].schema = Components
    /\ \A i \in 2 .. Len(inlining) : inlining[i].schema # Components
    /\ \A i, j \in 1 .. Len(inlining) : inlining[i].schema = inlining[j].schema => i = j
    /\ stack = {inlining[i].schema : i \in 2 .. Len(inlining)}
    /\ \A i, j \in 2 .. Len(inlining) :
         i < j => inlining[j].schema \in Within(original, inlining[i].schema) \cup {NoSchema}

Returned(F) ==
    /\ F \in SUBSET Schemas
    /\ \A r \in cleared : original[r] \in F \cup stack
    /\ \A s \in F : Owned(original, s) \subseteq cleared /\ TargetsOf(refs, s) \subseteq F /\ Frees(s)

CallHandled(F, i) ==
    /\ inlining[i].left \subseteq Owned(original, inlining[i].schema)
    /\ \A r \in Owned(original, inlining[i].schema) \ inlining[i].left :
         r \in cleared /\ refs[r] \in F \cup {NoSchema} \cup Pointed(i)

Finished(F) ==
    /\ Returned(F)
    /\ \A i \in 1 .. Len(inlining) : CallHandled(F, i)
    /\ inlining = <<>> => Owned(original, Components) \subseteq cleared

RefsInv == Cuts /\ Stacked /\ \E F : Finished(F)

LEMMA WithinStep ==
    ASSUME NEW d, NEW o, NEW s \in Within(d, o), NEW t \in Schemas \ {NoSchema}, t \in TargetsOf(d, s)
    PROVE  t \in Within(d, o)
  BY DEF Within, Closed

LEMMA WithinTarget ==
    ASSUME NEW d, NEW o, NEW t \in Schemas, t \in TargetsOf(d, o)
    PROVE  t \in Within(d, o)
  BY DEF Within

\* What was free stays so, when a reference is cut.
LEMMA StaysFree ==
    ASSUME Cuts, UNCHANGED original,
           NEW r \in DOMAIN refs, refs' \in {refs, [refs EXCEPT ![r] = NoSchema]},
           NEW s
    PROVE  /\ TargetsOf(refs, s)' \subseteq TargetsOf(refs, s)
           /\ Frees(s) => Frees(s)'
<1>1. \A x : TargetsOf(refs, x)' \subseteq TargetsOf(refs, x)
  BY DEF TargetsOf, Owned, Cuts
<1>2. \A S : Closed(refs, S) => Closed(refs, S)'
  BY <1>1 DEF Closed
<1> QED
  BY <1>1, <1>2 DEF Frees

StackCalls == [schema : Schemas \cup {NoSchema, Components}, left : SUBSET DOMAIN original]

Outer(r) == [inlining EXCEPT ![Len(inlining)].left = @ \ {r}]

LEMMA StackAppended ==
    ASSUME NEW T, NEW u \in Seq(T), NEW c \in T, NEW n, n = Len(u)
    PROVE  /\ Append(u, c) \in Seq(T) /\ Len(Append(u, c)) = n + 1
           /\ \A i \in 1 .. n : Append(u, c)[i] = u[i]
           /\ Append(u, c)[n + 1] = c
  OBVIOUS

\* The call in the middle of which a reference is handled.
LEMMA OuterCall ==
    ASSUME Cuts, Stacked, NEW F, Finished(F), inlining # <<>>, NEW r \in Current.left,
           NEW n, n = Len(inlining),
           NEW outer, outer = Outer(r)
    PROVE  /\ n \in Nat /\ n >= 1
           /\ outer \in Seq(StackCalls) /\ Len(outer) = n
           /\ \A i \in 1 .. n : outer[i].schema = inlining[i].schema
           /\ \A i \in 1 .. n : i # n => outer[i] = inlining[i]
           /\ outer[n].left = inlining[n].left \ {r}
           /\ r \in DOMAIN original /\ r[1] = inlining[n].schema
           /\ inlining[n].schema \in Schemas \cup {Components}
<1>1. n \in Nat /\ n >= 1 /\ n \in 1 .. n /\ inlining \in Seq(StackCalls) /\ inlining[n] \in StackCalls
  <2>1. inlining \in Seq(StackCalls)
    BY DEF Stacked, StackCalls
  <2> QED
    BY <2>1
<1>2. outer \in Seq(StackCalls) /\ Len(outer) = n
  BY <1>1 DEF StackCalls, Outer
<1>3. /\ \A i \in 1 .. n : outer[i].schema = inlining[i].schema
      /\ \A i \in 1 .. n : i # n => outer[i] = inlining[i]
      /\ outer[n].left = inlining[n].left \ {r}
  BY <1>1 DEF StackCalls, Outer
<1>4. r \in Owned(original, inlining[n].schema)
  BY <1>1 DEF Finished, CallHandled, Current
<1>5. r \in DOMAIN original /\ r[1] = inlining[n].schema
  BY <1>4 DEF Owned
<1>6. inlining[n].schema \in Schemas \cup {Components}
  BY <1>5, RefsAssumption DEF Cuts
<1> QED
  BY <1>1, <1>2, <1>3, <1>5, <1>6

LEMMA RefsCut ==
    ASSUME RefsInv, NEW r, inlining # <<>>, r \in Current.left, refs[r] \in stack,
           cleared' = cleared \cup {r},
           refs' = [refs EXCEPT ![r] = NoSchema],
           inlining' = Outer(r),
           UNCHANGED <<stack, original>>
    PROVE  RefsInv'
<1>n. PICK n : n = Len(inlining)
  OBVIOUS
<1>1. PICK F : Finished(F)
  BY DEF RefsInv
<1>2. Cuts /\ Stacked
  BY DEF RefsInv
<1>3. /\ n \in Nat /\ n >= 1
      /\ inlining' \in Seq(StackCalls) /\ Len(inlining') = n
      /\ \A i \in 1 .. n : inlining'[i].schema = inlining[i].schema
      /\ \A i \in 1 .. n : i # n => inlining'[i] = inlining[i]
      /\ inlining'[n].left = inlining[n].left \ {r}
      /\ r \in DOMAIN original /\ r[1] = inlining[n].schema
      /\ inlining[n].schema \in Schemas \cup {Components}
  <2>1. PICK outer : outer = Outer(r)
    OBVIOUS
  <2>2. /\ n \in Nat /\ n >= 1
        /\ outer \in Seq(StackCalls) /\ Len(outer) = n
        /\ \A i \in 1 .. n : outer[i].schema = inlining[i].schema
        /\ \A i \in 1 .. n : i # n => outer[i] = inlining[i]
        /\ outer[n].left = inlining[n].left \ {r}
        /\ r \in DOMAIN original /\ r[1] = inlining[n].schema
        /\ inlining[n].schema \in Schemas \cup {Components}
    BY <1>n, <1>1, <1>2, <2>1, OuterCall
  <2> QED
    BY <1>n, <2>1, <2>2
<1>4. PICK i \in 2 .. n : refs[r] = inlining[i].schema
  BY <1>n, <1>2 DEF Stacked
<1>5. r[1] # Components
  BY <1>n, <1>2, <1>3, <1>4 DEF Stacked, Components
<1>6. refs[r] = original[r] => ClosesCircle(r)
  <2>1. i = n \/ inlining[n].schema \in Within(original, inlining[i].schema) \cup {NoSchema}
    BY <1>n, <1>2, <1>3, <1>4 DEF Stacked
  <2> QED
    BY <2>1, <1>3, <1>4, <1>5, RefsAssumption DEF ClosesCircle
<1>7. Cuts'
  <2>1. DOMAIN refs = DOMAIN original /\ refs' \in [DOMAIN original -> Schemas \cup {NoSchema}]
    BY <1>2, <1>3 DEF Cuts
  <2>2. \A x \in DOMAIN original : ClosesCircle(x)' <=> ClosesCircle(x)
    BY DEF ClosesCircle, Within, TargetsOf, Closed, Owned
  <2>3. ClosesCircle(r)
    BY <1>2, <1>3, <1>6 DEF Cuts
  <2> QED
    BY <1>2, <1>3, <1>5, <2>1, <2>2, <2>3 DEF Cuts
<1>8. Stacked'
  <2>1. inlining' \in Seq([schema : Schemas \cup {NoSchema, Components}, left : SUBSET DOMAIN original'])
    BY <1>3 DEF StackCalls
  <2>2. stack' = {inlining'[k].schema : k \in 2 .. Len(inlining')}
    BY <1>n, <1>2, <1>3 DEF Stacked
  <2> QED
    BY <1>n, <1>2, <1>3, <2>1, <2>2 DEF Stacked
<1>9. Returned(F)'
  <2>1. \A x \in cleared' : original[x] \in F \cup stack
    <3>1. original[r] \in F \cup stack
      <4>1. CASE refs[r] = original[r]
        BY <4>1
      <4>2. CASE r \in cleared
        BY <1>1, <4>2 DEF Finished, Returned
      <4> QED
        BY <1>2, <1>3, <4>1, <4>2 DEF Cuts
    <3> QED
      BY <1>1, <3>1 DEF Finished, Returned
  <2>3. \A o : Owned(original, o)' = Owned(original, o)
    BY DEF Owned
  <2>4. ASSUME NEW s \in F
        PROVE  Owned(original, s)' \subseteq cleared' /\ TargetsOf(refs, s)' \subseteq F /\ Frees(s)'
    <3>1. Owned(original, s) \subseteq cleared /\ TargetsOf(refs, s) \subseteq F /\ Frees(s)
      BY <1>1 DEF Finished, Returned
    <3>2. TargetsOf(refs, s)' \subseteq TargetsOf(refs, s) /\ Frees(s)'
      BY <1>2, <1>3, <3>1, StaysFree DEF Cuts
    <3>3. Owned(original, s)' = Owned(original, s)
      BY <2>3
    <3> QED
      BY <3>1, <3>2, <3>3
  <2>5. F \in SUBSET Schemas
    BY <1>1 DEF Finished, Returned
  <2> QED
    BY <2>1, <2>4, <2>5 DEF Returned
<1>10. ASSUME NEW k \in 1 .. n
       PROVE  CallHandled(F, k)'
  <2>1. CallHandled(F, k) /\ inlining'[k].schema = inlining[k].schema /\ Pointed(k)' = Pointed(k)
    <3>1. CallHandled(F, k) /\ inlining'[k].schema = inlining[k].schema
      BY <1>n, <1>1, <1>3 DEF Finished
    <3>2. k < n => k + 1 \in 1 .. n
      BY <1>3
    <3>3. Pointed(k)' = Pointed(k)
      BY <1>n, <1>3, <3>2 DEF Pointed
    <3> QED
      BY <3>1, <3>3
  <2>2. Owned(original, inlining[k].schema)' = Owned(original, inlining[k].schema)
    BY <2>1 DEF Owned
  <2>3. inlining'[k].left \in {inlining[k].left, inlining[k].left \ {r}}
    BY <1>3
  <2>4. \A x \in DOMAIN original : refs'[x] \in {refs[x], NoSchema}
    BY <1>2 DEF Cuts
  <2>5. refs'[r] = NoSchema
    BY <1>2, <1>3 DEF Cuts
  <2> QED
    BY <2>1, <2>2, <2>3, <2>4, <2>5 DEF CallHandled, Owned
<1>11. Finished(F)'
  BY <1>n, <1>1, <1>3, <1>9, <1>10 DEF Finished
<1> QED
  BY <1>7, <1>8, <1>11 DEF RefsInv

LEMMA RefsCall ==
    ASSUME RefsInv, NEW r, inlining # <<>>, r \in Current.left, refs[r] \notin stack,
           cleared' = cleared \cup {r},
           inlining' = Append(Outer(r), Call(refs, refs[r])),
           stack' = stack \cup {refs[r]},
           UNCHANGED <<refs, original>>
    PROVE  RefsInv'
<1>1. PICK F : Finished(F)
  BY DEF RefsInv
<1>n. PICK n : n = Len(inlining)
  OBVIOUS
<1>t. PICK t : t = refs[r]
  OBVIOUS
<1>2. Cuts /\ Stacked
  BY DEF RefsInv
<1>3. PICK outer :
        /\ outer = Outer(r)
        /\ n \in Nat /\ n >= 1
        /\ outer \in Seq(StackCalls) /\ Len(outer) = n
        /\ \A i \in 1 .. n : outer[i].schema = inlining[i].schema
        /\ \A i \in 1 .. n : i # n => outer[i] = inlining[i]
        /\ outer[n].left = inlining[n].left \ {r}
        /\ r \in DOMAIN original /\ r[1] = inlining[n].schema
        /\ inlining[n].schema \in Schemas \cup {Components}
  <2>1. PICK outer : outer = Outer(r)
    OBVIOUS
  <2>2. /\ n \in Nat /\ n >= 1
        /\ outer \in Seq(StackCalls) /\ Len(outer) = n
        /\ \A i \in 1 .. n : outer[i].schema = inlining[i].schema
        /\ \A i \in 1 .. n : i # n => outer[i] = inlining[i]
        /\ outer[n].left = inlining[n].left \ {r}
        /\ r \in DOMAIN original /\ r[1] = inlining[n].schema
        /\ inlining[n].schema \in Schemas \cup {Components}
    BY <1>n, <1>1, <1>2, <2>1, OuterCall
  <2> QED
    BY <2>1, <2>2
<1>4. /\ t \in Schemas \cup {NoSchema} /\ t \in {original[r], NoSchema} /\ t # Components
      /\ original[r] \in Schemas
  <2>1. original[r] \in Schemas
    BY <1>2, <1>3, RefsAssumption DEF Cuts
  <2>2. t \in Schemas \cup {NoSchema} /\ t \in {original[r], NoSchema}
    BY <1>t, <1>2, <1>3 DEF Cuts
  <2>3. t # Components
    BY <2>1, <2>2, RefsAssumption DEF Components, NoSchema
  <2> QED
    BY <2>1, <2>2, <2>3
<1>5. Call(refs, t) \in StackCalls /\ Call(refs, t).schema = t /\ Call(refs, t).left = Owned(original, t)
  <2>1. Owned(refs, t) = Owned(original, t) /\ Owned(refs, t) \subseteq DOMAIN original
    BY <1>2 DEF Owned, Cuts
  <2> QED
    BY <1>4, <2>1 DEF Call, StackCalls
<1>6. /\ inlining' \in Seq(StackCalls) /\ Len(inlining') = n + 1
      /\ \A i \in 1 .. n : inlining'[i] = outer[i] /\ inlining'[i].schema = inlining[i].schema
      /\ inlining'[n + 1] = Call(refs, t)
  <2>1. PICK c : c = Call(refs, t)
    OBVIOUS
  <2>2. inlining' = Append(outer, c)
    BY <1>n, <1>t, <1>3, <2>1
  <2>3. outer \in Seq(StackCalls) /\ c \in StackCalls /\ Len(outer) = n
    BY <1>3, <1>5, <2>1
  <2>4. /\ inlining' \in Seq(StackCalls) /\ Len(inlining') = n + 1
        /\ \A i \in 1 .. n : inlining'[i] = outer[i]
        /\ inlining'[n + 1] = c
    <3>1. /\ Append(outer, c) \in Seq(StackCalls) /\ Len(Append(outer, c)) = n + 1
          /\ \A i \in 1 .. n : Append(outer, c)[i] = outer[i]
          /\ Append(outer, c)[n + 1] = c
      BY ONLY <2>3, StackAppended
    <3> QED
      BY <2>2, <3>1
  <2> QED
    BY <1>3, <2>1, <2>4
<1>7. \A x \in DOMAIN original : ClosesCircle(x)' <=> ClosesCircle(x)
  BY DEF ClosesCircle, Within, TargetsOf, Closed, Owned
<1>8. Cuts'
  BY <1>2, <1>3, <1>7 DEF Cuts
<1>9. Stacked'
  <2>1. inlining' \in Seq([schema : Schemas \cup {NoSchema, Components}, left : SUBSET DOMAIN original'])
    BY <1>6 DEF StackCalls
  <2>2. /\ inlining'[1].schema = Components
        /\ \A i \in 2 .. n + 1 : inlining'[i].schema # Components
    BY <1>n, <1>t, <1>2, <1>3, <1>4, <1>5, <1>6 DEF Stacked
  <2>3. stack' = {inlining'[i].schema : i \in 2 .. n + 1}
    <3>1. stack = {inlining[i].schema : i \in 2 .. n}
      BY <1>n, <1>2 DEF Stacked
    <3>2. \A i \in 2 .. n : inlining'[i].schema = inlining[i].schema
      BY <1>3, <1>6
    <3>3. inlining'[n + 1].schema = t /\ n + 1 \in 2 .. n + 1
      BY <1>3, <1>5, <1>6
    <3>4. 2 .. n + 1 = (2 .. n) \cup {n + 1}
      BY <1>3
    <3>5. {inlining'[i].schema : i \in 2 .. n + 1} = {inlining'[i].schema : i \in 2 .. n} \cup {t}
      BY <3>3, <3>4
    <3>6. {inlining'[i].schema : i \in 2 .. n} = stack
      BY <3>1, <3>2
    <3> QED
      BY <1>t, <3>5, <3>6
  <2>4. \A i \in 1 .. n : inlining[i].schema # t
    BY <1>n, <1>t, <1>2, <1>3, <1>4 DEF Stacked
  <2>5. \A i, j \in 1 .. n + 1 : inlining'[i].schema = inlining'[j].schema => i = j
    BY <1>n, <1>t, <1>2, <1>3, <1>5, <1>6, <2>4 DEF Stacked
  <2>6. ASSUME NEW i \in 2 .. n
        PROVE  t \in Within(original, inlining[i].schema) \cup {NoSchema}
    <3>1. CASE t = NoSchema
      BY <3>1
    <3>2. CASE t # NoSchema
      <4>1. t \in Schemas \ {NoSchema} /\ t \in TargetsOf(original, inlining[n].schema)
        BY <1>3, <1>4, <3>2 DEF TargetsOf, Owned
      <4>2. i = n \/ inlining[n].schema \in Within(original, inlining[i].schema)
        BY <1>n, <1>t, <1>2, <1>3, <2>6, RefsAssumption DEF Stacked
      <4> QED
        BY <4>1, <4>2, WithinStep, WithinTarget
    <3> QED
      BY <3>1, <3>2
  <2>7. ASSUME NEW i \in 2 .. n + 1, NEW j \in 2 .. n + 1, i < j
        PROVE  inlining'[j].schema \in Within(original, inlining'[i].schema) \cup {NoSchema}
    <3>1. i \in 2 .. n /\ inlining'[i].schema = inlining[i].schema
      BY <1>3, <1>6, <2>7
    <3>2. CASE j = n + 1
      BY <1>5, <1>6, <2>6, <3>1, <3>2
    <3>3. CASE j \in 2 .. n
      BY <1>n, <1>t, <1>2, <1>3, <1>6, <2>7, <3>1, <3>3 DEF Stacked
    <3> QED
      BY <1>3, <3>2, <3>3
  <2>8. \A o : Within(original, o)' = Within(original, o)
    BY DEF Within, TargetsOf, Closed, Owned
  <2> QED
    BY <1>3, <1>6, <2>1, <2>2, <2>3, <2>5, <2>7, <2>8 DEF Stacked
<1>10. Returned(F)'
  <2>1. \A x \in cleared' : original[x] \in F \cup stack'
    <3>1. original[r] \in F \cup stack'
      <4>1. CASE t = original[r]
        BY <1>t, <4>1
      <4>2. CASE r \in cleared
        BY <1>1, <4>2 DEF Finished, Returned
      <4> QED
        BY <1>t, <1>2, <1>3, <4>1, <4>2 DEF Cuts
    <3> QED
      BY <1>1, <3>1 DEF Finished, Returned
  <2>2. \A s \in F : TargetsOf(refs, s)' = TargetsOf(refs, s) /\ (Frees(s) <=> Frees(s)')
    BY DEF TargetsOf, Owned, Frees, Closed
  <2>3. \A o : Owned(original, o)' = Owned(original, o)
    BY DEF Owned
  <2> QED
    BY <1>1, <2>1, <2>2, <2>3 DEF Finished, Returned
<1>11. ASSUME NEW k \in 1 .. n
       PROVE  CallHandled(F, k)'
  <2>1. CallHandled(F, k) /\ inlining'[k].schema = inlining[k].schema
    BY <1>n, <1>t, <1>1, <1>3, <1>6 DEF Finished
  <2>2. Owned(original, inlining[k].schema)' = Owned(original, inlining[k].schema)
    BY <1>3, <1>6 DEF Owned
  <2>3. CASE k # n
    <3>1. k \in 1 .. n /\ k < n /\ k < n + 1 /\ k + 1 \in 1 .. n
      BY <1>3, <2>3
    <3>2. inlining'[k].left = inlining[k].left
      BY <1>3, <1>6, <2>3, <3>1
    <3>3. Pointed(k)' = Pointed(k)
      BY <1>n, <1>6, <3>1 DEF Pointed
    <3> QED
      BY <2>1, <2>2, <3>2, <3>3 DEF CallHandled
  <2>4. CASE k = n
    <3>1. inlining'[n].left = inlining[n].left \ {r} /\ Pointed(n) = {} /\ Pointed(n)' = {t}
      BY <1>n, <1>t, <1>3, <1>5, <1>6 DEF Pointed
    <3>2. ASSUME NEW x \in Owned(original, inlining[n].schema), x \notin inlining[n].left \ {r}
          PROVE  x \in cleared' /\ refs'[x] \in F \cup {NoSchema} \cup {t}
      <4>1. CASE x = r
        BY <1>t, <4>1
      <4>2. CASE x # r
        BY <2>1, <2>4, <3>1, <3>2, <4>2 DEF CallHandled
      <4> QED
        BY <4>1, <4>2
    <3>3. inlining'[n].left \subseteq Owned(original, inlining[n].schema)
      BY <2>1, <2>4, <3>1 DEF CallHandled
    <3> QED
      BY <2>1, <2>2, <2>4, <3>1, <3>2, <3>3 DEF CallHandled
  <2> QED
    BY <2>3, <2>4
<1>12. CallHandled(F, n + 1)'
  <2>1. Owned(original, t)' = Owned(original, t)
    BY DEF Owned
  <2> QED
    BY <1>5, <1>6, <2>1 DEF CallHandled, Owned
<1>13. Finished(F)'
  <2>1. 1 .. Len(inlining') = (1 .. n) \cup {n + 1} /\ inlining' # <<>>
    BY <1>3, <1>6
  <2> QED
    BY <1>10, <1>11, <1>12, <2>1 DEF Finished
<1> QED
  BY <1>8, <1>9, <1>13 DEF RefsInv

\* The schema of a call that returns is in nothing that it refers to.
LEMMA RefsReturn ==
    ASSUME RefsInv, Return
    PROVE  RefsInv'
<1>1. PICK F : Finished(F)
  BY DEF RefsInv
<1>2. Cuts /\ Stacked
  BY DEF RefsInv
<1>n. PICK n : n = Len(inlining)
  OBVIOUS
<1>s. PICK s : s = inlining[n].schema
  OBVIOUS
<1>3. n \in Nat /\ n >= 1 /\ inlining \in Seq(StackCalls) /\ s \in Schemas \cup {NoSchema, Components}
  <2>1. inlining \in Seq(StackCalls) /\ inlining # <<>>
    BY <1>2 DEF Stacked, StackCalls, Return
  <2>2. n \in Nat /\ n >= 1 /\ inlining[n] \in StackCalls
    BY <1>n, <2>1
  <2> QED
    BY <1>s, <2>1, <2>2 DEF StackCalls
<1>4. /\ inlining' \in Seq(StackCalls) /\ Len(inlining') = n - 1
      /\ \A i \in 1 .. n - 1 : inlining'[i] = inlining[i]
  <2>1. PICK u : u = SubSeq(inlining, 1, n - 1)
    OBVIOUS
  <2>2. inlining' = u
    BY <1>n, <2>1 DEF Return, Front
  <2>3. /\ u \in Seq(StackCalls) /\ Len(u) = n - 1
        /\ \A i \in 1 .. n - 1 : u[i] = inlining[i]
    BY <1>n, <1>3, <2>1
  <2> QED
    BY <2>2, <2>3
<1>5. stack' = stack \ {s} /\ inlining[n].left = {} /\ UNCHANGED <<refs, cleared, original>>
  BY <1>n, <1>s DEF Return, Current
<1>6. s = Components <=> n = 1
  BY <1>n, <1>s, <1>2, <1>3 DEF Stacked
<1>7. Cuts'
  <2>1. \A x \in DOMAIN original : ClosesCircle(x)' <=> ClosesCircle(x)
    BY <1>5 DEF ClosesCircle, Within, TargetsOf, Closed, Owned
  <2> QED
    BY <1>2, <1>5, <2>1 DEF Cuts
<1>8. Stacked'
  <2>1. inlining' \in Seq([schema : Schemas \cup {NoSchema, Components}, left : SUBSET DOMAIN original'])
    BY <1>4, <1>5 DEF StackCalls
  <2>2. stack' = {inlining'[i].schema : i \in 2 .. n - 1}
    <3>1. stack = {inlining[i].schema : i \in 2 .. n}
      BY <1>n, <1>2 DEF Stacked
    <3>2. \A i \in 1 .. n - 1 : inlining[i].schema # s
      BY <1>n, <1>s, <1>2, <1>3 DEF Stacked
    <3>3. \A i \in 2 .. n - 1 : inlining'[i].schema = inlining[i].schema
      BY <1>3, <1>4
    <3>4. stack \ {s} = {inlining[i].schema : i \in 2 .. n - 1}
      BY <1>s, <1>3, <3>1, <3>2
    <3> QED
      BY <1>5, <3>3, <3>4
  <2>3. \A o : Within(original, o)' = Within(original, o)
    BY <1>5 DEF Within, TargetsOf, Closed, Owned
  <2>4. inlining' # <<>> => inlining'[1].schema = Components
    BY <1>n, <1>2, <1>3, <1>4 DEF Stacked
  <2>5. ASSUME NEW i \in 1 .. n - 1, NEW j \in 1 .. n - 1
        PROVE  /\ i # 1 => inlining'[i].schema # Components
               /\ inlining'[i].schema = inlining'[j].schema => i = j
               /\ i # 1 /\ i < j =>
                    inlining'[j].schema \in Within(original, inlining'[i].schema) \cup {NoSchema}
    <3>1. i \in 1 .. n /\ j \in 1 .. n /\ inlining'[i] = inlining[i] /\ inlining'[j] = inlining[j]
      BY <1>3, <1>4
    <3> QED
      BY <1>n, <1>2, <1>3, <3>1 DEF Stacked
  <2>6. \A i \in 2 .. n - 1 : i \in 1 .. n - 1 /\ i # 1
    BY <1>3
  <2> QED
    BY <1>4, <2>1, <2>2, <2>3, <2>4, <2>5, <2>6 DEF Stacked
<1>9. \A r \in Owned(original, s) : r \in cleared /\ refs[r] \in F \cup {NoSchema}
  <2>1. CallHandled(F, n) /\ Pointed(n) = {}
    BY <1>n, <1>1, <1>3 DEF Finished, Pointed
  <2> QED
    BY <1>s, <1>5, <2>1 DEF CallHandled
<1>10. \A o : /\ Owned(original, o)' = Owned(original, o)
              /\ TargetsOf(refs, o)' = TargetsOf(refs, o)
              /\ Frees(o)' <=> Frees(o)
  BY <1>5 DEF Owned, TargetsOf, Frees, Closed
<1>11. PICK G : G = F \cup ({s} \cap (Schemas \ {NoSchema}))
  OBVIOUS
<1>12. F \in SUBSET Schemas /\ G \in SUBSET Schemas /\ F \subseteq G /\ G \subseteq F \cup {s}
  BY <1>1, <1>11 DEF Finished, Returned
<1>13. s \in G \cup {NoSchema, Components}
  BY <1>3, <1>11
<1>14. Returned(G)'
  <2>1. ASSUME NEW x \in cleared
        PROVE  original[x] \in G \cup stack'
    <3>1. original[x] \in Schemas /\ original[x] # NoSchema /\ original[x] # Components
      BY <1>2, RefsAssumption DEF Cuts
    <3>2. original[x] \in F \cup stack
      BY <1>1, <2>1 DEF Finished, Returned
    <3> QED
      BY <1>5, <1>12, <1>13, <3>1, <3>2
  <2>2. Closed(refs, F)
    BY <1>1 DEF Finished, Returned, Closed
  <2>3. ASSUME NEW x \in G
        PROVE  Owned(original, x) \subseteq cleared /\ TargetsOf(refs, x) \subseteq F /\ Frees(x)
    <3>1. CASE x \in F
      BY <1>1, <3>1 DEF Finished, Returned
    <3>2. CASE x \notin F
      <4>1. x = s
        BY <1>12, <3>2
      <4>2. Owned(original, x) \subseteq cleared
        BY <1>9, <4>1
      <4>3. TargetsOf(refs, x) \subseteq F
        <5>1. Owned(refs, x) = Owned(original, x)
          BY <1>2 DEF Owned, Cuts
        <5> QED
          BY <1>9, <4>1, <5>1 DEF TargetsOf
      <4> QED
        BY <1>12, <2>2, <3>2, <4>2, <4>3 DEF Frees
    <3> QED
      BY <3>1, <3>2
  <2>4. \A x \in G : Owned(original, x)' \subseteq cleared' /\ TargetsOf(refs, x)' \subseteq G /\ Frees(x)'
    BY <1>5, <1>10, <1>12, <2>3
  <2>5. \A x \in cleared' : original'[x] \in G \cup stack'
    BY <1>5, <2>1
  <2> QED
    BY <1>12, <2>4, <2>5 DEF Returned
<1>15. ASSUME NEW k \in 1 .. n - 1
       PROVE  CallHandled(G, k)'
  <2>1. k \in 1 .. n /\ inlining'[k] = inlining[k] /\ k < n
    BY <1>3, <1>4
  <2>2. CallHandled(F, k)
    BY <1>n, <1>1, <2>1 DEF Finished
  <2>3. Pointed(k) \subseteq Pointed(k)' \cup G \cup {NoSchema}
    <3>1. CASE k = n - 1
      <4>1. Pointed(k) = {s} /\ n # 1
        BY <1>n, <1>s, <1>3, <2>1, <3>1 DEF Pointed
      <4> QED
        BY <1>6, <1>13, <4>1
    <3>2. CASE k < n - 1
      <4>1. k + 1 \in 1 .. n - 1
        BY <1>3, <3>2
      <4>2. Pointed(k)' = Pointed(k)
        BY <1>n, <1>4, <2>1, <3>2, <4>1 DEF Pointed
      <4> QED
        BY <4>2
    <3> QED
      BY <1>3, <3>1, <3>2
  <2> QED
    BY <1>5, <1>10, <1>12, <2>1, <2>2, <2>3 DEF CallHandled
<1>16. inlining' = <<>> => Owned(original, Components)' \subseteq cleared'
  <2>1. inlining' = <<>> => n = 1
    BY <1>3, <1>4
  <2> QED
    BY <1>5, <1>6, <1>9, <1>10, <2>1
<1>17. Finished(G)'
  BY <1>4, <1>14, <1>15, <1>16 DEF Finished
<1> QED
  BY <1>7, <1>8, <1>17 DEF RefsInv

LEMMA RefsStepInv ==
    ASSUME RefsInv, RefsNext \/ UNCHANGED refVars
    PROVE  RefsInv'
<1>1. ASSUME NEW r, ClearSchemaRef(r)
      PROVE  RefsInv'
  <2>1. CASE refs[r] \in stack
    <3>1. /\ inlining # <<>> /\ r \in Current.left /\ cleared' = cleared \cup {r}
          /\ refs' = [refs EXCEPT ![r] = NoSchema] /\ inlining' = Outer(r)
          /\ UNCHANGED <<stack, original>>
      BY <1>1, <2>1 DEF ClearSchemaRef, Outer
    <3> QED
      BY <2>1, <3>1, RefsCut
  <2>2. CASE refs[r] \notin stack
    <3>1. /\ inlining # <<>> /\ r \in Current.left /\ cleared' = cleared \cup {r}
          /\ inlining' = Append(Outer(r), Call(refs, refs[r]))
          /\ stack' = stack \cup {refs[r]} /\ UNCHANGED <<refs, original>>
      BY <1>1, <2>2 DEF ClearSchemaRef, Outer
    <3> QED
      BY <2>2, <3>1, RefsCall
  <2> QED
    BY <2>1, <2>2
<1>2. CASE UNCHANGED refVars
  <2>1. \A F : Finished(F)' <=> Finished(F)
    BY <1>2 DEF refVars, Finished, Returned, CallHandled, Pointed, Owned, TargetsOf, Frees, Closed
  <2>2. Cuts' <=> Cuts
    BY <1>2 DEF refVars, Cuts, ClosesCircle, Within, TargetsOf, Closed, Owned
  <2>3. Stacked' <=> Stacked
    BY <1>2 DEF refVars, Stacked, Within, TargetsOf, Closed, Owned
  <2> QED
    BY <2>1, <2>2, <2>3 DEF RefsInv
<1> QED
  BY <1>1, <1>2, RefsReturn DEF RefsNext

LEMMA RefsInitInv ==
    ASSUME RefsInit
    PROVE  RefsInv
<1>1. original \in ApiDocuments /\ original \in [DOMAIN original -> Schemas] /\ refs = original
  BY RefsAssumption DEF RefsInit
<1>2. Cuts
  BY <1>1 DEF Cuts, RefsInit
<1>3. PICK c : c = Call(original, Components)
  OBVIOUS
<1>4. c.schema = Components /\ c.left = Owned(original, Components) /\ c \in StackCalls
  BY <1>3 DEF Call, StackCalls, Owned
<1>5. /\ inlining = <<c>> /\ inlining \in Seq(StackCalls) /\ Len(inlining) = 1 /\ inlining[1] = c
      /\ inlining # <<>>
  BY <1>3, <1>4 DEF RefsInit
<1>6. Stacked
  BY <1>4, <1>5 DEF Stacked, StackCalls, RefsInit
<1>7. Finished({})
  BY <1>4, <1>5 DEF Finished, Returned, CallHandled, RefsInit
<1> QED
  BY <1>2, <1>6, <1>7 DEF RefsInv

LEMMA RefsTypes ==
    ASSUME RefsInv
    PROVE  RefsTypeOK
<1>1. inlining \in Seq(StackCalls)
  BY DEF RefsInv, Stacked, StackCalls
<1>2. PICK n : n = Len(inlining)
  OBVIOUS
<1>3. /\ n \in Nat /\ DOMAIN inlining = 1 .. n /\ (n >= 1 => inlining # <<>>)
      /\ \A i \in 1 .. n : inlining[i].schema \in Schemas \cup {NoSchema, Components}
  <2>1. \A i \in 1 .. n : inlining[i] \in StackCalls
    BY <1>1, <1>2
  <2> QED
    BY <1>1, <1>2, <2>1 DEF StackCalls
<1>4. /\ n >= 1 => inlining[1].schema = Components
      /\ \A i \in 2 .. n : inlining[i].schema # Components
      /\ stack = {inlining[i].schema : i \in 2 .. n}
  BY <1>2, <1>3 DEF RefsInv, Stacked
<1>5. \A i \in 1 .. n : inlining[i].schema # Components => i \in 2 .. n
  BY <1>3, <1>4
<1>6. \A i \in 2 .. n : i \in 1 .. n
  BY <1>3
<1>7. stack = {inlining[i].schema : i \in 1 .. n} \ {Components}
  BY <1>4, <1>5, <1>6
<1>8. stack \subseteq Schemas \cup {NoSchema}
  BY <1>3, <1>7
<1> QED
  BY <1>3, <1>7, <1>8 DEF RefsInv, Cuts, RefsTypeOK

LEMMA RefsInlined ==
    ASSUME RefsInv
    PROVE  Inlined
<1> SUFFICES ASSUME inlining = <<>>
             PROVE  /\ \A s \in Schemas : Reachable(s) => s \notin Within(refs, s)
                    /\ \A r \in DOMAIN refs : r[1] = Components \/ Reachable(r[1]) => r \in cleared
                    /\ \A r \in DOMAIN refs :
                         refs[r] # original[r] => r[1] # Components /\ ClosesCircle(r)
  BY DEF Inlined
<1>1. PICK F : Finished(F)
  BY DEF RefsInv
<1>2. Cuts /\ DOMAIN refs = DOMAIN original
  BY DEF RefsInv, Cuts
<1>3. stack = {}
  BY DEF RefsInv, Stacked
<1>4. F \in SUBSET Schemas /\ \A r \in cleared : original[r] \in F
  BY <1>1, <1>3 DEF Finished, Returned
<1>5. TargetsOf(original, Components) \subseteq F /\ Closed(original, F)
  BY <1>1, <1>4 DEF Finished, Returned, TargetsOf, Closed
<1>6. \A s : Reachable(s) => s \in F
  BY <1>4, <1>5 DEF Reachable, Within
<1>7. \A s \in F : s \notin Within(refs, s)
  BY <1>1 DEF Finished, Returned, Frees, Within
<1>8. \A r \in DOMAIN original : r[1] = Components \/ Reachable(r[1]) => r \in cleared
  <2>1. Owned(original, Components) \subseteq cleared
    BY <1>1 DEF Finished
  <2>2. \A s \in F : Owned(original, s) \subseteq cleared
    BY <1>1 DEF Finished, Returned
  <2> QED
    BY <1>6, <2>1, <2>2 DEF Owned
<1> QED
  BY <1>2, <1>6, <1>7, <1>8 DEF Cuts
-----------------------------------------------------------------------------
(***************************************************************************)
(* The walk through the API.  The wait group of a directory counts the     *)
(* entries that it has started and that are not done; whoever is at work   *)
(* was started by a directory that still waits.                            *)
(***************************************************************************)
Active == {"asks", "spawns", "returned"}
Spawned(q) == {Tree.entries[q][i] : i \in 1 .. spawned[q]}
Live(q) == {e \in Spawned(q) : walker[e] \in Active}
Passed(p) == p # Tree.root /\ ~Tree.recurse /\ ~IsFile(p)

WalkerTypes ==
    /\ tree = <<Tree>> /\ Tree \in Trees
    /\ walker \in [DOMAIN Tree.kind -> {"none", "asks", "spawns", "returned", "done"}]
    /\ spawned \in [DOMAIN Tree.kind -> Nat]
    /\ group \in [DOMAIN Tree.kind -> Nat]
    /\ intercepted \in Seq(DOMAIN Tree.kind)
    /\ broken \subseteq DOMAIN Tree.kind

Started(q) ==
    /\ spawned[q] <= Len(Tree.entries[q])
    /\ walker[q] \in {"none", "asks"} => spawned[q] = 0
    /\ \A i \in 1 .. Len(Tree.entries[q]) :
         i <= spawned[q] <=> walker[Tree.entries[q][i]] # "none"

Waits ==
    /\ walker[Tree.root] \in Active
    /\ \A q \in DOMAIN Tree.kind : Started(q) /\ group[q] = Cardinality(Live(q))
    /\ \A p \in DOMAIN Tree.kind \ {Tree.root} : walker[p] \in Active =>
         \E q \in DOMAIN Tree.kind : walker[q] = "spawns" /\ p \in Spawned(q)

Intercepts ==
    /\ IsInjective(intercepted)
    /\ \A i \in DOMAIN intercepted : walker[intercepted[i]] \in {"returned", "done"}
    /\ \A p \in DOMAIN Tree.kind : walker[p] \in {"returned", "done"} =>
         p \in broken \cup ToSet(intercepted) \/ Passed(p)
    /\ \A i \in DOMAIN intercepted, e \in DOMAIN Tree.kind :
         (/\ Tree.kind[intercepted[i]] = "dir"
          /\ e \in ToSet(Tree.entries[intercepted[i]])
          /\ Tree.recurse \/ IsFile(e)) =>
            e \in broken \/ e \in ToSet(SubSeq(intercepted, 1, i - 1))

GithubInv ==
    \/ tree = <<>> /\ walker = <<>> /\ intercepted = <<>> /\ broken = {}
    \/ WalkerTypes /\ Waits /\ Intercepts

LEMMA TreeFacts ==
    ASSUME NEW t \in Trees
    PROVE  /\ t.root \in DOMAIN t.kind
           /\ \A q \in DOMAIN t.kind :
                /\ t.entries[q] \in Seq(DOMAIN t.kind)
                /\ \A i, j \in 1 .. Len(t.entries[q]) :
                     t.entries[q][i] = t.entries[q][j] => i = j
                /\ \A i \in 1 .. Len(t.entries[q]) : t.entries[q][i] # t.root
           /\ \A p, q \in DOMAIN t.kind :
                \A i \in 1 .. Len(t.entries[p]), j \in 1 .. Len(t.entries[q]) :
                  t.entries[p][i] = t.entries[q][j] => p = q
           /\ \A ps \in SUBSET DOMAIN t.kind :
                ps # {} => \E p \in ps : \A q \in ps : p \notin ToSet(t.entries[q])
<1> DEFINE paths == DOMAIN t.kind
           in(p) == ToSet(t.entries[p])
<1>2. /\ t.root \in paths
      /\ \A p \in paths :
           /\ IsSequence(t.entries[p]) /\ IsInjective(t.entries[p])
           /\ in(p) \subseteq paths \ {t.root}
           /\ \A q \in paths : p # q => in(p) \cap in(q) = {}
      /\ \A ps \in SUBSET paths :
           ps # {} => \E p \in ps : \A q \in ps : p \notin in(q)
  BY GithubAssumption
<1>3. ASSUME NEW p \in paths
      PROVE  /\ t.entries[p] \in Seq(paths)
             /\ \A i, j \in 1 .. Len(t.entries[p]) : t.entries[p][i] = t.entries[p][j] => i = j
             /\ \A i \in 1 .. Len(t.entries[p]) : t.entries[p][i] # t.root
             /\ \A i \in 1 .. Len(t.entries[p]) : t.entries[p][i] \in in(p)
  <2>1. PICK s : s = t.entries[p]
    OBVIOUS
  <2>2. s \in Seq({s[i] : i \in DOMAIN s}) /\ {s[i] : i \in DOMAIN s} \subseteq paths \ {t.root}
    <3>1. IsSequence(s) /\ ToSet(s) \subseteq paths \ {t.root}
      BY <1>2, <2>1
    <3> QED
      BY <3>1 DEF IsSequence, ToSet
  <2>3. s \in Seq(paths)
    BY <2>2, WiderSeq
  <2>4. DOMAIN s = 1 .. Len(s)
    BY <2>3
  <2>5. \A i, j \in DOMAIN s : s[i] = s[j] => i = j
    BY <1>2, <2>1 DEF IsInjective
  <2>6. \A i \in 1 .. Len(s) : s[i] \in ToSet(s) /\ s[i] # t.root
    BY <2>2, <2>4 DEF ToSet
  <2> QED
    BY <2>1, <2>3, <2>4, <2>5, <2>6
<1>4. ASSUME NEW p \in paths, NEW q \in paths,
             NEW i \in 1 .. Len(t.entries[p]), NEW j \in 1 .. Len(t.entries[q]),
             t.entries[p][i] = t.entries[q][j]
      PROVE  p = q
  <2>1. t.entries[p][i] \in in(p) /\ t.entries[q][j] \in in(q)
    BY <1>3
  <2> QED
    BY <1>2, <1>4, <2>1
<1>5. \A p, q \in paths :
        \A i \in 1 .. Len(t.entries[p]), j \in 1 .. Len(t.entries[q]) :
          t.entries[p][i] = t.entries[q][j] => p = q
  BY <1>4
<1>6. \A ps \in SUBSET paths :
        ps # {} => \E p \in ps : \A q \in ps : p \notin ToSet(t.entries[q])
  BY <1>2
<1> HIDE DEF in
<1> QED
  BY <1>2, <1>3, <1>5, <1>6

LEMMA TreeOK ==
    ASSUME WalkerTypes
    PROVE  /\ Tree.root \in DOMAIN Tree.kind
           /\ \A q \in DOMAIN Tree.kind :
                /\ Tree.entries[q] \in Seq(DOMAIN Tree.kind)
                /\ \A i, j \in 1 .. Len(Tree.entries[q]) :
                     Tree.entries[q][i] = Tree.entries[q][j] => i = j
                /\ \A i \in 1 .. Len(Tree.entries[q]) : Tree.entries[q][i] # Tree.root
           /\ \A p, q \in DOMAIN Tree.kind :
                \A i \in 1 .. Len(Tree.entries[p]), j \in 1 .. Len(Tree.entries[q]) :
                  Tree.entries[p][i] = Tree.entries[q][j] => p = q
           /\ \A ps \in SUBSET DOMAIN Tree.kind :
                ps # {} => \E p \in ps : \A q \in ps : p \notin ToSet(Tree.entries[q])
  BY TreeFacts DEF WalkerTypes

\* How many are at work is a number.
LEMMA LiveFinite ==
    ASSUME WalkerTypes, Waits, NEW q \in DOMAIN Tree.kind
    PROVE  /\ IsFiniteSet(Live(q))
           /\ group[q] = 0 => Live(q) = {}
<1> DEFINE f == [i \in 1 .. spawned[q] |-> Tree.entries[q][i]]
<1>1. spawned[q] \in Nat /\ IsFiniteSet(1 .. spawned[q])
  BY FS_Interval DEF WalkerTypes
<1>2. IsFiniteSet({f[i] : i \in 1 .. spawned[q]})
  <2>1. f \in Surjection(1 .. spawned[q], {f[i] : i \in 1 .. spawned[q]})
    BY DEF Surjection
  <2> QED
    BY <1>1, <2>1, FS_Surjection
<1>3. Live(q) \subseteq {f[i] : i \in 1 .. spawned[q]}
  BY DEF Live, Spawned
<1>4. IsFiniteSet(Live(q))
  BY <1>2, <1>3, FS_Subset
<1> QED
  BY <1>4, FS_EmptySet DEF Waits

\* Who is at work changes hands, or is done without entries at work.
LEMMA Moves ==
    ASSUME WalkerTypes, Waits, UNCHANGED <<tree, spawned, group>>,
           NEW p \in DOMAIN Tree.kind, walker[p] \in {"asks", "spawns"},
           NEW v \in {"spawns", "returned"}, walker' = [walker EXCEPT ![p] = v],
           v = "spawns" \/ Live(p) = {}
    PROVE  Waits'
<1>1. /\ Tree' = Tree /\ walker' \in [DOMAIN Tree.kind -> {"none", "asks", "spawns", "returned", "done"}]
      /\ walker'[p] = v /\ \A e \in DOMAIN Tree.kind : e # p => walker'[e] = walker[e]
      /\ walker[p] \in Active /\ v \in Active
  BY DEF WalkerTypes, Tree, Active
<1>2. \A e \in DOMAIN Tree.kind : /\ walker'[e] \in Active <=> walker[e] \in Active
                                  /\ walker'[e] = "none" <=> walker[e] = "none"
  BY <1>1
<1>3. \A q \in DOMAIN Tree.kind : Spawned(q) \subseteq DOMAIN Tree.kind /\ Spawned(q)' = Spawned(q)
  <2>1. ASSUME NEW q \in DOMAIN Tree.kind
        PROVE  Spawned(q) \subseteq DOMAIN Tree.kind
    <3>1. Tree.entries[q] \in Seq(DOMAIN Tree.kind) /\ spawned[q] <= Len(Tree.entries[q])
      BY TreeOK DEF Waits, Started
    <3>2. spawned[q] \in Nat
      BY DEF WalkerTypes
    <3> QED
      BY <3>1, <3>2 DEF Spawned
  <2> QED
    BY <1>1, <2>1 DEF Spawned
<1>4. \A q \in DOMAIN Tree.kind : Live(q)' = Live(q)
  BY <1>2, <1>3 DEF Live, Active
<1>5. ASSUME NEW q \in DOMAIN Tree.kind
      PROVE  Started(q)'
  <2>1. \A i \in 1 .. Len(Tree.entries[q]) : Tree.entries[q][i] \in DOMAIN Tree.kind
    BY TreeOK
  <2>2. Started(q)
    BY DEF Waits
  <2>3. walker'[q] \in {"none", "asks"} => walker[q] \in {"none", "asks"}
    BY <1>1
  <2> QED
    BY <1>1, <1>2, <2>1, <2>2, <2>3 DEF Started
<1>6. ASSUME NEW e \in DOMAIN Tree.kind \ {Tree.root}, walker'[e] \in Active
      PROVE  \E q \in DOMAIN Tree.kind : walker'[q] = "spawns" /\ e \in Spawned(q)
  <2>1. PICK q \in DOMAIN Tree.kind : walker[q] = "spawns" /\ e \in Spawned(q)
    BY <1>2, <1>6 DEF Waits
  <2>2. walker[e] \in Active
    BY <1>2, <1>6
  <2>3. e \in Live(q)
    BY <2>1, <2>2 DEF Live
  <2> QED
    BY <1>1, <2>1, <2>3
<1> QED
  BY <1>1, <1>2, <1>3, <1>4, <1>5, <1>6 DEF Waits

LEMMA SpawnWaits ==
    ASSUME WalkerTypes, Waits, NEW p \in DOMAIN Tree.kind, Spawn(p)
    PROVE  WalkerTypes' /\ Waits'
<1> DEFINE paths == DOMAIN Tree.kind
<1>1. PICK e : e = Tree.entries[p][spawned[p] + 1]
  OBVIOUS
<1>2. PICK v \in {"asks", "returned"} : walker' = [walker EXCEPT ![e] = v]
  BY <1>1 DEF Spawn
<1>3. /\ Tree' = Tree /\ spawned[p] \in Nat /\ spawned[p] + 1 \in 1 .. Len(Tree.entries[p])
      /\ e \in paths /\ e # Tree.root /\ walker[p] = "spawns"
  <2>1. Tree.entries[p] \in Seq(paths)
    BY TreeOK
  <2>2. spawned[p] \in Nat /\ spawned[p] < Len(Tree.entries[p]) /\ walker[p] = "spawns"
    BY DEF Spawn, WalkerTypes
  <2>3. spawned[p] + 1 \in 1 .. Len(Tree.entries[p])
    BY <2>1, <2>2
  <2>4. e \in paths /\ e # Tree.root
    BY <1>1, <2>1, <2>3, TreeOK
  <2> QED
    BY <2>2, <2>3, <2>4 DEF Spawn, Tree
<1>4. walker[e] = "none"
  BY <1>1, <1>3 DEF Waits, Started
<1>5. /\ walker' \in [paths -> {"none", "asks", "spawns", "returned", "done"}]
      /\ walker'[e] = v /\ \A x \in paths : x # e => walker'[x] = walker[x]
  BY <1>2, <1>3 DEF WalkerTypes
<1>6. /\ spawned' \in [paths -> Nat] /\ spawned'[p] = spawned[p] + 1
      /\ \A q \in paths : q # p => spawned'[q] = spawned[q]
      /\ group' \in [paths -> Nat] /\ group'[p] = group[p] + 1
      /\ \A q \in paths : q # p => group'[q] = group[q]
  BY <1>3 DEF Spawn, WalkerTypes
<1>7. WalkerTypes'
  BY <1>3, <1>5, <1>6 DEF WalkerTypes, Spawn
<1>8. ASSUME NEW q \in paths
      PROVE  /\ Spawned(q)' = IF q = p THEN Spawned(q) \cup {e} ELSE Spawned(q)
             /\ Spawned(q) \subseteq paths /\ e \notin Spawned(q)
  <2>1. /\ Tree.entries[q] \in Seq(paths) /\ spawned[q] <= Len(Tree.entries[q])
        /\ spawned[q] \in Nat
    BY TreeOK DEF Waits, Started, WalkerTypes
  <2>2. Spawned(q) \subseteq paths
    BY <2>1 DEF Spawned
  <2>3. e \notin Spawned(q)
    BY <1>4, <2>1 DEF Waits, Started, Spawned
  <2>4. 1 .. spawned[p] + 1 = (1 .. spawned[p]) \cup {spawned[p] + 1}
    BY <1>3
  <2>5. Spawned(q)' = {Tree.entries[q][i] : i \in 1 .. spawned'[q]}
    BY <1>3 DEF Spawned
  <2>6. CASE q = p
    <3>1. spawned'[q] = spawned[p] + 1
      BY <1>6, <2>6
    <3>2. Spawned(q)' = {Tree.entries[p][i] : i \in (1 .. spawned[p]) \cup {spawned[p] + 1}}
      BY <2>4, <2>5, <2>6, <3>1
    <3>3. Spawned(q) = {Tree.entries[p][i] : i \in 1 .. spawned[p]}
      BY <2>6 DEF Spawned
    <3>4. Spawned(q)' = Spawned(q) \cup {Tree.entries[p][spawned[p] + 1]}
      BY <3>2, <3>3
    <3> QED
      BY <1>1, <2>2, <2>3, <2>6, <3>4
  <2>7. CASE q # p
    BY <1>6, <2>2, <2>3, <2>5, <2>7 DEF Spawned
  <2> QED
    BY <2>6, <2>7
<1>9. ASSUME NEW q \in paths
      PROVE  /\ Live(q)' = IF q = p THEN Live(q) \cup {e} ELSE Live(q)
             /\ e \notin Live(q)
  BY <1>2, <1>5, <1>8 DEF Live, Active
<1>10. ASSUME NEW q \in paths
       PROVE  group'[q] = Cardinality(Live(q))'
  <2>1. IsFiniteSet(Live(q)) /\ group[q] = Cardinality(Live(q))
    BY LiveFinite DEF Waits
  <2>2. CASE q = p
    <3>1. Live(q)' = Live(q) \cup {e} /\ e \notin Live(q)
      BY <1>9, <2>2
    <3>2. Cardinality(Live(q) \cup {e}) = Cardinality(Live(q)) + 1
      BY <2>1, <3>1, FS_AddElement
    <3> QED
      BY <1>6, <2>1, <2>2, <3>1, <3>2
  <2>3. CASE q # p
    BY <1>6, <1>9, <2>1, <2>3
  <2> QED
    BY <2>2, <2>3
<1>11. ASSUME NEW q \in paths
       PROVE  Started(q)'
  <2>1. /\ Tree.entries[q] \in Seq(paths) /\ Len(Tree.entries[q]) \in Nat
        /\ \A i \in 1 .. Len(Tree.entries[q]) : Tree.entries[q][i] \in paths
        /\ \A i \in 1 .. Len(Tree.entries[q]) :
             Tree.entries[q][i] = e => q = p /\ i = spawned[p] + 1
    <3>1. Tree.entries[q] \in Seq(paths)
      BY TreeOK
    <3>2. ASSUME NEW i \in 1 .. Len(Tree.entries[q]), Tree.entries[q][i] = e
          PROVE  q = p /\ i = spawned[p] + 1
      <4>1. PICK j : j = spawned[p] + 1 /\ j \in 1 .. Len(Tree.entries[p]) /\ e = Tree.entries[p][j]
        BY <1>1, <1>3
      <4>2. q = p
        BY <3>2, <4>1, TreeOK
      <4>3. i = j
        BY <3>2, <4>1, <4>2, TreeOK
      <4> QED
        BY <4>1, <4>2, <4>3
    <3> QED
      BY <3>1, <3>2
  <2>2. Started(q) /\ spawned[q] \in Nat
    BY DEF Waits, WalkerTypes
  <2>3. CASE q = p
    <3>1. \A i \in 1 .. Len(Tree.entries[q]) :
            i <= spawned[q] + 1 <=> walker'[Tree.entries[q][i]] # "none"
      BY <1>1, <1>2, <1>3, <1>5, <2>1, <2>2, <2>3 DEF Started
    <3>2. walker'[q] \notin {"none", "asks"}
      <4>1. p # e
        BY <1>3, <1>4
      <4> QED
        BY <1>3, <1>5, <2>3, <4>1
    <3>3. spawned'[q] = spawned[q] + 1 /\ spawned[q] + 1 <= Len(Tree.entries[q])
      BY <1>3, <1>6, <2>1, <2>3
    <3> QED
      BY <1>3, <3>1, <3>2, <3>3 DEF Started
  <2>4. CASE q # p
    <3>1. \A i \in 1 .. Len(Tree.entries[q]) :
            i <= spawned[q] <=> walker'[Tree.entries[q][i]] # "none"
      BY <1>5, <2>1, <2>2, <2>4 DEF Started
    <3>2. walker'[q] \in {"none", "asks"} => spawned[q] = 0
      BY <1>2, <1>4, <1>5, <2>2 DEF Started
    <3> QED
      BY <1>3, <1>6, <2>1, <2>2, <2>4, <3>1, <3>2 DEF Started
  <2> QED
    BY <2>3, <2>4
<1>12. ASSUME NEW x \in paths \ {Tree.root}, walker'[x] \in Active
       PROVE  \E q \in paths : walker'[q] = "spawns" /\ x \in Spawned(q)'
  <2>1. CASE x = e
    BY <1>3, <1>4, <1>5, <1>8, <2>1
  <2>2. CASE x # e
    <3>1. PICK q \in paths : walker[q] = "spawns" /\ x \in Spawned(q)
      BY <1>5, <1>12, <2>2 DEF Waits
    <3> QED
      BY <1>4, <1>5, <1>8, <3>1
  <2> QED
    BY <2>1, <2>2
<1>13. walker'[Tree.root] \in Active
  BY <1>3, <1>5, TreeOK DEF Waits
<1> QED
  BY <1>3, <1>7, <1>10, <1>11, <1>12, <1>13 DEF Waits

LEMMA DoneWaits ==
    ASSUME WalkerTypes, Waits, NEW e \in DOMAIN Tree.kind, EntryDone(e)
    PROVE  WalkerTypes' /\ Waits'
<1> DEFINE paths == DOMAIN Tree.kind
<1>1. /\ Tree' = Tree /\ UNCHANGED <<tree, spawned, broken, intercepted>> /\ Paths = paths
      /\ walker[e] = "returned" /\ e # Tree.root
      /\ walker' \in [paths -> {"none", "asks", "spawns", "returned", "done"}]
      /\ walker'[e] = "done" /\ \A x \in paths : x # e => walker'[x] = walker[x]
  BY DEF EntryDone, WalkerTypes, Tree, Paths
<1>2. \A q \in paths : Spawned(q)' = Spawned(q)
  BY <1>1 DEF Spawned
<1>3. ASSUME NEW q \in paths
      PROVE  /\ e \in ToSet(Tree.entries[q]) <=> e \in Live(q)
             /\ Live(q)' = Live(q) \ {e}
             /\ Spawned(q) \subseteq paths
  <2>1. /\ Tree.entries[q] \in Seq(paths) /\ DOMAIN Tree.entries[q] = 1 .. Len(Tree.entries[q])
        /\ Started(q) /\ spawned[q] \in Nat
    BY TreeOK DEF Waits, WalkerTypes
  <2>2. Spawned(q) \subseteq paths
    BY <2>1 DEF Spawned, Started
  <2>3. e \in ToSet(Tree.entries[q]) => e \in Live(q)
    <3>1. SUFFICES ASSUME NEW i \in 1 .. Len(Tree.entries[q]), e = Tree.entries[q][i]
                   PROVE  e \in Live(q)
      BY <2>1 DEF ToSet
    <3>2. i \in 1 .. spawned[q]
      BY <1>1, <2>1, <3>1 DEF Started
    <3> QED
      BY <1>1, <3>1, <3>2 DEF Live, Spawned, Active
  <2>4. e \in Live(q) => e \in ToSet(Tree.entries[q])
    BY <2>1 DEF Live, Spawned, Started, ToSet
  <2>5. Live(q)' = {x \in Spawned(q) : walker'[x] \in Active}
    BY <1>2 DEF Live, Active
  <2>6. Live(q)' = Live(q) \ {e}
    BY <1>1, <2>2, <2>5 DEF Live, Active
  <2> QED
    BY <2>2, <2>3, <2>4, <2>6
<1>4. ASSUME NEW q \in paths
      PROVE  group'[q] \in Nat /\ group'[q] = Cardinality(Live(q))'
  <2>1. /\ IsFiniteSet(Live(q)) /\ group[q] = Cardinality(Live(q)) /\ group[q] \in Nat
    BY LiveFinite DEF Waits, WalkerTypes
  <2>2. group'[q] = IF e \in ToSet(Tree.entries[q]) THEN group[q] - 1 ELSE group[q]
    BY <1>1 DEF EntryDone
  <2>3. CASE e \in Live(q)
    <3>1. Cardinality(Live(q) \ {e}) = Cardinality(Live(q)) - 1 /\ IsFiniteSet(Live(q) \ {e})
      BY <2>1, <2>3, FS_RemoveElement
    <3>2. Cardinality(Live(q) \ {e}) \in Nat
      BY <3>1, FS_CardinalityType
    <3> QED
      BY <1>3, <2>1, <2>2, <2>3, <3>1, <3>2
  <2>4. CASE e \notin Live(q)
    <3>1. Live(q)' = Live(q)
      BY <1>3, <2>4
    <3> QED
      BY <1>3, <2>1, <2>2, <2>4, <3>1
  <2> QED
    BY <2>3, <2>4
<1>5. WalkerTypes'
  <2>1. DOMAIN group' = paths /\ group' = [q \in paths |-> group'[q]]
    BY <1>1 DEF EntryDone
  <2>2. group' \in [paths -> Nat]
    BY <1>4, <2>1
  <2> QED
    BY <1>1, <2>2 DEF WalkerTypes
<1>6. ASSUME NEW q \in paths
      PROVE  Started(q)'
  <2>1. \A i \in 1 .. Len(Tree.entries[q]) : Tree.entries[q][i] \in paths
    BY TreeOK
  <2>2. Started(q)
    BY DEF Waits
  <2>3. \A x \in paths : walker'[x] = "none" <=> walker[x] = "none"
    BY <1>1
  <2>4. walker'[q] \in {"none", "asks"} => walker[q] \in {"none", "asks"}
    BY <1>1
  <2> QED
    BY <1>1, <2>1, <2>2, <2>3, <2>4 DEF Started
<1>7. ASSUME NEW x \in paths \ {Tree.root}, walker'[x] \in Active
      PROVE  \E q \in paths : walker'[q] = "spawns" /\ x \in Spawned(q)'
  <2>1. x # e
    BY <1>1, <1>7 DEF Active
  <2>2. PICK q \in paths : walker[q] = "spawns" /\ x \in Spawned(q)
    BY <1>1, <1>7, <2>1 DEF Waits
  <2> QED
    BY <1>1, <1>2, <2>2
<1>8. walker'[Tree.root] \in Active
  BY <1>1, TreeOK DEF Waits
<1> QED
  BY <1>1, <1>4, <1>5, <1>6, <1>7, <1>8 DEF Waits

LEMMA PrefixElements ==
    ASSUME NEW A, NEW s \in Seq(A), NEW i \in 1 .. Len(s) + 1
    PROVE  ToSet(SubSeq(s, 1, i - 1)) = {s[j] : j \in 1 .. i - 1}
<1>1. PICK u : u = SubSeq(s, 1, i - 1)
  OBVIOUS
<1>2. /\ DOMAIN u = 1 .. i - 1
      /\ \A j \in 1 .. i - 1 : u[j] = s[j]
  BY <1>1
<1> QED
  BY <1>1, <1>2 DEF ToSet

\* Steps that hand nothing out.
LEMMA Handless ==
    ASSUME WalkerTypes, WalkerTypes', Intercepts, UNCHANGED <<tree, intercepted>>,
           broken \subseteq broken',
           \A p \in DOMAIN Tree.kind :
             /\ walker[p] \in {"returned", "done"} => walker'[p] \in {"returned", "done"}
             /\ walker'[p] \in {"returned", "done"} =>
                  walker[p] \in {"returned", "done"} \/ p \in broken' \/ Passed(p)
    PROVE  Intercepts'
<1>1. Tree' = Tree
  BY DEF Tree
<1>2. \A p : (Passed(p)' <=> Passed(p)) /\ (IsFile(p)' <=> IsFile(p))
  BY <1>1 DEF Passed, IsFile
<1>3. \A i \in DOMAIN intercepted : intercepted[i] \in DOMAIN Tree.kind
  BY DEF WalkerTypes
<1>4. \A i \in DOMAIN intercepted : walker'[intercepted[i]] \in {"returned", "done"}
  BY <1>3 DEF Intercepts
<1>5. \A p \in DOMAIN Tree.kind : walker'[p] \in {"returned", "done"} =>
         p \in broken' \cup ToSet(intercepted) \/ Passed(p)
  BY DEF Intercepts
<1> QED
  BY <1>1, <1>2, <1>4, <1>5 DEF Intercepts

\* A path is handed out once, a directory when all its entries are done.
LEMMA Hands ==
    ASSUME WalkerTypes, Waits, Intercepts, UNCHANGED tree, NEW p \in DOMAIN Tree.kind,
           walker[p] \in {"asks", "spawns"}, Intercept(p),
           Tree.kind[p] = "dir" => spawned[p] = Len(Tree.entries[p]) /\ group[p] = 0
    PROVE  Intercepts' /\ intercepted' \in Seq(DOMAIN Tree.kind)
<1> DEFINE paths == DOMAIN Tree.kind
<1>n. PICK n : n = Len(intercepted)
  OBVIOUS
<1>1. /\ Tree' = Tree /\ broken \subseteq broken'
      /\ walker'[p] = "returned" /\ \A x \in paths : x # p => walker'[x] = walker[x]
  BY DEF Intercept, Returns, WalkerTypes, Tree
<1>2. \A x : (Passed(x)' <=> Passed(x)) /\ (IsFile(x)' <=> IsFile(x))
  BY <1>1 DEF Passed, IsFile
<1>3. /\ intercepted \in Seq(paths) /\ n \in Nat /\ DOMAIN intercepted = 1 .. n
      /\ \A i \in 1 .. n : intercepted[i] \in paths
  BY <1>n DEF WalkerTypes
<1>4. p \notin ToSet(intercepted)
  BY <1>3 DEF Intercepts, ToSet
<1>5. /\ intercepted' = Append(intercepted, p) /\ intercepted' \in Seq(paths)
      /\ ToSet(intercepted') = ToSet(intercepted) \cup {p} /\ IsInjective(intercepted')
  BY <1>3, <1>4, AppendElements DEF Intercept, Intercepts
<1>6. /\ DOMAIN intercepted' = 1 .. n + 1 /\ Len(intercepted') = n + 1
      /\ \A i \in 1 .. n : intercepted'[i] = intercepted[i]
      /\ intercepted'[n + 1] = p
  BY <1>n, <1>3, <1>5
<1>7. \A i \in 1 .. n + 1 : /\ intercepted'[i] \in paths
                            /\ walker'[intercepted'[i]] \in {"returned", "done"}
  <2>1. \A i \in 1 .. n : walker[intercepted[i]] \in {"returned", "done"}
    BY <1>3 DEF Intercepts
  <2> QED
    BY <1>1, <1>3, <1>6, <2>1
<1>8. \A x \in paths : walker'[x] \in {"returned", "done"} =>
         x \in broken' \cup ToSet(intercepted') \/ Passed(x)
  BY <1>1, <1>5 DEF Intercepts
<1>9. ASSUME NEW i \in 1 .. n + 1, NEW e \in paths, Tree.kind[intercepted'[i]] = "dir",
             e \in ToSet(Tree.entries[intercepted'[i]]), Tree.recurse \/ IsFile(e)
      PROVE  e \in broken' \/ e \in ToSet(SubSeq(intercepted', 1, i - 1))
  <2>1. ToSet(SubSeq(intercepted', 1, i - 1)) = {intercepted'[j] : j \in 1 .. i - 1}
    <3>1. PICK u : u = intercepted'
      OBVIOUS
    <3>2. u \in Seq(paths) /\ i \in 1 .. Len(u) + 1
      BY <1>3, <1>5, <1>6, <3>1
    <3>3. ToSet(SubSeq(u, 1, i - 1)) = {u[j] : j \in 1 .. i - 1}
      BY <3>2, PrefixElements
    <3> QED
      BY <3>1, <3>3
  <2>2. CASE i \in 1 .. n
    <3>1. e \in broken \/ e \in ToSet(SubSeq(intercepted, 1, i - 1))
      BY <1>3, <1>6, <1>9, <2>2 DEF Intercepts
    <3>2. ToSet(SubSeq(intercepted, 1, i - 1)) = {intercepted[j] : j \in 1 .. i - 1}
      <4>1. i \in 1 .. Len(intercepted) + 1
        BY <1>n, <1>3
      <4> QED
        BY <1>3, <4>1, PrefixElements
    <3>3. \A j \in 1 .. i - 1 : intercepted'[j] = intercepted[j]
      BY <1>3, <1>6, <2>2
    <3> QED
      BY <1>1, <2>1, <3>1, <3>2, <3>3
  <2>3. CASE i = n + 1
    <3>1. spawned[p] = Len(Tree.entries[p]) /\ Live(p) = {} /\ e \in ToSet(Tree.entries[p])
      BY <1>6, <1>9, <2>3, LiveFinite
    <3>2. PICK k \in 1 .. Len(Tree.entries[p]) : e = Tree.entries[p][k]
      <4>1. DOMAIN Tree.entries[p] = 1 .. Len(Tree.entries[p])
        BY TreeOK
      <4> QED
        BY <3>1, <4>1 DEF ToSet
    <3>3. walker[e] # "none" /\ e \in Spawned(p)
      <4>1. Started(p) /\ Tree.entries[p] \in Seq(paths)
        BY TreeOK DEF Waits
      <4> QED
        BY <3>1, <3>2, <4>1 DEF Started, Spawned
    <3>4. walker[e] = "done"
      BY <3>1, <3>3 DEF Live, Active, WalkerTypes
    <3>5. ~Passed(e)
      BY <1>9 DEF Passed
    <3>6. e \in broken \cup ToSet(intercepted)
      BY <3>4, <3>5 DEF Intercepts
    <3>7. {intercepted'[j] : j \in 1 .. n} = ToSet(intercepted)
      BY <1>3, <1>6 DEF ToSet
    <3>8. i - 1 = n
      BY <1>3, <2>3
    <3> QED
      BY <1>1, <2>1, <3>6, <3>7, <3>8
  <2> QED
    BY <1>3, <2>2, <2>3
<1> QED
  BY <1>1, <1>2, <1>5, <1>6, <1>7, <1>8, <1>9 DEF Intercepts

LEMMA WalkInv ==
    ASSUME GithubInv, NEW t \in Trees, Walk(t)
    PROVE  GithubInv'
<1>1. intercepted = <<>> /\ broken = {}
  BY DEF GithubInv, Walk, WalkerTypes
<1>2. PICK s : s = <<t>>
  OBVIOUS
<1>3. tree' = s /\ s[1] = t /\ s = <<s[1]>>
  BY <1>2 DEF Walk
<1>4. Tree' = t
  BY <1>3 DEF Tree
<1>5. t.root \in DOMAIN t.kind
  BY GithubAssumption
<1>6. /\ intercepted' = <<>> /\ broken' = {}
      /\ walker' = [p \in DOMAIN t.kind |-> IF p = t.root THEN "asks" ELSE "none"]
      /\ spawned' = [p \in DOMAIN t.kind |-> 0]
      /\ group' = [p \in DOMAIN t.kind |-> 0]
  BY <1>1 DEF Walk
<1>7. WalkerTypes'
  <2>1. tree' = <<Tree'>> /\ Tree' \in Trees
    BY <1>2, <1>3, <1>4
  <2>2. intercepted' \in Seq(DOMAIN t.kind)
    BY <1>6
  <2> QED
    BY <1>4, <1>6, <2>1, <2>2 DEF WalkerTypes
<1>8. \A q \in DOMAIN t.kind : Spawned(q)' = {} /\ Live(q)' = {}
  BY <1>6 DEF Spawned, Live
<1>9. ASSUME NEW q \in DOMAIN t.kind
      PROVE  Started(q)'
  <2>1. t.entries[q] \in Seq(DOMAIN t.kind) /\ Len(t.entries[q]) \in Nat
    BY TreeFacts
  <2>2. \A i \in 1 .. Len(t.entries[q]) :
          t.entries[q][i] \in DOMAIN t.kind /\ t.entries[q][i] # t.root
    BY <2>1, TreeFacts
  <2>3. \A i \in 1 .. Len(t.entries[q]) : walker'[t.entries[q][i]] = "none" /\ ~(i <= 0)
    BY <1>6, <2>1, <2>2
  <2> QED
    BY <1>4, <1>6, <2>1, <2>3 DEF Started
<1>10. Waits'
  <2>1. walker'[Tree'.root] \in Active
    BY <1>4, <1>5, <1>6 DEF Active
  <2>2. \A q \in DOMAIN t.kind : group'[q] = Cardinality(Live(q)')
    BY <1>6, <1>8, FS_EmptySet
  <2>3. \A p \in DOMAIN t.kind \ {t.root} : walker'[p] \notin Active
    BY <1>6 DEF Active
  <2> QED
    BY <1>4, <1>9, <2>1, <2>2, <2>3 DEF Waits
<1>11. Intercepts'
  <2>1. DOMAIN intercepted' = {}
    BY <1>6
  <2> QED
    BY <1>4, <1>6, <2>1 DEF Intercepts, IsInjective
<1> QED
  BY <1>7, <1>10, <1>11 DEF GithubInv

LEMMA AsksAlone ==
    ASSUME WalkerTypes, Waits, NEW q \in DOMAIN Tree.kind, walker[q] = "asks"
    PROVE  Live(q) = {}
<1>1. spawned[q] = 0
  BY DEF Waits, Started
<1>2. 1 .. spawned[q] = {}
  BY <1>1
<1> QED
  BY <1>2 DEF Live, Spawned

\* There is a tree, once Walk was called.
LEMMA GithubTree ==
    ASSUME WalkerTypes
    PROVE  tree # <<>>
<1>1. PICK x : x = Tree
  OBVIOUS
<1>2. tree = <<x>>
  BY <1>1 DEF WalkerTypes
<1> QED
  BY <1>2

LEMMA StaysGithub ==
    ASSUME GithubInv, UNCHANGED githubVars
    PROVE  GithubInv'
<1>1. Tree' = Tree /\ UNCHANGED <<tree, walker, spawned, group, broken, intercepted>>
  BY DEF githubVars, Tree
<1>2. WalkerTypes' <=> WalkerTypes
  BY <1>1 DEF WalkerTypes
<1>3. \A q : (Started(q)' <=> Started(q)) /\ Spawned(q)' = Spawned(q) /\ Live(q)' = Live(q)
  BY <1>1 DEF Started, Spawned, Live, Active
<1>4. Waits' <=> Waits
  BY <1>1, <1>3 DEF Waits, Active
<1>5. \A q : (Passed(q)' <=> Passed(q)) /\ (IsFile(q)' <=> IsFile(q))
  BY <1>1 DEF Passed, IsFile
<1>6. Intercepts' <=> Intercepts
  BY <1>1, <1>5 DEF Intercepts
<1> QED
  BY <1>1, <1>2, <1>4, <1>6 DEF GithubInv

LEMMA GithubStepInv ==
    ASSUME GithubInv, GithubNext \/ UNCHANGED githubVars
    PROVE  GithubInv'
<1>1. CASE tree = <<>> /\ Paths = {}
  <2>1. CASE \E t \in Trees : Walk(t)
    BY <2>1, WalkInv
  <2>2. CASE UNCHANGED githubVars
    BY <1>1, <2>2, StaysGithub
  <2> QED
    BY <1>1, <2>1, <2>2 DEF GithubNext
<1>2. CASE WalkerTypes /\ Waits /\ Intercepts
  <2> DEFINE paths == DOMAIN Tree.kind
  <2>1. Paths = paths /\ tree # <<>>
    BY <1>2, GithubTree DEF WalkerTypes, Paths
  <2>2. ASSUME NEW t \in Trees, Walk(t)
        PROVE  GithubInv'
    BY <2>2, WalkInv
  <2>3. CASE UNCHANGED githubVars
    BY <2>3, StaysGithub
  <2>4. ASSUME NEW p \in paths, RequestFails(p)
        PROVE  GithubInv'
    <3>1. WalkerTypes'
      BY <1>2, <2>4 DEF WalkerTypes, RequestFails, Returns, Tree
    <3>2. Live(p) = {}
      BY <1>2, <2>4, AsksAlone DEF RequestFails
    <3>3. Waits'
      BY <1>2, <2>4, <3>2, Moves DEF RequestFails, Returns
    <3>4. Intercepts'
      BY <1>2, <2>4, <3>1, Handless DEF RequestFails, Returns, WalkerTypes
    <3> QED
      BY <3>1, <3>3, <3>4 DEF GithubInv
  <2>5. ASSUME NEW p \in paths, FileAnswer(p)
        PROVE  GithubInv'
    <3>1. /\ walker[p] = "asks" /\ Tree.kind[p] # "dir" /\ Intercept(p)
          /\ UNCHANGED <<tree, spawned, group>> /\ walker' = [walker EXCEPT ![p] = "returned"]
      BY <2>5 DEF FileAnswer, Answered, IsFile, Intercept, Returns
    <3>2. Live(p) = {}
      BY <1>2, <3>1, AsksAlone
    <3>3. Waits'
      BY <1>2, <3>1, <3>2, Moves
    <3>4. Intercepts' /\ intercepted' \in Seq(paths)
      BY <1>2, <3>1, Hands
    <3>5. WalkerTypes'
      BY <1>2, <3>1, <3>4 DEF WalkerTypes, Intercept, Tree
    <3> QED
      BY <3>3, <3>4, <3>5 DEF GithubInv
  <2>6. ASSUME NEW p \in paths, DirAnswer(p)
        PROVE  GithubInv'
    <3>1. WalkerTypes'
      BY <1>2, <2>6 DEF WalkerTypes, DirAnswer, Tree
    <3>2. Waits'
      BY <1>2, <2>6, Moves DEF DirAnswer, Answered
    <3>3. Intercepts'
      BY <1>2, <2>6, <3>1, Handless DEF DirAnswer, Answered, WalkerTypes
    <3> QED
      BY <3>1, <3>2, <3>3 DEF GithubInv
  <2>7. ASSUME NEW p \in paths, Spawn(p)
        PROVE  GithubInv'
    <3>1. WalkerTypes' /\ Waits'
      BY <1>2, <2>7, SpawnWaits
    <3>2. PICK e : e = Tree.entries[p][spawned[p] + 1]
      OBVIOUS
    <3>3. /\ walker' = [walker EXCEPT ![e] = IF Tree.recurse \/ IsFile(e) THEN "asks" ELSE "returned"]
          /\ UNCHANGED <<tree, broken, intercepted>>
      BY <2>7, <3>2 DEF Spawn
    <3>4. e \in paths /\ walker[e] = "none" /\ e # Tree.root
      <4>1. Tree.entries[p] \in Seq(paths) /\ Started(p)
        BY <1>2, TreeOK DEF Waits
      <4>2. spawned[p] \in Nat /\ spawned[p] < Len(Tree.entries[p])
        BY <1>2, <2>7 DEF Spawn, WalkerTypes
      <4>3. spawned[p] + 1 \in 1 .. Len(Tree.entries[p]) /\ ~(spawned[p] + 1 <= spawned[p])
        BY <4>1, <4>2
      <4> QED
        BY <1>2, <3>2, <4>1, <4>3, TreeOK DEF Started
    <3>5. walker'[e] = "returned" => Passed(e)
      BY <1>2, <3>3, <3>4 DEF WalkerTypes, Passed
    <3>6. walker'[e] \in {"asks", "returned"} /\ \A x \in paths : x # e => walker'[x] = walker[x]
      BY <1>2, <3>3, <3>4 DEF WalkerTypes
    <3>7. Intercepts'
      BY <1>2, <3>1, <3>3, <3>4, <3>5, <3>6, Handless
    <3> QED
      BY <3>1, <3>7 DEF GithubInv
  <2>8. ASSUME NEW p \in paths, EntryDone(p)
        PROVE  GithubInv'
    <3>1. WalkerTypes' /\ Waits'
      BY <1>2, <2>8, DoneWaits
    <3>2. Intercepts'
      BY <1>2, <2>8, <3>1, Handless DEF EntryDone, WalkerTypes
    <3> QED
      BY <3>1, <3>2 DEF GithubInv
  <2>9. ASSUME NEW p \in paths, InterceptDir(p)
        PROVE  GithubInv'
    <3>1. /\ walker[p] = "spawns" /\ spawned[p] = Len(Tree.entries[p]) /\ group[p] = 0
          /\ Intercept(p) /\ UNCHANGED <<tree, spawned, group>>
          /\ walker' = [walker EXCEPT ![p] = "returned"]
      BY <2>9 DEF InterceptDir, Intercept, Returns
    <3>2. Live(p) = {}
      BY <1>2, <3>1, LiveFinite
    <3>3. Waits'
      BY <1>2, <3>1, <3>2, Moves
    <3>4. Intercepts' /\ intercepted' \in Seq(paths)
      BY <1>2, <3>1, Hands
    <3>5. WalkerTypes'
      BY <1>2, <3>1, <3>4 DEF WalkerTypes, Intercept, Tree
    <3> QED
      BY <3>3, <3>4, <3>5 DEF GithubInv
  <2> QED
    BY <2>1, <2>2, <2>3, <2>4, <2>5, <2>6, <2>7, <2>8, <2>9 DEF GithubNext
<1> QED
  BY <1>1, <1>2 DEF GithubInv, Paths

LEMMA GithubInitInv ==
    ASSUME GithubInit
    PROVE  GithubInv
  BY DEF GithubInit, GithubInv

\* No wait group counts more than the goroutines that were started.
LEMMA LiveBound ==
    ASSUME WalkerTypes, Waits, NEW q \in DOMAIN Tree.kind
    PROVE  group[q] \in 0 .. spawned[q]
<1> DEFINE f == [i \in 1 .. spawned[q] |-> Tree.entries[q][i]]
           T == {f[i] : i \in 1 .. spawned[q]}
<1>1. /\ spawned[q] \in Nat /\ IsFiniteSet(1 .. spawned[q])
      /\ Cardinality(1 .. spawned[q]) = spawned[q]
  <2>1. spawned[q] \in Nat
    BY DEF WalkerTypes
  <2>2. PICK m \in Nat : m = spawned[q]
    BY <2>1
  <2>3. IsFiniteSet(1 .. m) /\ Cardinality(1 .. m) = m
    BY FS_Interval
  <2> QED
    BY <2>2, <2>3
<1>2. IsFiniteSet(T) /\ Cardinality(T) <= Cardinality(1 .. spawned[q])
  <2>1. f \in Surjection(1 .. spawned[q], T)
    BY DEF Surjection
  <2> HIDE DEF f, T
  <2> QED
    BY <1>1, <2>1, FS_Surjection
<1>3. Live(q) \in SUBSET T
  BY DEF Live, Spawned
<1> HIDE DEF T
<1>4. Cardinality(Live(q)) <= Cardinality(T) /\ Cardinality(Live(q)) \in Nat /\ Cardinality(T) \in Nat
  BY <1>2, <1>3, FS_Subset, FS_CardinalityType
<1>5. group[q] = Cardinality(Live(q))
  BY DEF Waits
<1> QED
  BY <1>1, <1>2, <1>4, <1>5

LEMMA GithubTypes ==
    ASSUME GithubInv
    PROVE  GithubTypeOK
<1>1. CASE tree = <<>> /\ walker = <<>> /\ broken = {}
  <2>1. Paths = {}
    BY <1>1 DEF Paths
  <2> QED
    BY <1>1, <2>1 DEF GithubTypeOK
<1>2. CASE WalkerTypes /\ Waits
  BY <1>2, LiveBound DEF GithubTypeOK, WalkerTypes, Paths
<1> QED
  BY <1>1, <1>2 DEF GithubInv

\* When the root has returned nobody is at work: of those that are, one would
\* be in the directory of none.
LEMMA GithubEntries ==
    ASSUME GithubInv
    PROVE  EntriesFirst
<1>1. CASE tree = <<>> /\ walker = <<>> /\ intercepted = <<>> /\ broken = {}
  <2>1. DOMAIN intercepted = {}
    BY <1>1
  <2> QED
    BY <1>1, <2>1 DEF EntriesFirst, IsInjective
<1>2. CASE WalkerTypes /\ Waits /\ Intercepts
  <2> DEFINE paths == DOMAIN Tree.kind
  <2>1. Paths = paths
    BY <1>2 DEF WalkerTypes, Paths
  <2>2. ASSUME walker[Tree.root] = "returned"
        PROVE  /\ \A p \in paths \ {Tree.root} : walker[p] \in {"none", "done"}
               /\ Tree.root \in broken \cup ToSet(intercepted)
    <3> DEFINE ps == {p \in paths \ {Tree.root} : walker[p] \in Active}
    <3>1. ps = {}
      <4>1. SUFFICES ASSUME ps # {}
                     PROVE  FALSE
        OBVIOUS
      <4>2. ps \in SUBSET paths
        OBVIOUS
      <4>3. PICK p \in ps : \A q \in ps : p \notin ToSet(Tree.entries[q])
        <5> HIDE DEF ps
        <5> QED
          BY <1>2, <4>1, <4>2, TreeOK
      <4>4. PICK q \in paths : walker[q] = "spawns" /\ p \in Spawned(q)
        BY <1>2, <4>3 DEF Waits
      <4>5. q \in ps
        BY <2>2, <4>4 DEF Active
      <4>6. p \in ToSet(Tree.entries[q])
        <5>1. /\ DOMAIN Tree.entries[q] = 1 .. Len(Tree.entries[q]) /\ spawned[q] \in Nat
              /\ spawned[q] <= Len(Tree.entries[q]) /\ Len(Tree.entries[q]) \in Nat
          <6>1. Tree.entries[q] \in Seq(paths)
            BY <1>2, TreeOK
          <6>2. spawned[q] \in Nat /\ spawned[q] <= Len(Tree.entries[q])
            BY <1>2 DEF Waits, Started, WalkerTypes
          <6> QED
            BY <6>1, <6>2
        <5> QED
          BY <4>4, <5>1 DEF Spawned, ToSet
      <4> QED
        BY <4>3, <4>5, <4>6
    <3>2. Tree.root \in broken \cup ToSet(intercepted)
      BY <1>2, <2>2, TreeOK DEF Intercepts, Passed
    <3> QED
      BY <1>2, <3>1, <3>2 DEF WalkerTypes, Active
  <2> QED
    BY <1>2, <2>1, <2>2 DEF EntriesFirst, Intercepts
<1> QED
  BY <1>1, <1>2 DEF GithubInv
-----------------------------------------------------------------------------
(***************************************************************************)
(* The generators.  While a plain root directory is walked, what is in the *)
(* file and what the writers still have to write are, without overlaps,    *)
(* the documents of the entries passed, each once and in one place; after  *)
(* the walk the file has them all.                                         *)
(***************************************************************************)
\* What the walk writes for an entry.
Written(e) ==
    IF e.kind # "dir" /\ e.large THEN <<>> ELSE Processed(e, "none", <<>>).docs

Upto(o, n) == UNION {ToSet(Written(o.entries[i])) : i \in 1 .. n - 1}
WholeOf(o) == UNION {ToSet(Written(o.entries[i])) : i \in DOMAIN o.entries}

NoneLeft(ps) == \A w \in DOMAIN ps : ps[w] = <<>>

ClonePhases ==
    /\ phase # "idle" => asked = <<Origin>> /\ Origin \in Origins
    /\ phase \in {"idle", "walk", "abort", "package", "failed", "panicked"}
    /\ writing \subseteq {w \in DOMAIN pending : pending[w] # <<>>}
    /\ phase # "walk" => NoneLeft(pending)
    /\ phase = "walk" =>
         /\ clone
         /\ position \in Nat \ {0} /\ DOMAIN pending \subseteq 0 .. position - 1
         /\ (Origin.root = "dir" /\ ~Origin.recurse) \/ DOMAIN pending = {0}
         /\ 0 \in DOMAIN pending
    /\ generated # <<>> => phase = "package"
    /\ ~overlapped => \A v, w \in writing : v = w

\* A walk that is at entry n of a plain directory.
WritesSo(o, n, handed, held, lost) ==
    /\ n \in 1 .. Len(o.entries) + 1
    /\ DOMAIN handed \subseteq 0 .. n - 1
    /\ \A w \in DOMAIN handed : /\ handed[w] \in Seq(Upto(o, n)) /\ IsInjective(handed[w])
                                /\ \A v \in DOMAIN handed :
                                     v # w => ToSet(handed[v]) \cap ToSet(handed[w]) = {}
    /\ ~lost =>
         /\ held \in Seq(Upto(o, n)) /\ IsInjective(held)
         /\ \A w \in DOMAIN handed : ToSet(held) \cap ToSet(handed[w]) = {}
         /\ Upto(o, n) \subseteq ToSet(held) \cup UNION {ToSet(handed[w]) : w \in DOMAIN handed}

Writes(o, n) == WritesSo(o, n, pending, stream, overlapped)

StreamedSo(o, held, lost) ==
    ~lost => held \in Seq(WholeOf(o)) /\ IsInjective(held) /\ ToSet(held) = WholeOf(o)

Streamed(o) == StreamedSo(o, stream, overlapped)

AllGenerated(o) ==
    LET g == generated[1]
        wanted == {d \in Promised(o) : g.group \in {"", d.group}}
        kinds == UNION {ToSet(GeneratedFrom(d)) : d \in wanted}
    IN  ~overlapped =>
          /\ ToSet(g.comps) \subseteq kinds
          /\ ~g.cut => ToSet(g.comps) = kinds /\ Cardinality(kinds) = Len(g.comps)

SourcesInv ==
    /\ ClonePhases
    /\ phase = "walk" /\ Plain(Origin) => Writes(Origin, position)
    /\ phase = "package" /\ Plain(Origin) => Streamed(Origin)
    /\ generated # <<>> /\ Plain(Origin) => AllGenerated(Origin)

EntryOK(e) ==
    IF e.kind \in Archives
    THEN /\ IsSequence(e.inside) /\ Separate(e.inside)
         /\ \A k \in DOMAIN e.inside : FileOK(e.inside[k]) /\ e.inside[k].kind \notin Archives
    ELSE FileOK(e)

DocsOf(o) == UNION {DocsIn(o.entries[i]) : i \in DOMAIN o.entries}

\* A sequence is one over its elements.
LEMMA ElementsOf ==
    ASSUME NEW s, IsSequence(s)
    PROVE  s \in Seq(ToSet(s)) /\ Len(s) \in Nat /\ DOMAIN s = 1 .. Len(s)
<1>1. s \in Seq(ToSet(s))
  BY DEF IsSequence, ToSet
<1> QED
  BY <1>1

\* The documents of one file or directory.
LEMMA FileDocs ==
    ASSUME NEW e, FileOK(e)
    PROVE  /\ e.docs \in Seq(ToSet(e.docs)) /\ IsInjective(e.docs)
           /\ \A d \in ToSet(e.docs) : DocumentOK(d)
           /\ \A d, x \in ToSet(e.docs) : d.name = x.name => d = x
<1>1. e.docs \in Seq(ToSet(e.docs))
  BY ElementsOf DEF FileOK
<1>2. /\ \A k \in DOMAIN e.docs : DocumentOK(e.docs[k])
      /\ \A k, l \in DOMAIN e.docs : e.docs[k].name = e.docs[l].name => k = l
  BY DEF FileOK
<1>3. IsInjective(e.docs)
  BY <1>2 DEF IsInjective
<1>4. \A d \in ToSet(e.docs) : \E k \in DOMAIN e.docs : d = e.docs[k]
  BY DEF ToSet
<1>5. \A d \in ToSet(e.docs) : DocumentOK(d)
  BY <1>2, <1>4
<1>6. \A d, x \in ToSet(e.docs) : d.name = x.name => d = x
  BY <1>2, <1>4
<1> QED
  BY <1>1, <1>3, <1>5, <1>6

\* The documents of an entry.
LEMMA EntryDocs ==
    ASSUME NEW e, EntryOK(e)
    PROVE  /\ \A d \in DocsIn(e) : DocumentOK(d)
           /\ \A d, x \in DocsIn(e) : d.name = x.name => d = x
<1>1. CASE e.kind \notin Archives
  BY <1>1, FileDocs DEF EntryOK, DocsIn
<1>2. CASE e.kind \in Archives
  <2>1. /\ Separate(e.inside)
        /\ \A k \in DOMAIN e.inside : FileOK(e.inside[k]) /\ e.inside[k].kind \notin Archives
        /\ DocsIn(e) = UNION {ToSet(e.inside[k].docs) : k \in DOMAIN e.inside}
    BY <1>2 DEF EntryOK, DocsIn
  <2>2. \A k \in DOMAIN e.inside : DocsIn(e.inside[k]) = ToSet(e.inside[k].docs)
    BY <2>1 DEF DocsIn
  <2>3. \A d \in DocsIn(e) : \E k \in DOMAIN e.inside : d \in ToSet(e.inside[k].docs)
    BY <2>1
  <2>4. \A d \in DocsIn(e) : DocumentOK(d)
    BY <2>1, <2>3, FileDocs
  <2>5. ASSUME NEW d \in DocsIn(e), NEW x \in DocsIn(e), d.name = x.name
        PROVE  d = x
    <3>1. PICK k \in DOMAIN e.inside : d \in ToSet(e.inside[k].docs)
      BY <2>3
    <3>2. PICK l \in DOMAIN e.inside : x \in ToSet(e.inside[l].docs)
      BY <2>3
    <3>3. k = l
      BY <2>1, <2>2, <2>5, <3>1, <3>2 DEF Separate
    <3> QED
      BY <2>1, <2>5, <3>1, <3>2, <3>3, FileDocs
  <2> QED
    BY <2>4, <2>5
<1> QED
  BY <1>1, <1>2

\* The documents of an origin, and where they are.
LEMMA OriginDocs ==
    ASSUME NEW o \in Origins
    PROVE  /\ Len(o.entries) \in Nat /\ DOMAIN o.entries = 1 .. Len(o.entries)
           /\ \A i \in DOMAIN o.entries : EntryOK(o.entries[i])
           /\ \A d \in DocsOf(o) : DocumentOK(d)
           /\ \A i, j \in DOMAIN o.entries :
                \A d \in DocsIn(o.entries[i]), x \in DocsIn(o.entries[j]) :
                  d.name = x.name => i = j /\ d = x
<1>1. /\ IsSequence(o.entries) /\ Separate(o.entries)
      /\ \A i \in DOMAIN o.entries : EntryOK(o.entries[i])
  BY SourcesAssumption DEF EntryOK
<1>2. Len(o.entries) \in Nat /\ DOMAIN o.entries = 1 .. Len(o.entries)
  BY <1>1, ElementsOf
<1>3. ASSUME NEW d \in DocsOf(o)
      PROVE  DocumentOK(d)
  <2>1. PICK i \in DOMAIN o.entries : d \in DocsIn(o.entries[i])
    BY DEF DocsOf
  <2> QED
    BY <1>1, <2>1, EntryDocs
<1>4. ASSUME NEW i \in DOMAIN o.entries, NEW j \in DOMAIN o.entries,
             NEW d \in DocsIn(o.entries[i]), NEW x \in DocsIn(o.entries[j]), d.name = x.name
      PROVE  i = j /\ d = x
  <2>1. i = j
    BY <1>1, <1>4 DEF Separate
  <2> QED
    BY <1>1, <1>4, <2>1, EntryDocs
<1> QED
  BY <1>1, <1>2, <1>3, <1>4

\* The root being no chart, an entry is converted for itself.
LEMMA ProcessedPlain ==
    ASSUME NEW e, NEW around
    PROVE  Processed(e, "none", around) = Processed(e, "none", <<>>)
<1>1. Converted(e, "none", around) = Converted(e, "none", <<>>)
  BY DEF Converted
<1> QED
  BY <1>1 DEF Processed

\* What a file or a directory is converted to.
LEMMA ConvertedFile ==
    ASSUME NEW e, FileOK(e), e.kind \notin Archives, NEW around,
           NEW c, c = Converted(e, "none", around)
    PROVE  /\ c.docs \in Seq(ToSet(e.docs)) /\ IsInjective(c.docs)
           /\ ToSet(c.docs) \subseteq Manifest(e) /\ Manifest(e) \subseteq ToSet(e.docs)
           /\ \A d \in Manifest(e) : d.kind \notin NoMapping => d \in ToSet(c.docs)
           /\ c.ok <=> ~Unconvertible(e)
<1>1. e.docs \in Seq(ToSet(e.docs)) /\ IsInjective(e.docs)
  BY FileDocs
<1>2. PICK S : S = {d \in ToSet(e.docs) : d.kind = "crd"}
  OBVIOUS
<1>3. /\ Crds(e.docs) \in Seq(ToSet(e.docs)) /\ IsInjective(Crds(e.docs))
      /\ ToSet(Crds(e.docs)) \subseteq ToSet(e.docs)
  <2>1. Crds(e.docs) = Those(e.docs, S)
    BY <1>2 DEF Crds
  <2>2. /\ Those(e.docs, S) \in Seq(ToSet(e.docs))
        /\ ToSet(Those(e.docs, S)) = ToSet(e.docs) \cap S
        /\ IsInjective(Those(e.docs, S))
    BY <1>1, ThoseElements
  <2> QED
    BY <2>1, <2>2
<1>4. PICK none : none = <<>>
  OBVIOUS
<1>5. none \in Seq(ToSet(e.docs)) /\ IsInjective(none) /\ ToSet(none) = {}
  <2>1. none \in Seq(ToSet(e.docs)) /\ DOMAIN none = {}
    BY <1>4
  <2> QED
    BY <2>1 DEF IsInjective, ToSet
<1>6. CASE e.kind = "dir" /\ e.chart = "ok"
  <2>1. c = [ok |-> TRUE, docs |-> Crds(e.docs)]
    BY <1>6 DEF Converted
  <2>2. Manifest(e) = ToSet(Crds(e.docs)) /\ ~Unconvertible(e)
    BY <1>6 DEF Manifest, Unconvertible
  <2> QED
    BY <1>3, <2>1, <2>2
<1>7. CASE e.kind = "dir" /\ e.chart # "ok"
  <2>1. c.docs = none /\ (c.ok <=> e.chart # "bad")
    <3>1. CASE e.chart = "bad"
      <4>1. c = [ok |-> FALSE, docs |-> none]
        BY <1>4, <1>7, <3>1 DEF Converted
      <4> QED
        BY <3>1, <4>1
    <3>2. CASE e.chart # "bad"
      <4>1. c = [ok |-> TRUE, docs |-> none]
        BY <1>4, <1>7, <3>2 DEF Converted
      <4> QED
        BY <3>2, <4>1
    <3> QED
      BY <3>1, <3>2
  <2>2. Manifest(e) = {} /\ (Unconvertible(e) <=> e.chart = "bad")
    BY <1>7 DEF Manifest, Unconvertible
  <2> QED
    BY <1>5, <2>1, <2>2
<1>8. CASE e.kind = "text" /\ e.docs # <<>>
  <2>1. c = FirstDocument(e.docs)
    BY <1>8 DEF Converted
  <2>2. PICK d : d = e.docs[1]
    OBVIOUS
  <2>3. d \in ToSet(e.docs)
    <3>1. 1 \in DOMAIN e.docs
      BY <1>1, <1>8
    <3> QED
      BY <2>2, <3>1 DEF ToSet
  <2>4. Manifest(e) = {d} /\ (Unconvertible(e) <=> d.kind \in NoMapping)
    BY <1>8, <2>2 DEF Manifest, Unconvertible
  <2>5. CASE d.kind \in NoMapping
    <3>1. c = [ok |-> FALSE, docs |-> none]
      BY <1>4, <1>8, <2>1, <2>2, <2>5 DEF FirstDocument
    <3>2. c.docs = none /\ ~c.ok
      BY <3>1
    <3> QED
      BY <1>5, <2>3, <2>4, <2>5, <3>2
  <2>6. CASE d.kind \notin NoMapping
    <3>1. PICK u : u = <<d>>
      OBVIOUS
    <3>2. c = [ok |-> TRUE, docs |-> u]
      BY <1>8, <2>1, <2>2, <2>6, <3>1 DEF FirstDocument
    <3>3. c.docs = u /\ c.ok
      BY <3>2
    <3>4. u \in Seq(ToSet(e.docs)) /\ DOMAIN u = {1} /\ u[1] = d
      BY <2>3, <3>1
    <3>5. IsInjective(u) /\ ToSet(u) = {d}
      BY <3>4 DEF IsInjective, ToSet
    <3> QED
      BY <2>3, <2>4, <2>6, <3>3, <3>4, <3>5
  <2> QED
    BY <2>5, <2>6
<1>9. CASE e.kind # "dir" /\ (e.kind # "text" \/ e.docs = <<>>)
  <2>1. c = [ok |-> TRUE, docs |-> none]
    BY <1>4, <1>9 DEF Converted, FirstDocument
  <2>2. c.docs = none /\ c.ok
    BY <2>1
  <2>3. Manifest(e) = {} /\ ~Unconvertible(e)
    BY <1>9 DEF Manifest, Unconvertible
  <2> QED
    BY <1>5, <2>2, <2>3
<1> QED
  BY <1>6, <1>7, <1>8, <1>9

\* What an archive that is no chart is converted to.
LEMMA ConvertedArchive ==
    ASSUME NEW e, EntryOK(e), e.kind \in Archives, Extractable(e.kind, e.inside),
           NEW docs, docs = InOrder(e.inside, "none").docs,
           NEW promised, e.large \/ promised = Promises(e), ~e.large
    PROVE  /\ docs \in Seq(DocsIn(e)) /\ IsInjective(docs)
           /\ ToSet(docs) \subseteq promised /\ promised \subseteq DocsIn(e)
           /\ \A d \in promised : d.kind \notin NoMapping => d \in ToSet(docs)
<1> DEFINE es == e.inside
           c == [k \in DOMAIN es |-> Converted(es[k], "none", AllCrds(es))]
           reached == {k \in DOMAIN es : \A l \in 1 .. k - 1 : c[l].ok}
           some == {k \in DOMAIN es : /\ Extractable(e.kind, es)
                                     /\ \A l \in 1 .. k - 1 : ~Unconvertible(es[l])}
           D == DocsIn(e)
<1>1. /\ Separate(es) /\ Len(es) \in Nat /\ DOMAIN es = 1 .. Len(es)
      /\ \A k \in DOMAIN es : FileOK(es[k]) /\ es[k].kind \notin Archives
      /\ D = UNION {ToSet(es[k].docs) : k \in DOMAIN es}
  BY ElementsOf DEF EntryOK, DocsIn
<1>2. promised = UNION {Manifest(es[k]) : k \in some}
  BY DEF Promises, Archives
<1>3. docs = Joined([k \in DOMAIN es |-> IF k \in reached THEN c[k].docs ELSE <<>>])
  BY DEF InOrder
<1>4. \A k \in DOMAIN es :
        /\ c[k].docs \in Seq(ToSet(es[k].docs)) /\ IsInjective(c[k].docs)
        /\ ToSet(c[k].docs) \subseteq Manifest(es[k]) /\ Manifest(es[k]) \subseteq ToSet(es[k].docs)
        /\ \A d \in Manifest(es[k]) : d.kind \notin NoMapping => d \in ToSet(c[k].docs)
        /\ c[k].ok <=> ~Unconvertible(es[k])
  BY <1>1, ConvertedFile
<1>5. DOMAIN c = DOMAIN es
  OBVIOUS
<1> HIDE DEF es, c, D
<1>6. reached = some
  <2>1. \A k \in DOMAIN es : \A l \in 1 .. k - 1 : l \in DOMAIN es
    BY <1>1
  <2>2. Extractable(e.kind, es)
    BY DEF es
  <2> QED
    BY <1>4, <2>1, <2>2
<1> HIDE DEF reached, some
<1>7. PICK ss : ss = [k \in DOMAIN es |-> IF k \in reached THEN c[k].docs ELSE <<>>]
  OBVIOUS
<1>8. \A k \in DOMAIN es :
        /\ ss[k] \in Seq(D) /\ IsInjective(ss[k]) /\ ToSet(ss[k]) \subseteq ToSet(es[k].docs)
        /\ ToSet(ss[k]) = IF k \in reached THEN ToSet(c[k].docs) ELSE {}
  <2>1. SUFFICES ASSUME NEW k \in DOMAIN es
                 PROVE  /\ ss[k] \in Seq(D) /\ IsInjective(ss[k])
                        /\ ToSet(ss[k]) \subseteq ToSet(es[k].docs)
                        /\ ToSet(ss[k]) = IF k \in reached THEN ToSet(c[k].docs) ELSE {}
    OBVIOUS
  <2>2. CASE k \in reached
    <3>1. ss[k] = c[k].docs
      BY <1>7, <2>2
    <3>2. ToSet(es[k].docs) \subseteq D
      BY <1>1
    <3> QED
      BY <1>4, <2>2, <3>1, <3>2, WiderSeq
  <2>3. CASE k \notin reached
    <3>1. PICK u : u = <<>>
      OBVIOUS
    <3>2. ss[k] = u
      BY <1>7, <2>3, <3>1
    <3>3. u \in Seq(D) /\ DOMAIN u = {}
      BY <3>1
    <3> QED
      BY <2>3, <3>2, <3>3 DEF IsInjective, ToSet
  <2> QED
    BY <2>2, <2>3
<1>9. DOMAIN ss = DOMAIN es /\ ss \in Seq(Seq(D))
  <2>1. PICK n : n = Len(es)
    OBVIOUS
  <2>2. n \in Nat /\ DOMAIN ss = 1 .. n
    BY <1>1, <1>7, <2>1
  <2>3. ss \in [1 .. n -> Seq(D)]
    BY <1>1, <1>7, <1>8, <2>1
  <2> QED
    BY <1>7, <2>2, <2>3
<1>10. \A k, l \in DOMAIN ss : k # l => ToSet(ss[k]) \cap ToSet(ss[l]) = {}
  <2>1. \A k \in DOMAIN es : DocsIn(es[k]) = ToSet(es[k].docs)
    BY <1>1 DEF DocsIn
  <2>2. ASSUME NEW k \in DOMAIN es, NEW l \in DOMAIN es, k # l,
               NEW d, d \in ToSet(ss[k]), d \in ToSet(ss[l])
        PROVE  FALSE
    <3>1. d \in DocsIn(es[k]) /\ d \in DocsIn(es[l])
      BY <1>8, <2>1, <2>2
    <3> QED
      BY <1>1, <2>2, <3>1 DEF Separate
  <2> QED
    BY <1>9, <2>2
<1>11. /\ docs \in Seq(D) /\ IsInjective(docs)
       /\ ToSet(docs) = UNION {ToSet(ss[k]) : k \in DOMAIN ss}
  <2>1. docs = Joined(ss)
    BY <1>3, <1>7
  <2>2. /\ Joined(ss) \in Seq(D)
        /\ ToSet(Joined(ss)) = UNION {ToSet(ss[k]) : k \in DOMAIN ss}
        /\ (/\ \A k \in DOMAIN ss : IsInjective(ss[k])
            /\ \A k, l \in DOMAIN ss : k # l => ToSet(ss[k]) \cap ToSet(ss[l]) = {})
           => IsInjective(Joined(ss))
    BY <1>9, JoinedElements
  <2> QED
    BY <1>8, <1>9, <1>10, <2>1, <2>2
<1>12. ToSet(docs) \subseteq promised
  <2>1. SUFFICES ASSUME NEW d \in ToSet(docs)
                 PROVE  \E k \in some : d \in Manifest(es[k])
    BY <1>2
  <2>2. PICK k \in DOMAIN es : d \in ToSet(ss[k])
    BY <1>9, <1>11
  <2> QED
    BY <1>4, <1>6, <1>8, <2>2
<1>13. \A k \in some : k \in DOMAIN es
  BY DEF some
<1>14. promised \subseteq D
  <2>1. SUFFICES ASSUME NEW k \in some, NEW d \in Manifest(es[k])
                 PROVE  d \in D
    BY <1>2
  <2> QED
    BY <1>1, <1>4, <1>13
<1>15. \A d \in promised : d.kind \notin NoMapping => d \in ToSet(docs)
  <2>1. SUFFICES ASSUME NEW k \in some, NEW d \in Manifest(es[k]), d.kind \notin NoMapping
                 PROVE  d \in ToSet(docs)
    BY <1>2
  <2>2. d \in ToSet(ss[k])
    BY <1>4, <1>6, <1>8, <1>13, <2>1
  <2> QED
    BY <1>9, <1>11, <1>13, <2>2
<1> QED
  BY <1>11, <1>12, <1>14, <1>15 DEF D

\* What is written for an entry.
LEMMA WrittenOK ==
    ASSUME NEW e, EntryOK(e), e.kind \in Archives => e.chart = "none"
    PROVE  /\ Written(e) \in Seq(DocsIn(e)) /\ IsInjective(Written(e))
           /\ ToSet(Written(e)) \subseteq Promises(e) /\ Promises(e) \subseteq DocsIn(e)
           /\ \A d \in Promises(e) : d.kind \notin NoMapping => d \in ToSet(Written(e))
<1>1. PICK none : none = <<>>
  OBVIOUS
<1>2. none \in Seq(DocsIn(e)) /\ IsInjective(none) /\ ToSet(none) = {}
  <2>1. none \in Seq(DocsIn(e)) /\ DOMAIN none = {}
    BY <1>1
  <2> QED
    BY <2>1 DEF IsInjective, ToSet
<1>3. CASE e.kind # "dir" /\ e.large
  <2>1. Written(e) = none /\ Promises(e) = {}
    BY <1>1, <1>3 DEF Written, Promises
  <2> QED
    BY <1>2, <2>1
<1>4. CASE ~(e.kind # "dir" /\ e.large) /\ e.kind \notin Archives
  <2>1. PICK c : c = Converted(e, "none", <<>>)
    OBVIOUS
  <2>2. Written(e) = c.docs /\ Promises(e) = Manifest(e) /\ DocsIn(e) = ToSet(e.docs)
    BY <1>4, <2>1 DEF Written, Promises, DocsIn, Processed
  <2>3. FileOK(e)
    BY <1>4 DEF EntryOK
  <2> QED
    BY <1>4, <2>1, <2>2, <2>3, ConvertedFile
<1>5. CASE ~(e.kind # "dir" /\ e.large) /\ e.kind \in Archives /\ Extractable(e.kind, e.inside)
  <2>1. Written(e) = InOrder(e.inside, "none").docs /\ ~e.large
    BY <1>5 DEF Written, Processed, Archives
  <2>2. PICK docs, promised : docs = InOrder(e.inside, "none").docs /\ promised = Promises(e)
    OBVIOUS
  <2>3. /\ docs \in Seq(DocsIn(e)) /\ IsInjective(docs)
        /\ ToSet(docs) \subseteq promised /\ promised \subseteq DocsIn(e)
        /\ \A d \in promised : d.kind \notin NoMapping => d \in ToSet(docs)
    BY <1>5, <2>1, <2>2, ConvertedArchive
  <2> QED
    BY <2>1, <2>2, <2>3
<1>6. CASE ~(e.kind # "dir" /\ e.large) /\ e.kind \in Archives /\ ~Extractable(e.kind, e.inside)
  <2>1. Processed(e, "none", <<>>) = [ok |-> FALSE, docs |-> none]
    BY <1>1, <1>6 DEF Processed
  <2>2. Written(e) = none
    BY <1>6, <2>1 DEF Written
  <2>3. Promises(e) = {}
    BY <1>6 DEF Promises
  <2> QED
    BY <1>2, <2>2, <2>3
<1> QED
  BY <1>3, <1>4, <1>5, <1>6

\* Of which of the documents the file in the end is.
LEMMA WholeOK ==
    ASSUME NEW o \in Origins, Plain(o)
    PROVE  /\ \A i \in DOMAIN o.entries :
                LET docs == Written(o.entries[i])
                IN  /\ docs \in Seq(ToSet(docs)) /\ IsInjective(docs)
                    /\ ToSet(docs) \subseteq DocsIn(o.entries[i])
           /\ WholeOf(o) \subseteq Promised(o) /\ Promised(o) \subseteq DocsOf(o)
           /\ \A d \in Promised(o) : d.kind \notin NoMapping => d \in WholeOf(o)
           /\ \A d, x \in DocsOf(o) : d.name = x.name => d = x
<1>1. \A i \in DOMAIN o.entries :
        /\ EntryOK(o.entries[i])
        /\ o.entries[i].kind \in Archives => o.entries[i].chart = "none"
  BY OriginDocs DEF Plain
<1>2. \A i \in DOMAIN o.entries :
        LET e == o.entries[i]
        IN  /\ Written(e) \in Seq(DocsIn(e)) /\ IsInjective(Written(e))
            /\ ToSet(Written(e)) \subseteq Promises(e) /\ Promises(e) \subseteq DocsIn(e)
            /\ \A d \in Promises(e) : d.kind \notin NoMapping => d \in ToSet(Written(e))
  BY <1>1, WrittenOK
<1>3. ASSUME NEW i \in DOMAIN o.entries
      PROVE  Written(o.entries[i]) \in Seq(ToSet(Written(o.entries[i])))
  <2>1. PICK docs, D : docs = Written(o.entries[i]) /\ D = DocsIn(o.entries[i])
    OBVIOUS
  <2>2. docs \in Seq(D)
    BY <1>2, <2>1
  <2>3. docs \in Seq(ToSet(docs))
    BY <2>2 DEF ToSet
  <2> QED
    BY <2>1, <2>3
<1>4. WholeOf(o) \subseteq Promised(o)
  BY <1>2 DEF WholeOf, Promised
<1>5. Promised(o) \subseteq DocsOf(o)
  BY <1>2 DEF DocsOf, Promised
<1>6. \A d \in Promised(o) : d.kind \notin NoMapping => d \in WholeOf(o)
  BY <1>2 DEF WholeOf, Promised
<1>7. ASSUME NEW d \in DocsOf(o), NEW x \in DocsOf(o), d.name = x.name
      PROVE  d = x
  <2>1. PICK i \in DOMAIN o.entries : d \in DocsIn(o.entries[i])
    BY DEF DocsOf
  <2>2. PICK j \in DOMAIN o.entries : x \in DocsIn(o.entries[j])
    BY DEF DocsOf
  <2> QED
    BY <1>7, <2>1, <2>2, OriginDocs
<1> QED
  BY <1>2, <1>3, <1>4, <1>5, <1>6, <1>7

\* What one more entry adds.
LEMMA OneMore ==
    ASSUME NEW o \in Origins, Plain(o), NEW n \in DOMAIN o.entries
    PROVE  /\ n \in Nat /\ n + 1 \in 1 .. Len(o.entries) + 1
           /\ Upto(o, n + 1) = Upto(o, n) \cup ToSet(Written(o.entries[n]))
           /\ Upto(o, n) \cap ToSet(Written(o.entries[n])) = {}
<1>1. n \in 1 .. Len(o.entries) /\ Len(o.entries) \in Nat /\ DOMAIN o.entries = 1 .. Len(o.entries)
  BY OriginDocs
<1>2. 1 .. (n + 1) - 1 = (1 .. n - 1) \cup {n}
  BY <1>1
<1>3. Upto(o, n + 1) = Upto(o, n) \cup ToSet(Written(o.entries[n]))
  BY <1>2 DEF Upto
<1>4. ASSUME NEW d \in Upto(o, n), d \in ToSet(Written(o.entries[n]))
      PROVE  FALSE
  <2>1. PICK i \in 1 .. n - 1 : d \in ToSet(Written(o.entries[i]))
    BY DEF Upto
  <2>2. i \in DOMAIN o.entries /\ i # n
    BY <1>1, <2>1
  <2>3. d \in DocsIn(o.entries[i]) /\ d \in DocsIn(o.entries[n])
    BY <1>4, <2>1, <2>2, WholeOK
  <2>4. i = n
    <3>1. \A x \in DocsIn(o.entries[i]), y \in DocsIn(o.entries[n]) : x.name = y.name => i = n
      BY <2>2, OriginDocs, Zenon
    <3> QED
      BY <2>3, <3>1
  <2> QED
    BY <2>2, <2>4
<1> QED
  BY <1>1, <1>3, <1>4

LEMMA AllOfThem ==
    ASSUME NEW o \in Origins
    PROVE  Upto(o, Len(o.entries) + 1) = WholeOf(o) /\ Upto(o, 1) = {}
<1>1. Len(o.entries) \in Nat /\ DOMAIN o.entries = 1 .. Len(o.entries)
  BY OriginDocs
<1>2. 1 .. (Len(o.entries) + 1) - 1 = DOMAIN o.entries /\ 1 .. 1 - 1 = {}
  BY <1>1
<1> QED
  BY <1>2 DEF Upto, WholeOf

\* The components of a document bear its name and are distinct.
LEMMA FromDocument ==
    ASSUME NEW d, DocumentOK(d)
    PROVE  /\ GeneratedFrom(d) \in Seq(ToSet(GeneratedFrom(d)))
           /\ IsInjective(GeneratedFrom(d))
           /\ \A c \in ToSet(GeneratedFrom(d)) : c.from = d.name
           /\ d.kind \in NoMapping => ToSet(GeneratedFrom(d)) = {}
<1>1. CASE d.kind = "crd"
  <2>1. PICK g : g = GeneratedFrom(d)
    OBVIOUS
  <2>2. g = [i \in {j \in {1} : d.complete} |->
               [from |-> d.name, kind |-> d.name, namespaced |-> d.scope = "Namespaced"]]
    BY <1>1, <2>1 DEF GeneratedFrom, Generate
  <2>3. DOMAIN g = {1} \/ DOMAIN g = {}
    BY <2>2
  <2>4. g \in Seq(ToSet(g))
    <3>1. \E n \in Nat : DOMAIN g = 1 .. n
      <4>1. {1} = 1 .. 1 /\ {} = 1 .. 0
        OBVIOUS
      <4> QED
        BY <2>3, <4>1
    <3>2. g \in [DOMAIN g -> ToSet(g)]
      BY <2>2 DEF ToSet
    <3> QED
      BY <3>1, <3>2
  <2>5. IsInjective(g)
    BY <2>3 DEF IsInjective
  <2>6. \A c \in ToSet(g) : c.from = d.name
    BY <2>2 DEF ToSet
  <2> QED
    BY <1>1, <2>1, <2>4, <2>5, <2>6 DEF NoMapping
<1>2. CASE d.kind = "openapi"
  <2>1. PICK S : S = {f \in ToSet(d.fields) : f.complete}
    OBVIOUS
  <2>2. PICK fields : fields = Those(d.fields, S)
    OBVIOUS
  <2>3. PICK g : g = GeneratedFrom(d)
    OBVIOUS
  <2>4. g = [i \in DOMAIN fields |->
               [from |-> d.name, kind |-> fields[i].kind, namespaced |-> Namespaced(fields[i])]]
    BY <1>2, <2>1, <2>2, <2>3 DEF GeneratedFrom, GenerateFromOpenAPI
  <2>5. d.fields \in Seq(ToSet(d.fields)) /\ IsInjective(d.fields)
    <3>1. d.fields \in Seq(ToSet(d.fields))
      BY DEF DocumentOK, IsSequence, ToSet
    <3>2. IsInjective(d.fields)
      BY DEF DocumentOK, IsInjective
    <3> QED
      BY <3>1, <3>2
  <2>6. /\ fields \in Seq(ToSet(d.fields)) /\ IsInjective(fields)
        /\ ToSet(fields) \subseteq ToSet(d.fields)
    BY <2>2, <2>5, ThoseElements
  <2>7. DOMAIN fields = 1 .. Len(fields) /\ Len(fields) \in Nat
    BY <2>6
  <2>8. g \in Seq(ToSet(g))
    BY <2>4, <2>7 DEF ToSet
  <2>9. \A i, j \in DOMAIN fields : fields[i].kind = fields[j].kind => i = j
    <3>1. SUFFICES ASSUME NEW i \in DOMAIN fields, NEW j \in DOMAIN fields,
                          fields[i].kind = fields[j].kind
                   PROVE  i = j
      OBVIOUS
    <3>2. fields[i] \in ToSet(d.fields) /\ fields[j] \in ToSet(d.fields)
      BY <2>6 DEF ToSet
    <3>3. PICK k \in DOMAIN d.fields, l \in DOMAIN d.fields :
             fields[i] = d.fields[k] /\ fields[j] = d.fields[l]
      BY <3>2 DEF ToSet
    <3>4. k = l
      BY <3>1, <3>3 DEF DocumentOK
    <3> QED
      BY <2>6, <3>3, <3>4 DEF IsInjective
  <2>10. IsInjective(g)
    BY <2>4, <2>9 DEF IsInjective
  <2>11. \A c \in ToSet(g) : c.from = d.name
    BY <2>4 DEF ToSet
  <2> QED
    BY <1>2, <2>3, <2>8, <2>10, <2>11 DEF NoMapping
<1>3. CASE d.kind \notin {"crd", "openapi"}
  <2>1. PICK g : g = <<>>
    OBVIOUS
  <2>2. GeneratedFrom(d) = g /\ DOMAIN g = {} /\ g \in Seq(ToSet(g))
    BY <1>3, <2>1 DEF GeneratedFrom
  <2> QED
    BY <2>2 DEF IsInjective, ToSet
<1> QED
  BY <1>1, <1>2, <1>3

LEMMA ReadableOK ==
    ASSUME NEW A, stream \in Seq(A)
    PROVE  /\ Readable \in 0 .. Len(stream)
           /\ \A i \in 1 .. Readable : Decodes(stream[i])
<1>n. PICK n : n = Len(stream)
  OBVIOUS
<1>1. n \in Nat
  BY <1>n
<1> DEFINE B == {m \in 0 .. n : m = n \/ ~Decodes(stream[m + 1])}
<1>2. PICK m \in B : \A k \in B : m <= k
  <2>1. n \in B /\ B \subseteq Nat
    BY <1>1
  <2> HIDE DEF B
  <2> QED
    BY <2>1, LeastNumber
<1>3. ASSUME NEW i \in 1 .. m
      PROVE  Decodes(stream[i])
  <2>1. i - 1 \in 0 .. n /\ ~(m <= i - 1) /\ i - 1 # n /\ (i - 1) + 1 = i
    BY <1>1, <1>2
  <2>2. i - 1 \notin B
    BY <1>2, <2>1
  <2> QED
    BY <2>1, <2>2
<1>4. /\ Readable \in 0 .. Len(stream)
      /\ \A i \in 1 .. Readable : Decodes(stream[i])
      /\ Readable = Len(stream) \/ ~Decodes(stream[Readable + 1])
  <2> DEFINE P(k) == /\ \A i \in 1 .. k : Decodes(stream[i])
                     /\ k = Len(stream) \/ ~Decodes(stream[k + 1])
  <2>1. Readable = CHOOSE k \in 0 .. Len(stream) : P(k)
    BY DEF Readable
  <2>2. \E k \in 0 .. Len(stream) : P(k)
    <3>1. m \in 0 .. Len(stream) /\ P(m)
      BY <1>n, <1>2, <1>3
    <3> HIDE DEF P
    <3> QED
      BY <3>1
  <2> HIDE DEF P
  <2>3. Readable \in 0 .. Len(stream) /\ P(Readable)
    BY <2>1, <2>2
  <2> QED
    BY <2>3 DEF P
<1> QED
  BY <1>4

\* A sequence without repetition has as many elements as it is long.
LEMMA InjectiveLength ==
    ASSUME NEW A, NEW s \in Seq(A), IsInjective(s)
    PROVE  Cardinality(ToSet(s)) = Len(s)
<1>1. Len(s) \in Nat /\ DOMAIN s = 1 .. Len(s) /\ s \in [1 .. Len(s) -> ToSet(s)]
  BY DEF ToSet
<1>2. s \in Surjection(1 .. Len(s), ToSet(s)) /\ s \in Injection(1 .. Len(s), ToSet(s))
  BY <1>1 DEF Surjection, Injection, IsInjective, ToSet
<1>3. IsFiniteSet(1 .. Len(s)) /\ Cardinality(1 .. Len(s)) = Len(s)
  BY <1>1, FS_Interval
<1> QED
  BY <1>2, <1>3, FS_Surjection

\* The components of distinct documents, one after another.
LEMMA ComponentsOf ==
    ASSUME NEW D, \A d \in D : DocumentOK(d),
           NEW ds \in Seq(D), NEW comps, comps = Joined([i \in DOMAIN ds |-> GeneratedFrom(ds[i])])
    PROVE  /\ ToSet(comps) = UNION {ToSet(GeneratedFrom(d)) : d \in ToSet(ds)}
           /\ (/\ IsInjective(ds)
               /\ \A d, x \in D : d.name = x.name => d = x)
              => Cardinality(ToSet(comps)) = Len(comps)
<1> DEFINE A == UNION {ToSet(GeneratedFrom(d)) : d \in D}
<1>1. PICK ss : ss = [i \in DOMAIN ds |-> GeneratedFrom(ds[i])]
  OBVIOUS
<1>2. /\ Len(ds) \in Nat /\ DOMAIN ds = 1 .. Len(ds) /\ DOMAIN ss = 1 .. Len(ds)
      /\ \A i \in DOMAIN ds : ds[i] \in D /\ ss[i] = GeneratedFrom(ds[i])
  BY <1>1
<1>3. ASSUME NEW d \in D
      PROVE  GeneratedFrom(d) \in Seq(A)
  <2>1. GeneratedFrom(d) \in Seq(ToSet(GeneratedFrom(d)))
    BY FromDocument
  <2>2. ToSet(GeneratedFrom(d)) \subseteq A
    OBVIOUS
  <2> HIDE DEF A
  <2> QED
    BY <2>1, <2>2, WiderSeq
<1> HIDE DEF A
<1>4. ss \in Seq(Seq(A))
  BY <1>1, <1>2, <1>3
<1>5. /\ comps \in Seq(A)
      /\ ToSet(comps) = UNION {ToSet(ss[i]) : i \in DOMAIN ss}
      /\ (/\ \A i \in DOMAIN ss : IsInjective(ss[i])
          /\ \A i, j \in DOMAIN ss : i # j => ToSet(ss[i]) \cap ToSet(ss[j]) = {})
         => IsInjective(comps)
  <2>1. comps = Joined(ss)
    BY <1>1
  <2>2. /\ Joined(ss) \in Seq(A)
        /\ ToSet(Joined(ss)) = UNION {ToSet(ss[i]) : i \in DOMAIN ss}
        /\ (/\ \A i \in DOMAIN ss : IsInjective(ss[i])
            /\ \A i, j \in DOMAIN ss : i # j => ToSet(ss[i]) \cap ToSet(ss[j]) = {})
           => IsInjective(Joined(ss))
    BY <1>4, JoinedElements
  <2> QED
    BY <2>1, <2>2
<1>6. UNION {ToSet(ss[i]) : i \in DOMAIN ss} = UNION {ToSet(GeneratedFrom(d)) : d \in ToSet(ds)}
  BY <1>2 DEF ToSet
<1>7. ASSUME IsInjective(ds), \A d, x \in D : d.name = x.name => d = x
      PROVE  Cardinality(ToSet(comps)) = Len(comps)
  <2>1. \A i \in DOMAIN ss : IsInjective(ss[i])
    BY <1>2, FromDocument
  <2>2. ASSUME NEW i \in DOMAIN ss, NEW j \in DOMAIN ss, i # j,
               NEW c, c \in ToSet(ss[i]), c \in ToSet(ss[j])
        PROVE  FALSE
    <3>1. c.from = ds[i].name /\ c.from = ds[j].name
      BY <1>2, <2>2, FromDocument
    <3>2. ds[i] = ds[j]
      BY <1>2, <1>7, <3>1
    <3> QED
      BY <1>2, <1>7, <2>2, <3>2 DEF IsInjective
  <2>3. IsInjective(comps)
    BY <1>5, <2>1, <2>2
  <2> QED
    BY <1>5, <2>3, InjectiveLength
<1> QED
  BY <1>5, <1>6, <1>7

\* What is generated from the file of a plain directory.
LEMMA GeneratesAll ==
    ASSUME asked # <<>>, Origin \in Origins, Plain(Origin), Streamed(Origin),
           ~overlapped, NEW filter, GenerateComponents(filter), UNCHANGED <<asked, overlapped, stream>>
    PROVE  AllGenerated(Origin)'
<1>o. PICK o : o = Origin
  OBVIOUS
<1>n. PICK n : n = Readable
  OBVIOUS
<1> DEFINE D == WholeOf(o)
           fits == {d \in ToSet(stream) : filter \in {"", d.group}}
           wanted == Those(SubSeq(stream, 1, n), fits)
           comps == Joined([i \in DOMAIN wanted |-> GeneratedFrom(wanted[i])])
<1>1. /\ Origin' = o /\ generated'[1].group = filter /\ generated'[1].comps = comps
      /\ generated'[1].cut = (n < Len(stream))
  <2>1. Origin.registrant = "github"
    BY DEF Plain
  <2>2. PICK g : g = [group |-> filter, cut |-> n < Len(stream), comps |-> comps]
    OBVIOUS
  <2>3. generated' = <<g>>
    BY <1>n, <2>1, <2>2 DEF GenerateComponents, OfGithub
  <2>4. generated'[1] = g
    BY <2>3
  <2>5. g.group = filter /\ g.comps = comps /\ g.cut = (n < Len(stream))
    BY <2>2
  <2>6. Origin' = o
    BY <1>o DEF Origin
  <2> QED
    BY <2>4, <2>5, <2>6
<1>2. /\ D \subseteq Promised(o) /\ D \subseteq DocsOf(o) /\ Promised(o) \subseteq DocsOf(o)
      /\ \A d \in Promised(o) : d.kind \notin NoMapping => d \in D
      /\ \A d \in DocsOf(o) : DocumentOK(d)
      /\ \A d, x \in DocsOf(o) : d.name = x.name => d = x
  BY <1>o, WholeOK, OriginDocs
<1>3. stream \in Seq(D) /\ IsInjective(stream) /\ ToSet(stream) = D
  BY <1>o DEF Streamed, StreamedSo
<1>4. n \in 0 .. Len(stream) /\ \A i \in 1 .. n : Decodes(stream[i])
  BY <1>n, <1>3, ReadableOK
<1> HIDE DEF D
<1>5. PICK u : u = SubSeq(stream, 1, n)
  OBVIOUS
<1>6. u \in Seq(D) /\ ToSet(u) \subseteq ToSet(stream)
  <2>1. /\ Len(stream) \in Nat /\ Len(u) = n /\ DOMAIN u = 1 .. n /\ DOMAIN stream = 1 .. Len(stream)
        /\ \A i \in 1 .. n : u[i] = stream[i] /\ u[i] \in D
    BY <1>3, <1>4, <1>5
  <2>3. u \in Seq(D)
    BY <1>3, <1>4, <1>5, <2>1
  <2> QED
    BY <1>4, <2>1, <2>3 DEF ToSet
<1> HIDE DEF fits
<1>7. /\ wanted \in Seq(D) /\ ToSet(wanted) = ToSet(u) \cap fits
      /\ IsInjective(u) => IsInjective(wanted)
  <2>1. /\ Those(u, fits) \in Seq(D) /\ ToSet(Those(u, fits)) = ToSet(u) \cap fits
        /\ IsInjective(u) => IsInjective(Those(u, fits))
    BY <1>6, ThoseElements
  <2>2. wanted = Those(u, fits)
    BY <1>5
  <2> QED
    BY <2>1, <2>2
<1> HIDE DEF wanted
<1>8. /\ ToSet(comps) = UNION {ToSet(GeneratedFrom(d)) : d \in ToSet(wanted)}
      /\ IsInjective(wanted) => Cardinality(ToSet(comps)) = Len(comps)
  <2>1. /\ \A d \in D : DocumentOK(d)
        /\ \A d, x \in D : d.name = x.name => d = x
    BY <1>2
  <2>2. PICK c : c = comps
    OBVIOUS
  <2>3. /\ ToSet(c) = UNION {ToSet(GeneratedFrom(d)) : d \in ToSet(wanted)}
        /\ IsInjective(wanted) => Cardinality(ToSet(c)) = Len(c)
    BY <1>7, <2>1, <2>2, ComponentsOf
  <2> QED
    BY <2>2, <2>3
<1> HIDE DEF comps
<1> DEFINE asks == {d \in Promised(o) : filter \in {"", d.group}}
           kinds == UNION {ToSet(GeneratedFrom(d)) : d \in asks}
<1>9. ToSet(comps) \subseteq kinds
  <2>1. ToSet(wanted) \subseteq asks
    <3>1. ToSet(u) \subseteq D
      BY <1>6 DEF ToSet
    <3> QED
      BY <1>2, <1>7, <3>1 DEF fits
  <2> QED
    BY <1>8, <2>1
<1>10. ASSUME ~(n < Len(stream))
       PROVE  ToSet(comps) = kinds /\ Cardinality(kinds) = Len(comps)
  <2>1. u = stream
    <3>1. n = Len(stream)
      BY <1>3, <1>4, <1>10
    <3> QED
      BY <1>3, <1>5, <3>1
  <2>2. ToSet(wanted) = D \cap asks
    BY <1>2, <1>3, <1>7, <1>10, <2>1 DEF fits
  <2>3. \A d \in asks \ D : ToSet(GeneratedFrom(d)) = {}
    BY <1>2, FromDocument
  <2>4. kinds \subseteq ToSet(comps)
    <3>1. SUFFICES ASSUME NEW d \in asks, NEW c \in ToSet(GeneratedFrom(d))
                   PROVE  c \in ToSet(comps)
      OBVIOUS
    <3>2. d \in ToSet(wanted)
      BY <2>2, <2>3, <3>1
    <3> QED
      BY <1>8, <3>2
  <2>5. IsInjective(wanted)
    BY <1>3, <1>7, <1>10, <2>1
  <2> QED
    BY <1>8, <1>9, <2>4, <2>5
<1>11. \A d : GeneratedFrom(d)' = GeneratedFrom(d)
  BY DEF GeneratedFrom
<1> QED
  BY <1>1, <1>9, <1>10 DEF AllGenerated

LEMMA Asks ==
    ASSUME ClonePhases, NEW o \in Origins, GetPackage(o)
    PROVE  /\ asked' = <<Origin'>> /\ Origin' = o /\ generated' = <<>> /\ position' = 1
           /\ ~overlapped' /\ UNCHANGED writing /\ writing = {} /\ NoneLeft(pending)
           /\ \/ phase' \in {"failed", "package"} /\ UNCHANGED <<pending, clone>>
              \/ /\ phase' = "walk" /\ clone' /\ pending' = [w \in {0} |-> <<>>] /\ stream' = <<>>
           /\ Plain(o) => phase' # "package"
<1>1. phase # "walk" /\ NoneLeft(pending) /\ writing = {}
  BY DEF ClonePhases, GetPackage, NoneLeft
<1>2. PICK s : s = <<o>>
  OBVIOUS
<1>3. asked' = s /\ s[1] = o
  BY <1>2 DEF GetPackage
<1>4. Origin' = o /\ asked' = <<Origin'>>
  BY <1>2, <1>3 DEF Origin
<1>5. /\ \/ phase' \in {"failed", "package"} /\ UNCHANGED <<pending, clone>>
         \/ /\ phase' = "walk" /\ clone' /\ pending' = [w \in {0} |-> <<>>] /\ stream' = <<>>
      /\ Plain(o) => phase' # "package"
  <2>1. CASE o.registrant = "artifacthub"
    BY <2>1 DEF GetPackage, FetchFromHub, Fails, Packaged, Plain
  <2>2. CASE o.registrant = "github" /\ o.scheme \in {"http", "https"}
    <3>1. FetchFromURL(o)
      BY <2>2 DEF GetPackage
    <3> QED
      BY <2>2, <3>1 DEF FetchFromURL, Fails, Packaged, Plain
  <2>3. CASE o.registrant = "github" /\ o.scheme = "git"
    <3>1. CloneRepo(o)
      BY <2>3 DEF GetPackage
    <3> QED
      BY <3>1 DEF CloneRepo, Fails
  <2>4. CASE o.registrant # "artifacthub" /\ ~(o.registrant = "github" /\ o.scheme \in {"http", "https", "git"})
    <3>1. Fails
      BY <2>4 DEF GetPackage
    <3> QED
      BY <3>1 DEF Fails
  <2> QED
    BY <2>1, <2>2, <2>3, <2>4
<1> QED
  BY <1>1, <1>4, <1>5 DEF GetPackage

LEMMA NothingYet ==
    <<>> \in Seq({}) /\ IsInjective(<<>>) /\ ToSet(<<>>) = {}
<1>1. PICK u : u = <<>>
  OBVIOUS
<1>2. u \in Seq({}) /\ DOMAIN u = {}
  BY <1>1
<1> QED
  BY <1>1, <1>2 DEF IsInjective, ToSet

\* A walk begins.
LEMMA WalkBegins ==
    ASSUME NEW o \in Origins, NEW handed, handed = [w \in {0} |-> <<>>], NEW lost
    PROVE  WritesSo(o, 1, handed, <<>>, lost)
<1>1. PICK u : u = <<>>
  OBVIOUS
<1>2. u \in Seq({}) /\ IsInjective(u) /\ ToSet(u) = {}
  BY <1>1, NothingYet
<1>3. Upto(o, 1) = {} /\ Len(o.entries) \in Nat
  BY AllOfThem, OriginDocs
<1>4. DOMAIN handed = {0} /\ handed[0] = u
  BY <1>1
<1>5. u \in Seq(Upto(o, 1))
  BY <1>2, <1>3
<1> QED
  BY <1>1, <1>2, <1>3, <1>4, <1>5 DEF WritesSo

\* An entry is handed to a writer that has nothing to write.
LEMMA EntryHanded ==
    ASSUME NEW o \in Origins, Plain(o), NEW n \in DOMAIN o.entries, NEW handed, NEW held, NEW lost,
           WritesSo(o, n, handed, held, lost),
           NEW w \in {0, n}, w \in DOMAIN handed => handed[w] = <<>>,
           NEW after, after = [x \in DOMAIN handed \cup {w} |->
                               IF x = w THEN Written(o.entries[n]) ELSE handed[x]]
    PROVE  WritesSo(o, n + 1, after, held, lost)
<1> DEFINE A == Upto(o, n)
           B == Upto(o, n + 1)
           docs == Written(o.entries[n])
<1>1. n \in Nat \ {0} /\ n + 1 \in 1 .. Len(o.entries) + 1 /\ B = A \cup ToSet(docs) /\ A \cap ToSet(docs) = {}
  BY OneMore, OriginDocs
<1>2. IsInjective(docs) /\ docs \in Seq(ToSet(docs))
  BY WholeOK
<1>3. DOMAIN after = DOMAIN handed \cup {w} /\ after[w] = docs /\ \A x \in DOMAIN handed : x # w => after[x] = handed[x]
  OBVIOUS
<1>4. /\ DOMAIN handed \subseteq 0 .. n - 1
      /\ \A x \in DOMAIN handed : /\ handed[x] \in Seq(A) /\ IsInjective(handed[x])
                                  /\ \A v \in DOMAIN handed :
                                       v # x => ToSet(handed[v]) \cap ToSet(handed[x]) = {}
      /\ ~lost =>
           /\ held \in Seq(A) /\ IsInjective(held)
           /\ \A x \in DOMAIN handed : ToSet(held) \cap ToSet(handed[x]) = {}
           /\ A \subseteq ToSet(held) \cup UNION {ToSet(handed[x]) : x \in DOMAIN handed}
  BY DEF WritesSo
<1> HIDE DEF A, B, docs
<1>5. docs \in Seq(B)
  BY <1>1, <1>2, <1>4, WiderSeq
<1>6. \A x \in DOMAIN handed : handed[x] \in Seq(B) /\ ToSet(handed[x]) \subseteq A
  BY <1>1, <1>4, WiderSeq DEF ToSet
<1>7. ~lost => held \in Seq(B) /\ ToSet(held) \subseteq A
  BY <1>1, <1>4, WiderSeq DEF ToSet
<1>8. DOMAIN after \subseteq 0 .. (n + 1) - 1
  BY <1>1, <1>3, <1>4
<1>9. \A x \in DOMAIN after : /\ after[x] \in Seq(B) /\ IsInjective(after[x])
                             /\ \A v \in DOMAIN after :
                                  v # x => ToSet(after[v]) \cap ToSet(after[x]) = {}
  BY <1>1, <1>2, <1>3, <1>4, <1>5, <1>6
<1>10. ASSUME ~lost
       PROVE  /\ \A x \in DOMAIN after : ToSet(held) \cap ToSet(after[x]) = {}
              /\ B \subseteq ToSet(held) \cup UNION {ToSet(after[x]) : x \in DOMAIN after}
  <2>1. \A x \in DOMAIN after : ToSet(held) \cap ToSet(after[x]) = {}
    BY <1>1, <1>3, <1>4, <1>7, <1>10
  <2>2. ASSUME NEW d \in A, d \notin ToSet(held)
        PROVE  \E x \in DOMAIN after : d \in ToSet(after[x])
    <3>1. PICK x \in DOMAIN handed : d \in ToSet(handed[x])
      BY <1>4, <1>10, <2>2
    <3>2. x # w
      BY <3>1, NothingYet
    <3> QED
      BY <1>3, <3>1, <3>2
  <2>3. \A d \in ToSet(docs) : \E x \in DOMAIN after : d \in ToSet(after[x])
    BY <1>3
  <2>4. \A d : (\E x \in DOMAIN after : d \in ToSet(after[x]))
                  => d \in UNION {ToSet(after[x]) : x \in DOMAIN after}
    OBVIOUS
  <2>5. \A d \in B : d \in A \/ d \in ToSet(docs)
    BY <1>1
  <2>6. \A d \in B : d \in ToSet(held) \/ d \in UNION {ToSet(after[x]) : x \in DOMAIN after}
    BY <2>2, <2>3, <2>4, <2>5
  <2> QED
    BY <2>1, <2>6
<1>11. WritesSo(o, n + 1, after, held, lost)
  BY <1>1, <1>4, <1>5, <1>7, <1>8, <1>9, <1>10 DEF WritesSo, B
<1> QED
  BY <1>11

\* A writer writes the first document it has.
LEMMA DocumentWritten ==
    ASSUME NEW o, NEW n, NEW handed, NEW held, NEW lost,
           WritesSo(o, n, handed, held, lost),
           NEW w \in DOMAIN handed, handed[w] # <<>>,
           NEW after, after = [handed EXCEPT ![w] = Tail(handed[w])],
           NEW then, ~lost => then = Append(held, handed[w][1])
    PROVE  WritesSo(o, n, after, then, lost)
<1> DEFINE A == Upto(o, n)
<1>1. PICK s : s = handed[w]
  OBVIOUS
<1>2. /\ n \in 1 .. Len(o.entries) + 1 /\ DOMAIN handed \subseteq 0 .. n - 1
      /\ \A x \in DOMAIN handed : /\ handed[x] \in Seq(A) /\ IsInjective(handed[x])
                                  /\ \A v \in DOMAIN handed :
                                       v # x => ToSet(handed[v]) \cap ToSet(handed[x]) = {}
      /\ ~lost =>
           /\ held \in Seq(A) /\ IsInjective(held)
           /\ \A x \in DOMAIN handed : ToSet(held) \cap ToSet(handed[x]) = {}
           /\ A \subseteq ToSet(held) \cup UNION {ToSet(handed[x]) : x \in DOMAIN handed}
  BY DEF WritesSo
<1> HIDE DEF A
<1>3. s \in Seq(A) /\ s # <<>> /\ IsInjective(s)
  BY <1>1, <1>2
<1>4. /\ s[1] \in A /\ Tail(s) \in Seq(A)
      /\ ToSet(s) = {s[1]} \cup ToSet(Tail(s)) /\ s[1] \in ToSet(s)
  BY <1>3, HeadTail
<1>5. IsInjective(Tail(s)) /\ s[1] \notin ToSet(Tail(s))
  <2>1. /\ Len(s) \in Nat \ {0} /\ DOMAIN s = 1 .. Len(s)
        /\ DOMAIN Tail(s) = 1 .. Len(s) - 1
        /\ \A i \in 1 .. Len(s) - 1 : Tail(s)[i] = s[i + 1]
    BY <1>3
  <2>2. \A i \in DOMAIN Tail(s) : Tail(s)[i] = s[i + 1] /\ i + 1 \in DOMAIN s /\ 1 \in DOMAIN s /\ 1 # i + 1
    BY <2>1
  <2>3. s[1] \notin ToSet(Tail(s))
    BY <1>3, <2>2 DEF IsInjective, ToSet
  <2>4. ASSUME NEW i \in DOMAIN Tail(s), NEW j \in DOMAIN Tail(s), Tail(s)[i] = Tail(s)[j]
        PROVE  i = j
    <3>1. i + 1 = j + 1
      BY <1>3, <2>2, <2>4 DEF IsInjective
    <3> QED
      BY <2>1, <3>1
  <2> QED
    BY <2>3, <2>4 DEF IsInjective
<1>6. DOMAIN after = DOMAIN handed /\ after[w] = Tail(s) /\ \A x \in DOMAIN handed : x # w => after[x] = handed[x]
  BY <1>1
<1>8. \A x \in DOMAIN after : /\ after[x] \in Seq(A) /\ IsInjective(after[x])
                             /\ \A v \in DOMAIN after :
                                  v # x => ToSet(after[v]) \cap ToSet(after[x]) = {}
  <2>1. \A x \in DOMAIN after : ToSet(after[x]) \subseteq ToSet(handed[x])
    BY <1>1, <1>4, <1>6
  <2>2. \A x, v \in DOMAIN after : v # x => ToSet(after[v]) \cap ToSet(after[x]) = {}
    BY <1>2, <1>6, <2>1
  <2>3. \A x \in DOMAIN after : after[x] \in Seq(A) /\ IsInjective(after[x])
    BY <1>2, <1>4, <1>5, <1>6
  <2> QED
    BY <2>2, <2>3
<1>9. ASSUME ~lost
      PROVE  /\ then \in Seq(A) /\ IsInjective(then)
             /\ \A x \in DOMAIN after : ToSet(then) \cap ToSet(after[x]) = {}
             /\ A \subseteq ToSet(then) \cup UNION {ToSet(after[x]) : x \in DOMAIN after}
  <2>1. PICK x : x = s[1]
    OBVIOUS
  <2>2. x \in A /\ x \notin ToSet(held) /\ then = Append(held, x) /\ held \in Seq(A) /\ IsInjective(held)
    BY <1>1, <1>2, <1>4, <1>9, <2>1
  <2>3. then \in Seq(A) /\ IsInjective(then) /\ ToSet(then) = ToSet(held) \cup {x}
    BY <2>2, AppendElements
  <2>4. ASSUME NEW y \in DOMAIN after, NEW d \in ToSet(then), d \in ToSet(after[y])
        PROVE  FALSE
    <3>1. CASE y = w
      BY <1>1, <1>2, <1>4, <1>5, <1>6, <1>9, <2>1, <2>3, <2>4, <3>1
    <3>2. CASE y # w
      BY <1>1, <1>2, <1>4, <1>6, <1>9, <2>1, <2>3, <2>4, <3>2
    <3> QED
      BY <3>1, <3>2
  <2>5. ASSUME NEW d \in A, d \notin ToSet(then)
        PROVE  \E y \in DOMAIN after : d \in ToSet(after[y])
    <3>1. PICK y \in DOMAIN handed : d \in ToSet(handed[y])
      BY <1>2, <1>9, <2>3, <2>5
    <3> QED
      BY <1>1, <1>4, <1>6, <2>1, <2>3, <2>5, <3>1
  <2>6. \A y \in DOMAIN after : ToSet(then) \cap ToSet(after[y]) = {}
    BY <2>4
  <2>7. \A d : (\E y \in DOMAIN after : d \in ToSet(after[y]))
                  => d \in UNION {ToSet(after[y]) : y \in DOMAIN after}
    OBVIOUS
  <2>8. \A d \in A : d \in ToSet(then) \/ d \in UNION {ToSet(after[y]) : y \in DOMAIN after}
    BY <2>5, <2>7
  <2> QED
    BY <2>3, <2>6, <2>8
<1>10. WritesSo(o, n, after, then, lost)
  BY <1>2, <1>6, <1>8, <1>9 DEF WritesSo, A
<1> QED
  BY <1>10

\* When all is written, the file is whole.
LEMMA AllWritten ==
    ASSUME NEW o \in Origins, NEW n, n = Len(o.entries) + 1, NEW handed, NEW held, NEW lost,
           WritesSo(o, n, handed, held, lost), NoneLeft(handed)
    PROVE  StreamedSo(o, held, lost)
<1>1. Upto(o, Len(o.entries) + 1) = WholeOf(o)
  BY AllOfThem
<1>2. \A w \in DOMAIN handed : ToSet(handed[w]) = {}
  BY NothingYet DEF NoneLeft
<1>3. ~lost =>
           /\ held \in Seq(WholeOf(o)) /\ IsInjective(held)
           /\ WholeOf(o) \subseteq ToSet(held) \cup UNION {ToSet(handed[w]) : w \in DOMAIN handed}
  BY <1>1 DEF WritesSo
<1>4. held \in Seq(WholeOf(o)) => ToSet(held) \subseteq WholeOf(o)
  BY DEF ToSet
<1> QED
  BY <1>2, <1>3, <1>4 DEF StreamedSo

LEMMA PhasesStep ==
    ASSUME ClonePhases, SourcesNext \/ UNCHANGED sourceVars
    PROVE  ClonePhases'
<1>1. ASSUME NEW o \in Origins, GetPackage(o)
      PROVE  ClonePhases'
  <2>1. /\ asked' = <<Origin'>> /\ Origin' = o /\ generated' = <<>> /\ position' = 1
        /\ writing' = {} /\ NoneLeft(pending)
        /\ \/ phase' \in {"failed", "package"} /\ UNCHANGED pending
           \/ phase' = "walk" /\ clone' /\ pending' = [w \in {0} |-> <<>>]
    BY <1>1, Asks DEF ClonePhases
  <2>2. NoneLeft(pending')
    BY <2>1 DEF NoneLeft
  <2>3. phase' = "walk" => DOMAIN pending' = {0}
    BY <2>1
  <2> QED
    BY <2>1, <2>2, <2>3 DEF ClonePhases
<1>2. ASSUME Walking, Origin.root # "dir" \/ Origin.recurse
      PROVE  writing = {} /\ NoneLeft(pending) /\ DOMAIN pending = {0}
  BY <1>2 DEF ClonePhases, Walking, NoneLeft
<1>3. CASE WalkFile \/ WalkRecursively
  <2>1. /\ writing = {} /\ NoneLeft(pending) /\ DOMAIN pending = {0}
        /\ phase = "walk" /\ Origin \in Origins
    BY <1>2, <1>3 DEF WalkFile, WalkRecursively, Walking, ClonePhases
  <2>2. /\ UNCHANGED <<asked, generated, writing, overlapped, clone>>
        /\ \/ phase' = "abort" /\ UNCHANGED pending
           \/ phase' = "walk" /\ DOMAIN pending' = {0} /\ position' = Len(Origin.entries) + 1
    BY <1>3, <2>1 DEF WalkFile, WalkRecursively, WalkUnchanged
  <2>3. Origin' = Origin
    BY <2>2 DEF Origin
  <2>4. writing' = {} /\ 0 \in DOMAIN pending' /\ DOMAIN pending' = {0}
    BY <2>1, <2>2
  <2>5. Len(Origin.entries) \in Nat
    BY <2>1, OriginDocs
  <2> QED
    BY <2>1, <2>2, <2>3, <2>4, <2>5 DEF ClonePhases
<1>4. CASE WalkEntry
  <2>1. PICK w, docs : pending' = [x \in DOMAIN pending \cup {w} |-> IF x = w THEN docs ELSE pending[x]]
                       /\ w \in {0, position}
    BY <1>4 DEF WalkEntry
  <2>2. /\ UNCHANGED <<asked, generated, writing, overlapped, clone, phase>>
        /\ phase = "walk" /\ Origin.root = "dir" /\ ~Origin.recurse /\ 0 \notin writing
        /\ position' = position + 1
    BY <1>4 DEF WalkEntry, WalkUnchanged, Walking
  <2>3. Origin' = Origin
    BY <2>2 DEF Origin
  <2>4. position \in Nat \ {0} /\ DOMAIN pending \subseteq 0 .. position - 1
        /\ writing \subseteq {x \in DOMAIN pending : pending[x] # <<>>}
    BY <2>2 DEF ClonePhases
  <2>5. w \notin writing
    BY <2>1, <2>2, <2>4
  <2>6. DOMAIN pending' = DOMAIN pending \cup {w} /\ \A x \in DOMAIN pending : x # w => pending'[x] = pending[x]
    BY <2>1
  <2>7. DOMAIN pending' \subseteq 0 .. position' - 1
    BY <2>1, <2>2, <2>4, <2>6
  <2>8. writing' \subseteq {x \in DOMAIN pending' : pending'[x] # <<>>}
    BY <2>2, <2>4, <2>5, <2>6
  <2> QED
    BY <2>2, <2>3, <2>4, <2>6, <2>7, <2>8 DEF ClonePhases
<1>5. CASE EndWalk \/ AbortWalk
  <2>1. /\ UNCHANGED <<asked, generated, writing, overlapped, pending>>
        /\ phase' \in {"package", "failed", "panicked"} /\ phase \in {"walk", "abort"}
    BY <1>5 DEF EndWalk, AbortWalk, WalkUnchanged
  <2>2. NoneLeft(pending)
    BY <1>5 DEF EndWalk, AbortWalk, ClonePhases, NoneLeft
  <2>3. Origin' = Origin
    BY <2>1 DEF Origin
  <2>4. NoneLeft(pending')
    BY <2>1, <2>2
  <2> QED
    BY <2>1, <2>3, <2>4 DEF ClonePhases
<1>6. ASSUME NEW w \in DOMAIN pending, BeginWrite(w)
      PROVE  ClonePhases'
  <2>1. Origin' = Origin
    BY <1>6 DEF Origin, BeginWrite
  <2>2. /\ writing' = writing \cup {w}
        /\ overlapped' = (overlapped \/ writing # {})
    BY <1>6 DEF BeginWrite
  <2>3. ~overlapped' => \A x, y \in writing' : x = y
    BY <2>2
  <2>4. writing' \subseteq {x \in DOMAIN pending : pending[x] # <<>>}
    BY <1>6, <2>2 DEF ClonePhases, BeginWrite
  <2>5. UNCHANGED <<asked, phase, position, pending, clone, generated>>
    BY <1>6 DEF BeginWrite
  <2>6. phase = "walk"
    BY <1>6 DEF BeginWrite
  <2> QED
    BY <2>1, <2>3, <2>4, <2>5, <2>6 DEF ClonePhases
<1>7. ASSUME NEW w \in DOMAIN pending, EndWrite(w)
      PROVE  ClonePhases'
  <2>1. Origin' = Origin
    BY <1>7 DEF Origin, EndWrite
  <2>2. /\ w \in writing /\ writing' = writing \ {w}
        /\ pending' = [pending EXCEPT ![w] = Tail(pending[w])]
        /\ UNCHANGED <<asked, phase, position, clone, generated, overlapped>>
    BY <1>7 DEF EndWrite
  <2>3. DOMAIN pending' = DOMAIN pending /\ \A x \in DOMAIN pending : x # w => pending'[x] = pending[x]
    BY <2>2
  <2>4. writing' \subseteq {x \in DOMAIN pending' : pending'[x] # <<>>}
    BY <2>2, <2>3 DEF ClonePhases
  <2>5. phase = "walk"
    BY <2>2 DEF ClonePhases, NoneLeft
  <2>6. ~overlapped => \A x, y \in writing' : x = y
    BY <2>2 DEF ClonePhases
  <2> QED
    BY <2>1, <2>2, <2>3, <2>4, <2>5, <2>6 DEF ClonePhases
<1>w. ASSUME NEW w \in DOMAIN pending, PanicInWrite(w)
      PROVE  ClonePhases'
  <2>1. Origin' = Origin
    BY <1>w DEF Origin, PanicInWrite
  <2>2. /\ writing' = {} /\ phase' = "panicked" /\ UNCHANGED <<asked, generated>>
        /\ pending' = NoDocs /\ w \in writing
    BY <1>w DEF PanicInWrite
  <2>3. phase = "walk" /\ generated = <<>>
    BY <2>2 DEF ClonePhases, NoneLeft
  <2>4. NoneLeft(pending')
    BY <2>2 DEF NoneLeft, NoDocs
  <2> QED
    BY <2>1, <2>2, <2>3, <2>4 DEF ClonePhases
<1>8. ASSUME NEW filter, GenerateComponents(filter)
      PROVE  ClonePhases'
  <2>1. Origin' = Origin
    BY <1>8 DEF Origin, GenerateComponents
  <2>2. phase = "package" /\ UNCHANGED <<asked, phase, position, pending, writing, clone, overlapped>>
    BY <1>8 DEF GenerateComponents
  <2> QED
    BY <2>1, <2>2 DEF ClonePhases
<1>9. CASE UNCHANGED sourceVars
  <2>1. Origin' = Origin
    BY <1>9 DEF Origin, sourceVars
  <2> QED
    BY <1>9, <2>1 DEF ClonePhases, sourceVars, NoneLeft
<1> QED
  BY <1>1, <1>3, <1>4, <1>5, <1>6, <1>7, <1>w, <1>8, <1>9 DEF SourcesNext

\* A clone is there only while it is walked.
LEMMA SourceTypesStep ==
    ASSUME SourcesTypeOK, ClonePhases, SourcesNext \/ UNCHANGED sourceVars
    PROVE  SourcesTypeOK'
<1>1. ClonePhases'
  BY PhasesStep
<1>2. asked' = <<>> \/ Origin' \in Origins
  <2>1. CASE phase' = "idle"
    <3>1. UNCHANGED asked
      BY <2>1, Asks DEF SourcesNext, WalkFile, WalkRecursively, WalkEntry, EndWalk, AbortWalk,
                        BeginWrite, EndWrite, PanicInWrite, GenerateComponents, WalkUnchanged,
                        sourceVars
    <3>2. Origin' = Origin
      BY <3>1 DEF Origin
    <3> QED
      BY <3>1, <3>2 DEF SourcesTypeOK
  <2>2. CASE phase' # "idle"
    BY <1>1, <2>2 DEF ClonePhases
  <2> QED
    BY <2>1, <2>2
<1>3. /\ clone' => phase' \in {"walk", "abort", "panicked"}
      /\ packages' \in 0 .. MaxPackages
  <2>1. ASSUME NEW o \in Origins, GetPackage(o)
        PROVE  /\ clone' => phase' \in {"walk", "abort", "panicked"}
               /\ packages' \in 0 .. MaxPackages
    <3>1. \/ phase' \in {"failed", "package"} /\ UNCHANGED clone
          \/ phase' = "walk"
      BY <2>1, Asks
    <3>2. phase \in {"idle", "failed", "package"} /\ packages < MaxPackages /\ packages' = packages + 1
      BY <2>1 DEF GetPackage, ClonePhases
    <3> QED
      BY <3>1, <3>2, SourcesAssumption DEF SourcesTypeOK
  <2>2. CASE WalkFile \/ WalkRecursively \/ WalkEntry
    <3>1. phase' \in {phase, "abort"} /\ UNCHANGED <<clone, packages>>
      BY <2>2 DEF WalkFile, WalkRecursively, WalkEntry, WalkUnchanged
    <3> QED
      BY <3>1 DEF SourcesTypeOK
  <2>3. CASE EndWalk \/ AbortWalk
    <3>1. ~clone' /\ UNCHANGED packages
      BY <2>3 DEF EndWalk, AbortWalk, WalkUnchanged
    <3> QED
      BY <3>1 DEF SourcesTypeOK
  <2>4. CASE (\E w \in DOMAIN pending : BeginWrite(w) \/ EndWrite(w))
             \/ (\E filter \in Groups : GenerateComponents(filter)) \/ UNCHANGED sourceVars
    <3>1. UNCHANGED <<phase, clone, packages>>
      BY <2>4 DEF BeginWrite, EndWrite, GenerateComponents, sourceVars
    <3> QED
      BY <3>1 DEF SourcesTypeOK
  <2>5. ASSUME NEW w \in DOMAIN pending, PanicInWrite(w)
        PROVE  phase' = "panicked" /\ UNCHANGED packages
    BY <2>5 DEF PanicInWrite
  <2> QED
    BY <2>1, <2>2, <2>3, <2>4, <2>5 DEF SourcesNext, SourcesTypeOK
<1>4. /\ phase' \in {"idle", "walk", "abort", "package", "failed", "panicked"}
      /\ writing' \subseteq DOMAIN pending'
  BY <1>1 DEF ClonePhases
<1> QED
  BY <1>2, <1>3, <1>4 DEF SourcesTypeOK

LEMMA SourceTypesInit ==
    ASSUME SourcesInit
    PROVE  SourcesTypeOK
<1>1. asked = <<>> /\ phase = "idle" /\ writing = {} /\ ~clone /\ packages = 0
  BY DEF SourcesInit
<1> QED
  BY <1>1, SourcesAssumption DEF SourcesTypeOK

\* The walk of a plain directory, and its end.
LEMMA WalkStep ==
    ASSUME SourcesInv, NEW o \in Origins, Plain(o), asked' = <<o>>, Origin' = o,
           SourcesNext \/ UNCHANGED sourceVars
    PROVE  /\ phase' = "walk" => WritesSo(o, position', pending', stream', overlapped')
           /\ phase' = "package" => StreamedSo(o, stream', overlapped')
<1> DEFINE Goal == /\ phase' = "walk" => WritesSo(o, position', pending', stream', overlapped')
                   /\ phase' = "package" => StreamedSo(o, stream', overlapped')
<1>1. ASSUME NEW q \in Origins, GetPackage(q)
      PROVE  Goal
  <2>1. /\ Origin' = q /\ position' = 1
        /\ \/ phase' \in {"failed", "package"}
           \/ phase' = "walk" /\ pending' = [w \in {0} |-> <<>>] /\ stream' = <<>>
        /\ Plain(q) => phase' # "package"
    BY <1>1, Asks DEF SourcesInv
  <2>2. phase' # "package"
    BY <2>1
  <2>3. phase' = "walk" => WritesSo(o, 1, pending', <<>>, overlapped')
    BY <2>1, WalkBegins
  <2> QED
    BY <2>1, <2>2, <2>3
<1>2. ASSUME asked' = asked, phase = "walk"
      PROVE  o = Origin /\ WritesSo(o, position, pending, stream, overlapped)
  <2>1. o = Origin
    BY <1>2 DEF Origin
  <2> QED
    BY <1>2, <2>1 DEF SourcesInv, Writes
<1>3. ASSUME asked' = asked, phase = "package"
      PROVE  o = Origin /\ StreamedSo(o, stream, overlapped)
  <2>1. o = Origin
    BY <1>3 DEF Origin
  <2> QED
    BY <1>3, <2>1 DEF SourcesInv, Streamed
<1>4. CASE WalkFile \/ WalkRecursively
  <2>1. asked' = asked /\ phase = "walk"
    BY <1>4 DEF WalkFile, WalkRecursively, WalkUnchanged, Walking
  <2> QED
    BY <1>2, <1>4, <2>1 DEF WalkFile, WalkRecursively, Plain
<1>5. CASE WalkEntry
  <2>1. asked' = asked /\ phase = "walk" /\ phase' = "walk" /\ position' = position + 1
        /\ UNCHANGED <<stream, overlapped>>
    BY <1>5 DEF WalkEntry, WalkUnchanged, Walking
  <2>2. o = Origin /\ WritesSo(o, position, pending, stream, overlapped)
    BY <1>2, <2>1
  <2>3. position \in DOMAIN o.entries /\ DOMAIN pending \subseteq 0 .. position - 1
    BY <1>5, <2>2, OriginDocs DEF WalkEntry, WritesSo
  <2>4. PICK e : e = o.entries[position]
    OBVIOUS
  <2>5. PICK w : w = IF e.kind = "dir" THEN position ELSE 0
    OBVIOUS
  <2>6. w \in {0, position} /\ (w \in DOMAIN pending => pending[w] = <<>>)
    <3>1. position \notin DOMAIN pending
      BY <2>3, OriginDocs
    <3>2. pending[0] = <<>>
      BY <1>5 DEF WalkEntry, Walking
    <3> QED
      BY <2>5, <3>1, <3>2
  <2>7. pending' = [x \in DOMAIN pending \cup {w} |-> IF x = w THEN Written(e) ELSE pending[x]]
    <3>1. Processed(e, Origin.chart, AllCrds(Origin.entries)) = Processed(e, "none", <<>>)
      BY <2>2, ProcessedPlain DEF Plain
    <3> DEFINE c == Processed(e, "none", <<>>)
    <3>2. pending' = [x \in DOMAIN pending \cup {w} |->
                        IF x = w THEN IF e.kind # "dir" /\ e.large THEN <<>> ELSE c.docs
                        ELSE pending[x]]
      BY <1>5, <2>2, <2>4, <2>5, <3>1 DEF WalkEntry
    <3> QED
      BY <3>2 DEF Written
  <2>8. WritesSo(o, position + 1, pending', stream, overlapped)
    <3>1. PICK n : n = position
      OBVIOUS
    <3>2. PICK handed : handed = pending
      OBVIOUS
    <3>3. PICK after : after = pending'
      OBVIOUS
    <3>4. /\ n \in DOMAIN o.entries /\ WritesSo(o, n, handed, stream, overlapped)
          /\ w \in {0, n} /\ (w \in DOMAIN handed => handed[w] = <<>>)
          /\ after = [x \in DOMAIN handed \cup {w} |->
                       IF x = w THEN Written(o.entries[n]) ELSE handed[x]]
      BY <2>2, <2>3, <2>4, <2>6, <2>7, <3>1, <3>2, <3>3
    <3>5. WritesSo(o, n + 1, after, stream, overlapped)
      BY <3>4, EntryHanded
    <3> QED
      BY <3>1, <3>3, <3>5
  <2> QED
    BY <2>1, <2>8
<1>6. CASE EndWalk
  <2>1. /\ asked' = asked /\ phase = "walk" /\ phase' # "walk" /\ NoneLeft(pending)
        /\ position > Len(Origin.entries) /\ UNCHANGED <<stream, overlapped>>
    BY <1>6 DEF EndWalk, WalkUnchanged, NoneLeft
  <2>2. o = Origin /\ WritesSo(o, position, pending, stream, overlapped)
    BY <1>2, <2>1
  <2>3. position = Len(o.entries) + 1
    BY <2>1, <2>2, OriginDocs DEF WritesSo
  <2>4. PICK n : n = position
    OBVIOUS
  <2>5. StreamedSo(o, stream, overlapped)
    <3>1. PICK handed : handed = pending
      OBVIOUS
    <3>2. PICK held : held = stream
      OBVIOUS
    <3>3. PICK lost : lost = overlapped
      OBVIOUS
    <3>4. WritesSo(o, n, handed, held, lost) /\ NoneLeft(handed) /\ n = Len(o.entries) + 1
      BY <2>1, <2>2, <2>3, <2>4, <3>1, <3>2, <3>3
    <3>5. StreamedSo(o, held, lost)
      BY <3>4, AllWritten
    <3> QED
      BY <3>2, <3>3, <3>5
  <2> QED
    BY <2>1, <2>5
<1>7. CASE AbortWalk
  BY <1>7 DEF AbortWalk
<1>8. ASSUME NEW w \in DOMAIN pending, BeginWrite(w)
      PROVE  Goal
  <2>1. /\ asked' = asked /\ phase = "walk" /\ phase' = "walk"
        /\ UNCHANGED <<position, pending, stream>> /\ (overlapped => overlapped')
    BY <1>8 DEF BeginWrite
  <2>2. WritesSo(o, position, pending, stream, overlapped)
    BY <1>2, <2>1
  <2>3. WritesSo(o, position, pending, stream, overlapped')
    BY <2>1, <2>2 DEF WritesSo
  <2> QED
    BY <2>1, <2>3
<1>9. ASSUME NEW w \in DOMAIN pending, EndWrite(w)
      PROVE  Goal
  <2>1. /\ asked' = asked /\ phase' = phase /\ w \in writing /\ position' = position
        /\ pending' = [pending EXCEPT ![w] = Tail(pending[w])] /\ overlapped' = overlapped
        /\ ~overlapped => stream' = Append(stream, pending[w][1])
    BY <1>9 DEF EndWrite
  <2>2. phase = "walk" /\ pending[w] # <<>>
    BY <2>1 DEF SourcesInv, ClonePhases, NoneLeft
  <2>3. WritesSo(o, position, pending, stream, overlapped)
    BY <1>2, <2>1, <2>2
  <2>5. WritesSo(o, position, pending', stream', overlapped)
    BY <2>1, <2>2, <2>3, DocumentWritten
  <2> QED
    BY <2>1, <2>2, <2>5
<1>w. ASSUME NEW w \in DOMAIN pending, PanicInWrite(w)
      PROVE  Goal
  BY <1>w DEF PanicInWrite
<1>10. ASSUME NEW filter, GenerateComponents(filter)
       PROVE  Goal
  <2>1. /\ asked' = asked /\ phase = "package" /\ phase' = "package"
        /\ UNCHANGED <<stream, overlapped>>
    BY <1>10 DEF GenerateComponents
  <2> QED
    BY <1>3, <2>1
<1>11. CASE UNCHANGED sourceVars
  <2>1. UNCHANGED <<asked, phase, position, pending, stream, overlapped>>
    BY <1>11 DEF sourceVars
  <2>2. CASE phase = "walk"
    BY <1>2, <2>1, <2>2
  <2>3. CASE phase # "walk"
    BY <1>3, <2>1, <2>3
  <2> QED
    BY <2>2, <2>3
<1> QED
  BY <1>1, <1>4, <1>5, <1>6, <1>7, <1>8, <1>9, <1>w, <1>10, <1>11 DEF SourcesNext

LEMMA SourcesStepInv ==
    ASSUME SourcesInv, SourcesNext \/ UNCHANGED sourceVars
    PROVE  SourcesInv'
<1>1. ClonePhases'
  BY PhasesStep DEF SourcesInv
<1>2. ASSUME phase' \in {"walk", "package"}, Plain(Origin)'
      PROVE  /\ phase' = "walk" => Writes(Origin, position)'
             /\ phase' = "package" => Streamed(Origin)'
  <2>1. PICK o : o = Origin'
    OBVIOUS
  <2>2. o \in Origins /\ asked' = <<o>> /\ Plain(o)
    BY <1>1, <1>2, <2>1 DEF ClonePhases, Plain
  <2>3. /\ phase' = "walk" => WritesSo(o, position', pending', stream', overlapped')
        /\ phase' = "package" => StreamedSo(o, stream', overlapped')
    BY <2>1, <2>2, WalkStep
  <2>4. WritesSo(o, position', pending', stream', overlapped') => Writes(Origin, position)'
    BY <2>1 DEF Writes
  <2> QED
    BY <2>1, <2>3, <2>4 DEF Streamed
<1>3. ASSUME generated' # <<>>, Plain(Origin)'
      PROVE  AllGenerated(Origin)'
  <2>1. CASE \E filter \in Groups : GenerateComponents(filter)
    <3>1. PICK filter \in Groups : GenerateComponents(filter)
      BY <2>1
    <3>2. phase = "package" /\ UNCHANGED <<asked, overlapped, stream>>
      BY <3>1 DEF GenerateComponents
    <3>3. Origin' = Origin
      BY <3>2 DEF Origin
    <3>4. Plain(Origin) /\ Origin \in Origins /\ asked # <<>> /\ Streamed(Origin)
      <4>1. Plain(Origin)
        BY <1>3, <3>2, <3>3 DEF Plain
      <4>2. Origin \in Origins /\ asked # <<>>
        BY <3>2 DEF SourcesInv, ClonePhases
      <4> QED
        BY <3>2, <4>1, <4>2 DEF SourcesInv
    <3>5. ~overlapped => AllGenerated(Origin)'
      BY <3>1, <3>2, <3>4, GeneratesAll
    <3> QED
      BY <3>2, <3>5 DEF AllGenerated
  <2>2. CASE \A filter \in Groups : ~GenerateComponents(filter)
    <3>1. generated' = generated \/ generated' = <<>>
      BY <2>2 DEF SourcesNext, GetPackage, WalkFile, WalkRecursively, WalkEntry, EndWalk, AbortWalk,
                  BeginWrite, EndWrite, PanicInWrite, WalkUnchanged, sourceVars
    <3>2. generated' = generated /\ generated # <<>>
      BY <1>3, <3>1
    <3>3. phase = "package"
      BY <3>2 DEF SourcesInv, ClonePhases
    <3>4. UNCHANGED <<asked, overlapped>>
      <4>1. \A o : ~GetPackage(o)
        BY <1>3 DEF GetPackage
      <4>2. \A w \in DOMAIN pending : ~BeginWrite(w) /\ ~EndWrite(w) /\ ~PanicInWrite(w)
        BY <3>3 DEF BeginWrite, EndWrite, PanicInWrite, SourcesInv, ClonePhases, NoneLeft
      <4>3. ~WalkFile /\ ~WalkRecursively /\ ~WalkEntry /\ ~EndWalk /\ ~AbortWalk
        BY <3>3 DEF WalkFile, WalkRecursively, WalkEntry, EndWalk, AbortWalk, Walking
      <4> QED
        BY <2>2, <4>1, <4>2, <4>3 DEF SourcesNext, sourceVars
    <3>5. Origin' = Origin
      BY <3>4 DEF Origin
    <3>6. AllGenerated(Origin)
      BY <1>3, <3>2, <3>5 DEF SourcesInv, Plain
    <3> QED
      BY <3>2, <3>4, <3>5, <3>6 DEF AllGenerated
  <2> QED
    BY <2>1, <2>2
<1> QED
  BY <1>1, <1>2, <1>3 DEF SourcesInv

LEMMA SourcesInitInv ==
    ASSUME SourcesInit
    PROVE  SourcesInv
BY DEF SourcesInit, SourcesInv, ClonePhases, NoneLeft, NoDocs

LEMMA SourcesComplete ==
    ASSUME SourcesInv
    PROVE  WalkComplete
<1>1. (\E w \in DOMAIN pending : pending[w] # <<>>) => clone
  BY DEF SourcesInv, ClonePhases, NoneLeft
<1>2. ASSUME generated # <<>>, Plain(Origin)
      PROVE  AllGenerated(Origin)
  BY <1>2 DEF SourcesInv
<1> QED
  BY <1>1, <1>2 DEF WalkComplete, AllGenerated
=============================================================================
