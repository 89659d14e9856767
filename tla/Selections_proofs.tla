-------------------------- MODULE Selections_proofs --------------------------
(***************************************************************************)
(* Lemmas about sequences: what is selected from one, what several make    *)
(* one after another, where the elements of one are.  Induction is over    *)
(* sets of numbers.                                                        *)
(***************************************************************************)
EXTENDS Selections, Integers, FiniteSets, Functions, SequencesExt, FiniteSetTheorems,
        SequenceTheorems, WellFoundedInduction, TLAPS

\* Every set of numbers has a least one.
LEMMA LeastNumber ==
    ASSUME NEW B, B \subseteq Nat, B # {}
    PROVE  \E m \in B : \A k \in B : m <= k
<1> DEFINE T == {0 .. k : k \in B}
<1>1. T # {}
  OBVIOUS
<1>2. T \subseteq FiniteSubsetsOf(Nat)
  <2>1. ASSUME NEW k \in B
        PROVE  0 .. k \in FiniteSubsetsOf(Nat)
    <3>1. k \in Int /\ 0 \in Int /\ (0 .. k) \subseteq Nat
      OBVIOUS
    <3>2. IsFiniteSet(0 .. k)
      BY <3>1, FS_Interval
    <3> QED
      BY <3>1, <3>2 DEF FiniteSubsetsOf
  <2> QED
    BY <2>1
<1>3. PICK X \in T : \A Y \in T : <<Y, X>> \notin StrictSubsetOrdering(Nat)
  <2> HIDE DEF T
  <2> QED
    BY <1>1, <1>2, WFMin, FS_StrictSubsetOrderingWellFounded
<1>4. PICK m \in B : X = 0 .. m
  BY <1>3
<1>5. ASSUME NEW k \in B, k < m
      PROVE  FALSE
  <2>1. (0 .. k) \subseteq (0 .. m) /\ m \in 0 .. m /\ m \notin 0 .. k
    BY <1>5
  <2>2. <<0 .. k, X>> \in StrictSubsetOrdering(Nat)
    BY <2>1, <1>4 DEF StrictSubsetOrdering
  <2> QED
    BY <2>2, <1>3
<1> QED
  BY <1>5

\* Counting from 0, one gets to n.
LEMMA Counting ==
    ASSUME NEW n \in Nat, NEW G, 0 \in G, \A i \in 1 .. n : i - 1 \in G => i \in G
    PROVE  0 .. n \subseteq G
<1> DEFINE B == {i \in 0 .. n : i \notin G}
<1>1. ASSUME B # {}
      PROVE  FALSE
  <2>1. PICK m \in B : \A k \in B : m <= k
    <3>1. B \subseteq Nat
      OBVIOUS
    <3> HIDE DEF B
    <3> QED
      BY <1>1, <3>1, LeastNumber
  <2>2. m \in 1 .. n /\ m - 1 \in 0 .. n /\ m - 1 \notin B
    BY <2>1
  <2> QED
    BY <2>1, <2>2
<1> QED
  BY <1>1

\* A sequence over a set is one over a wider set.
LEMMA WiderSeq ==
    ASSUME NEW A, NEW B, A \subseteq B, NEW s \in Seq(A)
    PROVE  s \in Seq(B)
<1>1. /\ Len(s) \in Nat /\ DOMAIN s = 1 .. Len(s)
      /\ s \in [1 .. Len(s) -> B]
  OBVIOUS
<1> QED
  BY <1>1, SeqDef

\* The head of a sequence, and what is left of it.
LEMMA HeadTail ==
    ASSUME NEW A, NEW s \in Seq(A), s # <<>>
    PROVE  /\ Head(s) \in A /\ Tail(s) \in Seq(A)
           /\ ToSet(s) = {Head(s)} \cup ToSet(Tail(s)) /\ Head(s) \in ToSet(s)
<1>1. /\ Len(s) \in Nat \ {0} /\ DOMAIN s = 1 .. Len(s) /\ Head(s) = s[1]
      /\ Tail(s) \in Seq(A) /\ DOMAIN Tail(s) = 1 .. Len(s) - 1
      /\ \A i \in 1 .. Len(s) - 1 : Tail(s)[i] = s[i + 1]
  OBVIOUS
<1>2. \A i \in 1 .. Len(s) : s[i] \in A
  OBVIOUS
<1>3. ASSUME NEW i \in 1 .. Len(s), i # 1
      PROVE  s[i] \in ToSet(Tail(s))
  <2>1. i - 1 \in 1 .. Len(s) - 1 /\ Tail(s)[i - 1] = s[i]
    BY <1>1, <1>3
  <2> QED
    BY <1>1, <2>1 DEF ToSet
<1>4. ToSet(Tail(s)) \subseteq ToSet(s)
  BY <1>1 DEF ToSet
<1> QED
  BY <1>1, <1>2, <1>3, <1>4 DEF ToSet

LEMMA AppendElements ==
    ASSUME NEW A, NEW s \in Seq(A), NEW x \in A
    PROVE  /\ Append(s, x) \in Seq(A)
           /\ ToSet(Append(s, x)) = ToSet(s) \cup {x}
           /\ IsInjective(s) /\ x \notin ToSet(s) => IsInjective(Append(s, x))
<1> DEFINE t == Append(s, x)
           n == Len(s)
<1>1. /\ n \in Nat /\ t \in Seq(A)
      /\ DOMAIN s = 1 .. n /\ DOMAIN t = 1 .. n + 1
      /\ \A i \in 1 .. n : t[i] = s[i]
      /\ t[n + 1] = x
  OBVIOUS
<1> HIDE DEF t, n
<1>2. ToSet(t) = ToSet(s) \cup {x}
  BY <1>1 DEF ToSet
<1>3. ASSUME IsInjective(s), x \notin ToSet(s)
      PROVE  IsInjective(t)
  <2>1. \A i \in 1 .. n : t[i] # x
    BY <1>1, <1>3 DEF ToSet
  <2>2. \A i, j \in 1 .. n : t[i] = t[j] => i = j
    BY <1>1, <1>3 DEF IsInjective
  <2>3. \A i \in 1 .. n + 1 : i \in 1 .. n \/ i = n + 1
    BY <1>1
  <2> QED
    BY <2>1, <2>2, <2>3, <1>1 DEF IsInjective
<1> QED
  BY <1>1, <1>2, <1>3 DEF t

LEMMA ConcatElements ==
    ASSUME NEW A, NEW s \in Seq(A), NEW t \in Seq(A)
    PROVE  /\ s \o t \in Seq(A)
           /\ ToSet(s \o t) = ToSet(s) \cup ToSet(t)
           /\ IsInjective(s) /\ IsInjective(t) /\ ToSet(s) \cap ToSet(t) = {}
              => IsInjective(s \o t)
<1> DEFINE u == s \o t
           n == Len(s)
           m == Len(t)
<1>1. /\ n \in Nat /\ m \in Nat /\ u \in Seq(A)
      /\ DOMAIN s = 1 .. n /\ DOMAIN t = 1 .. m /\ DOMAIN u = 1 .. n + m
      /\ \A i \in 1 .. n : u[i] = s[i]
      /\ \A i \in 1 .. m : u[n + i] = t[i]
  <2>1. \A i \in 1 .. n + m : u[i] = IF i <= n THEN s[i] ELSE t[i - n]
    BY ConcatProperties
  <2> QED
    BY <2>1, ConcatProperties
<1> HIDE DEF u, n, m
<1>2. \A i \in 1 .. n + m : i \in 1 .. n \/ (i - n \in 1 .. m /\ i = n + (i - n))
  BY <1>1
<1>3. ToSet(u) = ToSet(s) \cup ToSet(t)
  <2>1. ASSUME NEW i \in 1 .. n + m
        PROVE  u[i] \in ToSet(s) \cup ToSet(t)
    BY <1>1, <1>2 DEF ToSet
  <2>2. ASSUME NEW i \in 1 .. n
        PROVE  s[i] \in ToSet(u)
    BY <1>1 DEF ToSet
  <2>3. ASSUME NEW i \in 1 .. m
        PROVE  t[i] \in ToSet(u)
    <3>1. n + i \in 1 .. n + m /\ u[n + i] = t[i]
      BY <1>1
    <3> QED
      BY <1>1, <3>1 DEF ToSet
  <2>4. ToSet(u) = {u[i] : i \in 1 .. n + m} /\ ToSet(s) = {s[i] : i \in 1 .. n}
        /\ ToSet(t) = {t[i] : i \in 1 .. m}
    BY <1>1 DEF ToSet
  <2> QED
    BY <2>1, <2>2, <2>3, <2>4
<1>4. ASSUME IsInjective(s), IsInjective(t), ToSet(s) \cap ToSet(t) = {},
             NEW i \in 1 .. n + m, NEW j \in 1 .. n + m, u[i] = u[j]
      PROVE  i = j
  <2>1. \A a \in 1 .. n : u[a] = s[a] /\ s[a] \in ToSet(s)
    BY <1>1 DEF ToSet
  <2>2. \A a \in 1 .. n + m : a \notin 1 .. n =>
          a - n \in 1 .. m /\ u[a] = t[a - n] /\ t[a - n] \in ToSet(t)
    <3>1. \A a \in 1 .. m : u[n + a] = t[a] /\ t[a] \in ToSet(t)
      BY <1>1 DEF ToSet
    <3> QED
      BY <3>1, <1>2
  <2>3. CASE i \in 1 .. n /\ j \in 1 .. n
    BY <2>1, <2>3, <1>1, <1>4 DEF IsInjective
  <2>4. CASE i \notin 1 .. n /\ j \notin 1 .. n
    <3>1. t[i - n] = t[j - n] /\ i - n \in 1 .. m /\ j - n \in 1 .. m
      BY <2>2, <2>4, <1>4
    <3>2. i - n = j - n
      BY <3>1, <1>1, <1>4 DEF IsInjective
    <3> QED
      BY <3>2, <1>1
  <2>5. CASE (i \in 1 .. n) # (j \in 1 .. n)
    BY <2>1, <2>2, <2>5, <1>4
  <2> QED
    BY <2>3, <2>4, <2>5
<1>5. IsInjective(s) /\ IsInjective(t) /\ ToSet(s) \cap ToSet(t) = {} => IsInjective(u)
  BY <1>1, <1>4 DEF IsInjective
<1> QED
  BY <1>1, <1>3, <1>5 DEF u

\* Function g begins with c, and F makes each value from the one before it.
Steps(g, n, c, F) == g[0] = c /\ \A i \in 1 .. n : g[i] = F[<<g[i - 1], i>>]

\* A function is defined by its first value and by the step from each to the next.
LEMMA Recursion ==
    ASSUME NEW S, NEW n \in Nat, NEW c \in S, NEW F \in [S \X (1 .. n) -> S]
    PROVE  \E g \in [0 .. n -> S] : Steps(g, n, c, F)
<1> USE DEF Steps
<1> DEFINE Upto(k, g) == Steps(g, k, c, F)
           B == {k \in 0 .. n : \A g \in [0 .. k -> S] : ~Upto(k, g)}
<1>1. CASE B = {}
  <2>1. n \in 0 .. n
    OBVIOUS
  <2>2. ~\A g \in [0 .. n -> S] : ~Upto(n, g)
    <3> HIDE DEF Upto
    <3> QED
      BY <1>1, <2>1
  <2> QED
    BY <2>2
<1>2. CASE B # {}
  <2>1. PICK m \in B : \A k \in B : m <= k
    <3> HIDE DEF B
    <3>1. B \subseteq Nat
      BY DEF B
    <3> QED
      BY <1>2, <3>1, LeastNumber
  <2>2. CASE m = 0
    <3>1. [i \in 0 .. 0 |-> c] \in [0 .. 0 -> S] /\ Upto(0, [i \in 0 .. 0 |-> c])
      OBVIOUS
    <3> QED
      BY <2>1, <2>2, <3>1
  <2>3. CASE m # 0
    <3>1. m - 1 \in 0 .. n /\ m - 1 \notin B /\ m \in 1 .. n
      BY <2>1, <2>3
    <3>2. PICK g \in [0 .. m - 1 -> S] : Upto(m - 1, g)
      BY <3>1
    <3> DEFINE h == [i \in 0 .. m |-> IF i = m THEN F[<<g[m - 1], m>>] ELSE g[i]]
    <3>3. F[<<g[m - 1], m>>] \in S
      BY <3>1, <3>2
    <3>4. h \in [0 .. m -> S]
      BY <3>3, <3>1
    <3>5. Upto(m, h)
      <4>1. h[0] = c
        BY <3>1, <3>2
      <4>2. ASSUME NEW i \in 1 .. m
            PROVE  h[i] = F[<<h[i - 1], i>>]
        <5>1. CASE i = m
          <6>1. m - 1 \in 0 .. m /\ m - 1 # m /\ m \in 0 .. m
            BY <3>1
          <6>2. h[m] = F[<<g[m - 1], m>>] /\ h[m - 1] = g[m - 1]
            BY <6>1
          <6> QED
            BY <6>2, <5>1
        <5>2. CASE i # m
          <6>1. i \in 1 .. m - 1 /\ i - 1 \in 0 .. m - 1 /\ i \in 0 .. m /\ i - 1 # m
            BY <5>2, <3>1
          <6> QED
            BY <6>1, <3>2, <5>2
        <5> QED
          BY <5>1, <5>2
      <4> QED
        BY <4>1, <4>2
    <3> QED
      BY <2>1, <3>4, <3>5
  <2> QED
    BY <2>2, <2>3
<1> QED
  BY <1>1, <1>2

ThoseSteps(g, s, S) ==
    /\ g[0] = <<>>
    /\ \A i \in 1 .. Len(s) :
         g[i] = IF s[i] \in S THEN Append(g[i - 1], s[i]) ELSE g[i - 1]

\* What Those computes, one element after another.
LEMMA ThoseUpTo ==
    ASSUME NEW A, NEW s \in Seq(A), NEW S
    PROVE  \E g \in [0 .. Len(s) -> Seq(A)] :
             ThoseSteps(g, s, S) /\ Those(s, S) = g[Len(s)]
<1> DEFINE n == Len(s)
           F == [p \in Seq(A) \X (1 .. n) |->
                   IF s[p[2]] \in S THEN Append(p[1], s[p[2]]) ELSE p[1]]
           Step(w, i) == IF s[i] \in S THEN Append(w[i - 1], s[i]) ELSE w[i - 1]
           H(w) == w = [i \in 0 .. n |-> IF i = 0 THEN <<>> ELSE Step(w, i)]
<1>1. n \in Nat /\ <<>> \in Seq(A) /\ F \in [Seq(A) \X (1 .. n) -> Seq(A)]
  OBVIOUS
<1>2. PICK g \in [0 .. n -> Seq(A)] : Steps(g, n, <<>>, F)
  <2> DEFINE T == Seq(A)
  <2>1. <<>> \in T /\ F \in [T \X (1 .. n) -> T]
    BY <1>1
  <2> HIDE DEF n, F, T
  <2>2. \E g \in [0 .. n -> T] : Steps(g, n, <<>>, F)
    BY <1>1, <2>1, Recursion
  <2> QED
    BY <2>2 DEF T
<1>3. ASSUME NEW i \in 1 .. n
      PROVE  g[i] = Step(g, i)
  <2>1. i - 1 \in 0 .. n
    BY <1>1
  <2>2. g[i - 1] \in Seq(A)
    BY <2>1, <1>2
  <2>3. <<g[i - 1], i>> \in Seq(A) \X (1 .. n)
    BY <2>2
  <2> QED
    BY <2>3, <1>2 DEF Steps
<1>4. H(g)
  <2>1. \A i \in 0 .. n : g[i] = IF i = 0 THEN <<>> ELSE Step(g, i)
    <3>1. g[0] = <<>>
      BY <1>2 DEF Steps
    <3>2. \A i \in 0 .. n : i = 0 \/ i \in 1 .. n
      BY <1>1
    <3> HIDE DEF n, Step
    <3> QED
      BY <3>1, <3>2, <1>3
  <2> HIDE DEF n, Step
  <2> QED
    BY <2>1, <1>2
<1> DEFINE w == CHOOSE v : H(v)
<1>5. Those(s, S) = w[n]
  BY DEF Those
<1>6. H(w)
  BY <1>4
<1> HIDE DEF w
<1>7. /\ w[0] = <<>>
      /\ \A i \in 1 .. n : w[i] = Step(w, i)
  <2>1. \A i \in 0 .. n : w[i] = IF i = 0 THEN <<>> ELSE Step(w, i)
    <3> HIDE DEF n, Step
    <3> QED
      BY <1>6
  <2>2. 0 \in 0 .. n /\ \A i \in 1 .. n : i \in 0 .. n /\ i # 0
    BY <1>1
  <2> HIDE DEF n, Step
  <2> QED
    BY <2>1, <2>2
<1>8. \A k \in 0 .. n : w[k] = g[k]
  <2> DEFINE Bad == {k \in 0 .. n : w[k] # g[k]}
  <2>1. ASSUME Bad # {}
        PROVE  FALSE
    <3>1. PICK m \in Bad : \A k \in Bad : m <= k
      <4>1. Bad \subseteq Nat
        OBVIOUS
      <4> HIDE DEF Bad
      <4> QED
        BY <2>1, <4>1, LeastNumber
    <3>2. m \in 1 .. n
      BY <3>1, <1>2, <1>7 DEF Steps
    <3>3. w[m - 1] = g[m - 1]
      BY <3>1, <3>2
    <3> QED
      BY <3>1, <3>2, <3>3, <1>3, <1>7
  <2> QED
    BY <2>1
<1> QED
  BY <1>1, <1>2, <1>3, <1>5, <1>8 DEF ThoseSteps, Steps

\* Those: the elements that are in S, none of them twice if none is in s.
LEMMA ThoseElements ==
    ASSUME NEW A, NEW s \in Seq(A), NEW S
    PROVE  /\ Those(s, S) \in Seq(A)
           /\ ToSet(Those(s, S)) = ToSet(s) \cap S
           /\ IsInjective(s) => IsInjective(Those(s, S))
<1>1. PICK g \in [0 .. Len(s) -> Seq(A)] :
             ThoseSteps(g, s, S) /\ Those(s, S) = g[Len(s)]
  BY ThoseUpTo
<1> DEFINE n == Len(s)
<1> DEFINE Has(k) == \A x : x \in ToSet(g[k]) <=> \E i \in 1 .. k : x = s[i] /\ x \in S
           Good(k) == Has(k) /\ (IsInjective(s) => IsInjective(g[k]))
<1>2. \A k \in 0 .. n : Good(k)
  <2> DEFINE Bad == {k \in 0 .. n : ~Good(k)}
  <2>1. ASSUME Bad # {}
        PROVE  FALSE
    <3>1. PICK m \in Bad : \A k \in Bad : m <= k
      <4>1. Bad \subseteq Nat
        OBVIOUS
      <4> HIDE DEF Bad
      <4> QED
        BY <2>1, <4>1, LeastNumber
    <3>2. Good(0)
      BY <1>1 DEF ToSet, IsInjective, ThoseSteps
    <3>3. m \in 1 .. n /\ m - 1 \in 0 .. n /\ m - 1 \notin Bad
      <4> HIDE DEF Good
      <4> QED
        BY <3>1, <3>2
    <3>4. Good(m - 1)
      <4> HIDE DEF Good
      <4> QED
        BY <3>3
    <3>5. s[m] \in A /\ g[m - 1] \in Seq(A) /\ g[m] \in Seq(A)
      BY <3>3
    <3>6. CASE s[m] \in S
      <4>1. g[m] = Append(g[m - 1], s[m])
        BY <3>3, <3>6, <1>1 DEF ThoseSteps
      <4>2. \A x : x \in ToSet(g[m]) <=> x \in ToSet(g[m - 1]) \/ x = s[m]
        BY <4>1, <3>5, AppendElements
      <4>3. Has(m)
        BY <4>2, <3>3, <3>4, <3>6
      <4>4. ASSUME IsInjective(s)
            PROVE  IsInjective(g[m])
        <5>1. s[m] \notin ToSet(g[m - 1])
          <6>1. \A i \in 1 .. m - 1 : s[i] # s[m]
            BY <4>4, <3>3 DEF IsInjective
          <6> QED
            BY <6>1, <3>4
        <5>2. IsInjective(g[m - 1])
          BY <3>4, <4>4
        <5> QED
          BY <5>1, <5>2, <4>1, <3>5, AppendElements
      <4> QED
        BY <4>3, <4>4, <3>1
    <3>7. CASE s[m] \notin S
      <4>1. g[m] = g[m - 1]
        BY <3>3, <3>7, <1>1 DEF ThoseSteps
      <4>2. Has(m)
        BY <4>1, <3>3, <3>4, <3>7
      <4> QED
        BY <4>1, <4>2, <3>1, <3>4
    <3> QED
      BY <3>6, <3>7
  <2> HIDE DEF Good
  <2> QED
    BY <2>1
<1>3. Good(n) /\ g[n] \in Seq(A) /\ ToSet(s) = {s[i] : i \in 1 .. n}
  <2>1. n \in 0 .. n /\ DOMAIN s = 1 .. n
    OBVIOUS
  <2>2. Good(n)
    <3> HIDE DEF Good
    <3> QED
      BY <1>2, <2>1
  <2> QED
    BY <2>1, <2>2, <1>1 DEF ToSet
<1>4. ToSet(Those(s, S)) = ToSet(s) \cap S
  BY <1>1, <1>3
<1> QED
  BY <1>1, <1>3, <1>4

JoinedSteps(g, ss) == g[0] = <<>> /\ \A i \in 1 .. Len(ss) : g[i] = g[i - 1] \o ss[i]

\* What Joined computes, one sequence after another.
LEMMA JoinedUpTo ==
    ASSUME NEW A, NEW ss \in Seq(Seq(A))
    PROVE  \E g \in [0 .. Len(ss) -> Seq(A)] : JoinedSteps(g, ss) /\ Joined(ss) = g[Len(ss)]
<1> DEFINE n == Len(ss)
           F == [p \in Seq(A) \X (1 .. n) |-> p[1] \o ss[p[2]]]
           Step(w, i) == w[i - 1] \o ss[i]
           H(w) == w = [i \in 0 .. n |-> IF i = 0 THEN <<>> ELSE Step(w, i)]
<1>1. n \in Nat /\ <<>> \in Seq(A) /\ F \in [Seq(A) \X (1 .. n) -> Seq(A)]
  OBVIOUS
<1>2. PICK g \in [0 .. n -> Seq(A)] : Steps(g, n, <<>>, F)
  <2> DEFINE T == Seq(A)
  <2>1. <<>> \in T /\ F \in [T \X (1 .. n) -> T]
    BY <1>1
  <2> HIDE DEF n, F, T
  <2>2. \E g \in [0 .. n -> T] : Steps(g, n, <<>>, F)
    BY <1>1, <2>1, Recursion
  <2> QED
    BY <2>2 DEF T
<1>3. ASSUME NEW i \in 1 .. n
      PROVE  g[i] = Step(g, i)
  <2>1. i - 1 \in 0 .. n
    BY <1>1
  <2>2. g[i - 1] \in Seq(A)
    BY <2>1, <1>2
  <2>3. <<g[i - 1], i>> \in Seq(A) \X (1 .. n)
    BY <2>2
  <2> QED
    BY <2>3, <1>2 DEF Steps
<1>4. H(g)
  <2>1. \A i \in 0 .. n : g[i] = IF i = 0 THEN <<>> ELSE Step(g, i)
    <3>1. g[0] = <<>>
      BY <1>2 DEF Steps
    <3>2. \A i \in 0 .. n : i = 0 \/ i \in 1 .. n
      BY <1>1
    <3> HIDE DEF n, Step
    <3> QED
      BY <3>1, <3>2, <1>3
  <2> HIDE DEF n, Step
  <2> QED
    BY <2>1, <1>2
<1> DEFINE w == CHOOSE v : H(v)
<1>5. Joined(ss) = w[n]
  BY DEF Joined
<1>6. H(w)
  BY <1>4
<1> HIDE DEF w
<1>7. w[0] = <<>> /\ \A i \in 1 .. n : w[i] = Step(w, i)
  <2>1. \A i \in 0 .. n : w[i] = IF i = 0 THEN <<>> ELSE Step(w, i)
    <3> HIDE DEF n, Step
    <3> QED
      BY <1>6
  <2>2. 0 \in 0 .. n /\ \A i \in 1 .. n : i \in 0 .. n /\ i # 0
    BY <1>1
  <2> HIDE DEF n, Step
  <2> QED
    BY <2>1, <2>2
<1>8. w[n] = g[n]
  <2> DEFINE G == {i \in 0 .. n : w[i] = g[i]}
  <2>1. 0 \in G
    BY <1>1, <1>2, <1>7 DEF Steps
  <2>2. ASSUME NEW i \in 1 .. n, i - 1 \in G
        PROVE  i \in G
    <3>1. w[i - 1] = g[i - 1] /\ i \in 0 .. n
      BY <2>2, <1>1
    <3> QED
      BY <3>1, <1>3, <1>7
  <2> HIDE DEF G
  <2>3. 0 .. n \subseteq G
    BY <1>1, <2>1, <2>2, Counting
  <2> QED
    BY <2>3, <1>1 DEF G
<1> QED
  BY <1>1, <1>2, <1>3, <1>5, <1>8 DEF JoinedSteps, Steps

\* Joined: the elements of all the sequences, none of them twice if none is
\* twice in one of them or in two.
LEMMA JoinedElements ==
    ASSUME NEW A, NEW ss \in Seq(Seq(A))
    PROVE  /\ Joined(ss) \in Seq(A)
           /\ ToSet(Joined(ss)) = UNION {ToSet(ss[i]) : i \in DOMAIN ss}
           /\ (/\ \A i \in DOMAIN ss : IsInjective(ss[i])
               /\ \A i, j \in DOMAIN ss : i # j => ToSet(ss[i]) \cap ToSet(ss[j]) = {})
              => IsInjective(Joined(ss))
<1> DEFINE n == Len(ss)
           Apart == /\ \A i \in 1 .. n : IsInjective(ss[i])
                    /\ \A i, j \in 1 .. n : i # j => ToSet(ss[i]) \cap ToSet(ss[j]) = {}
<1>1. PICK g \in [0 .. Len(ss) -> Seq(A)] : JoinedSteps(g, ss) /\ Joined(ss) = g[Len(ss)]
  BY JoinedUpTo
<1>2. n \in Nat /\ DOMAIN ss = 1 .. n /\ \A i \in 1 .. n : ss[i] \in Seq(A)
  OBVIOUS
<1> DEFINE Has(k) == \A x : x \in ToSet(g[k]) <=> \E i \in 1 .. k : x \in ToSet(ss[i])
           G == {k \in 0 .. n : Has(k) /\ (Apart => IsInjective(g[k]))}
<1>3. 0 \in G
  BY <1>1, <1>2 DEF ToSet, IsInjective, JoinedSteps
<1>4. ASSUME NEW k \in 1 .. n, k - 1 \in G
      PROVE  k \in G
  <2>1. /\ g[k - 1] \in Seq(A) /\ ss[k] \in Seq(A)
        /\ g[k] = g[k - 1] \o ss[k] /\ Has(k - 1)
    BY <1>1, <1>2, <1>4 DEF JoinedSteps
  <2>2. ToSet(g[k]) = ToSet(g[k - 1]) \cup ToSet(ss[k])
    BY <2>1, ConcatElements
  <2>3. Has(k)
    <3>1. \A i : i \in 1 .. k <=> i \in 1 .. k - 1 \/ i = k
      BY <1>4
    <3> QED
      BY <2>1, <2>2, <3>1
  <2>4. ASSUME Apart
        PROVE  IsInjective(g[k])
    <3>1. IsInjective(g[k - 1]) /\ IsInjective(ss[k])
      BY <1>4, <2>4
    <3>2. ASSUME NEW x \in ToSet(g[k - 1]), x \in ToSet(ss[k])
          PROVE  FALSE
      <4>1. PICK i \in 1 .. k - 1 : x \in ToSet(ss[i])
        BY <2>1, <3>2
      <4>2. i # k /\ i \in 1 .. n
        BY <1>2
      <4> QED
        BY <4>1, <4>2, <3>2, <2>4
    <3> QED
      BY <3>1, <3>2, <2>1, ConcatElements
  <2>5. k \in 0 .. n
    BY <1>2
  <2> HIDE DEF Has, Apart
  <2> QED
    BY <2>3, <2>4, <2>5
<1> HIDE DEF G
<1>5. 0 .. n \subseteq G
  BY <1>2, <1>3, <1>4, Counting
<1>6. Has(n) /\ (Apart => IsInjective(g[n])) /\ g[n] \in Seq(A)
  BY <1>1, <1>2, <1>5 DEF G
<1>7. ToSet(g[n]) = UNION {ToSet(ss[i]) : i \in DOMAIN ss}
  BY <1>2, <1>6
<1> QED
  BY <1>1, <1>2, <1>6, <1>7
=============================================================================
