---------------------------- MODULE SharedLemmas ----------------------------
(* Lemmas that several proofs cite.  The naturals are well ordered: least   *)
(* and greatest elements, induction over an interval for a set of numbers,  *)
(* and functions defined by recursion over an interval, of which the        *)
(* elements that a filter keeps are one.                                   *)
EXTENDS Subsequence, Functions, FiniteSetTheorems, WellFoundedInduction, TLAPS

\* Every set of naturals that is not empty has a least element: the finite
\* intervals 0 .. i are well founded under inclusion.
LEMMA Least ==
    ASSUME NEW S, S \subseteq Nat, S # {}
    PROVE  \E i \in S : \A j \in S : i <= j
<1> DEFINE T == {0 .. i : i \in S}
           R == StrictSubsetOrdering(Nat)
<1>1. T \subseteq FiniteSubsetsOf(Nat)
  <2> SUFFICES ASSUME NEW i \in S PROVE 0 .. i \in FiniteSubsetsOf(Nat)
    OBVIOUS
  <2>1. IsFiniteSet(0 .. i)
    BY FS_Interval
  <2> QED
    BY <2>1 DEF FiniteSubsetsOf
<1>2. T # {}
  OBVIOUS
<1>3. IsWellFoundedOn(R, FiniteSubsetsOf(Nat))
  BY FS_StrictSubsetOrderingWellFounded
<1>4. \E x \in T : \A y \in T : ~ (<<y, x>> \in R)
  <2> HIDE DEF T, R
  <2> QED
    BY <1>1, <1>2, <1>3, WFMin
<1>5. PICK i \in S : \A y \in T : ~ (<<y, 0 .. i>> \in R)
  BY <1>4
<1>6. ASSUME NEW j \in S, j < i PROVE FALSE
  <2>1. 0 .. j \in SUBSET Nat /\ 0 .. i \in SUBSET Nat
    OBVIOUS
  <2>2. 0 .. j \subseteq 0 .. i /\ i \in 0 .. i /\ i \notin 0 .. j
    BY <1>6
  <2>3. <<0 .. j, 0 .. i>> \in R
    BY <2>1, <2>2 DEF StrictSubsetOrdering
  <2> QED
    BY <1>5, <2>3
<1> QED
  BY <1>6

\* Induction up to n, for the numbers with a property given as their set.
LEMMA UpTo ==
    ASSUME NEW n \in Nat, NEW S, 0 \in S, \A k \in 0 .. n : k < n /\ k \in S => k + 1 \in S
    PROVE  0 .. n \subseteq S
<1> DEFINE Bad == {k \in 0 .. n : k \notin S}
<1>1. SUFFICES ASSUME Bad # {} PROVE FALSE
  OBVIOUS
<1>2. PICK k \in Bad : \A j \in Bad : k <= j
  <2>1. Bad \subseteq Nat
    OBVIOUS
  <2> HIDE DEF Bad
  <2> QED
    BY <1>1, <2>1, Least
<1>3. k \in Nat /\ k <= n /\ k # 0 /\ k - 1 \in 0 .. n /\ k - 1 \notin Bad
  BY <1>2
<1>4. k - 1 \in S /\ k - 1 < n /\ (k - 1) + 1 = k
  BY <1>3
<1> QED
  BY <1>2, <1>3, <1>4

\* f starts with x and goes on as G says.
Recursion(f, x, n, G) ==
    \A k \in 0 .. n : f[k] = IF k = 0 THEN x ELSE G[<<f[k - 1], k>>]

\* A function defined by recursion over 0 .. n exists.
LEMMA FoldExists ==
    ASSUME NEW X, NEW x \in X, NEW n \in Nat, NEW G \in [X \X (1 .. n) -> X]
    PROVE  \E f \in [0 .. n -> X] : Recursion(f, x, n, G)
<1> USE DEF Recursion
<1> DEFINE Folds(f, m) == f \in [0 .. m -> X] /\ Recursion(f, x, m, G)
           Folded(m) == \E f : Folds(f, m)
           S == {m \in 0 .. n : Folded(m)}
<1>1. Folded(0)
  <2>1. PICK f : f = [k \in 0 .. 0 |-> x]
    OBVIOUS
  <2>2. Folds(f, 0)
    BY <2>1
  <2> QED
    BY <2>2
<1>2. ASSUME NEW m \in 0 .. n, m < n, Folded(m) PROVE Folded(m + 1)
  <2>1. PICK f : Folds(f, m)
    BY <1>2
  <2>2. m \in Nat /\ f[m] \in X /\ m + 1 \in 1 .. n /\ G[<<f[m], m + 1>>] \in X
    BY <1>2, <2>1
  <2>3. PICK g : g = [k \in 0 .. m + 1 |-> IF k = m + 1 THEN G[<<f[m], m + 1>>] ELSE f[k]]
    OBVIOUS
  <2>4. g \in [0 .. m + 1 -> X]
    BY <2>1, <2>2, <2>3
  <2>5. ASSUME NEW k \in 0 .. m + 1
        PROVE  g[k] = IF k = 0 THEN x ELSE G[<<g[k - 1], k>>]
    <3>1. CASE k = m + 1
      <4>1. k # 0 /\ k - 1 = m /\ m \in 0 .. m + 1 /\ m # m + 1
        BY <2>2, <3>1
      <4>2. g[k - 1] = f[m] /\ g[k] = G[<<f[m], k>>]
        BY <2>3, <3>1, <4>1
      <4> QED
        BY <4>1, <4>2
    <3>2. CASE k # m + 1
      <4>1. k \in 0 .. m /\ g[k] = f[k] /\ (k # 0 => g[k - 1] = f[k - 1])
        BY <2>2, <2>3, <3>2
      <4> QED
        BY <2>1, <4>1
    <3> QED
      BY <3>1, <3>2
  <2> QED
    BY <2>4, <2>5
<1>3. 0 .. n \subseteq S
  <2>1. 0 \in S
    BY <1>1
  <2>2. \A m \in 0 .. n : m < n /\ m \in S => m + 1 \in S
    <3> HIDE DEF Folded
    <3> QED
      BY <1>2
  <2> HIDE DEF S
  <2> QED
    BY <2>1, <2>2, UpTo
<1>4. Folded(n)
  BY <1>3
<1> QED
  BY <1>4

\* A set of naturals with a bound and a member has a greatest element.
LEMMA Greatest ==
    ASSUME NEW n \in Nat, NEW S, S \subseteq 0 .. n, S # {}
    PROVE  \E i \in S : \A j \in S : j <= i
<1> DEFINE T == {n - i : i \in S}
<1>1. T \subseteq Nat /\ T # {}
  <2>1. \A i \in S : n - i \in Nat
    OBVIOUS
  <2> QED
    BY <2>1
<1>2. PICK t \in T : \A u \in T : t <= u
  <2> HIDE DEF T
  <2> QED
    BY <1>1, Least
<1>3. PICK i \in S : t = n - i
  OBVIOUS
<1>4. \A j \in S : j <= i
  <2> SUFFICES ASSUME NEW j \in S PROVE j <= i
    OBVIOUS
  <2>1. n - i <= n - j
    BY <1>2, <1>3
  <2> QED
    BY <2>1
<1> QED
  BY <1>4
-----------------------------------------------------------------------------
(* Sequences with one more element, and the elements that a filter keeps.   *)

\* A sequence with one more member.
LEMMA AppendFacts ==
  ASSUME NEW T, NEW s \in Seq(T), NEW x \in T
  PROVE  /\ Append(s, x) \in Seq(T)
         /\ Len(Append(s, x)) = Len(s) + 1
         /\ Range(Append(s, x)) = Range(s) \cup {x}
<1>1. /\ Append(s, x) \in Seq(T) /\ Len(s) \in Nat
      /\ Len(Append(s, x)) = Len(s) + 1
      /\ \A k \in 1..Len(s) : Append(s, x)[k] = s[k]
      /\ Append(s, x)[Len(s) + 1] = x
  OBVIOUS
<1>2. DOMAIN Append(s, x) = 1..(Len(s) + 1) /\ DOMAIN s = 1..Len(s)
  BY <1>1
<1>3. 1..(Len(s) + 1) = (1..Len(s)) \cup {Len(s) + 1}
  BY <1>1
<1> QED
  BY <1>1, <1>2, <1>3 DEF Range

\* Among, step by step.
LEMMA AmongUnfolds ==
  ASSUME NEW T, NEW s \in Seq(T), NEW S
  PROVE  \E g : /\ Among(s, S) = g[Len(s)] /\ g[0] = <<>>
                /\ \A k \in 1..Len(s) :
                     g[k] = IF s[k] \in S THEN Append(g[k - 1], s[k]) ELSE g[k - 1]
<1> DEFINE F(f) == [k \in 0..Len(s) |->
                     IF k = 0 THEN <<>>
                     ELSE IF s[k] \in S THEN Append(f[k - 1], s[k]) ELSE f[k - 1]]
           g == CHOOSE f : f = F(f)
<1>1. Len(s) \in Nat /\ \A k \in 1..Len(s) : s[k] \in T
  OBVIOUS
<1>2. \E f : f = F(f)
  <2>1. PICK G : G = [p \in Seq(T) \X (1..Len(s)) |->
                        IF s[p[2]] \in S THEN Append(p[1], s[p[2]]) ELSE p[1]]
    OBVIOUS
  <2>2. G \in [Seq(T) \X (1..Len(s)) -> Seq(T)]
    BY <1>1, <2>1
  <2>3. <<>> \in Seq(T)
    OBVIOUS
  <2>4. PICK f \in [0..Len(s) -> Seq(T)] :
          Recursion(f, <<>>, Len(s), G)
    <3>1. Len(s) \in Nat
      BY <1>1
    <3> QED
      BY <2>2, <2>3, <3>1, FoldExists, Zenon
  <2>5. ASSUME NEW k \in 0..Len(s), k # 0
        PROVE  f[k] = IF s[k] \in S THEN Append(f[k - 1], s[k]) ELSE f[k - 1]
    <3>1. k - 1 \in 0..Len(s) /\ k \in 1..Len(s) /\ f[k - 1] \in Seq(T)
      BY <1>1, <2>5
    <3>2. G[<<f[k - 1], k>>] = IF s[k] \in S THEN Append(f[k - 1], s[k]) ELSE f[k - 1]
      BY <2>1, <3>1
    <3> QED
      BY <2>4, <2>5, <3>2 DEF Recursion
  <2>6. f = F(f)
    BY <2>4, <2>5 DEF Recursion
  <2> QED
    BY <2>6
<1>3. g = F(g)
  BY <1>2
<1>4. Among(s, S) = g[Len(s)]
  BY Zenon DEF Among
<1> HIDE DEF g
<1>5. /\ g[0] = <<>>
      /\ \A k \in 1..Len(s) :
           g[k] = IF s[k] \in S THEN Append(g[k - 1], s[k]) ELSE g[k - 1]
  <2>1. 0 \in 0..Len(s) /\ \A k \in 1..Len(s) : k \in 0..Len(s) /\ k # 0
    BY <1>1
  <2> QED
    BY <1>3, <2>1
<1> QED
  BY <1>4, <1>5

\* Among(s, S) is made of the members of s that are in S.
LEMMA AmongFacts ==
  ASSUME NEW T, NEW s \in Seq(T), NEW S
  PROVE  Among(s, S) \in Seq(T) /\ Range(Among(s, S)) = Range(s) \cap S
<1>1. Len(s) \in Nat /\ \A k \in 1..Len(s) : s[k] \in T
  OBVIOUS
<1>2. PICK g : /\ Among(s, S) = g[Len(s)] /\ g[0] = <<>>
               /\ \A k \in 1..Len(s) :
                    g[k] = IF s[k] \in S THEN Append(g[k - 1], s[k]) ELSE g[k - 1]
  BY AmongUnfolds
<1> DEFINE Done(k) == g[k] \in Seq(T) /\ Range(g[k]) = {s[m] : m \in 1..k} \cap S
<1>5. Done(0)
  <2>1. g[0] = <<>> /\ <<>> \in Seq(T) /\ 1..0 = {}
    BY <1>2
  <2>2. Range(<<>>) = {}
    BY DEF Range
  <2> QED
    BY <2>1, <2>2
<1>6. ASSUME NEW k \in 0..Len(s), k < Len(s), Done(k) PROVE Done(k + 1)
  <2>1. k + 1 \in 1..Len(s) /\ k + 1 \in 0..Len(s) /\ k + 1 # 0 /\ (k + 1) - 1 = k
    BY <1>1, <1>6
  <2>2. g[k + 1] = IF s[k + 1] \in S THEN Append(g[k], s[k + 1]) ELSE g[k]
    BY <1>2, <2>1
  <2>3. {s[m] : m \in 1..(k + 1)} = {s[m] : m \in 1..k} \cup {s[k + 1]}
    BY <2>1
  <2>4. CASE s[k + 1] \in S
    <3>1. s[k + 1] \in T
      BY <1>1, <2>1
    <3>2. g[k + 1] \in Seq(T) /\ Range(g[k + 1]) = Range(g[k]) \cup {s[k + 1]}
      BY <1>6, <2>2, <2>4, <3>1, AppendFacts
    <3> QED
      BY <1>6, <2>3, <2>4, <3>2
  <2>5. CASE s[k + 1] \notin S
    BY <1>6, <2>2, <2>3, <2>5
  <2> QED
    BY <2>4, <2>5
<1>7. 0..Len(s) \subseteq {k \in 0..Len(s) : Done(k)}
  <2> DEFINE A == {k \in 0..Len(s) : Done(k)}
  <2>1. 0 \in A
    <3> HIDE DEF Done
    <3> QED
      BY <1>1, <1>5
  <2>2. \A k \in 0..Len(s) : k < Len(s) /\ k \in A => k + 1 \in A
    <3> HIDE DEF Done
    <3> QED
      BY <1>1, <1>6
  <2> HIDE DEF A
  <2>3. 0..Len(s) \subseteq A
    BY <1>1, <2>1, <2>2, UpTo
  <2> QED
    BY <2>3 DEF A
<1>8. Done(Len(s))
  <2> HIDE DEF Done
  <2> QED
    BY <1>1, <1>7
<1>9. Range(s) = {s[m] : m \in 1..Len(s)}
  BY DEF Range
<1> QED
  BY <1>2, <1>8, <1>9
=============================================================================
