----------------------------- MODULE Wiring_proofs -----------------------------
(***************************************************************************)
(* What puts the queues of an application together.                        *)
(*                                                                         *)
(* The topic router: the matcher against what patterns mean, for patterns  *)
(* and topics of any length, and the proofs of EachBindingOnce and         *)
(* ReportIsFinal for any number of bindings, targets and publishes.        *)
(*                                                                         *)
(* The configuration: the validator, the builder and the hydration agree,  *)
(* for any configurations, names and stores.                               *)
(***************************************************************************)
EXTENDS Router, SystemConfig, SharedLemmas, SequenceTheorems, TLAPS
-----------------------------------------------------------------------------
(* match.util.ts.  In a valid pattern only the last segment may be a `#`.   *)

\* Segment i of the pattern is a `*` or is the topic's.
Fits(p, t, i) == p[i] \in {Star, t[i]}

\* What is left of the pattern from segment i on matches what is left of the
\* topic.
MatchesFrom(p, t, i) ==
  IF p[Len(p)] = Hash
  THEN Len(t) >= Len(p) - 1 /\ \A j \in i..(Len(p) - 1) : Fits(p, t, j)
  ELSE Len(t) = Len(p) /\ \A j \in i..Len(p) : Fits(p, t, j)

\* Where one of the two sequences has come to its end.
EndsAt(p, t, i) ==
  \/ i = Len(p) /\ p[i] = Hash
  \/ i > Len(p) /\ i > Len(t)

\* The walk of matchTopicParts, as a value for each place.
WalkAt(p, t, i) ==
  IF i > Len(t) + 1 \/ i > Len(p) THEN EndsAt(p, t, i) ELSE MatchesFrom(p, t, i)

LEMMA HashIsLast ==
  ASSUME NEW p \in Seq(STRING), ValidPattern(p)
  PROVE  Len(p) \in Nat \ {0} /\ \A i \in 1..(Len(p) - 1) : p[i] # Hash
<1>0. p # <<>>
  BY DEF ValidPattern
<1>1. Len(p) \in Nat \ {0} /\ DOMAIN p = 1..Len(p)
  BY <1>0
<1>2. \A i \in 1..(Len(p) - 1) : i \in DOMAIN p
  BY <1>1
<1> QED
  BY <1>1, <1>2 DEF ValidPattern

LEMMA WalkStep ==
  ASSUME NEW p \in Seq(STRING), NEW t \in Seq(STRING), ValidPattern(p),
         NEW i \in 1..(Len(p) + 1)
  PROVE  WalkAt(p, t, i) <=>
           IF i > Len(p) \/ i > Len(t) THEN EndsAt(p, t, i)
           ELSE p[i] = Hash \/ (Fits(p, t, i) /\ WalkAt(p, t, i + 1))
<1> DEFINE n == Len(p)
           m == Len(t)
<1>1. n \in Nat \ {0} /\ m \in Nat /\ \A j \in 1..(n - 1) : p[j] # Hash
  BY HashIsLast
<1>2. CASE i > n \/ i > m + 1
  BY <1>1, <1>2 DEF WalkAt
<1>3. CASE i <= n /\ i = m + 1
  <2>1. WalkAt(p, t, i) = MatchesFrom(p, t, i)
    BY <1>1, <1>3 DEF WalkAt
  <2>2. EndsAt(p, t, i) <=> i = n /\ p[n] = Hash
    BY <1>1, <1>3 DEF EndsAt
  <2>3. MatchesFrom(p, t, i) <=> i = n /\ p[n] = Hash
    BY <1>1, <1>3 DEF MatchesFrom
  <2> QED
    BY <1>1, <1>3, <2>1, <2>2, <2>3
<1>4. CASE i < n /\ i <= m
  <2>1. /\ WalkAt(p, t, i) = MatchesFrom(p, t, i) /\ p[i] # Hash
        /\ WalkAt(p, t, i + 1) = MatchesFrom(p, t, i + 1)
    BY <1>1, <1>4 DEF WalkAt
  <2>2. /\ \A j \in i..n : j = i \/ j \in (i + 1)..n
        /\ \A j \in i..(n - 1) : j = i \/ j \in (i + 1)..(n - 1)
        /\ i \in i..n /\ i \in i..(n - 1)
        /\ (i + 1)..n \subseteq i..n /\ (i + 1)..(n - 1) \subseteq i..(n - 1)
    BY <1>1, <1>4
  <2>3. MatchesFrom(p, t, i) <=> Fits(p, t, i) /\ MatchesFrom(p, t, i + 1)
    BY <2>2 DEF MatchesFrom
  <2> QED
    BY <1>1, <1>4, <2>1, <2>3
<1>5. CASE i = n /\ i <= m
  <2>1. WalkAt(p, t, i) = MatchesFrom(p, t, i) /\ WalkAt(p, t, i + 1) = EndsAt(p, t, i + 1)
    BY <1>1, <1>5 DEF WalkAt
  <2>2. EndsAt(p, t, i + 1) <=> m = n
    BY <1>1, <1>5 DEF EndsAt
  <2>3. CASE p[n] = Hash
    <3>1. MatchesFrom(p, t, i)
      BY <1>1, <1>5, <2>3 DEF MatchesFrom
    <3> QED
      BY <1>1, <1>5, <2>1, <2>3, <3>1
  <2>4. CASE p[n] # Hash
    <3>1. MatchesFrom(p, t, i) <=> m = n /\ Fits(p, t, i)
      <4>1. i..n = {i}
        BY <1>1, <1>5
      <4> QED
        BY <2>4, <4>1 DEF MatchesFrom
    <3> QED
      BY <1>1, <1>5, <2>1, <2>2, <2>4, <3>1
  <2> QED
    BY <2>3, <2>4
<1> QED
  BY <1>1, <1>2, <1>3, <1>4, <1>5

LEMMA MatchesWalks ==
  ASSUME NEW p \in Seq(STRING), NEW t \in Seq(STRING), ValidPattern(p)
  PROVE  Matches(p, t) <=> MatchesFrom(p, t, 1)
<1> DEFINE n == Len(p)
           Goes(w, i) == IF i > Len(p) \/ i > Len(t) THEN EndsAt(p, t, i)
                          ELSE p[i] = Hash \/ (p[i] \in {Star, t[i]} /\ w[i + 1])
           F(w) == [i \in 1..(n + 1) |-> Goes(w, i)]
           g == CHOOSE w : w = F(w)
<1>1. n \in Nat \ {0} /\ Len(t) \in Nat
  BY HashIsLast
<1>2. \E w : w = F(w)
  <2>1. PICK w : w = [i \in 1..(n + 1) |-> WalkAt(p, t, i)]
    OBVIOUS
  <2>2. ASSUME NEW i \in 1..(n + 1)
        PROVE  WalkAt(p, t, i) = Goes(w, i)
    <3>1. CASE i > Len(p) \/ i > Len(t)
      <4>1. WalkAt(p, t, i) <=> EndsAt(p, t, i)
        BY <3>1, WalkStep
      <4> QED
        BY <3>1, <4>1 DEF WalkAt, EndsAt, MatchesFrom
    <3>2. CASE ~ (i > Len(p) \/ i > Len(t))
      <4>1. w[i + 1] = WalkAt(p, t, i + 1)
        BY <1>1, <2>1, <3>2
      <4>2. WalkAt(p, t, i) <=> p[i] = Hash \/ (Fits(p, t, i) /\ WalkAt(p, t, i + 1))
        BY <3>2, WalkStep
      <4>3. Goes(w, i) = (p[i] = Hash \/ (Fits(p, t, i) /\ WalkAt(p, t, i + 1)))
        BY <3>2, <4>1 DEF Fits
      <4>4. WalkAt(p, t, i) \in BOOLEAN
        BY DEF WalkAt, EndsAt, MatchesFrom
      <4> HIDE DEF Goes
      <4> QED
        BY <4>2, <4>3, <4>4
    <3> QED
      BY <3>1, <3>2
  <2>3. w = F(w)
    <3> HIDE DEF Goes
    <3> QED
      BY <2>1, <2>2, Zenon
  <2> QED
    BY <2>3
<1>3. g = F(g)
  BY <1>2
<1>4. Matches(p, t) = g[1]
  BY Zenon DEF Matches, EndsAt
<1> HIDE DEF g
<1>5. ASSUME NEW k \in 0..n PROVE g[n + 1 - k] <=> WalkAt(p, t, n + 1 - k)
  <2> DEFINE S == {j \in 0..n : g[n + 1 - j] <=> WalkAt(p, t, n + 1 - j)}
  <2>1. 0 \in S
    <3>1. g[n + 1] <=> EndsAt(p, t, n + 1)
      BY <1>1, <1>3
    <3>2. WalkAt(p, t, n + 1) <=> EndsAt(p, t, n + 1)
      BY <1>1 DEF WalkAt
    <3>3. n + 1 - 0 = n + 1 /\ 0 \in 0..n
      BY <1>1
    <3> QED
      BY <3>1, <3>2, <3>3
  <2>2. ASSUME NEW j \in 0..n, j < n, j \in S PROVE j + 1 \in S
    <3>1. PICK i \in 1..n : i = n - j
      <4>1. n - j \in 1..n
        BY <1>1, <2>2
      <4> QED
        BY <4>1
    <3>2. n + 1 - (j + 1) = i /\ n + 1 - j = i + 1 /\ j + 1 \in 0..n /\ i \in 1..(n + 1)
      BY <1>1, <2>2, <3>1
    <3>3. g[i + 1] <=> WalkAt(p, t, i + 1)
      BY <2>2, <3>2
    <3>4. g[i] <=> IF i > Len(p) \/ i > Len(t) THEN EndsAt(p, t, i)
                   ELSE p[i] = Hash \/ (p[i] \in {Star, t[i]} /\ g[i + 1])
      BY <1>3, <3>2
    <3>5. WalkAt(p, t, i) <=>
            IF i > Len(p) \/ i > Len(t) THEN EndsAt(p, t, i)
            ELSE p[i] = Hash \/ (p[i] \in {Star, t[i]} /\ WalkAt(p, t, i + 1))
      BY <3>2, WalkStep DEF Fits
    <3>6. g[i] <=> WalkAt(p, t, i)
      BY <3>3, <3>4, <3>5
    <3> QED
      BY <3>2, <3>6
  <2>3. 0..n \subseteq S
    <3> HIDE DEF S
    <3> QED
      BY <1>1, <2>1, <2>2, UpTo
  <2> QED
    BY <2>3
<1>6. n \in 0..n /\ n + 1 - n = 1
  BY <1>1
<1>7. WalkAt(p, t, 1) = MatchesFrom(p, t, 1)
  BY <1>1 DEF WalkAt
<1> QED
  BY <1>4, <1>5, <1>6, <1>7

LEMMA CoversWalks ==
  ASSUME NEW p \in Seq(STRING), NEW t \in Seq(STRING), ValidPattern(p)
  PROVE  Covers(p, t) <=> MatchesFrom(p, t, 1)
<1>0. PICK n \in Nat : n = Len(p)
  OBVIOUS
<1>m. PICK m \in Nat : m = Len(t)
  OBVIOUS
<1>1. n \in Nat /\ n > 0 /\ m \in Nat
  BY <1>0, HashIsLast
<1>h. (\A j \in 1..(n - 1) : p[j] # Hash) /\ DOMAIN p = 1..n
  BY <1>0, HashIsLast
<1>2. ASSUME MatchesFrom(p, t, 1) PROVE Covers(p, t)
  <2>1. PICK cut : cut = [i \in 0..n |-> IF i = n THEN m ELSE i]
    OBVIOUS
  <2>2. m >= n - 1
    BY <1>0, <1>m, <1>1, <1>2 DEF MatchesFrom
  <2>3. cut \in [0..n -> 0..m]
    BY <1>1, <2>1, <2>2
  <2>4. cut[0] = 0 /\ cut[n] = m
    BY <1>1, <2>1
  <2>5. ASSUME NEW i \in 1..n
        PROVE  IF p[i] = Hash THEN cut[i] >= cut[i - 1]
               ELSE cut[i] = cut[i - 1] + 1 /\ p[i] \in {Star, t[cut[i]]}
    <3>1. cut[i - 1] = i - 1
      BY <1>1, <2>1
    <3>2. CASE p[i] = Hash
      <4>1. i = n
        BY <1>1, <1>h, <3>2
      <4> QED
        BY <1>1, <2>2, <2>4, <3>1, <3>2, <4>1
    <3>3. CASE p[i] # Hash
      <4>1. cut[i] = i /\ Fits(p, t, i)
        <5>1. CASE i = n
          BY <1>0, <1>m, <1>1, <1>2, <2>4, <3>3, <5>1 DEF MatchesFrom
        <5>2. CASE i # n
          <6>1. i \in 1..(n - 1) /\ i \in 1..n /\ cut[i] = i
            BY <1>1, <2>1, <5>2
          <6> QED
            BY <1>0, <1>m, <1>1, <1>2, <6>1 DEF MatchesFrom
        <5> QED
          BY <5>1, <5>2
      <4> QED
        BY <1>1, <3>1, <3>3, <4>1 DEF Fits
    <3> QED
      BY <3>2, <3>3
  <2> QED
    BY <1>0, <1>m, <1>1, <1>h, <2>3, <2>4, <2>5 DEF Covers
<1>3. ASSUME Covers(p, t) PROVE MatchesFrom(p, t, 1)
  <2>1. PICK cut \in [0..n -> 0..m] :
          /\ cut[0] = 0 /\ cut[n] = m
          /\ \A i \in 1..n :
               IF p[i] = Hash THEN cut[i] >= cut[i - 1]
               ELSE cut[i] = cut[i - 1] + 1 /\ p[i] \in {Star, t[cut[i]]}
    BY <1>0, <1>m, <1>1, <1>h, <1>3 DEF Covers
  <2> DEFINE S == {j \in 0..(n - 1) : cut[j] = j}
  <2>2. 0..(n - 1) \subseteq S
    <3>1. 0 \in S /\ n - 1 \in Nat
      BY <1>1, <2>1
    <3>2. ASSUME NEW j \in 0..(n - 1), j < n - 1, j \in S PROVE j + 1 \in S
      <4>1. j + 1 \in 1..(n - 1) /\ j + 1 \in 1..n /\ (j + 1) - 1 = j /\ j + 1 \in 0..(n - 1)
        BY <1>1, <3>2
      <4>2. cut[j + 1] = j + 1
        BY <1>1, <1>h, <2>1, <3>2, <4>1
      <4> QED
        BY <4>1, <4>2
    <3> HIDE DEF S
    <3> QED
      BY <3>1, <3>2, UpTo
  <2>3. \A j \in 1..(n - 1) : Fits(p, t, j)
    <3> SUFFICES ASSUME NEW j \in 1..(n - 1) PROVE Fits(p, t, j)
      OBVIOUS
    <3>1. j \in 0..(n - 1) /\ j \in 1..n /\ p[j] # Hash
      BY <1>1, <1>h
    <3>2. cut[j] = j
      BY <2>2, <3>1
    <3> QED
      BY <2>1, <3>1, <3>2 DEF Fits
  <2>4. cut[n - 1] = n - 1 /\ n \in 1..n /\ n - 1 \in 0..n
    <3>1. n - 1 \in 0..(n - 1) /\ n \in 1..n /\ n - 1 \in 0..n
      BY <1>1
    <3> QED
      BY <2>2, <3>1
  <2>5. CASE p[n] = Hash
    <3>1. m >= n - 1
      BY <1>1, <2>1, <2>4, <2>5
    <3> QED
      BY <1>0, <1>m, <1>1, <2>3, <2>5, <3>1 DEF MatchesFrom
  <2>6. CASE p[n] # Hash
    <3>1. m = n /\ p[n] \in {Star, t[n]}
      BY <1>1, <2>1, <2>4, <2>6
    <3>2. \A j \in 1..n : j = n \/ j \in 1..(n - 1)
      BY <1>1
    <3> QED
      BY <1>0, <1>m, <1>1, <2>3, <2>6, <3>1, <3>2 DEF MatchesFrom, Fits
  <2> QED
    BY <2>5, <2>6
<1> QED
  BY <1>2, <1>3

\* matchTopicParts accepts a topic exactly when the topic can be cut into one
\* piece per segment of the pattern, for every valid pattern and every topic.
THEOREM MatcherCorrect ==
  ASSUME NEW p \in Seq(STRING), NEW t \in Seq(STRING), ValidPattern(p)
  PROVE  Matches(p, t) <=> Covers(p, t)
BY MatchesWalks, CoversWalks
-----------------------------------------------------------------------------
(* Sequences of calls and their numbers.                                    *)

Calls == Routes \cup SinkCalls

LEMMA KeysFacts ==
  ASSUME NEW s \in Seq(Calls)
  PROVE  /\ Keys(s) \in Seq(Nat) /\ Len(Keys(s)) = Len(s) /\ DOMAIN s = 1..Len(s)
         /\ \A k \in 1..Len(s) : s[k] \in Calls /\ Keys(s)[k] = s[k].key
<1>1. PICK n \in Nat : n = Len(s)
  OBVIOUS
<1>2. DOMAIN s = 1..n /\ \A k \in 1..n : s[k] \in Calls
  BY <1>1
<1>3. PICK K : K = [k \in 1..n |-> s[k].key]
  OBVIOUS
<1>4. \A k \in 1..n : s[k].key \in Nat
  BY <1>2 DEF Calls, Routes, SinkCalls, SinkKey
<1>5. K \in [1..n -> Nat]
  BY <1>3, <1>4
<1>6. K \in Seq(Nat) /\ Len(K) = n
  BY <1>1, <1>5
<1>7. Keys(s) = K
  BY <1>2, <1>3 DEF Keys
<1> QED
  BY <1>1, <1>2, <1>3, <1>6, <1>7

\* j is s1, of length a, followed by s2, of length b.
Joins(j, s1, s2, a, b) ==
  /\ j = s1 \o s2 /\ Len(j) = a + b
  /\ \A k \in 1..a : j[k] = s1[k]
  /\ \A k \in 1..b : j[a + k] = s2[k]

LEMMA Joined ==
  ASSUME NEW s1 \in Seq(Nat), NEW s2 \in Seq(Nat), NEW a \in Nat, NEW b \in Nat,
         Len(s1) = a, Len(s2) = b
  PROVE  \E j \in Seq(Nat) : Joins(j, s1, s2, a, b)
<1>1. PICK j : j = s1 \o s2
  OBVIOUS
<1>2. /\ j \in Seq(Nat) /\ Len(j) = a + b
      /\ \A k \in 1..(a + b) : j[k] = IF k <= a THEN s1[k] ELSE s2[k - a]
  BY <1>1, ConcatProperties
<1>3. ASSUME NEW k \in 1..a PROVE j[k] = s1[k]
  <2>1. k \in 1..(a + b) /\ k <= a
    OBVIOUS
  <2> QED
    BY <1>2, <2>1
<1>4. ASSUME NEW k \in 1..b PROVE j[a + k] = s2[k]
  <2>1. a + k \in 1..(a + b) /\ ~ (a + k <= a) /\ (a + k) - a = k
    OBVIOUS
  <2>2. j[a + k] = s2[(a + k) - a]
    BY <1>2, <2>1
  <2> QED
    BY <2>1, <2>2
<1> QED
  BY <1>1, <1>2, <1>3, <1>4 DEF Joins

\* An enqueue moves the number at the head of what is due to the end of what
\* has been called.
LEMMA SeenMoves ==
  ASSUME NEW called \in Seq(Nat), NEW due \in Seq(Calls), due # <<>>
  PROVE  /\ Head(due) \in Calls /\ Tail(due) \in Seq(Calls)
         /\ Append(called, Head(due).key) \o Keys(Tail(due)) = called \o Keys(due)
<1>1. /\ Len(due) \in Nat /\ Len(due) > 0 /\ Head(due) = due[1]
      /\ Tail(due) \in Seq(Calls) /\ Len(Tail(due)) = Len(due) - 1
      /\ \A k \in 1..(Len(due) - 1) : Tail(due)[k] = due[k + 1]
  OBVIOUS
<1>2. PICK d \in Nat : d = Len(due)
  BY <1>1
<1>3. PICK tail \in Seq(Calls) : tail = Tail(due)
  BY <1>1
<1>4. Len(tail) = d - 1 /\ d > 0 /\ \A k \in 1..(d - 1) : tail[k] = due[k + 1]
  BY <1>1, <1>2, <1>3
<1>5. PICK K \in Seq(Nat) : K = Keys(due)
  BY KeysFacts
<1>6. PICK L \in Seq(Nat) : L = Keys(tail)
  BY KeysFacts
<1>7. Len(K) = d /\ \A k \in 1..d : due[k] \in Calls /\ K[k] = due[k].key
  BY <1>2, <1>5, KeysFacts
<1>8. Len(L) = d - 1 /\ \A k \in 1..(d - 1) : L[k] = tail[k].key
  BY <1>4, <1>6, KeysFacts
<1>9. 1 \in 1..d /\ \A k \in 1..(d - 1) : k + 1 \in 1..d
  BY <1>4
<1>10. PICK c \in Nat : c = Len(called)
  OBVIOUS
<1>11. PICK key \in Nat : key = Head(due).key
  <2>1. Head(due).key = K[1] /\ K[1] \in Nat
    BY <1>1, <1>7, <1>9
  <2> QED
    BY <2>1
<1>12. PICK A \in Seq(Nat) : A = Append(called, key)
  <2>1. Append(called, key) \in Seq(Nat)
    BY AppendProperties
  <2> QED
    BY <2>1
<1>13. Len(A) = c + 1 /\ A[c + 1] = key /\ \A k \in 1..c : A[k] = called[k]
  BY <1>10, <1>12, AppendProperties
<1>14. K[1] = key /\ \A k \in 1..(d - 1) : L[k] = K[k + 1]
  BY <1>1, <1>4, <1>7, <1>8, <1>9, <1>11
<1>15. PICK AL \in Seq(Nat) : Joins(AL, A, L, c + 1, d - 1)
  <2>1. c + 1 \in Nat /\ d - 1 \in Nat /\ Len(A) = c + 1 /\ Len(L) = d - 1
    BY <1>4, <1>8, <1>13
  <2> QED
    BY <2>1, Joined
<1>16. PICK CK \in Seq(Nat) : Joins(CK, called, K, c, d)
  BY <1>7, <1>10, Joined
<1>20. Len(AL) = c + d /\ Len(CK) = c + d
  <2>1. (c + 1) + (d - 1) = c + d
    OBVIOUS
  <2> QED
    BY <1>15, <1>16, <2>1 DEF Joins
<1>17. ASSUME NEW k \in 1..(c + d) PROVE AL[k] = CK[k]
  <2>1. CASE k <= c
    <3>1. k \in 1..c /\ k \in 1..(c + 1)
      BY <2>1
    <3> QED
      BY <1>13, <1>15, <1>16, <3>1 DEF Joins
  <2>2. CASE k = c + 1
    <3>1. k \in 1..(c + 1) /\ 1 \in 1..d /\ c + 1 = k
      BY <1>9, <2>2
    <3> QED
      BY <1>13, <1>14, <1>15, <1>16, <3>1 DEF Joins
  <2>3. CASE k > c + 1
    <3>1. PICK i \in 1..(d - 1) : k = (c + 1) + i /\ i + 1 \in 1..d /\ k = c + (i + 1)
      <4>1. /\ k - (c + 1) \in 1..(d - 1) /\ k = (c + 1) + (k - (c + 1))
            /\ k = c + ((k - (c + 1)) + 1) /\ (k - (c + 1)) + 1 \in 1..d
        BY <2>3
      <4> QED
        BY <4>1
    <3>2. AL[k] = L[i] /\ CK[k] = K[i + 1]
      BY <1>15, <1>16, <3>1 DEF Joins
    <3> QED
      BY <1>14, <3>1, <3>2
  <2> QED
    BY <2>1, <2>2, <2>3
<1>18. AL = CK
  BY <1>17, <1>20, SeqEqual
<1>19. Head(due) \in Calls
  BY <1>1, <1>7, <1>9
<1> QED
  BY <1>1, <1>3, <1>5, <1>6, <1>11, <1>12, <1>15, <1>16, <1>18, <1>19 DEF Joins

\* The calls in q have different numbers.
Apart(q) == \A i, j \in 1..Len(q) : q[i].key = q[j].key => i = j

LEMMA OnceIsApart ==
  ASSUME NEW s \in Seq(Calls)
  PROVE  Once(Keys(s)) <=> Apart(s)
<1>1. PICK K \in Seq(Nat) : K = Keys(s)
  BY KeysFacts
<1>2. DOMAIN K = 1..Len(s) /\ \A k \in 1..Len(s) : K[k] = s[k].key
  BY <1>1, KeysFacts
<1> QED
  BY <1>1, <1>2 DEF Once, Apart

\* A filter keeps different numbers different.
LEMMA AmongApart ==
  ASSUME NEW s \in Seq(Calls), Apart(s), NEW S
  PROVE  Among(s, S) \in Seq(Calls) /\ Apart(Among(s, S))
<1>1. PICK n \in Nat : n = Len(s)
  OBVIOUS
<1>2. PICK g : /\ Among(s, S) = g[n] /\ g[0] = <<>>
               /\ \A k \in 1..n :
                    g[k] = IF s[k] \in S THEN Append(g[k - 1], s[k]) ELSE g[k - 1]
  BY <1>1, AmongUnfolds
<1>s. \A k \in 1..n : s[k] \in Calls
  BY <1>1
<1> DEFINE Below(k) == {s[m] : m \in 1..k}
           Filtered(k) == g[k] \in Seq(Calls) /\ Range(g[k]) \subseteq Below(k) /\ Apart(g[k])
           A == {k \in 0..n : Filtered(k)}
<1>3. Filtered(0)
  <2>1. g[0] = <<>> /\ <<>> \in Seq(Calls) /\ Len(<<>>) = 0
    BY <1>2
  <2>2. Range(<<>>) = {}
    BY DEF Range
  <2>3. Apart(<<>>)
    BY DEF Apart
  <2> QED
    BY <2>1, <2>2, <2>3
<1>4. ASSUME NEW k \in 0..n, k < n, Filtered(k) PROVE Filtered(k + 1)
  <2>1. k + 1 \in 1..n /\ (k + 1) - 1 = k /\ k \in Nat
    BY <1>4
  <2>2. g[k + 1] = IF s[k + 1] \in S THEN Append(g[k], s[k + 1]) ELSE g[k]
    BY <1>2, <2>1
  <2>3. Below(k + 1) = Below(k) \cup {s[k + 1]}
    <3>1. 1..(k + 1) = (1..k) \cup {k + 1}
      BY <2>1
    <3> QED
      BY <3>1
  <2>4. CASE s[k + 1] \in S
    <3>1. PICK x \in Calls : x = s[k + 1]
      BY <1>s, <2>1
    <3>2. PICK q \in Seq(Calls) : q = g[k]
      BY <1>4
    <3>3. PICK l \in Nat : l = Len(q)
      OBVIOUS
    <3>4. PICK r \in Seq(Calls) : r = Append(q, x)
      <4>1. Append(q, x) \in Seq(Calls)
        BY AppendProperties
      <4> QED
        BY <4>1
    <3>5. /\ Len(r) = l + 1 /\ r[l + 1] = x
          /\ \A i \in 1..l : r[i] = q[i]
      BY <3>3, <3>4, AppendProperties
    <3>6. Range(r) = Range(q) \cup {x}
      BY <3>4, AppendFacts
    <3>7. \A i \in 1..l : q[i].key # x.key
      <4> SUFFICES ASSUME NEW i \in 1..l, q[i].key = x.key PROVE FALSE
        OBVIOUS
      <4>1. q[i] \in Range(q)
        BY <3>3 DEF Range
      <4>2. PICK m \in 1..k : q[i] = s[m]
        BY <1>4, <3>2, <4>1
      <4>3. m \in 1..n /\ m # k + 1
        BY <2>1
      <4> QED
        BY <1>1, <2>1, <3>1, <4>2, <4>3 DEF Apart
    <3>8. \A i, j \in 1..l : q[i].key = q[j].key => i = j
      BY <1>4, <3>2, <3>3 DEF Apart
    <3>9. ASSUME NEW i \in 1..(l + 1), NEW j \in 1..(l + 1), r[i].key = r[j].key
          PROVE  i = j
      <4>1. (i \in 1..l \/ i = l + 1) /\ (j \in 1..l \/ j = l + 1)
        OBVIOUS
      <4> QED
        BY <3>5, <3>7, <3>8, <3>9, <4>1
    <3>10. Apart(r)
      BY <3>5, <3>9 DEF Apart
    <3>11. g[k + 1] = r
      BY <2>2, <2>4, <3>1, <3>2, <3>4
    <3> HIDE DEF Below
    <3> QED
      BY <1>4, <2>3, <3>1, <3>2, <3>6, <3>10, <3>11
  <2>5. CASE s[k + 1] \notin S
    <3> HIDE DEF Below
    <3> QED
      BY <1>4, <2>2, <2>3, <2>5
  <2> QED
    BY <2>4, <2>5
<1>5. 0..n \subseteq A
  <2>1. 0 \in A
    <3> HIDE DEF Filtered
    <3> QED
      BY <1>3
  <2>2. \A k \in 0..n : k < n /\ k \in A => k + 1 \in A
    <3> HIDE DEF Filtered
    <3> QED
      BY <1>4
  <2> HIDE DEF A
  <2> QED
    BY <2>1, <2>2, UpTo
<1>6. Filtered(n)
  <2> HIDE DEF Filtered
  <2> QED
    BY <1>5
<1> QED
  BY <1>2, <1>6
-----------------------------------------------------------------------------
(* One publish: a call, an answer, a return.                                *)

LEMMA KeyIsNew ==
  ASSUME NEW called \in Seq(Nat), NEW due \in Seq(Calls), due # <<>>,
         Once(called \o Keys(due))
  PROVE  Head(due).key \notin Range(called)
<1>1. PICK c \in Nat, d \in Nat : c = Len(called) /\ d = Len(due)
  OBVIOUS
<1>2. PICK K \in Seq(Nat) : K = Keys(due)
  BY KeysFacts
<1>3. d > 0 /\ Head(due) = due[1]
  BY <1>1
<1>4. 1 \in 1..d
  BY <1>3
<1>5. Len(K) = d /\ K[1] = Head(due).key
  BY <1>1, <1>2, <1>3, <1>4, KeysFacts
<1>6. PICK J \in Seq(Nat) : Joins(J, called, K, c, d)
  BY <1>1, <1>5, Joined
<1>7. Once(J) /\ DOMAIN J = 1..(c + d)
  <2>1. J = called \o Keys(due) /\ Len(J) = c + d
    BY <1>2, <1>6 DEF Joins
  <2> QED
    BY <2>1
<1> SUFFICES ASSUME Head(due).key \in Range(called) PROVE FALSE
  OBVIOUS
<1>8. PICK i \in 1..c : called[i] = Head(due).key
  <2>1. DOMAIN called = 1..c
    BY <1>1
  <2> QED
    BY <2>1 DEF Range
<1>9. J[i] = K[1] /\ J[c + 1] = K[1]
  BY <1>4, <1>5, <1>6, <1>8 DEF Joins
<1>10. i \in 1..(c + d) /\ c + 1 \in 1..(c + d) /\ i # c + 1
  BY <1>3
<1> QED
  BY <1>7, <1>9, <1>10 DEF Once

LEMMA CallKeeps ==
  ASSUME NEW P \in Publications, Accounted(P), P.due # <<>>,
         NEW took, NEW open, NEW errors, NEW key, key = Head(P.due).key,
         \/ took = P.took \cup {key} /\ open = P.open /\ errors = P.errors
         \/ took = P.took /\ open = P.open \cup {key} /\ errors = P.errors
         \/ took = P.took /\ open = P.open /\ errors = P.errors + 1,
         NEW Q,
         Q = [P EXCEPT !.due = Tail(P.due), !.called = Append(P.called, key),
                       !.took = took, !.open = open, !.errors = errors]
  PROVE  Q \in Publications /\ Accounted(Q)
<1>1. /\ P.due \in Seq(Calls) /\ P.called \in Seq(Nat) /\ P.errors \in Nat
      /\ P.took \subseteq Nat /\ P.open \subseteq Nat
  BY DEF Publications, Calls
<1>2. /\ Head(P.due) \in Calls /\ Tail(P.due) \in Seq(Calls) /\ key \in Nat
      /\ Append(P.called, key) \o Keys(Tail(P.due)) = P.called \o Keys(P.due)
  <2>1. /\ Head(P.due) \in Calls /\ Tail(P.due) \in Seq(Calls)
        /\ Append(P.called, key) \o Keys(Tail(P.due)) = P.called \o Keys(P.due)
    BY <1>1, SeenMoves
  <2>2. Head(P.due).key \in Nat
    BY <2>1 DEF Calls, Routes, SinkCalls, SinkKey
  <2> QED
    BY <2>1, <2>2
<1>3. PICK called \in Seq(Nat) : called = Append(P.called, key)
  <2>1. Append(P.called, key) \in Seq(Nat)
    BY <1>1, <1>2, AppendProperties
  <2> QED
    BY <2>1
<1>4. Len(called) = Len(P.called) + 1 /\ Range(called) = Range(P.called) \cup {key}
  <2>1. PICK before \in Seq(Nat) : before = P.called
    BY <1>1
  <2> QED
    BY <1>2, <1>3, <2>1, AppendFacts
<1>5. key \notin Range(P.called)
  BY <1>1, KeyIsNew DEF Accounted, Seen
<1>6. /\ took \subseteq Nat /\ open \subseteq Nat /\ errors \in Nat
      /\ took \cup open \subseteq Range(called) /\ took \cap open = {}
      /\ IsFiniteSet(took) /\ IsFiniteSet(open)
      /\ Len(called) = Cardinality(took) + Cardinality(open) + errors
  <2>1. /\ IsFiniteSet(P.took) /\ IsFiniteSet(P.open) /\ P.took \cap P.open = {}
        /\ P.took \cup P.open \subseteq Range(P.called)
        /\ Len(P.called) = Cardinality(P.took) + Cardinality(P.open) + P.errors
    BY DEF Accounted
  <2>2. key \notin P.took /\ key \notin P.open
    BY <1>5, <2>1
  <2>3. PICK a \in Nat, b \in Nat, e \in Nat :
          a = Cardinality(P.took) /\ b = Cardinality(P.open) /\ e = P.errors
    BY <1>1, <2>1, FS_CardinalityType
  <2>4. Len(called) = a + b + e + 1
    BY <1>4, <2>1, <2>3
  <2>5. /\ IsFiniteSet(P.took \cup {key}) /\ IsFiniteSet(P.open \cup {key})
        /\ Cardinality(P.took \cup {key}) = a + 1
        /\ Cardinality(P.open \cup {key}) = b + 1
    BY <2>1, <2>2, <2>3, FS_AddElement
  <2>6. /\ took \subseteq Nat /\ open \subseteq Nat
        /\ took \cup open \subseteq Range(called) /\ took \cap open = {}
        /\ IsFiniteSet(took) /\ IsFiniteSet(open)
    BY <1>1, <1>2, <1>4, <2>1, <2>2, <2>5
  <2>7. \/ Cardinality(took) = a + 1 /\ Cardinality(open) = b /\ errors = e
        \/ Cardinality(took) = a /\ Cardinality(open) = b + 1 /\ errors = e
        \/ Cardinality(took) = a /\ Cardinality(open) = b /\ errors = e + 1
    BY <2>3, <2>5
  <2>8. errors \in Nat /\ Len(called) = Cardinality(took) + Cardinality(open) + errors
    BY <2>4, <2>7
  <2> QED
    BY <2>6, <2>8
<1>7. PICK tail \in Seq(Calls) : tail = Tail(P.due)
  BY <1>2
<1>8. /\ Q.due = tail /\ Q.called = called /\ Q.took = took /\ Q.open = open
      /\ Q.errors = errors /\ Q.matched = P.matched /\ Q.owed = P.owed
      /\ Q.returned = P.returned /\ Q.form = P.form /\ Q.accepted = P.accepted
      /\ Q.rejected = P.rejected
  BY <1>3, <1>7 DEF Publications
<1>9. Q \in Publications
  BY <1>3, <1>6, <1>7 DEF Publications, Calls
<1>10. Seen(Q) = Seen(P)
  BY <1>2, <1>3, <1>7, <1>8 DEF Seen
<1>11. ~ P.returned
  BY DEF Accounted
<1>12. Accounted(Q)
  BY <1>6, <1>8, <1>10, <1>11 DEF Accounted
<1> QED
  BY <1>9, <1>12

LEMMA AnswerKeeps ==
  ASSUME NEW P \in Publications, Accounted(P),
         NEW key \in P.open, NEW took, NEW open, NEW errors, open = P.open \ {key},
         \/ took = P.took \cup {key} /\ errors = P.errors
         \/ took = P.took /\ errors = P.errors + 1,
         NEW Q,
         Q = [P EXCEPT !.open = open, !.took = took, !.errors = errors]
  PROVE  Q \in Publications /\ Accounted(Q)
<1>1. P.errors \in Nat /\ P.took \subseteq Nat /\ P.open \subseteq Nat
  BY DEF Publications
<1>2. /\ IsFiniteSet(P.took) /\ IsFiniteSet(P.open) /\ P.took \cap P.open = {}
      /\ P.took \cup P.open \subseteq Range(P.called)
      /\ Len(P.called) = Cardinality(P.took) + Cardinality(P.open) + P.errors
  BY DEF Accounted
<1>3. PICK a \in Nat, b \in Nat, e \in Nat :
        a = Cardinality(P.took) /\ b = Cardinality(P.open) /\ e = P.errors
  BY <1>1, <1>2, FS_CardinalityType
<1>4. key \notin P.took
  BY <1>2
<1>5. /\ IsFiniteSet(P.took \cup {key}) /\ Cardinality(P.took \cup {key}) = a + 1
  BY <1>2, <1>3, <1>4, FS_AddElement
<1>6. IsFiniteSet(open) /\ Cardinality(open) = b - 1
  BY <1>2, <1>3, FS_RemoveElement
<1>7. /\ took \subseteq Nat /\ open \subseteq Nat /\ IsFiniteSet(took)
      /\ took \cup open \subseteq Range(P.called) /\ took \cap open = {}
  BY <1>1, <1>2, <1>4, <1>5
<1>8. \/ Cardinality(took) = a + 1 /\ errors = e
      \/ Cardinality(took) = a /\ errors = e + 1
  BY <1>3, <1>5
<1>9. errors \in Nat /\ Len(P.called) = Cardinality(took) + Cardinality(open) + errors
  BY <1>2, <1>3, <1>6, <1>8
<1>10. /\ Q.open = open /\ Q.took = took /\ Q.errors = errors /\ Q.due = P.due
       /\ Q.called = P.called /\ Q.matched = P.matched /\ Q.owed = P.owed
       /\ Q.returned = P.returned /\ Q.form = P.form /\ Q.accepted = P.accepted
       /\ Q.rejected = P.rejected
  BY DEF Publications
<1>11. Q \in Publications
  BY <1>7, <1>9 DEF Publications
<1>12. Seen(Q) = Seen(P)
  BY <1>10 DEF Seen
<1>13. ~ (P.returned /\ P.form = "async")
  BY DEF Accounted
<1>14. Accounted(Q)
  BY <1>6, <1>7, <1>9, <1>10, <1>12, <1>13 DEF Accounted
<1> QED
  BY <1>11, <1>14

LEMMA ReturnSyncKeeps ==
  ASSUME NEW P \in Publications, Accounted(P), P.due = <<>>, P.form = "sync",
         NEW Q, Q = [P EXCEPT !.returned = TRUE]
  PROVE  Q \in Publications /\ Accounted(Q)
<1>1. /\ Q.open = P.open /\ Q.took = P.took /\ Q.errors = P.errors /\ Q.due = P.due
      /\ Q.called = P.called /\ Q.matched = P.matched /\ Q.owed = P.owed
      /\ Q.form = P.form
  BY DEF Publications
<1>2. Q \in Publications
  BY DEF Publications
<1>3. Seen(Q) = Seen(P)
  BY <1>1 DEF Seen
<1> QED
  BY <1>1, <1>2, <1>3 DEF Accounted

LEMMA ReturnAsyncKeeps ==
  ASSUME NEW P \in Publications, Accounted(P), P.due = <<>>, P.open = {},
         NEW accepted, accepted = Cardinality(P.took),
         NEW rejected, rejected = Len(P.called) - Cardinality(P.took),
         NEW Q, Q = [P EXCEPT !.returned = TRUE, !.accepted = accepted, !.rejected = rejected]
  PROVE  Q \in Publications /\ Accounted(Q)
<1>1. /\ Q.open = P.open /\ Q.took = P.took /\ Q.errors = P.errors /\ Q.due = P.due
      /\ Q.called = P.called /\ Q.matched = P.matched /\ Q.owed = P.owed
      /\ Q.form = P.form /\ Q.accepted = accepted /\ Q.rejected = rejected
  BY DEF Publications
<1>2. /\ IsFiniteSet(P.took)
      /\ Len(P.called) = Cardinality(P.took) + Cardinality(P.open) + P.errors
  BY DEF Accounted
<1>3. PICK a \in Nat, e \in Nat : a = Cardinality(P.took) /\ e = P.errors
  <2>1. P.errors \in Nat
    BY DEF Publications
  <2> QED
    BY <1>2, <2>1, FS_CardinalityType
<1>4. Cardinality(P.open) = 0
  BY FS_EmptySet
<1>5. accepted = a /\ rejected = e
  BY <1>2, <1>3, <1>4
<1>6. Q \in Publications
  BY <1>3, <1>5 DEF Publications
<1>7. Seen(Q) = Seen(P)
  BY <1>1 DEF Seen
<1> QED
  BY <1>1, <1>3, <1>5, <1>6, <1>7 DEF Accounted
-----------------------------------------------------------------------------
(* A new publish.                                                           *)

LEMMA NothingDue == Keys(<<>>) = <<>> /\ Once(<<>>) /\ Len(<<>>) = 0
<1>1. Keys(<<>>) = <<>>
  BY DEF Keys
<1>2. Once(<<>>)
  BY DEF Once
<1> QED
  BY <1>1, <1>2

LEMMA PublishKeeps ==
  ASSUME TypeOK, FanoutInvariant, NEW form \in {"sync", "async"}, NEW t \in Topics,
         ValidTopic(t), NEW Q,
         Q = [form |-> form, topic |-> t, due |-> ToCall(t), matched |-> Len(Matching(t)),
              open |-> {}, took |-> {}, errors |-> 0,
              returned |-> FALSE, accepted |-> 0, rejected |-> 0, called |-> <<>>,
              owed |-> Keys(Among(routes, {r \in Range(routes) : Covers(r.pattern, t)}))]
  PROVE  Q \in Publications /\ Accounted(Q)
<1>1. routes \in Seq(Routes) /\ unmatchedTarget \in Targets \cup {NoTarget}
  BY DEF TypeOK
<1>2. ASSUME NEW r \in Range(routes) PROVE Matches(r.pattern, t) <=> Covers(r.pattern, t)
  <2>1. r \in Routes
    BY <1>1 DEF Range
  <2>2. /\ r.pattern \in Patterns /\ ValidPattern(r.pattern)
    BY <2>1 DEF Routes
  <2>3. r.pattern \in Seq(STRING) /\ t \in Seq(STRING)
    BY <2>2, RouterAssumption
  <2> QED
    BY <2>2, <2>3, MatcherCorrect
<1>3. {r \in Range(routes) : Matches(r.pattern, t)}
      = {r \in Range(routes) : Covers(r.pattern, t)}
  BY <1>2
<1>4. PICK S : S = {r \in Range(routes) : Matches(r.pattern, t)}
  OBVIOUS
<1>5. PICK due \in Seq(Routes) : due = Matching(t)
  <2>1. Among(routes, S) \in Seq(Routes)
    BY <1>1, AmongFacts
  <2> QED
    BY <1>4, <2>1 DEF Matching
<1>6. due \in Seq(Calls) /\ routes \in Seq(Calls)
  BY <1>1 DEF Calls
<1>7. Apart(due)
  <2>1. Apart(routes)
    BY <1>6, OnceIsApart DEF FanoutInvariant
  <2>2. Apart(Among(routes, S))
    BY <1>6, <2>1, AmongApart
  <2> QED
    BY <1>4, <1>5, <2>2 DEF Matching
<1>8. PICK K \in Seq(Nat) : K = Keys(due)
  BY <1>6, KeysFacts
<1>9. Len(K) = Len(due) /\ Once(K)
  BY <1>6, <1>7, <1>8, KeysFacts, OnceIsApart
<1>10. Q.owed = K
  BY <1>3, <1>5, <1>8 DEF Matching
<1>11. PICK call \in Seq(Calls) : call = ToCall(t)
  <2>1. Sink \in Calls \/ unmatchedTarget = NoTarget
    BY <1>1 DEF Sink, Calls, SinkCalls
  <2>2. <<>> \in Seq(Calls) /\ (Sink \in Calls => <<Sink>> \in Seq(Calls))
    OBVIOUS
  <2> QED
    BY <1>5, <1>6, <2>1, <2>2 DEF ToCall
<1>12. Seen(Q) = Keys(call)
  <2>1. PICK L \in Seq(Nat) : L = Keys(call)
    BY KeysFacts
  <2>2. Q.called = <<>> /\ Q.due = call
    BY <1>11
  <2>3. <<>> \o L = L
    BY ConcatEmptySeq
  <2> QED
    BY <2>1, <2>2, <2>3 DEF Seen
<1>13. /\ Once(Seen(Q))
       /\ IF K # <<>> THEN Seen(Q) = K ELSE Seen(Q) \in {<<>>, <<SinkKey>>}
  <2>1. CASE due # <<>>
    <3>1. call = due
      BY <1>5, <1>11, <2>1 DEF ToCall
    <3>2. Len(due) # 0
      BY <2>1, EmptySeq
    <3>3. K # <<>>
      BY <1>9, <3>2, EmptySeq
    <3> QED
      BY <1>8, <1>9, <1>12, <3>1, <3>3
  <2>2. CASE due = <<>>
    <3>1. K = <<>>
      BY <1>8, <2>2, NothingDue
    <3>2. CASE unmatchedTarget = NoTarget
      <4>1. call = <<>>
        BY <1>5, <1>11, <2>2, <3>2 DEF ToCall
      <4> QED
        BY <1>12, <3>1, <4>1, NothingDue
    <3>3. CASE unmatchedTarget # NoTarget
      <4>1. call = <<Sink>>
        BY <1>5, <1>11, <2>2, <3>3 DEF ToCall
      <4>2. Keys(<<Sink>>) = <<SinkKey>>
        BY DEF Keys, Sink
      <4>3. Once(<<SinkKey>>)
        BY DEF Once
      <4> QED
        BY <1>12, <3>1, <4>1, <4>2, <4>3
    <3> QED
      BY <3>2, <3>3
  <2> QED
    BY <2>1, <2>2
<1>14. Q \in Publications
  <2>1. Len(Matching(t)) \in Nat
    BY <1>5
  <2>2. call \in Seq(Routes \cup SinkCalls)
    BY DEF Calls
  <2>3. <<>> \in Seq(Nat)
    OBVIOUS
  <2> QED
    BY <1>10, <1>11, <2>1, <2>2, <2>3 DEF Publications
<1>15. /\ Q.matched = Len(K) /\ Q.took = {} /\ Q.open = {} /\ Q.errors = 0
       /\ Q.called = <<>> /\ ~ Q.returned
  BY <1>5, <1>9
<1>16. IsFiniteSet({}) /\ Cardinality({}) = 0 /\ Len(<<>>) = 0
  BY FS_EmptySet
<1>17. Accounted(Q)
  BY <1>10, <1>13, <1>15, <1>16 DEF Accounted
<1> QED
  BY <1>14, <1>17
-----------------------------------------------------------------------------
(* Every step keeps the types, the bindings' numbers and the accounts.      *)

\* A step that changes one publish only.
LEMMA OnePublish ==
  ASSUME TypeOK, FanoutInvariant, NEW n \in DOMAIN pubs,
         NEW Q \in Publications, Accounted(Q), Q.topic = pubs[n].topic,
         pubs' = [pubs EXCEPT ![n] = Q],
         UNCHANGED <<routes, bindings, sinkVars>>
  PROVE  TypeOK' /\ FanoutInvariant'
<1>1. PICK l \in Nat : l = Len(pubs)
  BY DEF TypeOK
<1>2. DOMAIN pubs = 1..l /\ \A m \in 1..l : pubs[m] \in Publications
  BY <1>1 DEF TypeOK
<1>3. DOMAIN pubs' = 1..l /\ \A m \in 1..l : pubs'[m] = IF m = n THEN Q ELSE pubs[m]
  BY <1>2
<1>4. pubs' \in Seq(Publications)
  <2>1. pubs \in Seq(Publications) /\ n \in 1..Len(pubs)
    BY <1>1, <1>2 DEF TypeOK
  <2> QED
    BY <2>1, ExceptSeq
<1>5. \A m \in DOMAIN pubs' : ValidTopic(pubs'[m].topic) /\ Accounted(pubs'[m])
  BY <1>2, <1>3 DEF TypeOK, FanoutInvariant
<1>6. TypeOK'
  BY <1>4, <1>5 DEF TypeOK, sinkVars
<1>7. FanoutInvariant'
  BY <1>5 DEF FanoutInvariant
<1> QED
  BY <1>6, <1>7

\* The publishes stay as they are: what is left is about the bindings.
LEMMA OnlyBindings ==
  ASSUME TypeOK, FanoutInvariant, UNCHANGED pubs,
         routes' \in Seq(Routes), bindings' \in Nat,
         unmatchedTarget' \in Targets \cup {NoTarget},
         unmatchedTotal' \in Nat, lastUnmatched' \in Nat, sinkChanges' \in Nat,
         Once(Keys(routes')), \A r \in Range(routes') : r.key <= bindings'
  PROVE  TypeOK' /\ FanoutInvariant'
<1>1. TypeOK'
  BY DEF TypeOK
<1>2. FanoutInvariant'
  BY DEF FanoutInvariant
<1> QED
  BY <1>1, <1>2

LEMMA BindKeeps ==
  ASSUME TypeOK, FanoutInvariant, NEW p \in Patterns, NEW q \in Targets, Bind(p, q)
  PROVE  TypeOK' /\ FanoutInvariant'
<1>1. /\ routes \in Seq(Routes) /\ bindings \in Nat /\ ValidPattern(p)
      /\ bindings' = bindings + 1 /\ UNCHANGED <<pubs, sinkVars>>
  BY DEF TypeOK, Bind
<1>2. PICK x \in Routes : x = [key |-> bindings + 1, pattern |-> p, target |-> q]
  <2>1. bindings + 1 \in Nat \ {0}
    BY <1>1
  <2> QED
    BY <1>1, <2>1 DEF Routes
<1>3. routes' = Append(routes, x)
  BY <1>2 DEF Bind
<1>4. routes' \in Seq(Routes) /\ Range(routes') = Range(routes) \cup {x}
  BY <1>1, <1>3, AppendFacts
<1>5. \A r \in Range(routes) : r.key <= bindings
  BY DEF FanoutInvariant
<1>6. \A r \in Range(routes') : r.key <= bindings'
  <2>1. x.key <= bindings'
    BY <1>1, <1>2
  <2>2. \A r \in Range(routes) : r.key \in Nat
    <3>1. \A r \in Range(routes) : r \in Routes
      BY <1>1 DEF Range
    <3> QED
      BY <3>1 DEF Routes
  <2>3. \A r \in Range(routes) : r.key <= bindings'
    BY <1>1, <1>5, <2>2
  <2> QED
    BY <1>4, <2>1, <2>3
<1>7. Once(Keys(routes'))
  <2>1. routes \in Seq(Calls) /\ routes' \in Seq(Calls)
    BY <1>1, <1>4 DEF Calls
  <2>2. Apart(routes)
    BY <2>1, OnceIsApart DEF FanoutInvariant
  <2>3. PICK l \in Nat : l = Len(routes)
    BY <1>1
  <2>4. /\ Len(routes') = l + 1 /\ routes'[l + 1] = x
        /\ \A i \in 1..l : routes'[i] = routes[i]
    BY <1>1, <1>3, <2>3, AppendProperties
  <2>5. \A i \in 1..l : routes[i].key # x.key
    <3> SUFFICES ASSUME NEW i \in 1..l PROVE routes[i].key # x.key
      OBVIOUS
    <3>1. routes[i] \in Range(routes) /\ routes[i] \in Routes
      BY <1>1, <2>3 DEF Range
    <3>2. routes[i].key \in Nat /\ routes[i].key <= bindings
      BY <1>5, <3>1 DEF Routes
    <3> QED
      BY <1>1, <1>2, <3>2
  <2>6. ASSUME NEW i \in 1..(l + 1), NEW j \in 1..(l + 1), routes'[i].key = routes'[j].key
        PROVE  i = j
    <3>1. (i \in 1..l \/ i = l + 1) /\ (j \in 1..l \/ j = l + 1)
      OBVIOUS
    <3>2. \A a, b \in 1..l : routes[a].key = routes[b].key => a = b
      BY <2>2, <2>3 DEF Apart
    <3> QED
      BY <2>4, <2>5, <2>6, <3>1, <3>2
  <2>7. Apart(routes')
    BY <2>4, <2>6 DEF Apart
  <2> QED
    BY <2>1, <2>7, OnceIsApart
<1> QED
  BY <1>1, <1>4, <1>6, <1>7, OnlyBindings DEF TypeOK, sinkVars

LEMMA UnbindKeeps ==
  ASSUME TypeOK, FanoutInvariant, NEW p \in Patterns, NEW q \in Targets \cup {NoTarget},
         Unbind(p, q)
  PROVE  TypeOK' /\ FanoutInvariant'
<1>1. routes \in Seq(Routes) /\ UNCHANGED <<bindings, pubs, sinkVars>>
  BY DEF TypeOK, Unbind
<1>2. PICK S : routes' = Among(routes, S)
  BY DEF Unbind
<1>3. routes' \in Seq(Routes) /\ Range(routes') \subseteq Range(routes)
  BY <1>1, <1>2, AmongFacts
<1>4. Once(Keys(routes'))
  <2>1. routes \in Seq(Calls) /\ routes' \in Seq(Calls)
    BY <1>1, <1>3 DEF Calls
  <2>2. Apart(routes)
    BY <2>1, OnceIsApart DEF FanoutInvariant
  <2> QED
    BY <1>2, <2>1, <2>2, AmongApart, OnceIsApart
<1>5. \A r \in Range(routes') : r.key <= bindings'
  BY <1>1, <1>3 DEF FanoutInvariant
<1> QED
  BY <1>1, <1>3, <1>4, <1>5, OnlyBindings DEF TypeOK, sinkVars

LEMMA ClearKeeps ==
  ASSUME TypeOK, FanoutInvariant, Clear
  PROVE  TypeOK' /\ FanoutInvariant'
<1>1. routes' = <<>> /\ UNCHANGED <<bindings, pubs, sinkVars>>
  BY DEF Clear
<1>2. routes' \in Seq(Routes) /\ Once(Keys(routes'))
  BY <1>1, NothingDue
<1>3. Range(routes') = {}
  BY <1>1 DEF Range
<1> QED
  BY <1>1, <1>2, <1>3, OnlyBindings DEF TypeOK, sinkVars

LEMMA SinkKeeps ==
  ASSUME TypeOK, FanoutInvariant,
         ClearUnmatched \/ \E q \in Targets \cup {NoTarget} : SetUnmatchedTarget(q)
  PROVE  TypeOK' /\ FanoutInvariant'
<1>1. /\ UNCHANGED <<routes, bindings, pubs>> /\ sinkChanges' = sinkChanges + 1
      /\ unmatchedTarget' \in Targets \cup {NoTarget}
      /\ unmatchedTotal' \in Nat /\ lastUnmatched' \in Nat
  BY DEF ClearUnmatched, SetUnmatchedTarget, TypeOK
<1>2. /\ routes' \in Seq(Routes) /\ bindings' \in Nat /\ sinkChanges' \in Nat
  BY <1>1 DEF TypeOK
<1>3. Once(Keys(routes')) /\ \A r \in Range(routes') : r.key <= bindings'
  BY <1>1 DEF FanoutInvariant
<1> QED
  BY <1>1, <1>2, <1>3, OnlyBindings

LEMMA PublishStep ==
  ASSUME TypeOK, FanoutInvariant, NEW form \in {"sync", "async"}, NEW t \in Topics,
         Publish(form, t)
  PROVE  TypeOK' /\ FanoutInvariant'
<1>1. PICK Q :
        Q = [form |-> form, topic |-> t, due |-> ToCall(t), matched |-> Len(Matching(t)),
             open |-> {}, took |-> {}, errors |-> 0,
             returned |-> FALSE, accepted |-> 0, rejected |-> 0, called |-> <<>>,
             owed |-> Keys(Among(routes, {r \in Range(routes) : Covers(r.pattern, t)}))]
  OBVIOUS
<1>2. /\ pubs' = Append(pubs, Q) /\ ValidTopic(t)
      /\ UNCHANGED <<routes, bindings, unmatchedTarget, sinkChanges>>
  BY <1>1 DEF Publish
<1>3. Q \in Publications /\ Accounted(Q)
  BY <1>1, <1>2, PublishKeeps
<1>4. Q.topic = t
  BY <1>1
<1>5. PICK l \in Nat : l = Len(pubs)
  BY DEF TypeOK
<1>6. /\ pubs' \in Seq(Publications) /\ Len(pubs') = l + 1 /\ pubs'[l + 1] = Q
      /\ \A i \in 1..l : pubs'[i] = pubs[i]
  BY <1>2, <1>3, <1>5, AppendProperties DEF TypeOK
<1>7. \A m \in DOMAIN pubs' : ValidTopic(pubs'[m].topic) /\ Accounted(pubs'[m])
  <2> SUFFICES ASSUME NEW m \in 1..(l + 1)
               PROVE  ValidTopic(pubs'[m].topic) /\ Accounted(pubs'[m])
    BY <1>6
  <2>1. m \in 1..l \/ m = l + 1
    OBVIOUS
  <2>2. \A i \in 1..l : ValidTopic(pubs[i].topic) /\ Accounted(pubs[i])
    <3>1. DOMAIN pubs = 1..l
      BY <1>5 DEF TypeOK
    <3> QED
      BY <3>1 DEF TypeOK, FanoutInvariant
  <2> QED
    BY <1>2, <1>3, <1>4, <1>6, <2>1, <2>2
<1>8. unmatchedTotal' \in Nat /\ lastUnmatched' \in Nat
  <2>1. /\ unmatchedTotal' \in {unmatchedTotal, unmatchedTotal + 1}
        /\ lastUnmatched' \in {lastUnmatched, l + 1}
    BY <1>5 DEF Publish
  <2> QED
    BY <2>1 DEF TypeOK
<1>9. TypeOK'
  BY <1>2, <1>6, <1>7, <1>8 DEF TypeOK
<1>10. FanoutInvariant'
  BY <1>2, <1>7 DEF FanoutInvariant
<1> QED
  BY <1>9, <1>10

LEMMA CallStep ==
  ASSUME TypeOK, FanoutInvariant, NEW n \in DOMAIN pubs, CallTarget(n)
  PROVE  TypeOK' /\ FanoutInvariant'
<1>1. PICK P \in Publications : P = pubs[n]
  BY DEF TypeOK
<1>2. Accounted(P) /\ P.due # <<>>
  BY <1>1 DEF FanoutInvariant, CallTarget, Calling
<1>3. PICK key : key = Head(P.due).key
  OBVIOUS
<1>4. PICK reply \in {"took", "promise", "throws"} :
        pubs' = [pubs EXCEPT
         ![n].due = Tail(@),
         ![n].called = Append(@, key),
         ![n].took = IF reply = "took" THEN @ \cup {key} ELSE @,
         ![n].open = IF reply = "promise" THEN @ \cup {key} ELSE @,
         ![n].errors = IF reply = "throws" THEN @ + 1 ELSE @]
  BY <1>1, <1>3 DEF CallTarget
<1>5. PICK took, open, errors :
        /\ took = IF reply = "took" THEN P.took \cup {key} ELSE P.took
        /\ open = IF reply = "promise" THEN P.open \cup {key} ELSE P.open
        /\ errors = IF reply = "throws" THEN P.errors + 1 ELSE P.errors
  OBVIOUS
<1>6. PICK Q :
        Q = [P EXCEPT !.due = Tail(P.due), !.called = Append(P.called, key),
                      !.took = took, !.open = open, !.errors = errors]
  OBVIOUS
<1>7. Q \in Publications /\ Accounted(Q)
  <2>1. \/ took = P.took \cup {key} /\ open = P.open /\ errors = P.errors
        \/ took = P.took /\ open = P.open \cup {key} /\ errors = P.errors
        \/ took = P.took /\ open = P.open /\ errors = P.errors + 1
    BY <1>5
  <2> QED
    BY <1>2, <1>3, <1>6, <2>1, CallKeeps
<1>8. Q.topic = P.topic
  BY <1>6 DEF Publications
<1>9. pubs' = [pubs EXCEPT ![n] = Q]
  BY <1>1, <1>4, <1>5, <1>6 DEF Publications
<1>10. UNCHANGED <<routes, bindings, sinkVars>>
  BY DEF CallTarget
<1> QED
  BY <1>1, <1>7, <1>8, <1>9, <1>10, OnePublish

LEMMA AnswerStep ==
  ASSUME TypeOK, FanoutInvariant, NEW n \in DOMAIN pubs, TargetAnswers(n)
  PROVE  TypeOK' /\ FanoutInvariant'
<1>1. PICK P \in Publications : P = pubs[n]
  BY DEF TypeOK
<1>2. Accounted(P)
  BY <1>1 DEF FanoutInvariant
<1>3. PICK key \in P.open, ok \in BOOLEAN :
        pubs' = [pubs EXCEPT
         ![n].open = @ \ {key},
         ![n].took = IF ok THEN @ \cup {key} ELSE @,
         ![n].errors = IF ok THEN @ ELSE @ + 1]
  BY <1>1 DEF TargetAnswers
<1>4. PICK took, open, errors :
        /\ open = P.open \ {key}
        /\ took = IF ok THEN P.took \cup {key} ELSE P.took
        /\ errors = IF ok THEN P.errors ELSE P.errors + 1
  OBVIOUS
<1>5. PICK Q : Q = [P EXCEPT !.open = open, !.took = took, !.errors = errors]
  OBVIOUS
<1>6. Q \in Publications /\ Accounted(Q)
  <2>1. \/ took = P.took \cup {key} /\ errors = P.errors
        \/ took = P.took /\ errors = P.errors + 1
    BY <1>4
  <2> QED
    BY <1>2, <1>4, <1>5, <2>1, AnswerKeeps
<1>7. Q.topic = P.topic
  BY <1>5 DEF Publications
<1>8. pubs' = [pubs EXCEPT ![n] = Q]
  BY <1>1, <1>3, <1>4, <1>5 DEF Publications
<1>9. UNCHANGED <<routes, bindings, sinkVars>>
  BY DEF TargetAnswers
<1> QED
  BY <1>1, <1>6, <1>7, <1>8, <1>9, OnePublish

LEMMA ReturnStep ==
  ASSUME TypeOK, FanoutInvariant, NEW n \in DOMAIN pubs, ReturnSync(n) \/ ReturnAsync(n)
  PROVE  TypeOK' /\ FanoutInvariant'
<1>1. PICK P \in Publications : P = pubs[n]
  BY DEF TypeOK
<1>2. Accounted(P)
  BY <1>1 DEF FanoutInvariant
<1>3. UNCHANGED <<routes, bindings, sinkVars>>
  BY DEF ReturnSync, ReturnAsync
<1>4. CASE ReturnSync(n)
  <2>1. /\ P.due = <<>> /\ P.form = "sync"
        /\ pubs' = [pubs EXCEPT ![n].returned = TRUE]
    BY <1>1, <1>4 DEF ReturnSync
  <2>2. PICK Q : Q = [P EXCEPT !.returned = TRUE]
    OBVIOUS
  <2>3. Q \in Publications /\ Accounted(Q)
    BY <1>2, <2>1, <2>2, ReturnSyncKeeps
  <2>4. Q.topic = P.topic
    BY <2>2 DEF Publications
  <2>5. pubs' = [pubs EXCEPT ![n] = Q]
    BY <1>1, <2>1, <2>2 DEF Publications
  <2> QED
    BY <1>1, <1>3, <2>3, <2>4, <2>5, OnePublish
<1>5. CASE ReturnAsync(n)
  <2>1. PICK accepted, rejected :
          accepted = Cardinality(P.took) /\ rejected = Len(P.called) - Cardinality(P.took)
    OBVIOUS
  <2>2. /\ P.due = <<>> /\ P.open = {}
        /\ pubs' = [pubs EXCEPT ![n].returned = TRUE, ![n].accepted = accepted,
                                ![n].rejected = rejected]
    BY <1>1, <1>5, <2>1 DEF ReturnAsync, NobodyCalls, Answered
  <2>3. PICK Q : Q = [P EXCEPT !.returned = TRUE, !.accepted = accepted, !.rejected = rejected]
    OBVIOUS
  <2>4. Q \in Publications /\ Accounted(Q)
    BY <1>2, <2>1, <2>2, <2>3, ReturnAsyncKeeps
  <2>5. Q.topic = P.topic
    BY <2>3 DEF Publications
  <2>6. pubs' = [pubs EXCEPT ![n] = Q]
    BY <1>1, <2>2, <2>3 DEF Publications
  <2> QED
    BY <1>1, <1>3, <2>4, <2>5, <2>6, OnePublish
<1> QED
  BY <1>4, <1>5

LEMMA FanoutInductive == Spec => [](TypeOK /\ FanoutInvariant)
<1>1. Init => TypeOK /\ FanoutInvariant
  <2> SUFFICES ASSUME Init PROVE TypeOK /\ FanoutInvariant
    OBVIOUS
  <2>1. TypeOK
    BY DEF Init, TypeOK
  <2>2. Once(Keys(routes))
    BY NothingDue DEF Init
  <2>3. Range(routes) = {} /\ DOMAIN pubs = {}
    BY DEF Init, Range
  <2> QED
    BY <2>1, <2>2, <2>3 DEF FanoutInvariant
<1>2. TypeOK /\ FanoutInvariant /\ [Next]_vars => TypeOK' /\ FanoutInvariant'
  <2> SUFFICES ASSUME TypeOK, FanoutInvariant, [Next]_vars
               PROVE  TypeOK' /\ FanoutInvariant'
    OBVIOUS
  <2>1. ASSUME NEW p \in Patterns, NEW q \in Targets, Bind(p, q)
        PROVE  TypeOK' /\ FanoutInvariant'
    BY <2>1, BindKeeps
  <2>2. ASSUME NEW p \in Patterns, NEW q \in Targets \cup {NoTarget}, Unbind(p, q)
        PROVE  TypeOK' /\ FanoutInvariant'
    BY <2>2, UnbindKeeps
  <2>3. CASE Clear
    BY <2>3, ClearKeeps
  <2>4. CASE ClearUnmatched \/ \E q \in Targets \cup {NoTarget} : SetUnmatchedTarget(q)
    BY <2>4, SinkKeeps
  <2>5. ASSUME NEW form \in {"sync", "async"}, NEW t \in Topics, Publish(form, t)
        PROVE  TypeOK' /\ FanoutInvariant'
    BY <2>5, PublishStep
  <2>6. ASSUME NEW n \in DOMAIN pubs, CallTarget(n) PROVE TypeOK' /\ FanoutInvariant'
    BY <2>6, CallStep
  <2>7. ASSUME NEW n \in DOMAIN pubs, TargetAnswers(n) PROVE TypeOK' /\ FanoutInvariant'
    BY <2>7, AnswerStep
  <2>8. ASSUME NEW n \in DOMAIN pubs, ReturnSync(n) \/ ReturnAsync(n)
        PROVE  TypeOK' /\ FanoutInvariant'
    BY <2>8, ReturnStep
  <2>9. CASE UNCHANGED vars
    <3>1. TypeOK'
      BY <2>9 DEF vars, sinkVars, TypeOK
    <3>2. FanoutInvariant'
      BY <2>9 DEF vars, FanoutInvariant
    <3> QED
      BY <3>1, <3>2
  <2> QED
    BY <2>1, <2>2, <2>3, <2>4, <2>5, <2>6, <2>7, <2>8, <2>9 DEF Next
<1> QED
  BY <1>1, <1>2, PTL DEF Spec

\* The state the router and its publishes keep has its type: only valid
\* patterns are bound, and the report of a publish never counts below zero.
THEOREM TypeCorrect == Spec => []TypeOK
BY FanoutInductive, PTL

\* For any number of bindings and nested publishes, a message goes once, in
\* bind order, to each binding whose pattern covered its topic when it was
\* published, and to the sink only when there was none.
THEOREM MessagesGoOnce == Spec => []EachBindingOnce
<1>1. TypeOK /\ FanoutInvariant => EachBindingOnce
  BY DEF FanoutInvariant, Accounted, EachBindingOnce, Seen
<1> QED
  BY <1>1, FanoutInductive, PTL

\* What publishAsync reports is what became of the enqueues, for any number of
\* targets: each has answered, was counted once, and was accepted or announced.
THEOREM ReportsAreFinal == Spec => []ReportIsFinal
<1>1. TypeOK /\ FanoutInvariant => ReportIsFinal
  BY DEF FanoutInvariant, Accounted, ReportIsFinal
<1> QED
  BY <1>1, FanoutInductive, PTL
-----------------------------------------------------------------------------
(* SystemConfig.                                                            *)

\* What makes WorkersWaitForEveryQueue inductive: a build that hydrates lists
\* every durable queue as loading before it waits for them, forgets none that
\* fails, and runs no worker until it is ready.
BuildInvariant ==
    /\ DOMAIN built \subseteq DOMAIN config.queues
    /\ phase \in {"router", "hydrating", "ready"} => DOMAIN built = DOMAIN config.queues
    /\ Hydrates =>
           /\ phase # "ready" => running = {}
           /\ phase = "hydrating" =>
                  \A q \in DOMAIN config.queues : Persisted(q) => q \in loading \cup loaded
           /\ phase = "ready" => \A q \in DOMAIN config.queues : Persisted(q) => q \in loaded

LEMMA BuildStarts == ConfigInit => BuildInvariant
BY DEF ConfigInit, BuildInvariant

\* The steps before the hydration start nothing while it is to come.
LEMMA BuildingKeeps ==
    ASSUME BuildInvariant,
           \/ Validate \/ ResolveStores \/ ApplyDlqLayers
           \/ \E q \in DOMAIN config.queues : BuildQueue(q)
    PROVE  BuildInvariant'
<1>1. CASE Validate
  BY <1>1 DEF BuildInvariant, Validate, Proceed, Throw, Hydrates, Persisted, Of
<1>2. CASE ResolveStores
  BY <1>2 DEF BuildInvariant, ResolveStores, Proceed, Throw, Hydrates, Persisted, Of
<1>3. CASE ApplyDlqLayers
  BY <1>3 DEF BuildInvariant, ApplyDlqLayers, Proceed, Throw, Hydrates, Persisted, Of
<1>4. ASSUME NEW q \in DOMAIN config.queues, BuildQueue(q)
      PROVE  BuildInvariant'
  <2>1. DOMAIN built' \subseteq DOMAIN config.queues
    BY <1>4 DEF BuildQueue, BuildInvariant
  <2>2. Hydrates => running' = running
    BY <1>4 DEF BuildQueue, StartsAtOnce
  <2>3. phase = "queues" /\ phase' \in {"queues", "failed"} /\ config' = config
    BY <1>4 DEF BuildQueue, Throw
  <2> QED
    BY <2>1, <2>2, <2>3 DEF BuildInvariant, Hydrates, Persisted, Of
<1> QED
  BY <1>1, <1>2, <1>3, <1>4

\* The steps of and after the hydration.
LEMMA HydrationKeeps ==
    ASSUME BuildInvariant,
           \/ BuildRouter \/ StartAutoWorkers \/ HydrateAll
           \/ \E q \in DOMAIN config.queues : Hydrated(q) \/ HydrateFails(q) \/ StartByHand(q)
    PROVE  BuildInvariant'
<1>1. CASE BuildRouter
  BY <1>1 DEF BuildInvariant, BuildRouter, Proceed, Throw, Hydrates, Persisted, Of
<1>2. CASE StartAutoWorkers
  BY <1>2 DEF BuildInvariant, StartAutoWorkers, Hydrates, Persisted, Of
<1>3. CASE HydrateAll
  BY <1>3 DEF BuildInvariant, HydrateAll, Hydrates, Persisted, Of
<1>4. ASSUME NEW q \in DOMAIN config.queues, Hydrated(q)
      PROVE  BuildInvariant'
  BY <1>4 DEF BuildInvariant, Hydrated, Hydrates, Persisted, Of
<1>5. ASSUME NEW q \in DOMAIN config.queues, HydrateFails(q)
      PROVE  BuildInvariant'
  BY <1>5 DEF BuildInvariant, HydrateFails, Throw, Hydrates, Persisted, Of
<1>6. ASSUME NEW q \in DOMAIN config.queues, StartByHand(q)
      PROVE  BuildInvariant'
  BY <1>6 DEF BuildInvariant, StartByHand, Hydrates, Persisted, Of
<1> QED
  BY <1>1, <1>2, <1>3, <1>4, <1>5, <1>6

(* For every set of configurations, whatever they hold and however their   *)
(* loads end: where the build hydrates, no worker runs before every        *)
(* durable queue has its rows (buildFromConfig).                           *)
THEOREM HydratedBeforeWork == ConfigSpec => []WorkersWaitForEveryQueue
<1>1. BuildInvariant /\ [ConfigNext]_configVars => BuildInvariant'
  <2> SUFFICES ASSUME BuildInvariant, [ConfigNext]_configVars PROVE BuildInvariant'
    OBVIOUS
  <2>1. CASE ConfigNext
    BY <2>1, BuildingKeeps, HydrationKeeps
       DEF ConfigNext, Done, configVars, BuildInvariant, Hydrates, Persisted, Of
  <2>2. CASE UNCHANGED configVars
    BY <2>2 DEF configVars, BuildInvariant, Hydrates, Persisted, Of
  <2> QED
    BY <2>1, <2>2
<1>2. BuildInvariant => WorkersWaitForEveryQueue
  BY DEF BuildInvariant, WorkersWaitForEveryQueue
<1> QED
  BY <1>1, <1>2, BuildStarts, PTL DEF ConfigSpec

-----------------------------------------------------------------------------
(* Checks in sequence.                                                     *)

LEMMA FirstOfNone ==
    ASSUME NEW c, DOMAIN c \subseteq Nat, FirstOf(c) = "none"
    PROVE  \A i \in DOMAIN c : c[i] = "none"
<1> DEFINE bad == {i \in DOMAIN c : c[i] # "none"}
<1> SUFFICES ASSUME bad # {} PROVE FALSE
  OBVIOUS
<1>1. \E i \in bad : \A j \in bad : i <= j
  BY Least
<1>2. (CHOOSE i \in bad : \A j \in bad : i <= j) \in bad
  BY <1>1
<1> QED
  BY <1>2 DEF FirstOf

LEMMA FirstOfSome ==
    ASSUME NEW c, DOMAIN c \subseteq Nat, FirstOf(c) # "none"
    PROVE  \E i \in DOMAIN c : c[i] = FirstOf(c)
<1> DEFINE bad == {i \in DOMAIN c : c[i] # "none"}
           least == CHOOSE i \in bad : \A j \in bad : i <= j
<1>1. bad # {}
  BY DEF FirstOf
<1>2. \E i \in bad : \A j \in bad : i <= j
  BY <1>1, Least
<1>3. least \in bad
  BY <1>2
<1>4. FirstOf(c) = c[least]
  BY <1>1 DEF FirstOf
<1>5. least \in DOMAIN c
  BY <1>3
<1> HIDE DEF least
<1> QED
  BY <1>4, <1>5

-----------------------------------------------------------------------------
(* What a configuration the validator accepts cannot hold.                 *)

\* Every check of the whole configuration has passed.
LEMMA EveryCheckPassed ==
    ASSUME config \in Configs, Complaint(TRUE) = "none"
    PROVE  /\ FirstOf([i \in DOMAIN StoreNames |->
                  IF StoreNames[i] \in DOMAIN config.stores
                  THEN StoreComplaint(StoreNames[i], TRUE) ELSE "none"]) = "none"
           /\ ~DuplicateKey
           /\ FirstOf([i \in DOMAIN Names |->
                  IF Names[i] \in DOMAIN config.queues
                  THEN QueueComplaint(Names[i], TRUE) ELSE "none"]) = "none"
           /\ ~SharedStore
           /\ FirstOf([i \in DOMAIN config.router.bindings |->
                  Check(~Known(config.router.bindings[i].queue), "UNKNOWN_QUEUE")]) = "none"
           /\ config.router.unmatched = "none" \/ Known(config.router.unmatched)
           /\ FirstOf([i \in DOMAIN Names |->
                  IF Names[i] \in DOMAIN config.queues THEN DlqComplaint(Names[i]) ELSE "none"])
                = "none"
<1> DEFINE r == config.router
           stores == FirstOf([i \in DOMAIN StoreNames |->
               IF StoreNames[i] \in DOMAIN config.stores
               THEN StoreComplaint(StoreNames[i], TRUE) ELSE "none"])
           queues == FirstOf([i \in DOMAIN Names |->
               IF Names[i] \in DOMAIN config.queues
               THEN QueueComplaint(Names[i], TRUE) ELSE "none"])
           patterns == FirstOf([i \in DOMAIN r.bindings |->
               Check(r.bindings[i].pattern = "bad", "INVALID_TYPE")])
           targets == FirstOf([i \in DOMAIN r.bindings |->
               Check(~Known(r.bindings[i].queue), "UNKNOWN_QUEUE")])
           dlqs == FirstOf([i \in DOMAIN Names |->
               IF Names[i] \in DOMAIN config.queues THEN DlqComplaint(Names[i]) ELSE "none"])
           empty == Check(DOMAIN config.queues = {}, "EMPTY_QUEUES")
           hydrate == Check(config.hydrate = "bad", "INVALID_TYPE")
           unused == Check(UnusedStore, "UNUSED_STORE")
           key == Check(DuplicateKey, "DUPLICATE_STORAGE_KEY")
           shared == Check(SharedStore, "SHARED_STORE")
           sink == Check(r.unmatched # "none" /\ ~Known(r.unmatched), "UNKNOWN_QUEUE")
           checks == <<empty, stores, key, queues, shared, unused, patterns, hydrate,
                       targets, sink, dlqs>>
<1>1. FirstOf(checks) = "none"
  BY DEF Complaint
<1>2. \A i \in DOMAIN checks : checks[i] = "none"
  <2> HIDE DEF empty, stores, key, queues, shared, unused, patterns, hydrate, targets, sink, dlqs
  <2>1. DOMAIN checks \subseteq Nat
    OBVIOUS
  <2> HIDE DEF checks
  <2> QED
    BY <1>1, <2>1, FirstOfNone
<1>3. /\ stores = "none" /\ key = "none" /\ queues = "none" /\ shared = "none"
      /\ targets = "none" /\ sink = "none" /\ dlqs = "none"
  <2> HIDE DEF empty, stores, key, queues, shared, unused, patterns, hydrate, targets, sink, dlqs
  <2> QED
    BY <1>2
<1> QED
  BY <1>3 DEF Check

\* Store by store, queue by queue and binding by binding.
LEMMA AcceptedMeans ==
    ASSUME config \in Configs, Complaint(TRUE) = "none"
    PROVE  /\ \A s \in DOMAIN config.stores : StoreComplaint(s, TRUE) = "none"
           /\ \A q \in DOMAIN config.queues :
                  QueueComplaint(q, TRUE) = "none" /\ DlqComplaint(q) = "none"
           /\ \A i \in DOMAIN config.router.bindings : Known(config.router.bindings[i].queue)
<1>1. ASSUME NEW s \in DOMAIN config.stores
      PROVE  StoreComplaint(s, TRUE) = "none"
  <2>1. PICK i \in DOMAIN StoreNames : StoreNames[i] = s
    BY ConfigAssumption
  <2> DEFINE c == [j \in DOMAIN StoreNames |->
                      IF StoreNames[j] \in DOMAIN config.stores
                      THEN StoreComplaint(StoreNames[j], TRUE) ELSE "none"]
  <2>2. FirstOf(c) = "none" /\ DOMAIN c \subseteq Nat
    BY EveryCheckPassed, ConfigAssumption
  <2>3. \A j \in DOMAIN c : c[j] = "none"
    <3> HIDE DEF c
    <3> QED
      BY <2>2, FirstOfNone
  <2> QED
    BY <2>1, <2>3
<1>2. ASSUME NEW q \in DOMAIN config.queues
      PROVE  QueueComplaint(q, TRUE) = "none"
  <2>1. PICK i \in DOMAIN Names : Names[i] = q
    BY ConfigAssumption
  <2> DEFINE c == [j \in DOMAIN Names |->
                      IF Names[j] \in DOMAIN config.queues
                      THEN QueueComplaint(Names[j], TRUE) ELSE "none"]
  <2>2. FirstOf(c) = "none" /\ DOMAIN c \subseteq Nat
    BY EveryCheckPassed, ConfigAssumption
  <2>3. \A j \in DOMAIN c : c[j] = "none"
    <3> HIDE DEF c
    <3> QED
      BY <2>2, FirstOfNone
  <2> QED
    BY <2>1, <2>3
<1>3. ASSUME NEW q \in DOMAIN config.queues
      PROVE  DlqComplaint(q) = "none"
  <2>1. PICK i \in DOMAIN Names : Names[i] = q
    BY ConfigAssumption
  <2> DEFINE c == [j \in DOMAIN Names |->
                      IF Names[j] \in DOMAIN config.queues THEN DlqComplaint(Names[j]) ELSE "none"]
  <2>2. FirstOf(c) = "none" /\ DOMAIN c \subseteq Nat
    BY EveryCheckPassed, ConfigAssumption
  <2>3. \A j \in DOMAIN c : c[j] = "none"
    <3> HIDE DEF c
    <3> QED
      BY <2>2, FirstOfNone
  <2> QED
    BY <2>1, <2>3
<1>4. ASSUME NEW i \in DOMAIN config.router.bindings
      PROVE  Known(config.router.bindings[i].queue)
  <2> DEFINE c == [j \in DOMAIN config.router.bindings |->
                      Check(~Known(config.router.bindings[j].queue), "UNKNOWN_QUEUE")]
  <2>1. FirstOf(c) = "none" /\ DOMAIN c \subseteq Nat
    BY EveryCheckPassed, ConfigAssumption
  <2>2. \A j \in DOMAIN c : c[j] = "none"
    <3> HIDE DEF c
    <3> QED
      BY <2>1, FirstOfNone
  <2> QED
    BY <2>2 DEF Check
<1> QED
  BY <1>1, <1>2, <1>3, <1>4

\* What the validator knows of one store and of one queue.
LEMMA AcceptedStore ==
    ASSUME NEW s, StoreComplaint(s, TRUE) = "none"
    PROVE  ~NoKey(s) /\ config.stores[s].kind \notin {"noAdapter", "notARowStore"}
<1> DEFINE kind == config.stores[s].kind
           c == <<Check(kind = "impl" /\ ~TRUE, "JS_ONLY_FIELD"),
                  Check(kind = "notARowStore", "INVALID_IMPL"),
                  Check(kind = "noAdapter", "MISSING_FIELD"),
                  Check(NoKey(s), "MISSING_FIELD")>>
<1>1. FirstOf(c) = "none" /\ DOMAIN c \subseteq Nat
  BY DEF StoreComplaint
<1>2. \A i \in DOMAIN c : c[i] = "none"
  <2> HIDE DEF c
  <2> QED
    BY <1>1, FirstOfNone
<1>3. c[2] = "none" /\ c[3] = "none" /\ c[4] = "none"
  BY <1>2
<1> QED
  BY <1>3 DEF Check

LEMMA AcceptedQueue ==
    ASSUME NEW q, QueueComplaint(q, TRUE) = "none"
    PROVE  /\ Of(q).persist \in DOMAIN config.stores \cup {"none"}
           /\ Of(q).worker = "none" =>
                  Of(q).loop = "none" /\ Of(q).dlq = "none" /\ Of(q).retry = "none"
           /\ Of(q).retry # "none" => Of(q).loop = "none"
<1> DEFINE c == Of(q)
           noWorker == c.worker = "none"
           loop == Option(c.loop, TRUE)
           dlq == Option(c.dlqOptions, TRUE)
           retry == Option(c.retry, TRUE)
           watch == Option(c.observability, TRUE)
           checks == <<Check(c.limits = "bad", "INVALID_TYPE"),
               Check(c.persist \notin DOMAIN config.stores \cup {"none"}, "STORE_NOT_FOUND"),
               Check(~noWorker /\ ~TRUE, "JS_ONLY_FIELD"),
               Check(c.worker = "bad", "INVALID_TYPE"),
               loop, Check(c.loop # "none" /\ noWorker, "INVALID_FIELD"),
               dlq, Check(c.dlq # "none" /\ noWorker, "INVALID_FIELD"),
               Check(c.retry # "none" /\ (c.loop # "none" \/ c.onFailure = "loop"),
                     "CONFLICTING_FIELDS"),
               retry, Check(c.retry # "none" /\ noWorker, "INVALID_FIELD"), watch>>
<1>1. FirstOf(checks) = "none"
  BY DEF QueueComplaint
<1> HIDE DEF loop, dlq, retry, watch
<1>2. DOMAIN checks \subseteq Nat
  OBVIOUS
<1>3. \A i \in DOMAIN checks : checks[i] = "none"
  <2> HIDE DEF checks
  <2> QED
    BY <1>1, <1>2, FirstOfNone
<1>4. /\ checks[2] = "none" /\ checks[6] = "none" /\ checks[8] = "none"
      /\ checks[9] = "none" /\ checks[11] = "none"
  BY <1>3
<1> QED
  BY <1>4 DEF Check

LEMMA AcceptedDlq ==
    ASSUME NEW q, DlqComplaint(q) = "none", Of(q).dlq # "none"
    PROVE  Known(Of(q).dlq) /\ Of(q).dlq # q
<1> DEFINE c == <<Check(Of(q).dlq # "none" /\ ~Known(Of(q).dlq), "UNKNOWN_QUEUE"),
                  Check(Of(q).dlq = q, "INVALID_FIELD")>>
<1>1. FirstOf(c) = "none" /\ DOMAIN c \subseteq Nat
  BY DEF DlqComplaint
<1>2. \A i \in DOMAIN c : c[i] = "none"
  <2> HIDE DEF c
  <2> QED
    BY <1>1, FirstOfNone
<1>3. c[1] = "none" /\ c[2] = "none"
  BY <1>2
<1> QED
  BY <1>3 DEF Check

-----------------------------------------------------------------------------
(* A build that goes on has been accepted.                                 *)

Accepted ==
    /\ config \in Configs
    /\ (~entry.skip /\ phase \notin {"given", "failed"}) => Complaint(TRUE) = "none"

\* A check in a sequence of passed checks has passed.
LEMMA ValidateAccepts ==
    ASSUME Validate, phase' # "failed"
    PROVE  entry.skip \/ Complaint(TRUE) = "none"
<1> DEFINE json == IF entry.by = "json" THEN Complaint(FALSE) ELSE "none"
           typed == IF entry.skip THEN "none" ELSE Complaint(TRUE)
           sync == Check(entry.by = "sync" /\ Hydrates, "ASYNC_REQUIRED")
           c == <<json, typed, sync>>
<1>1. FirstOf(c) = "none"
  BY DEF Validate, Proceed, Throw
<1> HIDE DEF json, typed, sync
<1>2. DOMAIN c \subseteq Nat
  OBVIOUS
<1>3. \A i \in DOMAIN c : c[i] = "none"
  <2> HIDE DEF c
  <2> QED
    BY <1>1, <1>2, FirstOfNone
<1>4. typed = "none"
  BY <1>3
<1> QED
  BY <1>4 DEF typed

LEMMA SameComplaint ==
    ASSUME config' = config, NEW js
    PROVE  Complaint(js)' = Complaint(js)
<1>1. \A s : StoreComplaint(s, js)' = StoreComplaint(s, js)
  BY DEF StoreComplaint, NoKey
<1>2. \A q : QueueComplaint(q, js)' = QueueComplaint(q, js)
  BY DEF QueueComplaint, Of
<1>3. \A n : (DlqComplaint(n)' = DlqComplaint(n)) /\ (Known(n)' <=> Known(n))
  BY DEF DlqComplaint, Of, Known
<1>4. /\ DuplicateKey' <=> DuplicateKey
      /\ SharedStore' <=> SharedStore
      /\ UnusedStore' <=> UnusedStore
  BY DEF DuplicateKey, SameWebKey, SharedStore, UnusedStore, Persisted, Of
<1> DEFINE r == config.router
           stores == [i \in DOMAIN StoreNames |->
               IF StoreNames[i] \in DOMAIN config.stores
               THEN StoreComplaint(StoreNames[i], js) ELSE "none"]
           queues == [i \in DOMAIN Names |->
               IF Names[i] \in DOMAIN config.queues
               THEN QueueComplaint(Names[i], js) ELSE "none"]
           patterns == [i \in DOMAIN r.bindings |->
               Check(r.bindings[i].pattern = "bad", "INVALID_TYPE")]
           targets == [i \in DOMAIN r.bindings |->
               Check(~Known(r.bindings[i].queue), "UNKNOWN_QUEUE")]
           dlqs == [i \in DOMAIN Names |->
               IF Names[i] \in DOMAIN config.queues THEN DlqComplaint(Names[i]) ELSE "none"]
<1>5. stores' = stores
  BY <1>1
<1>6. queues' = queues
  BY <1>2
<1>7. patterns' = patterns
  OBVIOUS
<1>8. targets' = targets
  BY <1>3
<1>9. dlqs' = dlqs
  BY <1>3
<1>10. Check(r.unmatched # "none" /\ ~Known(r.unmatched), "UNKNOWN_QUEUE")'
         = Check(r.unmatched # "none" /\ ~Known(r.unmatched), "UNKNOWN_QUEUE")
  BY <1>3 DEF Check
<1>11. /\ Check(DuplicateKey, "DUPLICATE_STORAGE_KEY")' = Check(DuplicateKey, "DUPLICATE_STORAGE_KEY")
       /\ Check(SharedStore, "SHARED_STORE")' = Check(SharedStore, "SHARED_STORE")
       /\ Check(UnusedStore, "UNUSED_STORE")' = Check(UnusedStore, "UNUSED_STORE")
  BY <1>4 DEF Check
<1>12. Complaint(js) = FirstOf(<<
           Check(DOMAIN config.queues = {}, "EMPTY_QUEUES"), FirstOf(stores),
           Check(DuplicateKey, "DUPLICATE_STORAGE_KEY"), FirstOf(queues),
           Check(SharedStore, "SHARED_STORE"), Check(UnusedStore, "UNUSED_STORE"),
           FirstOf(patterns), Check(config.hydrate = "bad", "INVALID_TYPE"), FirstOf(targets),
           Check(r.unmatched # "none" /\ ~Known(r.unmatched), "UNKNOWN_QUEUE"), FirstOf(dlqs)>>)
  BY DEF Complaint
<1>13. Complaint(js)' = FirstOf(<<
           Check(DOMAIN config.queues = {}, "EMPTY_QUEUES"), FirstOf(stores),
           Check(DuplicateKey, "DUPLICATE_STORAGE_KEY"), FirstOf(queues),
           Check(SharedStore, "SHARED_STORE"), Check(UnusedStore, "UNUSED_STORE"),
           FirstOf(patterns), Check(config.hydrate = "bad", "INVALID_TYPE"), FirstOf(targets),
           Check(r.unmatched # "none" /\ ~Known(r.unmatched), "UNKNOWN_QUEUE"), FirstOf(dlqs)>>)'
  BY DEF Complaint
<1> HIDE DEF stores, queues, patterns, targets, dlqs
<1> QED
  BY <1>5, <1>6, <1>7, <1>8, <1>9, <1>10, <1>11, <1>12, <1>13

\* Every step leaves the configuration and how it was given alone.
LEMMA ConfigurationKept ==
    ASSUME [ConfigNext]_configVars
    PROVE  config' = config /\ entry' = entry
BY DEF ConfigNext, Done, configVars, Validate, ResolveStores, BuildQueue, ApplyDlqLayers,
   BuildRouter, Hydrated, HydrateFails, StartAutoWorkers, HydrateAll, StartByHand

\* Only Validate leaves the phase "given", and nothing leaves "failed".
LEMMA PhaseMoves ==
    ASSUME [ConfigNext]_configVars
    PROVE  /\ phase = "given" => phase' = "given" \/ Validate
           /\ phase = "failed" => phase' = "failed"
BY DEF ConfigNext, Done, configVars, Validate, ResolveStores, BuildQueue, ApplyDlqLayers,
   BuildRouter, Hydrated, HydrateFails, StartAutoWorkers, HydrateAll, StartByHand, Throw

LEMMA AcceptedStays == ConfigSpec => []Accepted
<1>1. ConfigInit => Accepted
  BY DEF ConfigInit, Accepted
<1>2. Accepted /\ [ConfigNext]_configVars => Accepted'
  <2> SUFFICES ASSUME Accepted, [ConfigNext]_configVars PROVE Accepted'
    OBVIOUS
  <2>1. config' = config /\ entry' = entry /\ Complaint(TRUE)' = Complaint(TRUE)
    BY ConfigurationKept, SameComplaint
  <2>2. ASSUME ~entry.skip, phase' \notin {"given", "failed"}
        PROVE  Complaint(TRUE) = "none"
    <3>1. CASE phase = "given"
      BY <2>2, <3>1, PhaseMoves, ValidateAccepts
    <3>2. CASE phase # "given"
      BY <2>2, <3>2, PhaseMoves DEF Accepted
    <3> QED
      BY <3>1, <3>2
  <2> QED
    BY <2>1, <2>2 DEF Accepted
<1> QED
  BY <1>1, <1>2, PTL DEF ConfigSpec

(* For every configuration the validator accepts: two durable queues keep  *)
(* their rows apart, and neither's store removes the other's, but for a    *)
(* store handed in twice and for a storage that lists its keys, of which   *)
(* one begins with the other and ":g" (parseSystemConfig's duplicate-key   *)
(* and shared-store checks against resolveStore).                          *)
THEOREM RowsStayApart == ConfigSpec => []RowsNotShared
<1>1. Accepted => RowsNotShared
  <2> SUFFICES ASSUME Accepted, ~entry.skip, phase \notin {"given", "failed"},
                      NEW q \in DOMAIN config.queues, NEW r \in DOMAIN config.queues,
                      q # r, Persisted(q), Persisted(r),
                      Rows(Of(q).persist) = Rows(Of(r).persist),
                      ~Sweeps(Of(q).persist, Of(r).persist),
                      config.stores[Of(q).persist].kind # "impl"
               PROVE  /\ entry.storage # "none"
                      /\ config.stores[Of(q).persist].kind # config.stores[Of(r).persist].kind
    BY DEF RowsNotShared, Sweeps
  <2> DEFINE s == Of(q).persist
             t == Of(r).persist
             S == config.stores
  <2>1. config \in Configs /\ Complaint(TRUE) = "none"
    BY DEF Accepted
  <2>2. s \in DOMAIN S /\ t \in DOMAIN S
    BY <2>1, AcceptedMeans, AcceptedQueue DEF Persisted
  <2>3. s # t
    BY <2>1, EveryCheckPassed DEF SharedStore
  <2>4. ~SameWebKey(s, t)
    BY <2>1, <2>2, <2>3, EveryCheckPassed DEF DuplicateKey
  <2>5. S[s].kind \notin {"noAdapter", "notARowStore"} /\ S[t].kind \notin {"noAdapter", "notARowStore"}
    BY <2>1, <2>2, AcceptedMeans, AcceptedStore
  <2>6. S[s] \in [kind : StoreKinds, key : STRING] /\ S[t] \in [kind : StoreKinds, key : STRING]
    BY <2>1, <2>2, ConfigAssumption
  <2> HIDE DEF s, t, S
  <2>7. S[s].kind \in WebKinds /\ S[t].kind \in WebKinds
    BY <2>3, <2>5, <2>6 DEF Rows, StoreKinds, WebKinds, S, s, t
  <2>8. S[s].key = S[t].key
    BY <2>7 DEF Rows, WebKinds, S, s, t
  <2>9. S[s].kind # S[t].kind
    BY <2>4, <2>6, <2>7, <2>8 DEF SameWebKey, S
  <2>10. entry.storage # "none"
    BY <2>7, <2>9 DEF Rows, WebKinds, S, s, t
  <2> QED
    BY <2>9, <2>10 DEF S, s, t
<1> QED
  BY <1>1, AcceptedStays, PTL

-----------------------------------------------------------------------------
(* What a build can still refuse.                                          *)

\* The layers refuse an accepted queue for its name or for a policy only.
LEMMA QueueRefusals ==
    ASSUME NEW q, QueueComplaint(q, TRUE) = "none", QueueBuildError(q) # "none"
    PROVE  \/ QueueBuildError(q) = "InvalidQueueOption" /\ q \in Blank
           \/ QueueBuildError(q) = "ConflictingRecovery" /\ Of(q).onFailure # "unset"
<1> DEFINE c == Of(q)
           noWorker == c.worker = "none"
           checks == <<
               Check(c.persist \notin DOMAIN config.stores \cup {"none"}, "STORE_NOT_FOUND"),
               Check(q \in Blank, "InvalidQueueOption"),
               Check(c.retry # "none" /\ noWorker, "InvalidQueueComposition"),
               Check(c.retry # "none" /\ RetryRefused(WorkerRecovery(c)), "ConflictingRecovery"),
               Check(c.loop # "none" /\ noWorker, "InvalidQueueComposition"),
               Check(c.loop # "none" /\ LoopRefused(AfterRetry(c)), "ConflictingRecovery")>>
<1>1. QueueBuildError(q) = FirstOf(checks)
  BY DEF QueueBuildError
<1>2. PICK i \in DOMAIN checks : checks[i] = FirstOf(checks)
  <2>1. DOMAIN checks \subseteq Nat
    OBVIOUS
  <2> HIDE DEF checks
  <2> QED
    BY <1>1, <2>1, FirstOfSome
<1>3. /\ checks[1] = "none" /\ checks[3] = "none" /\ checks[5] = "none"
  BY AcceptedQueue DEF Check
<1>4. checks[2] # "none" => checks[2] = "InvalidQueueOption" /\ q \in Blank
  BY DEF Check
<1>5. checks[4] # "none" => checks[4] = "ConflictingRecovery" /\ c.onFailure # "unset"
  BY DEF Check, RetryRefused, WorkerRecovery
<1>6. checks[6] # "none" => checks[6] = "ConflictingRecovery" /\ c.onFailure # "unset"
  <2> SUFFICES ASSUME checks[6] # "none"
               PROVE  checks[6] = "ConflictingRecovery" /\ c.onFailure # "unset"
    OBVIOUS
  <2>1. c.loop # "none" /\ LoopRefused(AfterRetry(c)) /\ checks[6] = "ConflictingRecovery"
    BY DEF Check
  <2>2. AfterRetry(c) = WorkerRecovery(c)
    BY <2>1, AcceptedQueue DEF AfterRetry
  <2>3. LoopRefused(WorkerRecovery(c))
    <3> HIDE DEF c
    <3> QED
      BY <2>1, <2>2
  <2> HIDE DEF c
  <2>4. c.onFailure # "unset"
    BY <2>3 DEF LoopRefused, WorkerRecovery
  <2> QED
    BY <2>1, <2>4
<1>7. i \in 1 .. 6
  BY <1>2
<1> HIDE DEF checks
<1> QED
  BY <1>1, <1>2, <1>3, <1>4, <1>5, <1>6, <1>7

\* The second pass refuses nothing of an accepted configuration.
LEMMA NoDlqRefusal ==
    ASSUME config \in Configs, Complaint(TRUE) = "none"
    PROVE  DlqBuildError = "none"
<1> DEFINE each(q) == FirstOf(<<
               Check(Of(q).dlq # "none" /\ ~Known(Of(q).dlq), "UNKNOWN_QUEUE"),
               Check(Of(q).dlq # "none" /\ Of(q).worker = "none", "InvalidQueueComposition"),
               Check(Of(q).dlq = q, "InvalidDeadLetterOption")>>)
           all == [i \in DOMAIN Names |->
               IF Names[i] \notin DOMAIN config.queues THEN "none" ELSE each(Names[i])]
<1>1. DlqBuildError = FirstOf(all)
  BY DEF DlqBuildError
<1>2. ASSUME NEW q \in DOMAIN config.queues
      PROVE  each(q) = "none"
  <2> DEFINE c == <<
               Check(Of(q).dlq # "none" /\ ~Known(Of(q).dlq), "UNKNOWN_QUEUE"),
               Check(Of(q).dlq # "none" /\ Of(q).worker = "none", "InvalidQueueComposition"),
               Check(Of(q).dlq = q, "InvalidDeadLetterOption")>>
  <2>0. QueueComplaint(q, TRUE) = "none" /\ DlqComplaint(q) = "none"
    BY AcceptedMeans
  <2>1. c[1] = "none" /\ c[2] = "none"
    BY <2>0, AcceptedQueue, AcceptedDlq DEF Check
  <2>2. c[3] = "none"
    <3>1. DlqComplaint(q) = FirstOf(<<c[1], Check(Of(q).dlq = q, "INVALID_FIELD")>>)
      BY DEF DlqComplaint
    <3> DEFINE two == <<c[1], Check(Of(q).dlq = q, "INVALID_FIELD")>>
    <3>2. FirstOf(two) = "none" /\ DOMAIN two \subseteq Nat
      BY <2>0, <3>1
    <3>3. \A i \in DOMAIN two : two[i] = "none"
      <4> HIDE DEF two
      <4> QED
        BY <3>2, FirstOfNone
    <3>4. two[2] = "none"
      BY <3>3
    <3> QED
      BY <3>4 DEF Check
  <2>3. DOMAIN c = 1 .. 3
    OBVIOUS
  <2> HIDE DEF c
  <2>4. \A i \in DOMAIN c : c[i] = "none"
    BY <2>1, <2>2, <2>3
  <2>5. FirstOf(c) = "none"
    BY <2>4 DEF FirstOf
  <2> QED
    BY <2>5 DEF c
<1>3. \A i \in DOMAIN all : all[i] = "none"
  <2> HIDE DEF each
  <2> QED
    BY <1>2
<1> HIDE DEF all
<1> QED
  BY <1>1, <1>3 DEF FirstOf

\* The router refuses a malformed pattern only.
LEMMA RouterRefusals ==
    ASSUME config \in Configs, Complaint(TRUE) = "none", RouterBuildError # "none"
    PROVE  RouterBuildError = "InvalidRoutePattern"
<1> DEFINE each(i) == FirstOf(<<
               Check(~Known(config.router.bindings[i].queue), "UNKNOWN_QUEUE"),
               Check(config.router.bindings[i].pattern = "malformed", "InvalidRoutePattern")>>)
           perBinding == [i \in DOMAIN config.router.bindings |-> each(i)]
           two == <<SinkBuildError, FirstOf(perBinding)>>
<1>1. RouterBuildError = FirstOf(two)
  BY DEF RouterBuildError
<1>2. SinkBuildError = "none"
  BY EveryCheckPassed DEF SinkBuildError, Check
<1>3. PICK k \in DOMAIN two : two[k] = FirstOf(two)
  <2>1. DOMAIN two \subseteq Nat
    OBVIOUS
  <2> HIDE DEF two
  <2> QED
    BY <1>1, <2>1, FirstOfSome
<1>4. FirstOf(perBinding) = RouterBuildError
  <2> HIDE DEF perBinding
  <2> QED
    BY <1>1, <1>2, <1>3
<1>5. PICK i \in DOMAIN perBinding : perBinding[i] = FirstOf(perBinding)
  <2>1. DOMAIN perBinding \subseteq Nat
    BY ConfigAssumption
  <2> HIDE DEF perBinding
  <2> QED
    BY <1>4, <2>1, FirstOfSome
<1> DEFINE c == <<
               Check(~Known(config.router.bindings[i].queue), "UNKNOWN_QUEUE"),
               Check(config.router.bindings[i].pattern = "malformed", "InvalidRoutePattern")>>
<1>6. FirstOf(c) = RouterBuildError
  <2> HIDE DEF c
  <2>1. each(i) = FirstOf(c)
    BY DEF c
  <2> QED
    BY <1>4, <1>5, <2>1
<1>7. PICK j \in DOMAIN c : c[j] = FirstOf(c)
  <2>1. DOMAIN c \subseteq Nat
    OBVIOUS
  <2> HIDE DEF c
  <2> QED
    BY <1>6, <2>1, FirstOfSome
<1>8. c[1] = "none" /\ c[2] \in {"none", "InvalidRoutePattern"} /\ DOMAIN c = 1 .. 2
  BY <1>5, AcceptedMeans DEF Check
<1> HIDE DEF c
<1> QED
  BY <1>6, <1>7, <1>8

\* Validate's own three checks.
LEMMA ValidateRefusals ==
    ASSUME Validate, phase' = "failed", ~entry.skip, Complaint(TRUE) = "none"
    PROVE  error' = "ASYNC_REQUIRED" \/ (entry.by = "json" /\ Complaint(FALSE) # "none")
<1> DEFINE json == IF entry.by = "json" THEN Complaint(FALSE) ELSE "none"
           typed == IF entry.skip THEN "none" ELSE Complaint(TRUE)
           sync == Check(entry.by = "sync" /\ Hydrates, "ASYNC_REQUIRED")
           c == <<json, typed, sync>>
<1>1. FirstOf(c) # "none" /\ error' = FirstOf(c)
  <2>1. Proceed(FirstOf(c), "stores")
    BY DEF Validate
  <2> HIDE DEF c
  <2> QED
    BY <2>1 DEF Proceed, Throw
<1>2. PICK i \in DOMAIN c : c[i] = FirstOf(c)
  <2>1. DOMAIN c \subseteq Nat
    OBVIOUS
  <2> HIDE DEF c
  <2> QED
    BY <1>1, <2>1, FirstOfSome
<1>3. typed = "none"
  OBVIOUS
<1>4. sync = "none" \/ sync = "ASYNC_REQUIRED"
  BY DEF Check
<1>5. json # "none" => entry.by = "json" /\ Complaint(FALSE) # "none"
  OBVIOUS
<1> HIDE DEF json, typed, sync
<1>6. c[1] = json /\ c[2] = typed /\ c[3] = sync /\ DOMAIN c = 1 .. 3
  OBVIOUS
<1> HIDE DEF c
<1>7. FirstOf(c) \in {json, typed, sync}
  BY <1>2, <1>6
<1>8. FirstOf(c) = json \/ FirstOf(c) = "ASYNC_REQUIRED"
  BY <1>1, <1>3, <1>4, <1>7
<1>9. error' = "ASYNC_REQUIRED" \/ json # "none"
  BY <1>1, <1>8
<1> QED
  BY <1>5, <1>9

\* The invariant speaks of the configuration, of how it was given, and of
\* the phase and the error.
LEMMA AgreementKept ==
    ASSUME AcceptedConfigsBuild, config' = config, entry' = entry, phase' = phase, error' = error
    PROVE  AcceptedConfigsBuild'
<1>1. Complaint(TRUE)' = Complaint(TRUE) /\ Complaint(FALSE)' = Complaint(FALSE)
  BY SameComplaint
<1> QED
  BY <1>1 DEF AcceptedConfigsBuild, Of

\* One step throws, for a reason the invariant allows.
LEMMA StepAgrees ==
    ASSUME Accepted, [ConfigNext]_configVars, phase # "failed", phase' = "failed",
           ~entry.skip, Complaint(TRUE) = "none"
    PROVE  \/ entry.by = "json" /\ Complaint(FALSE) # "none"
           \/ error' \in {"ASYNC_REQUIRED", "StoreError"}
           \/ error' = "InvalidQueueOption" /\ DOMAIN config.queues \cap Blank # {}
           \/ error' = "InvalidRoutePattern"
           \/ error' = "ConflictingRecovery"
                /\ \E q \in DOMAIN config.queues : Of(q).onFailure # "unset"
<1>0. config \in Configs
  BY DEF Accepted
<1>1. CASE Validate
  BY <1>1, ValidateRefusals
<1>2. CASE ResolveStores
  <2>1. StoreBuildError = "none"
    BY <1>0, AcceptedMeans, AcceptedStore DEF StoreBuildError, Check
  <2> QED
    BY <1>2, <2>1 DEF ResolveStores, Proceed
<1>3. ASSUME NEW q \in DOMAIN config.queues, BuildQueue(q)
      PROVE  \/ error' = "InvalidQueueOption" /\ q \in Blank
             \/ error' = "ConflictingRecovery" /\ Of(q).onFailure # "unset"
  <2>1. QueueComplaint(q, TRUE) = "none"
    BY <1>0, AcceptedMeans
  <2>2. QueueBuildError(q) # "none" /\ error' = QueueBuildError(q)
    BY <1>3 DEF BuildQueue, Throw
  <2> QED
    BY <2>1, <2>2, QueueRefusals
<1>4. CASE ApplyDlqLayers
  <2>1. DlqBuildError = "none"
    BY <1>0, NoDlqRefusal
  <2> QED
    BY <1>4, <2>1 DEF ApplyDlqLayers, Proceed
<1>5. CASE BuildRouter
  <2>1. RouterBuildError # "none" /\ error' = RouterBuildError
    BY <1>5 DEF BuildRouter, Proceed, Throw
  <2> QED
    BY <1>0, <2>1, RouterRefusals
<1>6. ASSUME NEW q \in DOMAIN config.queues, HydrateFails(q)
      PROVE  error' = "StoreError"
  BY <1>6 DEF HydrateFails, Throw
<1>7. CASE \/ \E q \in DOMAIN config.queues : Hydrated(q) \/ StartByHand(q)
           \/ StartAutoWorkers \/ HydrateAll \/ Done \/ UNCHANGED configVars
  BY <1>7 DEF Hydrated, StartByHand, StartAutoWorkers, HydrateAll, Done, configVars
<1> QED
  BY <1>1, <1>2, <1>3, <1>4, <1>5, <1>6, <1>7 DEF ConfigNext

\* Nothing changes the error of a build that has thrown or goes on.
LEMMA ErrorMoves ==
    ASSUME [ConfigNext]_configVars, phase = "failed"
    PROVE  phase' = phase /\ error' = error
BY DEF ConfigNext, Done, configVars, Validate, ResolveStores, BuildQueue, ApplyDlqLayers,
   BuildRouter, Hydrated, HydrateFails, StartAutoWorkers, HydrateAll, StartByHand, Throw

(* For every configuration the validator accepts: the layers refuse it for *)
(* a blank name, a malformed pattern or a policy they cannot combine, and  *)
(* for nothing else (validate/ against from-config.ts, whichever entry     *)
(* point was used).                                                        *)
THEOREM AcceptedIsBuilt == ConfigSpec => []AcceptedConfigsBuild
<1>1. ConfigInit => AcceptedConfigsBuild
  BY DEF ConfigInit, AcceptedConfigsBuild
<1>2. Accepted /\ AcceptedConfigsBuild /\ [ConfigNext]_configVars => AcceptedConfigsBuild'
  <2> SUFFICES ASSUME Accepted, AcceptedConfigsBuild, [ConfigNext]_configVars
               PROVE  AcceptedConfigsBuild'
    OBVIOUS
  <2>1. config' = config /\ entry' = entry
    BY ConfigurationKept
  <2>2. CASE phase = "failed"
    BY <2>1, <2>2, ErrorMoves, AgreementKept
  <2>3. CASE phase # "failed" /\ phase' = "failed" /\ ~entry.skip /\ Complaint(TRUE) = "none"
    <3>1. Complaint(FALSE)' = Complaint(FALSE)
      BY <2>1, SameComplaint
    <3> QED
      BY <2>1, <2>3, <3>1, StepAgrees DEF AcceptedConfigsBuild, Of
  <2>4. CASE phase # "failed" /\ (phase' # "failed" \/ entry.skip \/ Complaint(TRUE) # "none")
    <3>1. Complaint(TRUE)' = Complaint(TRUE)
      BY <2>1, SameComplaint
    <3> QED
      BY <2>1, <2>4, <3>1 DEF AcceptedConfigsBuild
  <2> QED
    BY <2>2, <2>3, <2>4
<1> QED
  BY <1>1, <1>2, AcceptedStays, PTL DEF ConfigSpec
=============================================================================
