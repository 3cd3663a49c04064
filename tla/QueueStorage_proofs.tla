------------------------- MODULE QueueStorage_proofs -------------------------
(* What QueueStorage.tla promises, for any bounds: the binary heap stays a  *)
(* heap of the same entries, the parallel arrays of the FIFO agree with one *)
(* another, and together they implement the line and the set of ReadyLine.  *)
EXTENDS QueueStorage, SharedLemmas, FunctionTheorems, SequenceTheorems
-----------------------------------------------------------------------------
(* The heap of MinHeap.tla, for entries of any set T whose `at` is a natural. *)

\* The entries of a heap of n entries, and the states of a sift.
Heaps(T, n) == {d \in Seq(T) : Len(d) = n}
Sifts(T, n) == [d : Heaps(T, n), i : 1..n]

\* Heap e has d's entries in another order.
Reordered(d, e) ==
  Len(e) = Len(d) /\ ToSet(e) = ToSet(d) /\ (IsInjective(d) => IsInjective(e))

\* Order at every parent from m on but i, and across i.
OrderedBut(d, m, i) ==
  \A c \in 2..Len(d) : c \div 2 >= m /\ c \div 2 # i => d[c \div 2].at <= d[c].at
Bridged(d, m, i) ==
  \A c \in 2..Len(d) :
    c \div 2 = i /\ i >= 2 /\ i \div 2 >= m => d[i \div 2].at <= d[c].at
OrderedFrom(d, m) ==
  \A c \in 2..Len(d) : c \div 2 >= m => d[c \div 2].at <= d[c].at

\* A sift that moves the entry at i up or down.
GoesUp(d, i) ==
  /\ \A c \in 2..Len(d) : c # i => d[c \div 2].at <= d[c].at
  /\ Bridged(d, 1, i)
GoesDown(d, m, i) == OrderedBut(d, m, i) /\ Bridged(d, m, i)

\* The parent of an index.
LEMMA Parent ==
  ASSUME NEW i \in Nat, i >= 2
  PROVE  i \div 2 \in Nat /\ 1 <= i \div 2 /\ i \div 2 < i
OBVIOUS

\* Parents and children.
LEMMA Children ==
  ASSUME NEW i \in Nat, NEW c \in Nat
  PROVE  c \div 2 = i <=> (c = 2 * i \/ c = 2 * i + 1)
OBVIOUS

\* A heap is ordered from the root on.
LEMMA HeapIsOrdered ==
  ASSUME NEW T, NEW d \in Seq(T)
  PROVE  IsHeap(d) <=> OrderedFrom(d, 1)
<1>1. Len(d) \in Nat
  OBVIOUS
<1>2. \A c \in 2..Len(d) : c \div 2 >= 1
  BY <1>1
<1> QED
  BY <1>2 DEF IsHeap, OrderedFrom

\* Swapping two entries reorders a heap.
LEMMA Swapped ==
  ASSUME NEW T, NEW n \in Nat, NEW d \in Heaps(T, n), NEW i \in 1..n, NEW j \in 1..n
  PROVE  /\ Swap(d, i, j) \in Heaps(T, n)
         /\ Swap(d, i, j)[i] = d[j] /\ Swap(d, i, j)[j] = d[i]
         /\ \A k \in 1..n : k # i /\ k # j => Swap(d, i, j)[k] = d[k]
         /\ Reordered(d, Swap(d, i, j))
<1>1. PICK e : e = Swap(d, i, j)
  OBVIOUS
<1>2. d \in [1..n -> T] /\ Len(d) = n /\ DOMAIN d = 1..n
  BY DEF Heaps
<1>3. e \in [1..n -> T] /\ e = [k \in 1..n |-> IF k = j THEN d[i] ELSE IF k = i THEN d[j] ELSE d[k]]
  BY <1>1, <1>2 DEF Swap
<1>4. e \in Seq(T) /\ Len(e) = n /\ DOMAIN e = 1..n
  BY <1>3
<1>5. /\ e[i] = d[j] /\ e[j] = d[i] /\ \A k \in 1..n : k # i /\ k # j => e[k] = d[k]
  BY <1>3
<1>6. ToSet(e) = ToSet(d)
  <2>1. \A k \in 1..n : \E m \in 1..n : e[k] = d[m]
    BY <1>3
  <2>2. \A m \in 1..n : \E k \in 1..n : e[k] = d[m]
    BY <1>5
  <2>3. ToSet(e) = {e[k] : k \in 1..n} /\ ToSet(d) = {d[k] : k \in 1..n}
    BY <1>2, <1>4, Zenon DEF ToSet
  <2> QED
    BY <2>1, <2>2, <2>3
<1>7. IsInjective(d) => IsInjective(e)
  BY <1>2, <1>3, <1>4 DEF IsInjective
<1> QED
  BY <1>1, <1>2, <1>4, <1>5, <1>6, <1>7 DEF Heaps, Reordered

\* Reordering twice is reordering.
LEMMA ReorderedTwice ==
  ASSUME NEW d, NEW e, NEW f, Reordered(d, e), Reordered(e, f)
  PROVE  Reordered(d, f)
BY DEF Reordered

\* A round of a sift up.
LEMMA UpRoundFacts ==
  ASSUME NEW T, \A x \in T : x.at \in Nat, NEW n \in Nat, NEW s \in Sifts(T, n)
  PROVE  /\ UpRound(s) \in Sifts(T, n) /\ Reordered(s.d, UpRound(s).d)
         /\ GoesUp(s.d, s.i) => GoesUp(UpRound(s).d, UpRound(s).i)
         /\ \/ UpRound(s) = s /\ (GoesUp(s.d, s.i) => IsHeap(s.d))
            \/ UpRound(s).i < s.i
<1>1. PICK d, i : d = s.d /\ i = s.i /\ d \in Heaps(T, n) /\ i \in 1..n
  BY DEF Sifts
<1>2. d \in Seq(T) /\ Len(d) = n /\ \A k \in 1..n : d[k] \in T /\ d[k].at \in Nat
  BY <1>1 DEF Heaps
<1>3. CASE i = 1 \/ d[i].at >= d[i \div 2].at
  <2>1. UpRound(s) = s
    BY <1>1, <1>3 DEF UpRound
  <2>2. ASSUME GoesUp(d, i) PROVE IsHeap(d)
    <3> SUFFICES ASSUME NEW c \in 2..n PROVE d[c \div 2].at <= d[c].at
      BY <1>2 DEF IsHeap
    <3>1. c # i => d[c \div 2].at <= d[c].at
      BY <1>2, <2>2 DEF GoesUp
    <3> QED
      BY <3>1, <1>3, <1>2, Parent
  <2>3. Reordered(d, d)
    BY DEF Reordered
  <2> QED
    BY <1>1, <2>1, <2>2, <2>3
<1>4. CASE ~(i = 1 \/ d[i].at >= d[i \div 2].at)
  <2>1. PICK p : p = i \div 2 /\ p \in 1..n /\ p < i /\ i >= 2
    BY <1>1, <1>4, Parent
  <2>2. PICK e : e = Swap(d, i, p)
    OBVIOUS
  <2>3. UpRound(s) = [d |-> e, i |-> p]
    BY <1>1, <1>4, <2>1, <2>2 DEF UpRound
  <2>4. /\ e \in Heaps(T, n) /\ e[i] = d[p] /\ e[p] = d[i] /\ Reordered(d, e)
        /\ \A k \in 1..n : k # i /\ k # p => e[k] = d[k]
    <3>1. d \in Heaps(T, n) /\ i \in 1..n /\ p \in 1..n
      BY <1>1, <2>1
    <3>2. /\ Swap(d, i, p) \in Heaps(T, n)
          /\ Swap(d, i, p)[i] = d[p] /\ Swap(d, i, p)[p] = d[i]
          /\ \A k \in 1..n : k # i /\ k # p => Swap(d, i, p)[k] = d[k]
          /\ Reordered(d, Swap(d, i, p))
      BY <3>1, Swapped
    <3> QED
      BY <2>2, <3>2
  <2>5. e \in Seq(T) /\ Len(e) = n
    BY <2>4 DEF Heaps
  <2>6. d[i].at < d[p].at
    <3>1. ~(d[i].at >= d[p].at)
      BY <1>4, <2>1, Zenon
    <3> QED
      BY <3>1, <1>1, <1>2, <2>1
  <2>7. ASSUME GoesUp(d, i) PROVE GoesUp(e, p)
    <3>1. \A c \in 2..n : c # i => d[c \div 2].at <= d[c].at
      BY <1>2, <2>7 DEF GoesUp
    <3>2. \A c \in 2..n : c \div 2 = i => d[p].at <= d[c].at
      BY <1>2, <2>1, <2>7 DEF GoesUp, Bridged
    <3>3. ASSUME NEW c \in 2..n, c # p PROVE e[c \div 2].at <= e[c].at
      <4>1. PICK q : q = c \div 2 /\ q \in 1..n /\ q < c
        BY Parent
      <4>2. CASE c = i
        BY <4>1, <4>2, <2>1, <2>4, <2>6, <1>1, <1>2
      <4>3. CASE c # i /\ q = i
        BY <4>1, <4>3, <2>1, <2>4, <3>2, <3>3
      <4>4. CASE c # i /\ q = p
        <5>1. d[p].at <= d[c].at
          BY <3>1, <4>1, <4>4
        <5>2. e[c \div 2] = d[i] /\ e[c] = d[c]
          BY <4>1, <4>4, <2>4, <3>3
        <5>3. d[c].at \in Nat /\ d[p].at \in Nat /\ d[i].at \in Nat
          BY <1>1, <1>2, <2>1
        <5> QED
          BY <5>1, <5>2, <5>3, <2>6
      <4>5. CASE c # i /\ q # i /\ q # p
        BY <4>1, <4>5, <2>4, <3>1, <3>3
      <4> QED
        BY <4>2, <4>3, <4>4, <4>5
    <3>4. ASSUME NEW c \in 2..n, c \div 2 = p, p >= 2 PROVE e[p \div 2].at <= e[c].at
      <4>1. PICK q : q = p \div 2 /\ q \in 1..n /\ q < p
        BY <3>4, <2>1, Parent
      <4>2. e[q] = d[q] /\ d[q].at <= d[p].at
        BY <4>1, <2>1, <2>4, <3>1, <3>4
      <4>3. c = i => e[c] = d[p]
        BY <2>4
      <4>4. c # i => e[c] = d[c] /\ d[p].at <= d[c].at
        <5>1. c # p
          BY <3>4, Parent
        <5> QED
          BY <5>1, <3>1, <3>4, <2>4
      <4> QED
        BY <4>1, <4>2, <4>3, <4>4, <1>2, <2>1
    <3> QED
      BY <3>3, <3>4, <2>5 DEF GoesUp, Bridged
  <2>8. UpRound(s).d = e /\ UpRound(s).i = p /\ UpRound(s) \in Sifts(T, n)
    BY <2>1, <2>3, <2>4 DEF Sifts
  <2> QED
    BY <1>1, <2>1, <2>4, <2>7, <2>8
<1> QED
  BY <1>3, <1>4

\* The smallest of an index and its children.
LEMMA Smallest ==
  ASSUME NEW T, \A x \in T : x.at \in Nat,
         NEW n \in Nat, NEW d \in Heaps(T, n), NEW i \in 1..n
  PROVE  /\ SmallestOf(d, i) \in 1..n
         /\ SmallestOf(d, i) = i \/ (SmallestOf(d, i) \div 2 = i /\ SmallestOf(d, i) > i)
         /\ SmallestOf(d, i) # i => d[SmallestOf(d, i)].at < d[i].at
         /\ \A k \in 1..n : k \div 2 = i => d[SmallestOf(d, i)].at <= d[k].at
<1>1. d \in Seq(T) /\ Len(d) = n /\ \A k \in 1..n : d[k] \in T /\ d[k].at \in Nat
  BY DEF Heaps
<1>2. PICK l : l = IF 2 * i <= n /\ d[2 * i].at < d[i].at THEN 2 * i ELSE i
  OBVIOUS
<1>3. SmallestOf(d, i) = IF 2 * i + 1 <= n /\ d[2 * i + 1].at < d[l].at THEN 2 * i + 1 ELSE l
  BY <1>1, <1>2 DEF SmallestOf
<1>4. PICK c : c = SmallestOf(d, i)
  OBVIOUS
<1>5. l \in 1..n /\ d[l].at <= d[i].at /\ (2 * i <= n => d[l].at <= d[2 * i].at)
  BY <1>1, <1>2
<1>6. /\ c \in 1..n /\ d[c].at <= d[l].at /\ (2 * i + 1 <= n => d[c].at <= d[2 * i + 1].at)
  BY <1>1, <1>3, <1>4, <1>5
<1>7. c = i \/ c = 2 * i \/ c = 2 * i + 1
  BY <1>2, <1>3, <1>4
<1>8. c # i => d[c].at < d[i].at
  BY <1>1, <1>2, <1>3, <1>4, <1>5
<1>9. ASSUME NEW k \in 1..n, k \div 2 = i PROVE d[c].at <= d[k].at
  <2>1. k = 2 * i \/ k = 2 * i + 1
    BY <1>9, Children
  <2>2. d[c].at <= d[l].at /\ d[c].at \in Nat /\ d[l].at \in Nat /\ d[k].at \in Nat
    BY <1>1, <1>5, <1>6
  <2>3. CASE k = 2 * i
    BY <1>5, <2>2, <2>3
  <2>4. CASE k = 2 * i + 1
    BY <1>6, <2>4
  <2> QED
    BY <2>1, <2>3, <2>4
<1>10. c = i \/ (c \div 2 = i /\ c > i)
  BY <1>6, <1>7
<1> QED
  BY <1>4, <1>6, <1>8, <1>9, <1>10

\* A round of a sift down.
LEMMA DownRoundFacts ==
  ASSUME NEW T, \A x \in T : x.at \in Nat, NEW n \in Nat, NEW s \in Sifts(T, n),
         NEW m \in Nat, m <= s.i
  PROVE  /\ DownRound(s) \in Sifts(T, n) /\ Reordered(s.d, DownRound(s).d)
         /\ DownRound(s).i >= s.i
         /\ GoesDown(s.d, m, s.i) => GoesDown(DownRound(s).d, m, DownRound(s).i)
         /\ \/ DownRound(s) = s /\ (GoesDown(s.d, m, s.i) => OrderedFrom(s.d, m))
            \/ DownRound(s).i > s.i
<1>1. PICK d, i : d = s.d /\ i = s.i /\ d \in Heaps(T, n) /\ i \in 1..n /\ s = [d |-> d, i |-> i]
  BY DEF Sifts
<1>2. d \in Seq(T) /\ Len(d) = n /\ \A k \in 1..n : d[k] \in T /\ d[k].at \in Nat
  BY <1>1 DEF Heaps
<1>3. PICK c \in 1..n :
        /\ c = SmallestOf(d, i) /\ (c = i \/ (c \div 2 = i /\ c > i))
        /\ c # i => d[c].at < d[i].at
        /\ \A k \in 1..n : k \div 2 = i => d[c].at <= d[k].at
  <2>1. d \in Heaps(T, n) /\ i \in 1..n
    BY <1>1
  <2> QED
    BY <2>1, Smallest
<1>4. PICK e : e = Swap(d, i, c)
  OBVIOUS
<1>5. DownRound(s) = [d |-> e, i |-> c]
  BY <1>1, <1>3, <1>4 DEF DownRound
<1>6. /\ e \in Heaps(T, n) /\ e[i] = d[c] /\ e[c] = d[i] /\ Reordered(d, e)
      /\ \A k \in 1..n : k # i /\ k # c => e[k] = d[k]
  <2>1. d \in Heaps(T, n) /\ i \in 1..n
    BY <1>1
  <2>2. /\ Swap(d, i, c) \in Heaps(T, n)
        /\ Swap(d, i, c)[i] = d[c] /\ Swap(d, i, c)[c] = d[i]
        /\ \A k \in 1..n : k # i /\ k # c => Swap(d, i, c)[k] = d[k]
        /\ Reordered(d, Swap(d, i, c))
    BY <2>1, Swapped
  <2> QED
    BY <1>4, <2>2
<1>7. e \in Seq(T) /\ Len(e) = n
  BY <1>6 DEF Heaps
<1>8. DownRound(s).d = e /\ DownRound(s).i = c /\ DownRound(s) \in Sifts(T, n)
  BY <1>5, <1>6 DEF Sifts
<1>9. CASE c = i
  <2>1. e = d
    BY <1>1, <1>2, <1>4, <1>9 DEF Swap
  <2>2. ASSUME GoesDown(d, m, i) PROVE OrderedFrom(d, m)
    <3> SUFFICES ASSUME NEW k \in 2..n, k \div 2 >= m PROVE d[k \div 2].at <= d[k].at
      BY <1>2 DEF OrderedFrom
    <3>1. k \div 2 # i => d[k \div 2].at <= d[k].at
      BY <1>2, <2>2 DEF GoesDown, OrderedBut
    <3> QED
      BY <3>1, <1>3, <1>9
  <2>3. DownRound(s) = s
    BY <1>1, <1>5, <1>9, <2>1
  <2> QED
    BY <1>1, <1>6, <1>8, <1>9, <2>1, <2>2, <2>3
<1>10. CASE c # i
  <2>1. c \div 2 = i /\ c > i /\ d[c].at < d[i].at
    BY <1>3, <1>10
  <2>2. ASSUME GoesDown(d, m, i) PROVE GoesDown(e, m, c)
    <3>1. \A k \in 2..n : k \div 2 >= m /\ k \div 2 # i => d[k \div 2].at <= d[k].at
      BY <1>2, <2>2 DEF GoesDown, OrderedBut
    <3>2. \A k \in 2..n : k \div 2 = i /\ i >= 2 /\ i \div 2 >= m => d[i \div 2].at <= d[k].at
      BY <1>2, <2>2 DEF GoesDown, Bridged
    <3>3. ASSUME NEW k \in 2..n, k \div 2 >= m, k \div 2 # c PROVE e[k \div 2].at <= e[k].at
      <4>1. PICK q : q = k \div 2 /\ q \in 1..n /\ q < k
        BY Parent
      <4>2. CASE q = i /\ k = c
        BY <4>1, <4>2, <2>1, <1>1, <1>2, <1>6
      <4>3. CASE q = i /\ k # c
        BY <4>1, <4>3, <1>1, <1>3, <1>6
      <4>4. CASE k = i
        <5>1. d[q].at <= d[c].at
          BY <4>1, <4>4, <2>1, <3>2, <3>3, <1>1
        <5>2. e[k] = d[c] /\ e[k \div 2] = d[q]
          BY <4>1, <4>4, <1>6, <3>3
        <5> QED
          BY <5>1, <5>2
      <4>5. CASE q # i /\ k # i
        <5>1. k # c
          BY <4>1, <4>5, <2>1
        <5>2. d[q].at <= d[k].at
          BY <4>1, <4>5, <3>1, <3>3
        <5>3. e[k] = d[k] /\ e[k \div 2] = d[q]
          BY <4>1, <4>5, <5>1, <1>6, <3>3
        <5> QED
          BY <5>2, <5>3
      <4> QED
        BY <4>2, <4>3, <4>4, <4>5
    <3>4. ASSUME NEW k \in 2..n, k \div 2 = c, c >= 2, c \div 2 >= m
          PROVE  e[c \div 2].at <= e[k].at
      <4>1. k # i /\ k # c
        BY <3>4, <2>1, <1>1, Parent
      <4>2. d[c].at <= d[k].at
        BY <3>1, <3>4, <2>1, <1>1, <1>10
      <4>3. e[c \div 2] = d[c] /\ e[k] = d[k]
        BY <2>1, <4>1, <1>6
      <4> QED
        BY <4>2, <4>3
    <3> QED
      BY <3>3, <3>4, <1>7 DEF GoesDown, OrderedBut, Bridged
  <2> QED
    BY <1>1, <1>6, <1>8, <2>1, <2>2
<1> QED
  BY <1>9, <1>10

\* The rounds of a sift are functions on its states.
LEMMA UpRoundTyped ==
  ASSUME NEW T, \A x \in T : x.at \in Nat, NEW n \in Nat, NEW s \in Sifts(T, n)
  PROVE  UpRound(s) \in Sifts(T, n)
BY UpRoundFacts

LEMMA DownRoundTyped ==
  ASSUME NEW T, \A x \in T : x.at \in Nat, NEW n \in Nat, NEW s \in Sifts(T, n)
  PROVE  DownRound(s) \in Sifts(T, n)
<1>1. 0 \in Nat /\ 0 <= s.i
  BY DEF Sifts
<1> QED
  BY <1>1, DownRoundFacts

\* A sift up, round by round.
LEMMA UpUnfolds ==
  ASSUME NEW T, \A x \in T : x.at \in Nat,
         NEW n \in Nat, NEW d \in Heaps(T, n), NEW i \in 1..n
  PROVE  \E s \in [0..n -> Sifts(T, n)] :
           /\ SiftUp(d, i) = s[n].d /\ s[0] = [d |-> d, i |-> i]
           /\ \A k \in 1..n : s[k] = UpRound(s[k - 1])
<1> DEFINE F(f) == [k \in 0..Len(d) |->
                     IF k = 0 THEN [d |-> d, i |-> i] ELSE UpRound(f[k - 1])]
           s == CHOOSE f : f = F(f)
<1>1. Len(d) = n
  BY DEF Heaps
<1>2. PICK x : x = [d |-> d, i |-> i] /\ x \in Sifts(T, n)
  <2>1. [d |-> d, i |-> i] \in Sifts(T, n)
    BY DEF Sifts
  <2> HIDE DEF s, F
  <2> QED
    BY <2>1, Zenon
<1>3. \E f \in [0..n -> Sifts(T, n)] : f = F(f)
  <2>1. PICK G : G = [p \in Sifts(T, n) \X (1..n) |-> UpRound(p[1])]
    OBVIOUS
  <2>2. G \in [Sifts(T, n) \X (1..n) -> Sifts(T, n)]
    <3>1. \A p \in Sifts(T, n) \X (1..n) : UpRound(p[1]) \in Sifts(T, n)
      <4> SUFFICES ASSUME NEW p \in Sifts(T, n) \X (1..n)
                   PROVE  UpRound(p[1]) \in Sifts(T, n)
        OBVIOUS
      <4>1. p[1] \in Sifts(T, n)
        OBVIOUS
      <4> QED
        BY <4>1, UpRoundTyped
    <3> QED
      BY <2>1, <3>1
  <2>3. PICK f \in [0..n -> Sifts(T, n)] : Recursion(f, x, n, G)
    BY <1>2, <2>2, FoldExists, Zenon
  <2>4. ASSUME NEW k \in 0..n
        PROVE  f[k] = IF k = 0 THEN [d |-> d, i |-> i] ELSE UpRound(f[k - 1])
    <3>1. CASE k = 0
      BY <1>2, <2>3, <3>1 DEF Recursion
    <3>2. CASE k # 0
      <4>1. k - 1 \in 0..n /\ k \in 1..n /\ f[k - 1] \in Sifts(T, n)
        BY <3>2
      <4>2. f[k] = G[<<f[k - 1], k>>]
        BY <2>3, <3>2 DEF Recursion
      <4>3. <<f[k - 1], k>> \in Sifts(T, n) \X (1..n) /\ <<f[k - 1], k>>[1] = f[k - 1]
        BY <4>1
      <4> QED
        BY <2>1, <3>2, <4>2, <4>3
    <3> QED
      BY <3>1, <3>2
  <2>5. f = F(f)
    <3>1. f = [k \in 0..n |-> f[k]]
      OBVIOUS
    <3> QED
      BY <1>1, <2>4, <3>1
  <2> QED
    BY <2>5
<1>4. \E f : f = F(f)
  BY <1>3
<1>5. s = F(s)
  BY <1>4
<1>6. SiftUp(d, i) = s[Len(d)].d
  BY Zenon DEF SiftUp
<1> HIDE DEF s
<1>7. s[0] = [d |-> d, i |-> i] /\ \A k \in 1..n : s[k] = UpRound(s[k - 1])
  <2>1. 0 \in 0..n /\ \A k \in 1..n : k \in 0..n /\ k # 0
    OBVIOUS
  <2> QED
    BY <1>1, <1>5, <2>1
<1>8. s \in [0..n -> Sifts(T, n)]
  <2> DEFINE A == {k \in 0..n : s[k] \in Sifts(T, n)}
  <2>1. 0 \in A
    BY <1>2, <1>7
  <2>2. ASSUME NEW k \in 0..n, k < n, k \in A PROVE k + 1 \in A
    <3>1. k + 1 \in 1..n /\ k + 1 \in 0..n /\ (k + 1) - 1 = k
      BY <2>2
    <3>2. s[k + 1] = UpRound(s[k]) /\ s[k] \in Sifts(T, n)
      BY <1>7, <2>2, <3>1
    <3>3. UpRound(s[k]) \in Sifts(T, n)
      BY <3>2, UpRoundTyped
    <3> QED
      BY <3>1, <3>2, <3>3
  <2>3. 0..n \subseteq A
    <3> HIDE DEF A
    <3> QED
      BY <2>1, <2>2, UpTo
  <2>4. s = [k \in 0..n |-> s[k]]
    BY <1>1, <1>5
  <2> QED
    BY <2>3, <2>4
<1> QED
  BY <1>1, <1>6, <1>7, <1>8

\* A sift down, round by round.
LEMMA DownUnfolds ==
  ASSUME NEW T, \A x \in T : x.at \in Nat,
         NEW n \in Nat, NEW d \in Heaps(T, n), NEW i \in 1..n
  PROVE  \E s \in [0..n -> Sifts(T, n)] :
           /\ SiftDown(d, i) = s[n].d /\ s[0] = [d |-> d, i |-> i]
           /\ \A k \in 1..n : s[k] = DownRound(s[k - 1])
<1> DEFINE F(f) == [k \in 0..Len(d) |->
                     IF k = 0 THEN [d |-> d, i |-> i] ELSE DownRound(f[k - 1])]
           s == CHOOSE f : f = F(f)
<1>1. Len(d) = n
  BY DEF Heaps
<1>2. PICK x : x = [d |-> d, i |-> i] /\ x \in Sifts(T, n)
  <2>1. [d |-> d, i |-> i] \in Sifts(T, n)
    BY DEF Sifts
  <2> HIDE DEF s, F
  <2> QED
    BY <2>1, Zenon
<1>3. \E f \in [0..n -> Sifts(T, n)] : f = F(f)
  <2>1. PICK G : G = [p \in Sifts(T, n) \X (1..n) |-> DownRound(p[1])]
    OBVIOUS
  <2>2. G \in [Sifts(T, n) \X (1..n) -> Sifts(T, n)]
    <3>1. \A p \in Sifts(T, n) \X (1..n) : DownRound(p[1]) \in Sifts(T, n)
      <4> SUFFICES ASSUME NEW p \in Sifts(T, n) \X (1..n)
                   PROVE  DownRound(p[1]) \in Sifts(T, n)
        OBVIOUS
      <4>1. p[1] \in Sifts(T, n)
        OBVIOUS
      <4> QED
        BY <4>1, DownRoundTyped
    <3> QED
      BY <2>1, <3>1
  <2>3. PICK f \in [0..n -> Sifts(T, n)] : Recursion(f, x, n, G)
    BY <1>2, <2>2, FoldExists, Zenon
  <2>4. ASSUME NEW k \in 0..n
        PROVE  f[k] = IF k = 0 THEN [d |-> d, i |-> i] ELSE DownRound(f[k - 1])
    <3>1. CASE k = 0
      BY <1>2, <2>3, <3>1 DEF Recursion
    <3>2. CASE k # 0
      <4>1. k - 1 \in 0..n /\ k \in 1..n /\ f[k - 1] \in Sifts(T, n)
        BY <3>2
      <4>2. f[k] = G[<<f[k - 1], k>>]
        BY <2>3, <3>2 DEF Recursion
      <4>3. <<f[k - 1], k>> \in Sifts(T, n) \X (1..n) /\ <<f[k - 1], k>>[1] = f[k - 1]
        BY <4>1
      <4> QED
        BY <2>1, <3>2, <4>2, <4>3
    <3> QED
      BY <3>1, <3>2
  <2>5. f = F(f)
    <3>1. f = [k \in 0..n |-> f[k]]
      OBVIOUS
    <3> QED
      BY <1>1, <2>4, <3>1
  <2> QED
    BY <2>5
<1>4. \E f : f = F(f)
  BY <1>3
<1>5. s = F(s)
  BY <1>4
<1>6. SiftDown(d, i) = s[Len(d)].d
  BY Zenon DEF SiftDown
<1> HIDE DEF s
<1>7. s[0] = [d |-> d, i |-> i] /\ \A k \in 1..n : s[k] = DownRound(s[k - 1])
  <2>1. 0 \in 0..n /\ \A k \in 1..n : k \in 0..n /\ k # 0
    OBVIOUS
  <2> QED
    BY <1>1, <1>5, <2>1
<1>8. s \in [0..n -> Sifts(T, n)]
  <2> DEFINE A == {k \in 0..n : s[k] \in Sifts(T, n)}
  <2>1. 0 \in A
    BY <1>2, <1>7
  <2>2. ASSUME NEW k \in 0..n, k < n, k \in A PROVE k + 1 \in A
    <3>1. k + 1 \in 1..n /\ k + 1 \in 0..n /\ (k + 1) - 1 = k
      BY <2>2
    <3>2. s[k + 1] = DownRound(s[k]) /\ s[k] \in Sifts(T, n)
      BY <1>7, <2>2, <3>1
    <3>3. DownRound(s[k]) \in Sifts(T, n)
      BY <3>2, DownRoundTyped
    <3> QED
      BY <3>1, <3>2, <3>3
  <2>3. 0..n \subseteq A
    <3> HIDE DEF A
    <3> QED
      BY <2>1, <2>2, UpTo
  <2>4. s = [k \in 0..n |-> s[k]]
    BY <1>1, <1>5
  <2> QED
    BY <2>3, <2>4
<1> QED
  BY <1>1, <1>6, <1>7, <1>8

\* A sift up that starts from a heap but for one entry ends in a heap.
LEMMA SiftUpFacts ==
  ASSUME NEW T, \A x \in T : x.at \in Nat,
         NEW n \in Nat, NEW d \in Heaps(T, n), NEW i \in 1..n
  PROVE  /\ SiftUp(d, i) \in Heaps(T, n) /\ Reordered(d, SiftUp(d, i))
         /\ GoesUp(d, i) => IsHeap(SiftUp(d, i))
<1>1. PICK s \in [0..n -> Sifts(T, n)] :
        /\ SiftUp(d, i) = s[n].d /\ s[0] = [d |-> d, i |-> i]
        /\ \A k \in 1..n : s[k] = UpRound(s[k - 1])
  BY UpUnfolds
<1> DEFINE Done(k) ==
      /\ Reordered(d, s[k].d) /\ (GoesUp(d, i) => GoesUp(s[k].d, s[k].i))
      /\ UpRound(s[k]) = s[k] \/ s[k].i + k <= n
    A == {k \in 0..n : Done(k)}
<1>2. Done(0)
  BY <1>1 DEF Reordered
<1>3. ASSUME NEW k \in 0..n, k < n, Done(k) PROVE Done(k + 1)
  <2>1. PICK t : t = s[k] /\ t \in Sifts(T, n)
    OBVIOUS
  <2>2. s[k + 1] = UpRound(t)
    BY <1>1, <1>3, <2>1
  <2>3. t.i \in 1..n /\ UpRound(t).i \in 1..n
    BY <2>1, UpRoundTyped DEF Sifts
  <2>4. Reordered(d, UpRound(t).d) /\ (GoesUp(d, i) => GoesUp(UpRound(t).d, UpRound(t).i))
    BY <1>3, <2>1, UpRoundFacts, ReorderedTwice
  <2>5. CASE UpRound(t) = t
    BY <2>2, <2>4, <2>5
  <2>6. CASE UpRound(t) # t
    <3>1. UpRound(t).i < t.i /\ t.i + k <= n
      BY <1>3, <2>1, <2>6, UpRoundFacts
    <3>2. UpRound(t).i + (k + 1) <= n
      BY <2>3, <3>1
    <3> QED
      BY <2>2, <2>4, <3>2
  <2> QED
    BY <2>5, <2>6
<1>4. Done(n)
  <2>1. 0 \in A /\ \A k \in 0..n : k < n /\ k \in A => k + 1 \in A
    <3> HIDE DEF Done
    <3> QED
      BY <1>2, <1>3
  <2>2. 0..n \subseteq A
    <3> HIDE DEF A
    <3> QED
      BY <2>1, UpTo
  <2> HIDE DEF Done
  <2> QED
    BY <2>2
<1>5. s[n] \in Sifts(T, n) /\ s[n].i \in 1..n /\ s[n].d \in Heaps(T, n)
  BY DEF Sifts
<1>6. UpRound(s[n]) = s[n]
  BY <1>4, <1>5
<1>7. GoesUp(s[n].d, s[n].i) => IsHeap(s[n].d)
  BY <1>5, <1>6, UpRoundFacts
<1> QED
  BY <1>1, <1>4, <1>5, <1>7

\* A sift down that starts from a heap but for one entry ends in a heap.
LEMMA SiftDownFacts ==
  ASSUME NEW T, \A x \in T : x.at \in Nat,
         NEW n \in Nat, NEW d \in Heaps(T, n), NEW i \in 1..n, NEW m \in Nat, m <= i
  PROVE  /\ SiftDown(d, i) \in Heaps(T, n) /\ Reordered(d, SiftDown(d, i))
         /\ GoesDown(d, m, i) => OrderedFrom(SiftDown(d, i), m)
<1>1. PICK s \in [0..n -> Sifts(T, n)] :
        /\ SiftDown(d, i) = s[n].d /\ s[0] = [d |-> d, i |-> i]
        /\ \A k \in 1..n : s[k] = DownRound(s[k - 1])
  BY DownUnfolds
<1> DEFINE Done(k) ==
      /\ Reordered(d, s[k].d) /\ (GoesDown(d, m, i) => GoesDown(s[k].d, m, s[k].i))
      /\ s[k].i >= m /\ (DownRound(s[k]) = s[k] \/ s[k].i > k)
    A == {k \in 0..n : Done(k)}
<1>2. Done(0)
  BY <1>1 DEF Reordered
<1>3. ASSUME NEW k \in 0..n, k < n, Done(k) PROVE Done(k + 1)
  <2>1. PICK t : t = s[k] /\ t \in Sifts(T, n) /\ m <= t.i
    <3>1. s[k] \in Sifts(T, n) /\ s[k].i \in Nat
      BY DEF Sifts
    <3> QED
      BY <1>3, <3>1
  <2>2. s[k + 1] = DownRound(t)
    BY <1>1, <1>3, <2>1
  <2>3. t.i \in 1..n /\ DownRound(t).i \in 1..n
    BY <2>1, DownRoundTyped DEF Sifts
  <2>4. /\ Reordered(t.d, DownRound(t).d) /\ DownRound(t).i >= t.i
        /\ GoesDown(t.d, m, t.i) => GoesDown(DownRound(t).d, m, DownRound(t).i)
        /\ DownRound(t) = t \/ DownRound(t).i > t.i
    BY <2>1, DownRoundFacts
  <2>5. /\ Reordered(d, DownRound(t).d)
        /\ GoesDown(d, m, i) => GoesDown(DownRound(t).d, m, DownRound(t).i)
        /\ DownRound(t).i >= m
    BY <1>3, <2>1, <2>3, <2>4, ReorderedTwice
  <2>6. CASE DownRound(t) = t
    BY <2>2, <2>5, <2>6
  <2>7. CASE DownRound(t) # t
    <3>1. DownRound(t).i > t.i /\ t.i > k
      BY <1>3, <2>1, <2>4, <2>7
    <3>2. DownRound(t).i > k + 1
      BY <2>3, <3>1
    <3> QED
      BY <2>2, <2>5, <3>2
  <2> QED
    BY <2>6, <2>7
<1>4. Done(n)
  <2>1. 0 \in A /\ \A k \in 0..n : k < n /\ k \in A => k + 1 \in A
    <3> HIDE DEF Done
    <3> QED
      BY <1>2, <1>3
  <2>2. 0..n \subseteq A
    <3> HIDE DEF A
    <3> QED
      BY <2>1, UpTo
  <2> HIDE DEF Done
  <2> QED
    BY <2>2
<1>5. s[n] \in Sifts(T, n) /\ s[n].i \in 1..n /\ s[n].d \in Heaps(T, n)
  BY DEF Sifts
<1>6. DownRound(s[n]) = s[n] /\ m <= s[n].i
  BY <1>4, <1>5
<1>7. GoesDown(s[n].d, m, s[n].i) => OrderedFrom(s[n].d, m)
  <2>1. ~(DownRound(s[n]).i > s[n].i)
    BY <1>5, <1>6
  <2> QED
    BY <1>5, <1>6, <2>1, DownRoundFacts, Zenon
<1> QED
  BY <1>1, <1>4, <1>5, <1>7

\* The entry at i is replaced by the last one.
Fill(d, i) == [Front(d) EXCEPT ![i] = Last(d)]

\* Filling a gap loses the entry that was there.
LEMMA Filled ==
  ASSUME NEW T, NEW n \in Nat, NEW d \in Heaps(T, n + 1), NEW i \in 1..n
  PROVE  /\ Fill(d, i) \in Heaps(T, n) /\ Fill(d, i)[i] = d[n + 1]
         /\ \A k \in 1..n : k # i => Fill(d, i)[k] = d[k]
         /\ IsInjective(d) =>
              IsInjective(Fill(d, i)) /\ ToSet(Fill(d, i)) = ToSet(d) \ {d[i]}
<1> DEFINE f == Fill(d, i)
<1>1. d \in Seq(T) /\ Len(d) = n + 1 /\ d \in [1..(n + 1) -> T] /\ DOMAIN d = 1..(n + 1)
  BY DEF Heaps
<1>2. Last(d) = d[n + 1] /\ Front(d) = [k \in 1..n |-> d[k]]
  BY <1>1 DEF Last, Front
<1>3. f = [k \in 1..n |-> IF k = i THEN d[n + 1] ELSE d[k]]
  BY <1>2 DEF Fill
<1> HIDE DEF f
<1>4. f \in [1..n -> T]
  BY <1>1, <1>3
<1>5. f \in Seq(T) /\ Len(f) = n /\ DOMAIN f = 1..n
  BY <1>4
<1>6. ASSUME IsInjective(d) PROVE IsInjective(f) /\ ToSet(f) = ToSet(d) \ {d[i]}
  <2>1. \A a, b \in 1..(n + 1) : d[a] = d[b] => a = b
    BY <1>1, <1>6 DEF IsInjective
  <2>2. IsInjective(f)
    BY <1>3, <1>5, <2>1 DEF IsInjective
  <2>3. ToSet(f) = {f[k] : k \in 1..n} /\ ToSet(d) = {d[k] : k \in 1..(n + 1)}
    BY <1>1, <1>5, Zenon DEF ToSet
  <2>4. \A k \in 1..n : f[k] # d[i] /\ \E m \in 1..(n + 1) : f[k] = d[m]
    BY <1>3, <2>1
  <2>5. \A m \in 1..(n + 1) : d[m] # d[i] => \E k \in 1..n : f[k] = d[m]
    <3> SUFFICES ASSUME NEW m \in 1..(n + 1), d[m] # d[i] PROVE \E k \in 1..n : f[k] = d[m]
      OBVIOUS
    <3>1. CASE m = n + 1
      BY <1>3, <3>1
    <3>2. CASE m # n + 1
      <4>1. m \in 1..n /\ m # i /\ f[m] = d[m]
        BY <1>3, <3>2
      <4> QED
        BY <4>1
    <3> QED
      BY <3>1, <3>2
  <2> QED
    BY <2>2, <2>3, <2>4, <2>5
<1> QED
  BY <1>3, <1>5, <1>6 DEF Heaps, f

\* The last entry is dropped.
LEMMA Shortened ==
  ASSUME NEW T, NEW n \in Nat, NEW d \in Heaps(T, n + 1), IsInjective(d)
  PROVE  /\ Front(d) \in Heaps(T, n) /\ \A k \in 1..n : Front(d)[k] = d[k]
         /\ IsInjective(Front(d)) /\ ToSet(Front(d)) = ToSet(d) \ {d[n + 1]}
<1>1. d \in Seq(T) /\ Len(d) = n + 1 /\ d \in [1..(n + 1) -> T] /\ DOMAIN d = 1..(n + 1)
  BY DEF Heaps
<1> DEFINE f == Front(d)
<1>2. f = [k \in 1..n |-> d[k]]
  BY <1>1 DEF Front
<1> HIDE DEF f
<1>3. f \in [1..n -> T]
  BY <1>1, <1>2
<1>4. f \in Seq(T) /\ Len(f) = n /\ DOMAIN f = 1..n
  BY <1>3
<1>5. \A a, b \in 1..(n + 1) : d[a] = d[b] => a = b
  BY <1>1 DEF IsInjective
<1>6. IsInjective(f)
  BY <1>2, <1>4, <1>5 DEF IsInjective
<1>7. ToSet(f) = {f[k] : k \in 1..n} /\ ToSet(d) = {d[k] : k \in 1..(n + 1)}
  BY <1>1, <1>4, Zenon DEF ToSet
<1>8. ToSet(f) = ToSet(d) \ {d[n + 1]}
  <2>1. \A k \in 1..n : k \in 1..(n + 1) /\ f[k] = d[k] /\ d[k] # d[n + 1]
    BY <1>2, <1>5
  <2>2. \A m \in 1..(n + 1) : m = n + 1 \/ m \in 1..n
    OBVIOUS
  <2> QED
    BY <1>7, <2>1, <2>2
<1> QED
  BY <1>2, <1>4, <1>6, <1>8 DEF Heaps, f

\* push adds one entry to a heap.
LEMMA HeapPushFacts ==
  ASSUME NEW T, \A x \in T : x.at \in Nat,
         NEW d \in Seq(T), IsHeap(d), IsInjective(d), NEW e \in T, e \notin ToSet(d)
  PROVE  /\ HeapPush(d, e) \in Seq(T) /\ IsHeap(HeapPush(d, e))
         /\ IsInjective(HeapPush(d, e)) /\ ToSet(HeapPush(d, e)) = ToSet(d) \cup {e}
<1>1. PICK n \in Nat : n = Len(d) /\ d \in [1..n -> T] /\ DOMAIN d = 1..n
  OBVIOUS
<1> DEFINE f == Append(d, e)
<1>2. f = [k \in 1..(n + 1) |-> IF k = n + 1 THEN e ELSE d[k]]
  <2>1. f \in Seq(T) /\ Len(f) = n + 1 /\ f[n + 1] = e /\ \A k \in 1..n : f[k] = d[k]
    BY <1>1
  <2> HIDE DEF f
  <2>2. f = [k \in 1..(n + 1) |-> f[k]]
    BY <2>1
  <2>3. \A k \in 1..(n + 1) : f[k] = IF k = n + 1 THEN e ELSE d[k]
    BY <2>1
  <2> QED
    BY <2>2, <2>3, Zenon
<1> HIDE DEF f
<1>3. f \in [1..(n + 1) -> T]
  BY <1>1, <1>2
<1>4. f \in Seq(T) /\ Len(f) = n + 1 /\ DOMAIN f = 1..(n + 1) /\ f \in Heaps(T, n + 1)
  BY <1>3 DEF Heaps
<1>5. ToSet(f) = {f[k] : k \in 1..(n + 1)} /\ ToSet(d) = {d[k] : k \in 1..n}
  BY <1>1, <1>4, Zenon DEF ToSet
<1>6. ToSet(f) = ToSet(d) \cup {e}
  <2>1. \A k \in 1..(n + 1) : f[k] = e \/ (k \in 1..n /\ f[k] = d[k])
    BY <1>2
  <2>2. \A k \in 1..n : k \in 1..(n + 1) /\ f[k] = d[k]
    BY <1>2
  <2>3. n + 1 \in 1..(n + 1) /\ f[n + 1] = e
    BY <1>2
  <2> QED
    BY <1>5, <2>1, <2>2, <2>3
<1>7. IsInjective(f)
  <2>1. \A a, b \in 1..n : d[a] = d[b] => a = b
    BY <1>1 DEF IsInjective
  <2>2. \A a \in 1..n : d[a] # e
    BY <1>5
  <2> QED
    BY <1>2, <1>4, <2>1, <2>2 DEF IsInjective
<1>8. GoesUp(f, n + 1)
  <2>1. ASSUME NEW c \in 2..(n + 1), c # n + 1 PROVE f[c \div 2].at <= f[c].at
    <3>1. PICK q : q = c \div 2 /\ q \in 1..n /\ c \in 2..n
      BY <2>1, Parent
    <3>2. d[q].at <= d[c].at
      BY <1>1, <3>1 DEF IsHeap
    <3>3. f[c \div 2] = d[q] /\ f[c] = d[c]
      BY <1>2, <3>1
    <3> QED
      BY <3>2, <3>3
  <2>2. \A c \in 2..(n + 1) : c \div 2 # n + 1
    BY Parent
  <2> QED
    BY <1>4, <2>1, <2>2 DEF GoesUp, Bridged
<1>9. HeapPush(d, e) = SiftUp(f, n + 1)
  BY <1>1 DEF HeapPush, f
<1>10. /\ SiftUp(f, n + 1) \in Heaps(T, n + 1) /\ Reordered(f, SiftUp(f, n + 1))
       /\ IsHeap(SiftUp(f, n + 1))
  <2>1. n + 1 \in Nat /\ n + 1 \in 1..(n + 1)
    OBVIOUS
  <2> QED
    BY <1>4, <1>8, <2>1, SiftUpFacts
<1> QED
  BY <1>6, <1>7, <1>9, <1>10 DEF Reordered, Heaps

\* The first entry of a heap is the least.
LEMMA RootIsLeast ==
  ASSUME NEW T, \A x \in T : x.at \in Nat, NEW d \in Seq(T), IsHeap(d), d # <<>>
  PROVE  d[1] \in ToSet(d) /\ \A x \in ToSet(d) : d[1].at <= x.at
<1>1. PICK n \in Nat : n = Len(d) /\ n >= 1 /\ DOMAIN d = 1..n /\ \A k \in 1..n : d[k].at \in Nat
  OBVIOUS
<1> DEFINE A == {k \in 0..n : \A j \in 1..k : d[1].at <= d[j].at}
<1>2. 0 \in A
  OBVIOUS
<1>3. ASSUME NEW k \in 0..n, k < n, k \in A PROVE k + 1 \in A
  <2>1. k + 1 \in 1..n /\ \A j \in 1..k : d[1].at <= d[j].at
    BY <1>3
  <2>2. CASE k = 0
    BY <1>1, <2>1, <2>2
  <2>3. CASE k # 0
    <3>1. PICK q : q = (k + 1) \div 2 /\ q \in 1..k
      BY <2>3, Parent
    <3>2. d[q].at <= d[k + 1].at
      BY <1>1, <2>1, <2>3, <3>1 DEF IsHeap
    <3>3. d[1].at <= d[k + 1].at
      BY <1>1, <2>1, <3>1, <3>2
    <3>4. \A j \in 1..(k + 1) : j = k + 1 \/ j \in 1..k
      OBVIOUS
    <3> QED
      BY <2>1, <3>3, <3>4
  <2> QED
    BY <2>2, <2>3
<1>4. 0..n \subseteq A
  <2> HIDE DEF A
  <2> QED
    BY <1>2, <1>3, UpTo
<1>5. \A j \in 1..n : d[1].at <= d[j].at
  BY <1>4
<1>6. ToSet(d) = {d[k] : k \in 1..n}
  BY <1>1, Zenon DEF ToSet
<1> QED
  BY <1>1, <1>5, <1>6

\* pop takes the first entry.
LEMMA HeapPopFacts ==
  ASSUME NEW T, \A x \in T : x.at \in Nat,
         NEW d \in Seq(T), IsHeap(d), IsInjective(d), d # <<>>
  PROVE  /\ HeapPop(d) \in Seq(T) /\ IsHeap(HeapPop(d))
         /\ IsInjective(HeapPop(d)) /\ ToSet(HeapPop(d)) = ToSet(d) \ {d[1]}
<1>1. PICK n \in Nat : Len(d) = n + 1 /\ d \in Heaps(T, n + 1)
  <2>1. Len(d) \in Nat /\ Len(d) # 0
    OBVIOUS
  <2>2. Len(d) - 1 \in Nat /\ Len(d) = (Len(d) - 1) + 1
    BY <2>1
  <2> QED
    BY <2>2 DEF Heaps
<1>2. CASE n = 0
  <2>1. HeapPop(d) = <<>>
    BY <1>1, <1>2 DEF HeapPop
  <2>2. IsHeap(<<>>) /\ IsInjective(<<>>) /\ ToSet(<<>>) = {}
    BY DEF IsHeap, IsInjective, ToSet
  <2>3. ToSet(d) = {d[1]}
    <3>1. DOMAIN d = {1}
      BY <1>1, <1>2
    <3> QED
      BY <3>1 DEF ToSet
  <2> QED
    BY <2>1, <2>2, <2>3
<1>3. CASE n # 0
  <2>1. 1 \in 1..n
    BY <1>3
  <2>2. HeapPop(d) = SiftDown(Fill(d, 1), 1)
    BY <1>1, <1>3 DEF HeapPop, Fill
  <2>3. PICK f : f = Fill(d, 1)
    OBVIOUS
  <2>4. /\ f \in Heaps(T, n) /\ f[1] = d[n + 1] /\ \A k \in 1..n : k # 1 => f[k] = d[k]
        /\ IsInjective(f) /\ ToSet(f) = ToSet(d) \ {d[1]}
    BY <1>1, <2>1, <2>3, Filled
  <2>5. Len(f) = n
    BY <2>4 DEF Heaps
  <2>6. GoesDown(f, 1, 1)
    <3> SUFFICES ASSUME NEW c \in 2..n, c \div 2 # 1 PROVE f[c \div 2].at <= f[c].at
      BY <2>5 DEF GoesDown, OrderedBut, Bridged
    <3>1. PICK q : q = c \div 2 /\ q \in 1..n /\ q # 1
      BY Parent
    <3>2. d[q].at <= d[c].at
      BY <1>1, <3>1 DEF IsHeap
    <3>3. f[c \div 2] = d[q] /\ f[c] = d[c]
      BY <2>4, <3>1
    <3> QED
      BY <3>2, <3>3
  <2>7. /\ SiftDown(f, 1) \in Heaps(T, n) /\ Reordered(f, SiftDown(f, 1))
        /\ OrderedFrom(SiftDown(f, 1), 1)
    <3>1. 1 \in Nat /\ 1 <= 1
      OBVIOUS
    <3> QED
      BY <2>1, <2>4, <2>6, <3>1, SiftDownFacts
  <2>8. IsHeap(SiftDown(f, 1))
    BY <2>7, HeapIsOrdered DEF Heaps
  <2> QED
    BY <2>2, <2>3, <2>4, <2>7, <2>8 DEF Reordered, Heaps
<1> QED
  BY <1>2, <1>3

\* remove takes one entry, wherever it is.
LEMMA HeapRemoveFacts ==
  ASSUME NEW T, \A x \in T : x.at \in Nat,
         NEW d \in Seq(T), IsHeap(d), IsInjective(d), NEW e
  PROVE  /\ HeapRemove(d, e) \in Seq(T) /\ IsHeap(HeapRemove(d, e))
         /\ IsInjective(HeapRemove(d, e)) /\ ToSet(HeapRemove(d, e)) = ToSet(d) \ {e}
<1>1. CASE e \notin ToSet(d)
  BY <1>1 DEF HeapRemove
<1>2. CASE e \in ToSet(d)
  <2> DEFINE i == CHOOSE k \in DOMAIN d : d[k] = e
  <2>1. i \in DOMAIN d /\ d[i] = e
    BY <1>2 DEF ToSet
  <2>2. HeapRemove(d, e) =
          IF i = Len(d) THEN Front(d)
          ELSE IF i > 1 /\ Fill(d, i)[i].at < Fill(d, i)[i \div 2].at
               THEN SiftUp(Fill(d, i), i) ELSE SiftDown(Fill(d, i), i)
    BY <1>2, Zenon DEF HeapRemove, Fill
  <2> HIDE DEF i
  <2>3. PICK n \in Nat : Len(d) = n + 1 /\ d \in Heaps(T, n + 1)
    <3>1. Len(d) \in Nat /\ Len(d) # 0
      BY <2>1
    <3>2. Len(d) - 1 \in Nat /\ Len(d) = (Len(d) - 1) + 1
      BY <3>1
    <3> QED
      BY <3>2 DEF Heaps
  <2>4. i \in 1..(n + 1) /\ \A k \in 1..(n + 1) : d[k] \in T /\ d[k].at \in Nat
    BY <2>1, <2>3
  <2>5. \A c \in 2..(n + 1) : d[c \div 2].at <= d[c].at
    BY <2>3 DEF IsHeap
  <2>6. CASE i = n + 1
    <3>1. /\ Front(d) \in Heaps(T, n) /\ \A k \in 1..n : Front(d)[k] = d[k]
          /\ IsInjective(Front(d)) /\ ToSet(Front(d)) = ToSet(d) \ {e}
      <4>1. /\ Front(d) \in Heaps(T, n) /\ \A k \in 1..n : Front(d)[k] = d[k]
            /\ IsInjective(Front(d)) /\ ToSet(Front(d)) = ToSet(d) \ {d[n + 1]}
        BY <2>3, Shortened
      <4>2. d[n + 1] = e
        BY <2>1, <2>6
      <4> QED
        BY <4>1, <4>2
    <3>2. Front(d) \in Seq(T) /\ Len(Front(d)) = n
      BY <3>1 DEF Heaps
    <3>3. IsHeap(Front(d))
      <4> SUFFICES ASSUME NEW c \in 2..n PROVE Front(d)[c \div 2].at <= Front(d)[c].at
        BY <3>2 DEF IsHeap
      <4>1. PICK q : q = c \div 2 /\ q \in 1..n
        BY Parent
      <4> QED
        BY <2>5, <3>1, <4>1
    <3> QED
      BY <2>2, <2>3, <2>6, <3>1, <3>2, <3>3
  <2>7. CASE i # n + 1
    <3>1. i \in 1..n
      BY <2>4, <2>7
    <3>2. PICK f : f = Fill(d, i)
      OBVIOUS
    <3>3. /\ f \in Heaps(T, n) /\ f[i] = d[n + 1] /\ \A k \in 1..n : k # i => f[k] = d[k]
          /\ IsInjective(f) /\ ToSet(f) = ToSet(d) \ {e}
      BY <2>1, <2>3, <3>1, <3>2, Filled
    <3>4. f \in Seq(T) /\ Len(f) = n /\ \A k \in 1..n : f[k] \in T /\ f[k].at \in Nat
      BY <3>3 DEF Heaps
    <3>5. Bridged(f, 1, i)
      <4> SUFFICES ASSUME NEW c \in 2..n, c \div 2 = i, i >= 2
                   PROVE  f[i \div 2].at <= f[c].at
        BY <3>4 DEF Bridged
      <4>1. PICK q : q = i \div 2 /\ q \in 1..n /\ q # i
        BY <3>1, Parent
      <4>2. c # i /\ f[q] = d[q] /\ f[c] = d[c]
        BY <3>3, <4>1, Parent
      <4>3. d[q].at <= d[i].at /\ d[i].at <= d[c].at
        BY <2>5, <3>1, <4>1
      <4>4. d[q].at \in Nat /\ d[i].at \in Nat /\ d[c].at \in Nat
        BY <2>4, <3>1, <4>1
      <4> QED
        BY <4>1, <4>2, <4>3, <4>4
    <3>6. ASSUME NEW c \in 2..n, c # i, c \div 2 # i PROVE f[c \div 2].at <= f[c].at
      <4>1. PICK q : q = c \div 2 /\ q \in 1..n /\ q # i
        BY <3>6, Parent
      <4>2. f[c \div 2] = d[q] /\ f[c] = d[c]
        BY <3>3, <3>6, <4>1
      <4> QED
        BY <2>5, <4>1, <4>2
    <3>7. CASE i > 1 /\ f[i].at < f[i \div 2].at
      <4>1. PICK p : p = i \div 2 /\ p \in 1..n /\ p # i /\ i \in 2..n
        BY <3>1, <3>7, Parent
      <4>2. GoesUp(f, i)
        <5> SUFFICES ASSUME NEW c \in 2..n, c \div 2 = i PROVE f[i].at <= f[c].at
          BY <3>4, <3>5, <3>6 DEF GoesUp
        <5>1. f[p] = d[p] /\ f[c] = d[c] /\ f[i].at < d[p].at
          <6>1. c # i
            BY Parent
          <6>2. f[i].at < f[p].at
            BY <3>7, <4>1, Zenon
          <6> QED
            BY <3>3, <4>1, <6>1, <6>2
        <5>2. d[p].at <= d[i].at /\ d[i].at <= d[c].at
          BY <2>5, <4>1
        <5>3. d[p].at \in Nat /\ d[i].at \in Nat /\ d[c].at \in Nat /\ f[i].at \in Nat
          BY <2>4, <3>1, <3>4, <4>1
        <5> QED
          BY <5>1, <5>2, <5>3
      <4>3. /\ SiftUp(f, i) \in Heaps(T, n) /\ Reordered(f, SiftUp(f, i))
            /\ IsHeap(SiftUp(f, i))
        BY <3>1, <3>3, <4>2, SiftUpFacts
      <4>4. HeapRemove(d, e) = SiftUp(f, i)
        BY <2>2, <2>3, <2>7, <3>2, <3>7
      <4> QED
        BY <3>3, <4>3, <4>4 DEF Reordered, Heaps
    <3>8. CASE ~(i > 1 /\ f[i].at < f[i \div 2].at)
      <4>1. GoesDown(f, 1, i)
        <5>1. ASSUME NEW c \in 2..n, c = i PROVE f[c \div 2].at <= f[c].at
          <6>1. PICK p : p = c \div 2 /\ p \in 1..n
            BY Parent
          <6>2. ~(f[c].at < f[p].at)
            BY <3>8, <5>1, <6>1
          <6> QED
            BY <3>4, <6>1, <6>2
        <5> QED
          BY <3>4, <3>5, <3>6, <5>1 DEF GoesDown, OrderedBut
      <4>2. /\ SiftDown(f, i) \in Heaps(T, n) /\ Reordered(f, SiftDown(f, i))
            /\ OrderedFrom(SiftDown(f, i), 1)
        <5>1. 1 \in Nat /\ 1 <= i
          BY <3>1
        <5> QED
          BY <3>1, <3>3, <4>1, <5>1, SiftDownFacts
      <4>3. IsHeap(SiftDown(f, i))
        BY <4>2, HeapIsOrdered DEF Heaps
      <4>4. HeapRemove(d, e) = SiftDown(f, i)
        BY <2>2, <2>3, <2>7, <3>2, <3>8
      <4> QED
        BY <3>3, <4>2, <4>3, <4>4 DEF Reordered, Heaps
    <3> QED
      BY <3>7, <3>8
  <2> QED
    BY <2>6, <2>7
<1> QED
  BY <1>1, <1>2

\* The rounds of a rebuild of n entries d.
Rebuilds(s, d, n) ==
  /\ HeapRebuild(d) = s[n \div 2] /\ s[0] = d
  /\ \A k \in 1..(n \div 2) : s[k] = SiftDown(s[k - 1], n \div 2 + 1 - k)

\* rebuild, from the last parent to the root.
LEMMA RebuildUnfolds ==
  ASSUME NEW T, \A x \in T : x.at \in Nat, NEW n \in Nat, NEW d \in Heaps(T, n)
  PROVE  \E s : Rebuilds(s, d, n)
<1> DEFINE h == Len(d) \div 2
           F(f) == [k \in 0..h |-> IF k = 0 THEN d ELSE SiftDown(f[k - 1], h + 1 - k)]
           s == CHOOSE f : f = F(f)
<1>1. HeapRebuild(d) = s[h]
  BY Zenon DEF HeapRebuild
<1>2. PICK p \in Nat : p = n \div 2 /\ p = h /\ p <= n
  BY DEF Heaps
<1>3. \E f : f = F(f)
  <2>1. PICK G : G = [x \in Heaps(T, n) \X (1..p) |-> SiftDown(x[1], p + 1 - x[2])]
    OBVIOUS
  <2>2. G \in [Heaps(T, n) \X (1..p) -> Heaps(T, n)]
    <3>1. ASSUME NEW e \in Heaps(T, n), NEW k \in 1..p
          PROVE  SiftDown(e, p + 1 - k) \in Heaps(T, n)
      <4>1. p + 1 - k \in 1..n /\ 0 \in Nat /\ 0 <= p + 1 - k
        BY <1>2
      <4> QED
        BY <4>1, SiftDownFacts
    <3>2. \A x \in Heaps(T, n) \X (1..p) : SiftDown(x[1], p + 1 - x[2]) \in Heaps(T, n)
      BY <3>1
    <3> QED
      BY <2>1, <3>2
  <2>3. PICK f \in [0..p -> Heaps(T, n)] : Recursion(f, d, p, G)
    BY <2>2, FoldExists, Zenon
  <2>4. ASSUME NEW k \in 0..p
        PROVE  f[k] = IF k = 0 THEN d ELSE SiftDown(f[k - 1], p + 1 - k)
    <3>1. CASE k = 0
      BY <2>3, <3>1 DEF Recursion
    <3>2. CASE k # 0
      <4>1. k - 1 \in 0..p /\ k \in 1..p /\ f[k - 1] \in Heaps(T, n)
        BY <3>2
      <4>2. f[k] = G[<<f[k - 1], k>>]
        BY <2>3, <3>2 DEF Recursion
      <4> QED
        BY <2>1, <3>2, <4>1, <4>2
    <3> QED
      BY <3>1, <3>2
  <2>5. f = F(f)
    <3>1. f = [k \in 0..p |-> f[k]]
      OBVIOUS
    <3> QED
      BY <1>2, <2>4, <3>1
  <2> QED
    BY <2>5
<1>4. s = F(s)
  BY <1>3
<1> HIDE DEF s
<1>5. s[0] = d /\ \A k \in 1..p : s[k] = SiftDown(s[k - 1], p + 1 - k)
  <2>1. 0 \in 0..p /\ \A k \in 1..p : k \in 0..p /\ k # 0
    OBVIOUS
  <2> QED
    BY <1>2, <1>4, <2>1
<1> QED
  BY <1>1, <1>2, <1>5 DEF Rebuilds

\* Whatever the order of the entries, rebuild makes a heap of the same entries
\* (rebuild of min-heap.util.ts, which the lease expiries are compacted with).
THEOREM RebuildMakesHeap ==
  ASSUME NEW T, \A x \in T : x.at \in Nat, NEW d \in Seq(T)
  PROVE  /\ HeapRebuild(d) \in Seq(T) /\ IsHeap(HeapRebuild(d))
         /\ Reordered(d, HeapRebuild(d))
<1>1. PICK n \in Nat : d \in Heaps(T, n)
  BY DEF Heaps
<1>2. PICK h \in Nat : h = n \div 2
  OBVIOUS
<1>7. PICK s : /\ HeapRebuild(d) = s[h] /\ s[0] = d
               /\ \A k \in 1..h : s[k] = SiftDown(s[k - 1], h + 1 - k)
  <2>1. \E s : Rebuilds(s, d, n)
    BY <1>1, RebuildUnfolds
  <2> QED
    BY <1>2, <2>1 DEF Rebuilds
<1> DEFINE Done(k) == /\ s[k] \in Heaps(T, n) /\ Reordered(d, s[k])
                      /\ OrderedFrom(s[k], h + 1 - k)
           A == {k \in 0..h : Done(k)}
<1>3. Done(0)
  <2>1. \A c \in 2..n : ~(c \div 2 >= h + 1)
    BY <1>2
  <2>2. OrderedFrom(d, h + 1 - 0)
    BY <1>1, <2>1 DEF OrderedFrom, Heaps
  <2> QED
    BY <1>1, <1>7, <2>2 DEF Reordered
<1>4. ASSUME NEW k \in 0..h, k < h, Done(k) PROVE Done(k + 1)
  <2>1. PICK m \in 1..n : m = h + 1 - (k + 1) /\ h + 1 - k = m + 1
    <3>1. h + 1 - (k + 1) \in 1..n /\ h + 1 - k = (h + 1 - (k + 1)) + 1
      BY <1>2, <1>4
    <3> QED
      BY <3>1
  <2>2. PICK e : e = s[k] /\ e \in Heaps(T, n) /\ Reordered(d, e) /\ OrderedFrom(e, m + 1)
    BY <1>4, <2>1
  <2>3. s[k + 1] = SiftDown(e, m)
    <3>1. k + 1 \in 1..h /\ (k + 1) - 1 = k
      BY <1>4
    <3> QED
      BY <1>7, <2>1, <2>2, <3>1
  <2>4. GoesDown(e, m, m)
    <3>1. \A c \in 2..n : c \div 2 >= m /\ c \div 2 # m => c \div 2 >= m + 1
      OBVIOUS
    <3>2. m >= 2 => ~(m \div 2 >= m)
      BY Parent
    <3> QED
      BY <2>2, <3>1, <3>2 DEF GoesDown, OrderedBut, Bridged, OrderedFrom, Heaps
  <2>5. /\ SiftDown(e, m) \in Heaps(T, n) /\ Reordered(e, SiftDown(e, m))
        /\ OrderedFrom(SiftDown(e, m), m)
    <3>1. m \in Nat /\ m <= m
      OBVIOUS
    <3> QED
      BY <2>2, <2>4, <3>1, SiftDownFacts
  <2> QED
    BY <2>1, <2>2, <2>3, <2>5, ReorderedTwice
<1>5. Done(h)
  <2>1. 0 \in A /\ \A k \in 0..h : k < h /\ k \in A => k + 1 \in A
    <3> HIDE DEF Done
    <3> QED
      BY <1>3, <1>4
  <2>2. 0..h \subseteq A
    <3> HIDE DEF A
    <3> QED
      BY <2>1, UpTo
  <2> HIDE DEF Done
  <2> QED
    BY <2>2
<1>6. h + 1 - h = 1
  OBVIOUS
<1> QED
  BY <1>5, <1>6, <1>7, HeapIsOrdered DEF Heaps

-----------------------------------------------------------------------------
(* Sequences of rows: one row less or more, and how many are in a set.      *)

Row == [id : Nat, at : Nat, attempt : Nat \ {0}, handoff : Nat]

\* How many rows of L are in S.
Positions(L, S) == {k \in 1..Len(L) : L[k] \in S}
Count(L, S) == Cardinality(Positions(L, S))

\* One element less.
LEMMA RemoveAtFacts ==
  ASSUME NEW T, NEW s \in Seq(T), NEW i \in 1..Len(s)
  PROVE  /\ RemoveAt(s, i) \in Seq(T) /\ Len(RemoveAt(s, i)) = Len(s) - 1
         /\ \A k \in 1..(Len(s) - 1) : RemoveAt(s, i)[k] = IF k < i THEN s[k] ELSE s[k + 1]
<1>1. PICK n \in Nat : n = Len(s) /\ i \in 1..n
  OBVIOUS
<1>2. PICK a, b : a = SubSeq(s, 1, i - 1) /\ b = SubSeq(s, i + 1, n)
  OBVIOUS
<1>3. /\ a \in Seq(T) /\ Len(a) = i - 1 /\ \A k \in 1..(i - 1) : a[k] = s[k]
  BY <1>1, <1>2
<1>4. /\ b \in Seq(T) /\ Len(b) = n - i /\ \A k \in 1..(n - i) : b[k] = s[i + k]
  BY <1>1, <1>2
<1>5. RemoveAt(s, i) = a \o b
  BY <1>1, <1>2 DEF RemoveAt
<1>6. /\ a \o b \in Seq(T) /\ Len(a \o b) = n - 1
      /\ \A k \in 1..(n - 1) : (a \o b)[k] = IF k <= i - 1 THEN a[k] ELSE b[k - (i - 1)]
  <2>1. a \in Seq(T) /\ b \in Seq(T) /\ Len(a) = i - 1 /\ Len(b) = n - i
    BY <1>3, <1>4
  <2>2. /\ a \o b \in Seq(T) /\ Len(a \o b) = Len(a) + Len(b)
        /\ \A k \in 1..(Len(a) + Len(b)) :
             (a \o b)[k] = IF k <= Len(a) THEN a[k] ELSE b[k - Len(a)]
    BY <2>1, ConcatProperties
  <2>3. (i - 1) + (n - i) = n - 1
    BY <1>1
  <2> QED
    BY <2>1, <2>2, <2>3
<1>7. ASSUME NEW k \in 1..(n - 1) PROVE (a \o b)[k] = IF k < i THEN s[k] ELSE s[k + 1]
  <2>1. CASE k < i
    BY <1>1, <1>3, <1>6, <2>1
  <2>2. CASE ~(k < i)
    <3>1. k - (i - 1) \in 1..(n - i) /\ i + (k - (i - 1)) = k + 1 /\ ~(k <= i - 1)
      BY <1>1, <2>2
    <3> QED
      BY <1>4, <1>6, <2>2, <3>1
  <2> QED
    BY <2>1, <2>2
<1> QED
  BY <1>1, <1>5, <1>6, <1>7

\* The count is a finite number, and zero only if there is none.
LEMMA CountFacts ==
  ASSUME NEW T, NEW L \in Seq(T), NEW S
  PROVE  /\ Count(L, S) \in Nat /\ IsFiniteSet(Positions(L, S))
         /\ Count(L, S) = 0 <=> \A k \in 1..Len(L) : L[k] \notin S
<1>1. Len(L) \in Nat
  OBVIOUS
<1>2. IsFiniteSet(1..Len(L))
  BY <1>1, FS_Interval
<1>3. IsFiniteSet(Positions(L, S))
  BY <1>2, FS_Subset DEF Positions
<1>4. Count(L, S) \in Nat
  BY <1>3, FS_CardinalityType DEF Count
<1>5. Count(L, S) = 0 <=> Positions(L, S) = {}
  BY <1>3, FS_EmptySet DEF Count
<1>6. Positions(L, S) = {} <=> \A k \in 1..Len(L) : L[k] \notin S
  BY DEF Positions
<1> QED
  BY <1>3, <1>4, <1>5, <1>6

\* One row more counts one more, if it is in S.
LEMMA CountAppend ==
  ASSUME NEW T, NEW L \in Seq(T), NEW S, NEW r \in T
  PROVE  Count(Append(L, r), S) = IF r \in S THEN Count(L, S) + 1 ELSE Count(L, S)
<1>1. PICK n \in Nat : n = Len(L)
  OBVIOUS
<1>2. /\ Len(Append(L, r)) = n + 1 /\ Append(L, r)[n + 1] = r
      /\ \A k \in 1..n : Append(L, r)[k] = L[k]
  BY <1>1
<1>3. PICK A : A = Positions(L, S) /\ A = {k \in 1..n : L[k] \in S}
  BY <1>1 DEF Positions
<1>4. Positions(Append(L, r), S) = IF r \in S THEN A \cup {n + 1} ELSE A
  <2>1. \A k \in 1..(n + 1) : k = n + 1 \/ k \in 1..n
    OBVIOUS
  <2> QED
    BY <1>2, <1>3, <2>1 DEF Positions
<1>5. IsFiniteSet(A) /\ n + 1 \notin A
  <2>1. IsFiniteSet(Positions(L, S))
    BY CountFacts
  <2> QED
    BY <1>3, <2>1
<1>6. Cardinality(A \cup {n + 1}) = Cardinality(A) + 1
  BY <1>5, FS_AddElement
<1> QED
  BY <1>3, <1>4, <1>6 DEF Count

\* M is L without its row at i.
OneOut(M, L, i) ==
  /\ i \in 1..Len(L) /\ Len(M) = Len(L) - 1
  /\ \A k \in 1..Len(M) : M[k] = IF k < i THEN L[k] ELSE L[k + 1]

\* One row less counts one less, if it was in S.
LEMMA CountRemoved ==
  ASSUME NEW T, NEW L \in Seq(T), NEW M \in Seq(T), NEW S, NEW i, OneOut(M, L, i)
  PROVE  Count(M, S) = IF L[i] \in S THEN Count(L, S) - 1 ELSE Count(L, S)
<1> USE DEF OneOut
<1>1. PICK n \in Nat : n + 1 = Len(L) /\ n = Len(M) /\ i \in 1..(n + 1)
  <2>1. Len(L) \in Nat /\ Len(L) # 0 /\ Len(L) - 1 \in Nat /\ (Len(L) - 1) + 1 = Len(L)
    OBVIOUS
  <2> QED
    BY <2>1
<1>2. PICK A : A = Positions(L, S) /\ A = {k \in 1..(n + 1) : L[k] \in S} /\ IsFiniteSet(A)
  BY <1>1, CountFacts DEF Positions
<1>3. PICK B : B = Positions(M, S) /\ B = {k \in 1..n : M[k] \in S} /\ IsFiniteSet(B)
  BY <1>1, CountFacts DEF Positions
<1>4. PICK m : m = [k \in B |-> IF k < i THEN k ELSE k + 1]
  OBVIOUS
<1>5. m \in Bijection(B, A \ {i})
  <2>1. m \in [B -> A \ {i}]
    <3> SUFFICES ASSUME NEW k \in B PROVE (IF k < i THEN k ELSE k + 1) \in A \ {i}
      BY <1>4
    <3>1. k \in 1..n /\ M[k] \in S /\ M[k] = IF k < i THEN L[k] ELSE L[k + 1]
      BY <1>1, <1>3
    <3> QED
      BY <1>1, <1>2, <3>1
  <2>2. \A j, k \in B : m[j] = m[k] => j = k
    BY <1>1, <1>3, <1>4
  <2>3. ASSUME NEW a \in A \ {i} PROVE \E k \in B : m[k] = a
    <3>1. a \in 1..(n + 1) /\ L[a] \in S /\ a # i
      BY <1>2
    <3>2. CASE a < i
      <4>1. a \in 1..n /\ M[a] = L[a]
        BY <1>1, <3>1, <3>2
      <4> QED
        BY <1>3, <1>4, <3>1, <3>2, <4>1
    <3>3. CASE ~(a < i)
      <4>1. a - 1 \in 1..n /\ ~(a - 1 < i) /\ (a - 1) + 1 = a
        BY <1>1, <3>1, <3>3
      <4>2. M[a - 1] = L[a]
        BY <1>1, <4>1
      <4> QED
        BY <1>3, <1>4, <3>1, <4>1, <4>2
    <3> QED
      BY <3>2, <3>3
  <2> QED
    BY <2>1, <2>2, <2>3, Fun_IsBij
<1>6. IsFiniteSet(A \ {i}) /\ Cardinality(B) = Cardinality(A \ {i})
  <2>1. IsFiniteSet(A \ {i})
    BY <1>2, FS_RemoveElement
  <2>2. ExistsBijection(B, A \ {i})
    BY <1>5 DEF ExistsBijection
  <2> QED
    BY <1>3, <2>1, <2>2, FS_Bijection
<1>7. CASE L[i] \in S
  <2>1. i \in A
    BY <1>1, <1>2, <1>7
  <2>2. Cardinality(A \ {i}) = Cardinality(A) - 1
    BY <1>2, <2>1, FS_RemoveElement
  <2> QED
    BY <1>2, <1>3, <1>6, <1>7, <2>2 DEF Count
<1>8. CASE L[i] \notin S
  <2>1. A \ {i} = A
    BY <1>2, <1>8
  <2> QED
    BY <1>2, <1>3, <1>6, <1>8, <2>1 DEF Count
<1> QED
  BY <1>7, <1>8

-----------------------------------------------------------------------------
(* The FIFO of parallel arrays.                                            *)

Maybe(a, T, n) == a = Absent \/ (a \in Seq(T) /\ Len(a) = n)

Fifos == [items : Seq(Nat \cup {Absent}), ids : {Absent} \cup Seq(Nat),
          attempts : {Absent} \cup Seq(Nat \ {0}), handoffs : {Absent} \cup Seq(Nat),
          head : Nat, count : Nat, retried : Nat, handed : Nat, metadata : BOOLEAN]

\* The arrays are aligned, and a row's id is where trackAvailableIds (t) says.
Shape(f, t) ==
  /\ f \in Fifos /\ f.head + f.count = Len(f.items)
  /\ Maybe(f.ids, Nat, Len(f.items)) /\ Maybe(f.attempts, Nat \ {0}, Len(f.items))
  /\ Maybe(f.handoffs, Nat, Len(f.items))
  /\ t <=> Exists(f.ids)
  /\ \A k \in 1..f.count : /\ f.items[f.head + k] \in Nat
                           /\ Slot(f.ids, f.head + k, f.items[f.head + k])
                                = f.items[f.head + k]

\* The rows that are ready, in order.
LineOf(f) == [k \in 1..f.count |-> RowAt(f, f.head + k)]

\* The counts are those of the line.
Retried == {r \in Row : r.attempt > 1}
Handed == {r \in Row : r.handoff > 0}
Counted(f) == f.retried = Count(LineOf(f), Retried) /\ f.handed = Count(LineOf(f), Handed)

\* An array of metadata exists just as long as some row needs it.
Tidy(f) ==
  /\ Exists(f.attempts) <=> f.retried > 0
  /\ Exists(f.handoffs) <=> f.handed > 0
  /\ f.metadata <=> Exists(f.attempts) \/ Exists(f.handoffs)

Kept(f, t) == Shape(f, t) /\ Counted(f) /\ Tidy(f) /\ ~Sparse(f)

\* An array is not the value that stands for none.
LEMMA ArraysExist ==
  Absent \notin Seq(Nat \cup {Absent}) /\ Absent \notin Seq(Nat) /\ Absent \notin Seq(Nat \ {0})
<1>1. Absent \notin Seq(Nat \cup {Absent})
  BY StorageAssumption
<1>2. Seq(Nat) \subseteq Seq(Nat \cup {Absent}) /\ Seq(Nat \ {0}) \subseteq Seq(Nat \cup {Absent})
  OBVIOUS
<1> QED
  BY <1>1, <1>2

\* The line is a sequence of rows.
LEMMA LineFacts ==
  ASSUME NEW f, NEW t, Shape(f, t)
  PROVE  /\ LineOf(f) \in Seq(Row) /\ Len(LineOf(f)) = f.count
         /\ \A k \in 1..f.count :
              /\ LineOf(f)[k] = RowAt(f, f.head + k) /\ LineOf(f)[k].at = 0
              /\ f.head + k \in 1..Len(f.items)
<1>1. f.head \in Nat /\ f.count \in Nat /\ Len(f.items) = f.head + f.count
  BY DEF Shape, Fifos
<1>2. ASSUME NEW k \in 1..f.count
      PROVE  RowAt(f, f.head + k) \in Row /\ f.head + k \in 1..Len(f.items)
  <2>1. PICK i : i = f.head + k /\ i \in 1..Len(f.items)
    BY <1>1
  <2>2. f.items[i] \in Nat
    BY <2>1 DEF Shape
  <2>3. Slot(f.attempts, i, 1) \in Nat \ {0}
    <3>1. f.attempts = Absent \/ (f.attempts \in Seq(Nat \ {0}) /\ i \in 1..Len(f.attempts))
      BY <2>1 DEF Shape, Maybe
    <3> QED
      BY <3>1 DEF Slot, Exists
  <2>4. Slot(f.handoffs, i, 0) \in Nat
    <3>1. f.handoffs = Absent \/ (f.handoffs \in Seq(Nat) /\ i \in 1..Len(f.handoffs))
      BY <2>1 DEF Shape, Maybe
    <3> QED
      BY <3>1 DEF Slot, Exists
  <2> QED
    BY <2>1, <2>2, <2>3, <2>4 DEF RowAt, Row
<1>3. PICK n \in Nat : n = f.count
  BY <1>1
<1>4. LineOf(f) = [k \in 1..n |-> RowAt(f, f.head + k)]
  BY <1>3 DEF LineOf
<1>5. LineOf(f) \in [1..n -> Row]
  BY <1>2, <1>3, <1>4
<1>6. LineOf(f) \in Seq(Row) /\ Len(LineOf(f)) = n
  BY <1>5
<1>7. \A i : RowAt(f, i).at = 0
  BY DEF RowAt
<1> QED
  BY <1>2, <1>3, <1>4, <1>6, <1>7

\* Rows whose array is not there have the default.
LEMMA Defaults ==
  ASSUME NEW f, NEW t, Shape(f, t), Counted(f), NEW i \in (f.head + 1)..Len(f.items)
  PROVE  /\ f.retried = 0 => Slot(f.attempts, i, 1) = 1
         /\ f.handed = 0 => Slot(f.handoffs, i, 0) = 0
<1>1. f.head \in Nat /\ f.count \in Nat /\ Len(f.items) = f.head + f.count
  BY DEF Shape, Fifos
<1>2. PICK k : k \in 1..f.count /\ f.head + k = i
  <2>1. i - f.head \in 1..f.count /\ f.head + (i - f.head) = i
    BY <1>1
  <2> QED
    BY <2>1
<1>3. /\ LineOf(f) \in Seq(Row) /\ Len(LineOf(f)) = f.count
      /\ LineOf(f)[k] = RowAt(f, i) /\ LineOf(f)[k] \in Row
  <2>1. LineOf(f) \in Seq(Row) /\ Len(LineOf(f)) = f.count /\ LineOf(f)[k] = RowAt(f, f.head + k)
    BY <1>2, LineFacts
  <2>2. LineOf(f)[k] \in Row
    BY <1>2, <2>1
  <2> QED
    BY <1>2, <2>1, <2>2
<1>4. ASSUME f.retried = 0 PROVE LineOf(f)[k] \notin Retried
  BY <1>2, <1>3, <1>4, CountFacts DEF Counted
<1>5. ASSUME f.handed = 0 PROVE LineOf(f)[k] \notin Handed
  BY <1>2, <1>3, <1>5, CountFacts DEF Counted
<1>6. /\ LineOf(f)[k].attempt = Slot(f.attempts, i, 1)
      /\ LineOf(f)[k].handoff = Slot(f.handoffs, i, 0)
  BY <1>3 DEF RowAt
<1>7. /\ LineOf(f)[k].attempt \in Nat \ {0} /\ LineOf(f)[k].handoff \in Nat
  BY <1>3 DEF Row
<1> QED
  BY <1>3, <1>4, <1>5, <1>6, <1>7 DEF Retried, Handed

\* releaseAvailableMetadata drops only arrays of defaults.
LEMMA ReleaseFacts ==
  ASSUME NEW f, NEW t, Shape(f, t), Counted(f)
  PROVE  LET g == ReleaseAvailableMetadata(f)
         IN /\ Shape(g, t) /\ Counted(g) /\ Tidy(g) /\ LineOf(g) = LineOf(f)
            /\ g.count = f.count /\ g.head = f.head /\ g.items = f.items
<1> DEFINE g == ReleaseAvailableMetadata(f)
           a == IF f.retried = 0 THEN Absent ELSE f.attempts
           h == IF f.handed = 0 THEN Absent ELSE f.handoffs
<1>1. /\ g = [f EXCEPT !.attempts = a, !.handoffs = h, !.metadata = Exists(a) \/ Exists(h)]
      /\ f \in Fifos
  BY DEF ReleaseAvailableMetadata, Shape
<1>2. a = Absent \/ a = f.attempts
  OBVIOUS
<1>3. h = Absent \/ h = f.handoffs
  OBVIOUS
<1>4. (Exists(a) \/ Exists(h)) \in BOOLEAN
  OBVIOUS
<1>5. /\ g.items = f.items /\ g.ids = f.ids /\ g.attempts = a /\ g.handoffs = h
      /\ g.head = f.head /\ g.count = f.count /\ g.retried = f.retried /\ g.handed = f.handed
      /\ g.metadata = (Exists(a) \/ Exists(h)) /\ g \in Fifos
  BY <1>1, <1>2, <1>3, <1>4 DEF Fifos
<1> HIDE DEF g
<1>6. Shape(g, t)
  BY <1>2, <1>3, <1>5 DEF Shape, Maybe
<1>7. \A i \in (f.head + 1)..Len(f.items) : RowAt(g, i) = RowAt(f, i)
  <2> SUFFICES ASSUME NEW i \in (f.head + 1)..Len(f.items) PROVE RowAt(g, i) = RowAt(f, i)
    OBVIOUS
  <2>1. Slot(a, i, 1) = Slot(f.attempts, i, 1) /\ Slot(h, i, 0) = Slot(f.handoffs, i, 0)
    BY Defaults DEF Slot, Exists
  <2> HIDE DEF a, h
  <2> QED
    BY <1>5, <2>1 DEF RowAt
<1>8. LineOf(g) = LineOf(f)
  <2>1. f.head \in Nat /\ f.count \in Nat /\ Len(f.items) = f.head + f.count
    BY DEF Shape, Fifos
  <2>2. \A k \in 1..f.count : RowAt(g, g.head + k) = RowAt(f, f.head + k)
    <3> HIDE DEF a, h
    <3> QED
      BY <1>5, <1>7, <2>1
  <2> HIDE DEF a, h
  <2> QED
    BY <1>5, <2>2 DEF LineOf
<1>9. Counted(g)
  BY <1>5, <1>8 DEF Counted
<1>10. Tidy(g)
  <2>1. f.retried \in Nat /\ f.handed \in Nat
    BY <1>1 DEF Fifos
  <2>2. f.retried > 0 => Exists(f.attempts)
    <3> SUFFICES ASSUME f.attempts = Absent PROVE f.retried = 0
      BY <2>1 DEF Exists
    <3>1. \A k \in 1..f.count : LineOf(f)[k] \notin Retried
      <4> SUFFICES ASSUME NEW k \in 1..f.count PROVE LineOf(f)[k].attempt = 1
        BY DEF Retried
      <4>1. LineOf(f)[k] = RowAt(f, f.head + k)
        BY LineFacts
      <4> QED
        BY <4>1 DEF RowAt, Slot, Exists
    <3> QED
      BY <3>1, LineFacts, CountFacts DEF Counted
  <2>3. f.handed > 0 => Exists(f.handoffs)
    <3> SUFFICES ASSUME f.handoffs = Absent PROVE f.handed = 0
      BY <2>1 DEF Exists
    <3>1. \A k \in 1..f.count : LineOf(f)[k] \notin Handed
      <4> SUFFICES ASSUME NEW k \in 1..f.count PROVE LineOf(f)[k].handoff = 0
        BY DEF Handed
      <4>1. LineOf(f)[k] = RowAt(f, f.head + k)
        BY LineFacts
      <4> QED
        BY <4>1 DEF RowAt, Slot, Exists
    <3> QED
      BY <3>1, LineFacts, CountFacts DEF Counted
  <2>4. Exists(g.attempts) <=> g.retried > 0
    BY <1>5, <2>1, <2>2 DEF Exists
  <2>5. Exists(g.handoffs) <=> g.handed > 0
    BY <1>5, <2>1, <2>3 DEF Exists
  <2>6. g.metadata <=> Exists(g.attempts) \/ Exists(g.handoffs)
    <3> HIDE DEF a, h
    <3> QED
      BY <1>5
  <2> QED
    BY <2>4, <2>5, <2>6 DEF Tidy
<1> QED
  BY <1>5, <1>6, <1>8, <1>9, <1>10 DEF g

\* b has the slots of a that follow the h first.
Shifted(b, a, T, h, c) ==
  /\ Maybe(b, T, c) /\ Exists(b) = Exists(a)
  /\ \A v, k : k \in 1..c => Slot(b, k, v) = Slot(a, h + k, v)

\* The slots before the head are dropped from one array.
LEMMA FromFacts ==
  ASSUME NEW T, Absent \notin Seq(T), NEW h \in Nat, NEW c \in Nat,
         NEW a, Maybe(a, T, h + c)
  PROVE  Shifted(From(a, h), a, T, h, c)
<1> SUFFICES
         /\ Maybe(From(a, h), T, c) /\ Exists(From(a, h)) = Exists(a)
         /\ \A v, k : k \in 1..c => Slot(From(a, h), k, v) = Slot(a, h + k, v)
  BY DEF Shifted
<1>1. CASE a = Absent
  BY <1>1 DEF From, Maybe, Exists, Slot
<1>2. CASE a # Absent
  <2>1. a \in Seq(T) /\ Len(a) = h + c
    BY <1>2 DEF Maybe
  <2>2. From(a, h) = SubSeq(a, h + 1, h + c)
    BY <1>2, <2>1 DEF From, Exists
  <2>3. /\ SubSeq(a, h + 1, h + c) \in Seq(T) /\ Len(SubSeq(a, h + 1, h + c)) = c
        /\ \A k \in 1..c : SubSeq(a, h + 1, h + c)[k] = a[h + k]
    BY <2>1
  <2> QED
    BY <1>2, <2>2, <2>3 DEF Maybe, Exists, Slot
<1> QED
  BY <1>1, <1>2

\* One slot of an array is overwritten.
Blanked(a, i, w) == IF Exists(a) THEN [a EXCEPT ![i] = w] ELSE Absent

\* b has the slots of a but for the one at i.
ButOne(b, a, T, n, i) ==
  /\ Maybe(b, T, n) /\ Exists(b) = Exists(a)
  /\ \A v, k : k \in 1..n /\ k # i => Slot(b, k, v) = Slot(a, k, v)

\* The other slots keep their values.
LEMMA BlankedFacts ==
  ASSUME NEW T, Absent \notin Seq(T), NEW n \in Nat, NEW i \in 1..n, NEW w \in T,
         NEW a, Maybe(a, T, n)
  PROVE  ButOne(Blanked(a, i, w), a, T, n, i)
<1> SUFFICES
         /\ Maybe(Blanked(a, i, w), T, n) /\ Exists(Blanked(a, i, w)) = Exists(a)
         /\ \A v, k : k \in 1..n /\ k # i => Slot(Blanked(a, i, w), k, v) = Slot(a, k, v)
  BY DEF ButOne
<1>1. CASE a = Absent
  BY <1>1 DEF Blanked, Maybe, Exists, Slot
<1>2. CASE a # Absent
  <2>1. a \in Seq(T) /\ Len(a) = n
    BY <1>2 DEF Maybe
  <2>2. Blanked(a, i, w) = [a EXCEPT ![i] = w]
    BY <1>2 DEF Blanked, Exists
  <2>3. PICK b : b = [a EXCEPT ![i] = w]
    OBVIOUS
  <2>4. b \in Seq(T) /\ Len(b) = n /\ \A k \in 1..n : k # i => b[k] = a[k]
    BY <2>1, <2>3
  <2> QED
    BY <1>2, <2>2, <2>3, <2>4 DEF Maybe, Exists, Slot
<1> QED
  BY <1>1, <1>2

\* One slot is cut out of an array.
Cut(a, i) == IF Exists(a) THEN RemoveAt(a, i) ELSE Absent

\* b has the slots of a without the one at i.
LessOne(b, a, T, n, i) ==
  /\ Maybe(b, T, n - 1) /\ Exists(b) = Exists(a)
  /\ \A v, k : k \in 1..(n - 1) =>
       Slot(b, k, v) = IF k < i THEN Slot(a, k, v) ELSE Slot(a, k + 1, v)

\* The slots after it move up by one.
LEMMA CutFacts ==
  ASSUME NEW T, Absent \notin Seq(T), NEW n \in Nat, NEW i \in 1..n, NEW a, Maybe(a, T, n)
  PROVE  LessOne(Cut(a, i), a, T, n, i)
<1> SUFFICES
         /\ Maybe(Cut(a, i), T, n - 1) /\ Exists(Cut(a, i)) = Exists(a)
         /\ \A v, k : k \in 1..(n - 1) =>
              Slot(Cut(a, i), k, v) = IF k < i THEN Slot(a, k, v) ELSE Slot(a, k + 1, v)
  BY DEF LessOne
<1>1. CASE a = Absent
  BY <1>1 DEF Cut, Maybe, Exists, Slot
<1>2. CASE a # Absent
  <2>1. a \in Seq(T) /\ Len(a) = n
    BY <1>2 DEF Maybe
  <2>2. Cut(a, i) = RemoveAt(a, i)
    BY <1>2 DEF Cut, Exists
  <2>3. /\ RemoveAt(a, i) \in Seq(T) /\ Len(RemoveAt(a, i)) = n - 1
        /\ \A k \in 1..(n - 1) : RemoveAt(a, i)[k] = IF k < i THEN a[k] ELSE a[k + 1]
    BY <2>1, RemoveAtFacts
  <2> QED
    BY <1>2, <2>2, <2>3 DEF Maybe, Exists, Slot
<1> QED
  BY <1>1, <1>2

\* b has the slots of a, and w if there is an array at all.
OneMore(b, a, T, n, w) ==
  /\ Maybe(b, T, n + 1) /\ Exists(b) = Exists(a)
  /\ \A v, k : k \in 1..n => Slot(b, k, v) = Slot(a, k, v)
  /\ \A v : Slot(b, n + 1, v) = IF Exists(a) THEN w ELSE v

\* One slot is added to an array.
LEMMA PushedFacts ==
  ASSUME NEW T, Absent \notin Seq(T), NEW n \in Nat, NEW w \in T, NEW a, Maybe(a, T, n)
  PROVE  OneMore(Pushed(a, w), a, T, n, w)
<1> SUFFICES
         /\ Maybe(Pushed(a, w), T, n + 1) /\ Exists(Pushed(a, w)) = Exists(a)
         /\ \A v, k : k \in 1..n => Slot(Pushed(a, w), k, v) = Slot(a, k, v)
         /\ \A v : Slot(Pushed(a, w), n + 1, v) = IF Exists(a) THEN w ELSE v
  BY DEF OneMore
<1>1. CASE a = Absent
  BY <1>1 DEF Pushed, Maybe, Exists, Slot
<1>2. CASE a # Absent
  <2>1. a \in Seq(T) /\ Len(a) = n
    BY <1>2 DEF Maybe
  <2>2. Pushed(a, w) = Append(a, w)
    BY <1>2 DEF Pushed, Exists
  <2>3. /\ Append(a, w) \in Seq(T) /\ Len(Append(a, w)) = n + 1 /\ Append(a, w)[n + 1] = w
        /\ \A k \in 1..n : Append(a, w)[k] = a[k]
    BY <2>1
  <2> QED
    BY <1>2, <2>2, <2>3 DEF Maybe, Exists, Slot
<1> QED
  BY <1>1, <1>2

\* b exists, and reads as a does where the default is v.
MadeOf(b, a, T, n, v) ==
  Maybe(b, T, n) /\ Exists(b) /\ \A k \in 1..n : Slot(b, k, v) = Slot(a, k, v)

\* An array is made for the rows there are, all of which have the default.
LEMMA MaterializedFacts ==
  ASSUME NEW T, Absent \notin Seq(T), NEW f, NEW n \in Nat, f.items \in Seq(Nat \cup {Absent}),
         Len(f.items) = n, NEW v \in T, NEW a, Maybe(a, T, n)
  PROVE  MadeOf(Materialized(a, f, v), a, T, n, v)
<1> SUFFICES
         /\ Maybe(Materialized(a, f, v), T, n) /\ Exists(Materialized(a, f, v))
         /\ \A k \in 1..n : Slot(Materialized(a, f, v), k, v) = Slot(a, k, v)
  BY DEF MadeOf
<1>1. CASE a = Absent
  <2>1. PICK b : b = [k \in 1..n |-> v]
    OBVIOUS
  <2>2. DOMAIN f.items = 1..n
    OBVIOUS
  <2>3. Materialized(a, f, v) = b
    BY <1>1, <2>1, <2>2 DEF Materialized, Exists
  <2>4. b \in [1..n -> T]
    BY <2>1
  <2>5. b \in Seq(T) /\ Len(b) = n
    BY <2>4
  <2> QED
    BY <1>1, <2>1, <2>3, <2>5 DEF Maybe, Exists, Slot
<1>2. CASE a # Absent
  BY <1>2 DEF Materialized, Maybe, Exists, Slot
<1> QED
  BY <1>1, <1>2

\* An empty line counts nothing.
LEMMA EmptyLine ==
  ASSUME NEW f, NEW t, Shape(f, t), Counted(f), f.count = 0
  PROVE  f.retried = 0 /\ f.handed = 0
<1>1. LineOf(f) \in Seq(Row) /\ Len(LineOf(f)) = 0
  BY LineFacts
<1>2. \A S : Count(LineOf(f), S) = 0
  <2> SUFFICES ASSUME NEW S PROVE Count(LineOf(f), S) = 0
    OBVIOUS
  <2>1. \A k \in 1..Len(LineOf(f)) : LineOf(f)[k] \notin S
    BY <1>1
  <2> QED
    BY <1>1, <2>1, CountFacts
<1> QED
  BY <1>2 DEF Counted

\* compactAvailable moves the slots, not the line.
LEMMA CompactFacts ==
  ASSUME NEW f, NEW t, Shape(f, t), Counted(f), Tidy(f)
  PROVE  LET g == CompactAvailable(f)
         IN /\ Shape(g, t) /\ Counted(g) /\ Tidy(g) /\ LineOf(g) = LineOf(f)
            /\ g.count = f.count /\ (f.count = 0 \/ Sparse(f) => g.head = 0)
<1> DEFINE g == CompactAvailable(f)
<1>1. /\ f \in Fifos /\ f.head \in Nat /\ f.count \in Nat /\ Len(f.items) = f.head + f.count
      /\ f.retried \in Nat /\ f.handed \in Nat
  BY DEF Shape, Fifos
<1>2. CASE f.head = 0
  <2>1. g = f
    BY <1>2 DEF CompactAvailable
  <2> QED
    BY <1>2, <2>1
<1>3. CASE f.head # 0 /\ f.count = 0
  <2>1. f.retried = 0 /\ f.handed = 0 /\ f.attempts = Absent /\ f.handoffs = Absent
    BY <1>1, <1>3, EmptyLine DEF Tidy, Exists
  <2>2. g = [f EXCEPT !.items = <<>>, !.ids = Emptied(@), !.attempts = Emptied(@),
                      !.handoffs = Emptied(@), !.head = 0, !.retried = 0, !.handed = 0,
                      !.metadata = FALSE]
    BY <1>3 DEF CompactAvailable
  <2>3. Emptied(f.attempts) = Absent /\ Emptied(f.handoffs) = Absent
    BY <2>1 DEF Emptied, Exists
  <2>4. Maybe(Emptied(f.ids), Nat, 0) /\ Exists(Emptied(f.ids)) = Exists(f.ids)
    <3>1. Absent # <<>>
      <4>1. <<>> \in Seq(Nat)
        OBVIOUS
      <4> QED
        BY <4>1, ArraysExist
    <3> QED
      BY <3>1 DEF Emptied, Maybe, Exists
  <2>5. Emptied(f.ids) \in {Absent} \cup Seq(Nat)
    BY <2>4 DEF Maybe
  <2>6. /\ g.items = <<>> /\ g.ids = Emptied(f.ids) /\ g.attempts = Absent /\ g.handoffs = Absent
        /\ g.head = 0 /\ g.count = 0 /\ g.retried = 0 /\ g.handed = 0 /\ g.metadata = FALSE
        /\ g \in Fifos
    <3>1. g = [items |-> <<>>, ids |-> Emptied(f.ids), attempts |-> Absent,
               handoffs |-> Absent, head |-> 0, count |-> 0, retried |-> 0, handed |-> 0,
               metadata |-> FALSE]
      BY <1>1, <1>3, <2>2, <2>3 DEF Fifos
    <3> HIDE DEF g
    <3>2. <<>> \in Seq(Nat \cup {Absent})
      OBVIOUS
    <3> QED
      BY <2>5, <3>1, <3>2 DEF Fifos
  <2> HIDE DEF g
  <2>7. Shape(g, t)
    <3>1. Len(<<>>) = 0
      OBVIOUS
    <3> QED
      BY <2>4, <2>6, <3>1 DEF Shape, Maybe
  <2>8. LineOf(g) = LineOf(f)
    BY <1>3, <2>6 DEF LineOf
  <2>9. Counted(g) /\ Tidy(g)
    <3>1. Counted(g)
      BY <2>1, <2>6, <2>8 DEF Counted
    <3>2. Tidy(g)
      BY <2>6 DEF Tidy, Exists
    <3> QED
      BY <3>1, <3>2
  <2> QED
    BY <1>3, <2>6, <2>7, <2>8, <2>9 DEF g
<1>4. CASE f.head # 0 /\ f.count # 0 /\ Sparse(f)
  <2>1. g = [f EXCEPT !.items = From(@, f.head), !.ids = From(@, f.head),
                      !.attempts = From(@, f.head), !.handoffs = From(@, f.head), !.head = 0]
    BY <1>4 DEF CompactAvailable
  <2>2. f.head \in Nat /\ f.count \in Nat
    BY <1>1
  <2>3. /\ Maybe(f.items, Nat \cup {Absent}, f.head + f.count)
        /\ Maybe(f.ids, Nat, f.head + f.count)
        /\ Maybe(f.attempts, Nat \ {0}, f.head + f.count)
        /\ Maybe(f.handoffs, Nat, f.head + f.count)
    BY <1>1 DEF Shape, Maybe, Fifos
  <2>4. Absent \notin Seq(Nat) /\ Absent \notin Seq(Nat \ {0}) /\ Absent \notin Seq(Nat \cup {Absent})
    BY ArraysExist
  <2>5. Shifted(From(f.items, f.head), f.items, Nat \cup {Absent}, f.head, f.count)
    BY <2>2, <2>3, <2>4, FromFacts
  <2>6. Shifted(From(f.ids, f.head), f.ids, Nat, f.head, f.count)
    BY <2>2, <2>3, <2>4, FromFacts
  <2>7. Shifted(From(f.attempts, f.head), f.attempts, Nat \ {0}, f.head, f.count)
    BY <2>2, <2>3, <2>4, FromFacts
  <2>8. Shifted(From(f.handoffs, f.head), f.handoffs, Nat, f.head, f.count)
    BY <2>2, <2>3, <2>4, FromFacts
  <2>9. /\ Maybe(From(f.items, f.head), Nat \cup {Absent}, f.count)
        /\ Exists(From(f.items, f.head)) = Exists(f.items)
        /\ \A v, k : k \in 1..f.count =>
             Slot(From(f.items, f.head), k, v) = Slot(f.items, f.head + k, v)
    BY <2>5 DEF Shifted
  <2>10. /\ Maybe(From(f.ids, f.head), Nat, f.count)
        /\ Exists(From(f.ids, f.head)) = Exists(f.ids)
        /\ \A v, k : k \in 1..f.count =>
             Slot(From(f.ids, f.head), k, v) = Slot(f.ids, f.head + k, v)
    BY <2>6 DEF Shifted
  <2>11. /\ Maybe(From(f.attempts, f.head), Nat \ {0}, f.count)
        /\ Exists(From(f.attempts, f.head)) = Exists(f.attempts)
        /\ \A v, k : k \in 1..f.count =>
             Slot(From(f.attempts, f.head), k, v) = Slot(f.attempts, f.head + k, v)
    BY <2>7 DEF Shifted
  <2>12. /\ Maybe(From(f.handoffs, f.head), Nat, f.count)
        /\ Exists(From(f.handoffs, f.head)) = Exists(f.handoffs)
        /\ \A v, k : k \in 1..f.count =>
             Slot(From(f.handoffs, f.head), k, v) = Slot(f.handoffs, f.head + k, v)
    BY <2>8 DEF Shifted
  <2>13. Exists(f.items) /\ From(f.items, f.head) \in Seq(Nat \cup {Absent})
        /\ Len(From(f.items, f.head)) = f.count
    BY <1>1, <2>9, ArraysExist DEF Maybe, Exists, Fifos
  <2>14. \A k \in 1..f.count : From(f.items, f.head)[k] = f.items[f.head + k]
    <3> SUFFICES ASSUME NEW k \in 1..f.count
                 PROVE  From(f.items, f.head)[k] = f.items[f.head + k]
      OBVIOUS
    <3>1. Slot(From(f.items, f.head), k, 0) = Slot(f.items, f.head + k, 0)
      BY <2>9
    <3> QED
      BY <2>9, <2>13, <3>1 DEF Slot
  <2>15. /\ From(f.ids, f.head) \in {Absent} \cup Seq(Nat)
         /\ From(f.attempts, f.head) \in {Absent} \cup Seq(Nat \ {0})
         /\ From(f.handoffs, f.head) \in {Absent} \cup Seq(Nat)
    BY <2>10, <2>11, <2>12 DEF Maybe
  <2>16. /\ g.items = From(f.items, f.head) /\ g.ids = From(f.ids, f.head)
         /\ g.attempts = From(f.attempts, f.head) /\ g.handoffs = From(f.handoffs, f.head)
         /\ g.head = 0 /\ g.count = f.count /\ g.retried = f.retried /\ g.handed = f.handed
         /\ g.metadata = f.metadata /\ g \in Fifos
    <3>1. g = [items |-> From(f.items, f.head), ids |-> From(f.ids, f.head),
               attempts |-> From(f.attempts, f.head), handoffs |-> From(f.handoffs, f.head),
               head |-> 0, count |-> f.count, retried |-> f.retried, handed |-> f.handed,
               metadata |-> f.metadata]
      BY <1>1, <2>1 DEF Fifos
    <3> HIDE DEF g
    <3>2. f.metadata \in BOOLEAN
      BY <1>1 DEF Fifos
    <3> QED
      BY <1>1, <2>13, <2>15, <3>1, <3>2 DEF Fifos
  <2> HIDE DEF g
  <2>17. ASSUME NEW k \in 1..f.count
         PROVE  /\ g.items[0 + k] = f.items[f.head + k]
                /\ Slot(g.ids, 0 + k, f.items[f.head + k]) = f.items[f.head + k]
                /\ RowAt(g, 0 + k) = RowAt(f, f.head + k)
    <3>1. 0 + k = k
      OBVIOUS
    <3>2. Slot(f.ids, f.head + k, f.items[f.head + k]) = f.items[f.head + k]
      BY DEF Shape
    <3>3. /\ g.items[k] = f.items[f.head + k]
          /\ Slot(g.ids, k, f.items[f.head + k]) = f.items[f.head + k]
          /\ Slot(g.attempts, k, 1) = Slot(f.attempts, f.head + k, 1)
          /\ Slot(g.handoffs, k, 0) = Slot(f.handoffs, f.head + k, 0)
      BY <2>10, <2>11, <2>12, <2>14, <2>16, <3>2
    <3> QED
      BY <3>1, <3>3 DEF RowAt
  <2>18. Shape(g, t)
    <3>1. \A k \in 1..f.count : f.items[f.head + k] \in Nat
      BY DEF Shape
    <3>2. t <=> Exists(g.ids)
      BY <2>10, <2>16 DEF Shape
    <3>3. 0 + f.count = f.count
      BY <1>1
    <3> QED
      BY <2>10, <2>11, <2>12, <2>13, <2>16, <2>17, <3>1, <3>2, <3>3 DEF Shape
  <2>19. LineOf(g) = LineOf(f)
    BY <2>16, <2>17 DEF LineOf
  <2>20. Counted(g)
    BY <2>16, <2>19 DEF Counted
  <2>21. Tidy(g)
    BY <2>11, <2>12, <2>16 DEF Tidy
  <2> QED
    BY <2>16, <2>18, <2>19, <2>20, <2>21 DEF g
<1>5. CASE f.head # 0 /\ f.count # 0 /\ ~Sparse(f)
  <2>1. g = f
    BY <1>5 DEF CompactAvailable
  <2> QED
    BY <1>5, <2>1
<1> QED
  BY <1>2, <1>3, <1>4, <1>5

\* The end of a removal, after the count.
LEMMA AfterRemovalFacts ==
  ASSUME NEW f, NEW t, NEW h, h = [f EXCEPT !.count = @ - 1], Shape(h, t), Counted(h)
  PROVE  Kept(AfterRemoval(f), t) /\ LineOf(AfterRemoval(f)) = LineOf(h)
<1>1. PICK r : r = ReleaseAvailableMetadata(h)
  OBVIOUS
<1>2. Shape(r, t) /\ Counted(r) /\ Tidy(r) /\ LineOf(r) = LineOf(h)
  BY <1>1, ReleaseFacts
<1>3. AfterRemoval(f) = IF r.count = 0 \/ Sparse(r) THEN CompactAvailable(r) ELSE r
  BY <1>1 DEF AfterRemoval
<1>4. CASE r.count = 0 \/ Sparse(r)
  <2>1. PICK g : g = CompactAvailable(r)
    OBVIOUS
  <2>2. /\ Shape(g, t) /\ Counted(g) /\ Tidy(g) /\ LineOf(g) = LineOf(r) /\ g.head = 0
    BY <1>2, <1>4, <2>1, CompactFacts
  <2>3. ~Sparse(g)
    BY <2>2, StorageAssumption DEF Sparse
  <2> QED
    BY <1>2, <1>3, <1>4, <2>1, <2>2, <2>3 DEF Kept
<1>5. CASE ~(r.count = 0 \/ Sparse(r))
  BY <1>2, <1>3, <1>5 DEF Kept
<1> QED
  BY <1>4, <1>5

\* A row less in the line: what the counts become.
LEMMA TakenCounts ==
  ASSUME NEW f, NEW t, Shape(f, t), Counted(f), NEW j \in 1..f.count
  PROVE  LET M == RemoveAt(LineOf(f), j)
         IN /\ M \in Seq(Row) /\ Len(M) = f.count - 1
            /\ \A k \in 1..(f.count - 1) :
                 M[k] = RowAt(f, f.head + (IF k < j THEN k ELSE k + 1))
            /\ Less(f.retried, Slot(f.attempts, f.head + j, 1) > 1) = Count(M, Retried)
            /\ Less(f.handed, Slot(f.handoffs, f.head + j, 0) > 0) = Count(M, Handed)
            /\ Count(M, Retried) \in Nat /\ Count(M, Handed) \in Nat
<1>1. PICK L, n : L = LineOf(f) /\ n = f.count
  OBVIOUS
<1>2. /\ L \in Seq(Row) /\ Len(L) = n /\ n \in Nat /\ j \in 1..n
      /\ \A k \in 1..n : L[k] = RowAt(f, f.head + k)
  <2>1. f.count \in Nat
    BY DEF Shape, Fifos
  <2> QED
    BY <1>1, <2>1, LineFacts
<1>3. PICK M : M = RemoveAt(L, j)
  OBVIOUS
<1>4. /\ M \in Seq(Row) /\ Len(M) = n - 1
      /\ \A k \in 1..(n - 1) : M[k] = IF k < j THEN L[k] ELSE L[k + 1]
  <2>1. j \in 1..Len(L)
    BY <1>2
  <2>2. /\ RemoveAt(L, j) \in Seq(Row) /\ Len(RemoveAt(L, j)) = Len(L) - 1
        /\ \A k \in 1..(Len(L) - 1) : RemoveAt(L, j)[k] = IF k < j THEN L[k] ELSE L[k + 1]
    BY <1>2, <2>1, RemoveAtFacts
  <2> QED
    BY <1>2, <1>3, <2>2
<1>5. \A k \in 1..(n - 1) : M[k] = RowAt(f, f.head + (IF k < j THEN k ELSE k + 1))
  <2> SUFFICES ASSUME NEW k \in 1..(n - 1)
               PROVE  M[k] = RowAt(f, f.head + (IF k < j THEN k ELSE k + 1))
    OBVIOUS
  <2>1. k \in 1..n /\ k + 1 \in 1..n
    BY <1>2
  <2> QED
    BY <1>2, <1>4, <2>1
<1>6. \A S : Count(M, S) = IF L[j] \in S THEN Count(L, S) - 1 ELSE Count(L, S)
  <2> SUFFICES ASSUME NEW S
               PROVE  Count(M, S) = IF L[j] \in S THEN Count(L, S) - 1 ELSE Count(L, S)
    OBVIOUS
  <2>1. j \in 1..Len(L) /\ Len(M) = Len(L) - 1
    BY <1>2, <1>4
  <2>2. OneOut(M, L, j)
    BY <1>4, <2>1 DEF OneOut
  <2>3. L \in Seq(Row) /\ M \in Seq(Row)
    BY <1>2, <1>4
  <2> QED
    BY <2>2, <2>3, CountRemoved
<1>7. Count(M, Retried) \in Nat /\ Count(M, Handed) \in Nat
  BY <1>4, CountFacts
<1>8. /\ L[j] \in Retried <=> Slot(f.attempts, f.head + j, 1) > 1
      /\ L[j] \in Handed <=> Slot(f.handoffs, f.head + j, 0) > 0
  <2>1. L[j] \in Row /\ L[j] = RowAt(f, f.head + j)
    BY <1>2
  <2>2. /\ L[j].attempt = Slot(f.attempts, f.head + j, 1)
        /\ L[j].handoff = Slot(f.handoffs, f.head + j, 0)
    BY <2>1 DEF RowAt
  <2> QED
    BY <2>1, <2>2 DEF Retried, Handed
<1>9. Less(f.retried, Slot(f.attempts, f.head + j, 1) > 1) = Count(M, Retried)
  BY <1>1, <1>6, <1>8 DEF Less, Counted
<1>10. Less(f.handed, Slot(f.handoffs, f.head + j, 0) > 0) = Count(M, Handed)
  BY <1>1, <1>6, <1>8 DEF Less, Counted
<1> QED
  BY <1>1, <1>3, <1>4, <1>5, <1>7, <1>9, <1>10

\* Two lines with the same rows are the same.
LEMMA SameLine ==
  ASSUME NEW f, NEW t, Shape(f, t), NEW M \in Seq(Row), Len(M) = f.count,
         \A k \in 1..f.count : RowAt(f, f.head + k) = M[k]
  PROVE  LineOf(f) = M
<1>1. LineOf(f) \in Seq(Row) /\ Len(LineOf(f)) = f.count
  BY LineFacts
<1>2. \A k \in 1..f.count : LineOf(f)[k] = M[k]
  BY LineFacts
<1>3. f.count \in Nat
  BY DEF Shape, Fifos
<1>4. LineOf(f) = [k \in 1..f.count |-> LineOf(f)[k]] /\ M = [k \in 1..f.count |-> M[k]]
  BY <1>1, <1>3
<1> QED
  BY <1>2, <1>4

\* The arrays of a FIFO, each of its own kind.
LEMMA ArraysOf ==
  ASSUME NEW f, NEW t, Shape(f, t)
  PROVE  /\ Maybe(f.items, Nat \cup {Absent}, Len(f.items)) /\ Exists(f.items)
         /\ Maybe(f.ids, Nat, Len(f.items)) /\ Maybe(f.attempts, Nat \ {0}, Len(f.items))
         /\ Maybe(f.handoffs, Nat, Len(f.items))
         /\ f.head \in Nat /\ f.count \in Nat /\ Len(f.items) \in Nat
         /\ f.head + f.count = Len(f.items)
<1>1. f.items \in Seq(Nat \cup {Absent}) /\ f.items # Absent
  BY ArraysExist DEF Shape, Fifos
<1> QED
  BY <1>1 DEF Shape, Fifos, Maybe, Exists

\* A FIFO of arrays that are n long.
Aligned(f, n) ==
  /\ f = [items |-> f.items, ids |-> f.ids, attempts |-> f.attempts, handoffs |-> f.handoffs,
          head |-> f.head, count |-> f.count, retried |-> f.retried, handed |-> f.handed,
          metadata |-> f.metadata]
  /\ Exists(f.items) /\ Maybe(f.items, Nat \cup {Absent}, n) /\ Maybe(f.ids, Nat, n)
  /\ Maybe(f.attempts, Nat \ {0}, n) /\ Maybe(f.handoffs, Nat, n)
  /\ f.head \in Nat /\ f.count \in Nat /\ f.retried \in Nat /\ f.handed \in Nat
  /\ f.metadata \in BOOLEAN /\ f.head + f.count = n

\* It has the shape if its ids are where they belong.
LEMMA Assembled ==
  ASSUME NEW f, NEW n \in Nat, Aligned(f, n), NEW t, t <=> Exists(f.ids),
         \A k \in 1..f.count :
           /\ f.items[f.head + k] \in Nat
           /\ Slot(f.ids, f.head + k, f.items[f.head + k]) = f.items[f.head + k]
  PROVE  Shape(f, t)
<1>1. f.items \in Seq(Nat \cup {Absent}) /\ Len(f.items) = n
  BY DEF Maybe, Exists, Aligned
<1>2. /\ f.ids \in {Absent} \cup Seq(Nat) /\ f.attempts \in {Absent} \cup Seq(Nat \ {0})
      /\ f.handoffs \in {Absent} \cup Seq(Nat)
  BY DEF Maybe, Aligned
<1>3. f \in Fifos
  BY <1>1, <1>2 DEF Fifos, Aligned
<1> QED
  BY <1>1, <1>3 DEF Shape, Aligned

\* consumeAvailableSlot takes the first row of the line.
LEMMA ConsumeFacts ==
  ASSUME NEW f, NEW t, Kept(f, t), f.count > 0
  PROVE  LET g == ConsumeAvailableSlot(f)
         IN Kept(g, t) /\ LineOf(g) = RemoveAt(LineOf(f), 1)
<1>1. Shape(f, t) /\ Counted(f)
  BY DEF Kept
<1>2. PICK n \in Nat : n = Len(f.items)
  BY <1>1, ArraysOf
<1>3. /\ Maybe(f.items, Nat \cup {Absent}, n) /\ Exists(f.items) /\ Maybe(f.ids, Nat, n)
      /\ Maybe(f.attempts, Nat \ {0}, n) /\ Maybe(f.handoffs, Nat, n)
      /\ f.head \in Nat /\ f.count \in Nat /\ f.head + f.count = n
  BY <1>1, <1>2, ArraysOf
<1>4. PICK i \in 1..n : i = f.head + 1
  BY <1>3
<1>5. PICK items, ids, attempts, handoffs :
        /\ items = Blanked(f.items, i, Absent) /\ ids = Blanked(f.ids, i, 0)
        /\ attempts = Blanked(f.attempts, i, 1) /\ handoffs = Blanked(f.handoffs, i, 0)
  OBVIOUS
<1>6. /\ ButOne(items, f.items, Nat \cup {Absent}, n, i) /\ ButOne(ids, f.ids, Nat, n, i)
      /\ ButOne(attempts, f.attempts, Nat \ {0}, n, i) /\ ButOne(handoffs, f.handoffs, Nat, n, i)
  <2>1. Absent \notin Seq(Nat) /\ Absent \notin Seq(Nat \ {0}) /\ Absent \notin Seq(Nat \cup {Absent})
    BY ArraysExist
  <2>2. ButOne(Blanked(f.items, i, Absent), f.items, Nat \cup {Absent}, n, i)
    BY <1>3, <2>1, BlankedFacts
  <2>3. ButOne(Blanked(f.ids, i, 0), f.ids, Nat, n, i)
    BY <1>3, <2>1, BlankedFacts
  <2>4. ButOne(Blanked(f.attempts, i, 1), f.attempts, Nat \ {0}, n, i)
    <3>1. 1 \in Nat \ {0}
      OBVIOUS
    <3> QED
      BY <1>3, <2>1, <3>1, BlankedFacts
  <2>5. ButOne(Blanked(f.handoffs, i, 0), f.handoffs, Nat, n, i)
    BY <1>3, <2>1, BlankedFacts
  <2> QED
    BY <1>5, <2>2, <2>3, <2>4, <2>5
<1>7. PICK retried, handed :
        /\ retried = Less(f.retried, Slot(f.attempts, i, 1) > 1)
        /\ handed = Less(f.handed, Slot(f.handoffs, i, 0) > 0)
  OBVIOUS
<1>8. PICK M : M = RemoveAt(LineOf(f), 1)
  OBVIOUS
<1>9. /\ M \in Seq(Row) /\ Len(M) = f.count - 1
      /\ \A k \in 1..(f.count - 1) : M[k] = RowAt(f, f.head + (k + 1))
      /\ retried = Count(M, Retried) /\ handed = Count(M, Handed)
      /\ retried \in Nat /\ handed \in Nat
  <2>1. 1 \in 1..f.count
    BY <1>3
  <2>2. \A k \in 1..(f.count - 1) : ~(k < 1)
    BY <1>3
  <2> QED
    BY <1>1, <1>4, <1>7, <1>8, <2>1, <2>2, TakenCounts
<1>10. PICK h : h = [items |-> items, ids |-> ids, attempts |-> attempts, handoffs |-> handoffs,
                     head |-> i, count |-> f.count - 1, retried |-> retried, handed |-> handed,
                     metadata |-> f.metadata]
  OBVIOUS
<1>11. PICK e : e = [f EXCEPT !.items = items, !.ids = ids, !.attempts = attempts,
                              !.handoffs = handoffs, !.retried = retried, !.handed = handed,
                              !.head = @ + 1]
  OBVIOUS
<1>12. ConsumeAvailableSlot(f) = AfterRemoval(e)
  <2>1. f.head + 1 = i
    BY <1>4
  <2> QED
    BY <1>5, <1>7, <1>11, <2>1 DEF ConsumeAvailableSlot, Blanked
<1>13. h = [e EXCEPT !.count = @ - 1]
  <2>1. f \in Fifos
    BY <1>1 DEF Shape
  <2>2. e = [items |-> items, ids |-> ids, attempts |-> attempts, handoffs |-> handoffs,
             head |-> i, count |-> f.count, retried |-> retried, handed |-> handed,
             metadata |-> f.metadata]
    BY <1>4, <1>11, <2>1 DEF Fifos
  <2> QED
    BY <1>10, <2>2
<1>14. ASSUME NEW k \in 1..(f.count - 1)
       PROVE  /\ items[i + k] = f.items[f.head + (k + 1)]
              /\ \A v : /\ Slot(ids, i + k, v) = Slot(f.ids, f.head + (k + 1), v)
                        /\ Slot(attempts, i + k, v) = Slot(f.attempts, f.head + (k + 1), v)
                        /\ Slot(handoffs, i + k, v) = Slot(f.handoffs, f.head + (k + 1), v)
  <2>1. PICK m \in 1..n : m = i + k /\ m = f.head + (k + 1) /\ m # i
    <3>1. i + k \in 1..n /\ i + k = f.head + (k + 1) /\ i + k # i
      BY <1>3, <1>4
    <3> QED
      BY <3>1
  <2>2. items[m] = f.items[m]
    <3>1. Slot(items, m, 0) = Slot(f.items, m, 0) /\ Exists(items)
      BY <1>3, <1>6, <2>1 DEF ButOne
    <3> QED
      BY <1>3, <3>1 DEF Slot
  <2>3. \A v : /\ Slot(ids, m, v) = Slot(f.ids, m, v)
               /\ Slot(attempts, m, v) = Slot(f.attempts, m, v)
               /\ Slot(handoffs, m, v) = Slot(f.handoffs, m, v)
    BY <1>6, <2>1 DEF ButOne
  <2> QED
    BY <2>1, <2>2, <2>3
<1>15. Shape(h, t)
  <2>1. f.count - 1 \in Nat /\ i \in Nat /\ i + (f.count - 1) = n
    BY <1>3, <1>4
  <2>2. f.metadata \in BOOLEAN
    BY <1>1 DEF Shape, Fifos
  <2>3. /\ Exists(items) /\ Maybe(items, Nat \cup {Absent}, n) /\ Maybe(ids, Nat, n)
        /\ Maybe(attempts, Nat \ {0}, n) /\ Maybe(handoffs, Nat, n)
        /\ Exists(ids) = Exists(f.ids)
    BY <1>3, <1>6 DEF ButOne
  <2>4. t <=> Exists(ids)
    BY <1>1, <2>3 DEF Shape
  <2>5. ASSUME NEW k \in 1..(f.count - 1)
        PROVE  items[i + k] \in Nat /\ Slot(ids, i + k, items[i + k]) = items[i + k]
    <3>1. k + 1 \in 1..f.count
      BY <1>3
    <3>2. /\ f.items[f.head + (k + 1)] \in Nat
          /\ Slot(f.ids, f.head + (k + 1), f.items[f.head + (k + 1)])
               = f.items[f.head + (k + 1)]
      BY <1>1, <3>1 DEF Shape
    <3> QED
      BY <1>14, <3>2
  <2>6. /\ h.items = items /\ h.ids = ids /\ h.attempts = attempts /\ h.handoffs = handoffs
        /\ h.head = i /\ h.count = f.count - 1 /\ h.retried = retried /\ h.handed = handed
        /\ h.metadata = f.metadata
    BY <1>10
  <2>7. Aligned(h, n)
    BY <1>9, <1>10, <2>1, <2>3, <2>2, <2>6 DEF Aligned
  <2> QED
    BY <2>4, <2>5, <2>6, <2>7, Assembled
<1>16. LineOf(h) = M
  <2>1. ASSUME NEW k \in 1..h.count PROVE RowAt(h, h.head + k) = M[k]
    <3>1. k \in 1..(f.count - 1) /\ h.head = i
      BY <1>10, <2>1
    <3>2. /\ h.items = items /\ h.attempts = attempts /\ h.handoffs = handoffs
      BY <1>10
    <3>3. M[k] = RowAt(f, f.head + (k + 1))
      BY <1>9, <3>1
    <3>4. RowAt(h, i + k) = RowAt(f, f.head + (k + 1))
      BY <1>14, <3>1, <3>2 DEF RowAt
    <3> QED
      BY <3>1, <3>3, <3>4
  <2>2. Len(M) = h.count
    BY <1>9, <1>10
  <2> QED
    BY <1>9, <1>15, <2>1, <2>2, SameLine
<1>17. Counted(h)
  BY <1>9, <1>10, <1>16 DEF Counted
<1> QED
  BY <1>8, <1>12, <1>13, <1>15, <1>16, <1>17, AfterRemovalFacts

\* removeAvailableAt takes the row at the index out of the line.
LEMMA RemoveFacts ==
  ASSUME NEW f, NEW t, Kept(f, t), NEW i \in (f.head + 1)..Len(f.items)
  PROVE  LET g == RemoveAvailableAt(f, i)
         IN Kept(g, t) /\ LineOf(g) = RemoveAt(LineOf(f), i - f.head)
<1>1. Shape(f, t) /\ Counted(f)
  BY DEF Kept
<1>2. PICK n \in Nat : n = Len(f.items)
  BY <1>1, ArraysOf
<1>3. /\ Maybe(f.items, Nat \cup {Absent}, n) /\ Exists(f.items) /\ Maybe(f.ids, Nat, n)
      /\ Maybe(f.attempts, Nat \ {0}, n) /\ Maybe(f.handoffs, Nat, n)
      /\ f.head \in Nat /\ f.count \in Nat /\ f.head + f.count = n
  BY <1>1, <1>2, ArraysOf
<1>4. PICK j \in 1..f.count : j = i - f.head /\ f.head + j = i /\ i \in 1..n
  <2>1. i - f.head \in 1..f.count /\ f.head + (i - f.head) = i /\ i \in 1..n
    BY <1>2, <1>3
  <2> QED
    BY <2>1
<1>5. PICK items, ids, attempts, handoffs :
        /\ items = Cut(f.items, i) /\ ids = Cut(f.ids, i)
        /\ attempts = Cut(f.attempts, i) /\ handoffs = Cut(f.handoffs, i)
  OBVIOUS
<1>6. /\ LessOne(items, f.items, Nat \cup {Absent}, n, i) /\ LessOne(ids, f.ids, Nat, n, i)
      /\ LessOne(attempts, f.attempts, Nat \ {0}, n, i) /\ LessOne(handoffs, f.handoffs, Nat, n, i)
  <2>1. Absent \notin Seq(Nat) /\ Absent \notin Seq(Nat \ {0}) /\ Absent \notin Seq(Nat \cup {Absent})
    BY ArraysExist
  <2>2. LessOne(Cut(f.items, i), f.items, Nat \cup {Absent}, n, i)
    BY <1>3, <1>4, <2>1, CutFacts
  <2>3. LessOne(Cut(f.ids, i), f.ids, Nat, n, i)
    BY <1>3, <1>4, <2>1, CutFacts
  <2>4. LessOne(Cut(f.attempts, i), f.attempts, Nat \ {0}, n, i)
    BY <1>3, <1>4, <2>1, CutFacts
  <2>5. LessOne(Cut(f.handoffs, i), f.handoffs, Nat, n, i)
    BY <1>3, <1>4, <2>1, CutFacts
  <2> QED
    BY <1>5, <2>2, <2>3, <2>4, <2>5
<1>7. PICK retried, handed :
        /\ retried = Less(f.retried, Slot(f.attempts, i, 1) > 1)
        /\ handed = Less(f.handed, Slot(f.handoffs, i, 0) > 0)
  OBVIOUS
<1>8. PICK M : M = RemoveAt(LineOf(f), j)
  OBVIOUS
<1>9. /\ M \in Seq(Row) /\ Len(M) = f.count - 1
      /\ \A k \in 1..(f.count - 1) : M[k] = RowAt(f, f.head + (IF k < j THEN k ELSE k + 1))
      /\ retried = Count(M, Retried) /\ handed = Count(M, Handed)
      /\ retried \in Nat /\ handed \in Nat
  BY <1>1, <1>4, <1>7, <1>8, TakenCounts
<1>10. PICK h : h = [items |-> items, ids |-> ids, attempts |-> attempts, handoffs |-> handoffs,
                     head |-> f.head, count |-> f.count - 1, retried |-> retried,
                     handed |-> handed, metadata |-> f.metadata]
  OBVIOUS
<1>11. PICK e : e = [f EXCEPT !.items = items, !.ids = ids, !.attempts = attempts,
                              !.handoffs = handoffs, !.retried = retried, !.handed = handed]
  OBVIOUS
<1>12. RemoveAvailableAt(f, i) = AfterRemoval(e)
  <2>1. ~(i <= f.head) /\ ~(i > Len(f.items))
    BY <1>2, <1>3
  <2> QED
    BY <1>5, <1>7, <1>11, <2>1 DEF RemoveAvailableAt, Cut
<1>13. h = [e EXCEPT !.count = @ - 1]
  <2>1. f \in Fifos
    BY <1>1 DEF Shape
  <2>2. e = [items |-> items, ids |-> ids, attempts |-> attempts, handoffs |-> handoffs,
             head |-> f.head, count |-> f.count, retried |-> retried, handed |-> handed,
             metadata |-> f.metadata]
    BY <1>11, <2>1 DEF Fifos
  <2> QED
    BY <1>10, <2>2
<1> DEFINE Same(k, m) ==
             /\ items[f.head + k] = f.items[m]
             /\ \A v : /\ Slot(ids, f.head + k, v) = Slot(f.ids, m, v)
                       /\ Slot(attempts, f.head + k, v) = Slot(f.attempts, m, v)
                       /\ Slot(handoffs, f.head + k, v) = Slot(f.handoffs, m, v)
<1>14. ASSUME NEW k \in 1..(f.count - 1), NEW q \in 1..f.count, q = IF k < j THEN k ELSE k + 1,
              NEW m, m = f.head + q
       PROVE  Same(k, m)
  <2>1. PICK l \in 1..(n - 1) : l = f.head + k /\ m = IF l < i THEN l ELSE l + 1
    <3>1. PICK p, c : p = f.head /\ c = f.count
      OBVIOUS
    <3>2. /\ p \in Nat /\ c \in Nat /\ p + c = n /\ p + j = i /\ i \in 1..n
          /\ k \in 1..(c - 1) /\ j \in 1..c
      BY <1>3, <1>4, <3>1
    <3>3. p + k \in 1..(n - 1) /\ (p + k < i <=> k < j) /\ (p + k) + 1 = p + (k + 1)
      <4>1. k \in Nat /\ k >= 1 /\ k <= c - 1 /\ j \in Nat /\ i \in Nat
        BY <3>2
      <4>2. p + k \in 1..(n - 1)
        BY <3>2, <4>1
      <4>3. p + k < i <=> k < j
        BY <3>2, <4>1
      <4> QED
        BY <3>2, <4>1, <4>2, <4>3
    <3>4. m = IF p + k < i THEN p + k ELSE (p + k) + 1
      BY <1>14, <3>1, <3>3
    <3> QED
      BY <3>1, <3>3, <3>4
  <2>2. items[l] = f.items[m]
    <3>1. Slot(items, l, 0) = Slot(f.items, m, 0) /\ Exists(items)
      BY <1>3, <1>6, <2>1 DEF LessOne
    <3> QED
      BY <1>3, <3>1 DEF Slot
  <2>3. \A v : /\ Slot(ids, l, v) = Slot(f.ids, m, v)
               /\ Slot(attempts, l, v) = Slot(f.attempts, m, v)
               /\ Slot(handoffs, l, v) = Slot(f.handoffs, m, v)
    BY <1>6, <2>1 DEF LessOne
  <2> QED
    BY <2>1, <2>2, <2>3
<1> HIDE DEF Same
<1>15. Shape(h, t)
  <2>1. f.count - 1 \in Nat /\ f.head + (f.count - 1) = n - 1 /\ n - 1 \in Nat
    BY <1>3, <1>4
  <2>2. /\ Exists(items) /\ Maybe(items, Nat \cup {Absent}, n - 1) /\ Maybe(ids, Nat, n - 1)
        /\ Maybe(attempts, Nat \ {0}, n - 1) /\ Maybe(handoffs, Nat, n - 1)
        /\ Exists(ids) = Exists(f.ids)
    BY <1>3, <1>6 DEF LessOne
  <2>3. t <=> Exists(ids)
    BY <1>1, <2>2 DEF Shape
  <2>4. ASSUME NEW k \in 1..(f.count - 1)
        PROVE  /\ items[f.head + k] \in Nat
               /\ Slot(ids, f.head + k, items[f.head + k]) = items[f.head + k]
    <3>1. PICK q \in 1..f.count : q = IF k < j THEN k ELSE k + 1
      <4>1. k \in 1..f.count /\ k + 1 \in 1..f.count
        BY <1>3
      <4> QED
        BY <4>1
    <3>2. /\ f.items[f.head + q] \in Nat
          /\ Slot(f.ids, f.head + q, f.items[f.head + q]) = f.items[f.head + q]
      BY <1>1 DEF Shape
    <3>3. PICK m : m = f.head + q
      OBVIOUS
    <3>4. Same(k, m)
      BY <1>14, <3>1, <3>3
    <3>5. /\ items[f.head + k] = f.items[m]
          /\ \A v : Slot(ids, f.head + k, v) = Slot(f.ids, m, v)
      BY <3>4 DEF Same
    <3> QED
      BY <3>2, <3>3, <3>5
  <2>5. f.metadata \in BOOLEAN
    BY <1>1 DEF Shape, Fifos
  <2>6. /\ h.items = items /\ h.ids = ids /\ h.attempts = attempts /\ h.handoffs = handoffs
        /\ h.head = f.head /\ h.count = f.count - 1 /\ h.retried = retried /\ h.handed = handed
        /\ h.metadata = f.metadata
    BY <1>10
  <2>7. Aligned(h, n - 1)
    BY <1>3, <1>9, <1>10, <2>1, <2>2, <2>5, <2>6 DEF Aligned
  <2> QED
    BY <2>1, <2>3, <2>4, <2>6, <2>7, Assembled
<1>16. LineOf(h) = M
  <2>1. ASSUME NEW k \in 1..h.count PROVE RowAt(h, h.head + k) = M[k]
    <3>1. k \in 1..(f.count - 1) /\ h.head = f.head
      BY <1>10, <2>1
    <3>2. /\ h.items = items /\ h.attempts = attempts /\ h.handoffs = handoffs
      BY <1>10
    <3>3. PICK q \in 1..f.count : q = IF k < j THEN k ELSE k + 1
      <4>1. k \in 1..f.count /\ k + 1 \in 1..f.count
        BY <1>3, <3>1
      <4> QED
        BY <4>1
    <3>4. PICK m : m = f.head + q
      OBVIOUS
    <3>5. M[k] = RowAt(f, m)
      BY <1>9, <3>1, <3>3, <3>4
    <3>6. Same(k, m)
      BY <1>14, <3>1, <3>3, <3>4
    <3>7. /\ items[f.head + k] = f.items[m]
          /\ \A v : /\ Slot(attempts, f.head + k, v) = Slot(f.attempts, m, v)
                    /\ Slot(handoffs, f.head + k, v) = Slot(f.handoffs, m, v)
      BY <3>6 DEF Same
    <3>8. RowAt(h, f.head + k) = RowAt(f, m)
      BY <3>2, <3>7 DEF RowAt
    <3> QED
      BY <3>1, <3>5, <3>8
  <2>2. Len(M) = h.count
    BY <1>9, <1>10
  <2> QED
    BY <1>9, <1>15, <2>1, <2>2, SameLine
<1>17. Counted(h)
  BY <1>9, <1>10, <1>16 DEF Counted
<1> QED
  BY <1>4, <1>8, <1>12, <1>13, <1>15, <1>16, <1>17, AfterRemovalFacts

\* b reads as a does where the default is v, and then w; it exists if need be.
Recorded(b, a, T, n, v, w) ==
  /\ Maybe(b, T, n + 1)
  /\ Exists(b) <=> (Exists(a) \/ w # v)
  /\ \A k \in 1..n : Slot(b, k, v) = Slot(a, k, v)
  /\ Slot(b, n + 1, v) = w

\* pushAvailable makes an array of metadata for a row that needs it.
LEMMA RecordedFacts ==
  ASSUME NEW T, Absent \notin Seq(T), NEW f, NEW n \in Nat, f.items \in Seq(Nat \cup {Absent}),
         Len(f.items) = n, NEW v \in T, NEW w \in T, NEW a, Maybe(a, T, n)
  PROVE  Recorded(Pushed(IF w # v THEN Materialized(a, f, v) ELSE a, w), a, T, n, v, w)
<1>1. PICK b : b = IF w # v THEN Materialized(a, f, v) ELSE a
  OBVIOUS
<1>2. /\ Maybe(b, T, n)
      /\ Exists(b) <=> (Exists(a) \/ w # v)
      /\ \A k \in 1..n : Slot(b, k, v) = Slot(a, k, v)
  <2>1. CASE w = v
    BY <1>1, <2>1
  <2>2. CASE w # v
    <3>1. MadeOf(Materialized(a, f, v), a, T, n, v)
      BY MaterializedFacts
    <3> QED
      BY <1>1, <2>2, <3>1 DEF MadeOf
  <2> QED
    BY <2>1, <2>2
<1>3. OneMore(Pushed(b, w), b, T, n, w)
  BY <1>2, PushedFacts
<1>4. PICK c : c = Pushed(b, w)
  OBVIOUS
<1>5. /\ Maybe(c, T, n + 1)
      /\ Exists(c) <=> (Exists(a) \/ w # v)
  BY <1>2, <1>3, <1>4 DEF OneMore
<1>6. \A k \in 1..n : Slot(c, k, v) = Slot(a, k, v)
  BY <1>2, <1>3, <1>4 DEF OneMore
<1>7. Slot(c, n + 1, v) = w
  BY <1>2, <1>3, <1>4 DEF OneMore
<1> QED
  BY <1>1, <1>4, <1>5, <1>6, <1>7 DEF Recorded

\* pushAvailable puts a row at the end of the line.
LEMMA PushFacts ==
  ASSUME NEW f, NEW t, Kept(f, t), NEW r \in Row
  PROVE  LET g == PushAvailable(f, r)
         IN /\ Kept(g, t) /\ LineOf(g) = Append(LineOf(f), [r EXCEPT !.at = 0])
            /\ g.head = f.head /\ Len(g.items) = Len(f.items) + 1
            /\ \A i \in (f.head + 1)..Len(f.items) : RowAt(g, i) = RowAt(f, i)
<1>1. Shape(f, t) /\ Counted(f) /\ Tidy(f) /\ ~Sparse(f) /\ f \in Fifos
  BY DEF Kept, Shape
<1>2. PICK n \in Nat : n = Len(f.items)
  BY <1>1, ArraysOf
<1>3. /\ Maybe(f.items, Nat \cup {Absent}, n) /\ Exists(f.items) /\ Maybe(f.ids, Nat, n)
      /\ Maybe(f.attempts, Nat \ {0}, n) /\ Maybe(f.handoffs, Nat, n)
      /\ f.head \in Nat /\ f.count \in Nat /\ f.head + f.count = n
      /\ f.items \in Seq(Nat \cup {Absent})
  <2>1. f.items \in Seq(Nat \cup {Absent})
    BY <1>1 DEF Fifos
  <2> QED
    BY <1>1, <1>2, <2>1, ArraysOf
<1>4. PICK x, y, z : x = r.id /\ y = r.attempt /\ z = r.handoff
  OBVIOUS
<1>5. x \in Nat /\ y \in Nat \ {0} /\ z \in Nat /\ (z > 0 <=> z # 0)
  BY <1>4 DEF Row
<1>6. PICK items, ids, attempts, handoffs :
        /\ items = Pushed(f.items, x) /\ ids = Pushed(f.ids, x)
        /\ attempts = Pushed(IF y # 1 THEN Materialized(f.attempts, f, 1) ELSE f.attempts, y)
        /\ handoffs = Pushed(IF z # 0 THEN Materialized(f.handoffs, f, 0) ELSE f.handoffs, z)
  OBVIOUS
<1>7. /\ OneMore(items, f.items, Nat \cup {Absent}, n, x) /\ OneMore(ids, f.ids, Nat, n, x)
      /\ Recorded(attempts, f.attempts, Nat \ {0}, n, 1, y)
      /\ Recorded(handoffs, f.handoffs, Nat, n, 0, z)
  <2>1. Absent \notin Seq(Nat) /\ Absent \notin Seq(Nat \ {0}) /\ Absent \notin Seq(Nat \cup {Absent})
    BY ArraysExist
  <2>2. OneMore(Pushed(f.items, x), f.items, Nat \cup {Absent}, n, x)
    BY <1>3, <1>5, <2>1, PushedFacts
  <2>3. OneMore(Pushed(f.ids, x), f.ids, Nat, n, x)
    BY <1>3, <1>5, <2>1, PushedFacts
  <2>4. 1 \in Nat \ {0} /\ 0 \in Nat
    OBVIOUS
  <2>5. Recorded(Pushed(IF y # 1 THEN Materialized(f.attempts, f, 1) ELSE f.attempts, y),
                 f.attempts, Nat \ {0}, n, 1, y)
    BY <1>2, <1>3, <1>5, <2>1, <2>4, RecordedFacts
  <2>6. Recorded(Pushed(IF z # 0 THEN Materialized(f.handoffs, f, 0) ELSE f.handoffs, z),
                 f.handoffs, Nat, n, 0, z)
    BY <1>2, <1>3, <1>5, <2>1, <2>4, RecordedFacts
  <2> QED
    BY <1>6, <2>2, <2>3, <2>5, <2>6
<1>8. PICK retried, handed, metadata :
        /\ retried = (IF y # 1 THEN f.retried + 1 ELSE f.retried)
        /\ handed = (IF z # 0 THEN f.handed + 1 ELSE f.handed)
        /\ metadata = (Exists(attempts) \/ Exists(handoffs))
  OBVIOUS
<1>9. PICK h : h = [items |-> items, ids |-> ids, attempts |-> attempts, handoffs |-> handoffs,
                    head |-> f.head, count |-> f.count + 1, retried |-> retried,
                    handed |-> handed, metadata |-> metadata]
  OBVIOUS
<1>10. PushAvailable(f, r) = h
  <2>1. PICK g : g = [f EXCEPT !.items = items, !.ids = ids, !.count = @ + 1]
    OBVIOUS
  <2>2. g = [items |-> items, ids |-> ids, attempts |-> f.attempts, handoffs |-> f.handoffs,
             head |-> f.head, count |-> f.count + 1, retried |-> f.retried,
             handed |-> f.handed, metadata |-> f.metadata]
    BY <1>1, <2>1 DEF Fifos
  <2>3. items = Append(f.items, x)
    BY <1>3, <1>6 DEF Pushed
  <2>4. PushAvailable(f, r) =
          IF ~f.metadata /\ y = 1 /\ z = 0 THEN g
          ELSE [g EXCEPT !.metadata = TRUE, !.attempts = attempts, !.handoffs = handoffs,
                         !.retried = IF y # 1 THEN @ + 1 ELSE @,
                         !.handed = IF z # 0 THEN @ + 1 ELSE @]
    <3>1. /\ ~Sparse(f) /\ r.id = x /\ r.attempt = y /\ r.handoff = z
          /\ g = [f EXCEPT !.items = Append(@, r.id), !.ids = Pushed(@, r.id),
                           !.count = @ + 1]
      BY <1>1, <1>4, <1>6, <2>1, <2>3
    <3>2. /\ attempts = Pushed(IF r.attempt # 1 THEN Materialized(f.attempts, f, 1)
                               ELSE f.attempts, r.attempt)
          /\ handoffs = Pushed(IF r.handoff > 0 THEN Materialized(f.handoffs, f, 0)
                               ELSE f.handoffs, r.handoff)
      BY <1>5, <1>6, <3>1
    <3>3. PushAvailable(f, r) =
            IF ~f.metadata /\ r.attempt = 1 /\ r.handoff = 0 THEN g
            ELSE [g EXCEPT !.metadata = TRUE, !.attempts = attempts, !.handoffs = handoffs,
                           !.retried = IF r.attempt # 1 THEN @ + 1 ELSE @,
                           !.handed = IF r.handoff > 0 THEN @ + 1 ELSE @]
      BY <3>1, <3>2, Zenon DEF PushAvailable
    <3> QED
      BY <1>5, <3>1, <3>3
  <2>5. f.metadata \in BOOLEAN /\ (f.metadata <=> Exists(f.attempts) \/ Exists(f.handoffs))
    BY <1>1 DEF Fifos, Tidy
  <2>6. /\ Exists(attempts) <=> (Exists(f.attempts) \/ y # 1)
        /\ Exists(handoffs) <=> (Exists(f.handoffs) \/ z # 0)
    BY <1>7 DEF Recorded
  <2>7. CASE ~f.metadata /\ y = 1 /\ z = 0
    <3>1. attempts = Absent /\ handoffs = Absent /\ f.attempts = Absent /\ f.handoffs = Absent
      BY <2>5, <2>6, <2>7 DEF Exists
    <3>2. metadata = FALSE /\ f.metadata = FALSE
      BY <1>8, <2>5, <2>6, <2>7
    <3> QED
      BY <1>8, <1>9, <2>2, <2>4, <2>7, <3>1, <3>2
  <2>8. CASE ~(~f.metadata /\ y = 1 /\ z = 0)
    <3>1. metadata = TRUE
      BY <1>8, <2>5, <2>6, <2>8
    <3> QED
      BY <1>8, <1>9, <2>2, <2>4, <2>8, <3>1
  <2> QED
    BY <2>7, <2>8
<1>11. /\ h.items = items /\ h.ids = ids /\ h.attempts = attempts /\ h.handoffs = handoffs
       /\ h.head = f.head /\ h.count = f.count + 1 /\ h.retried = retried /\ h.handed = handed
       /\ h.metadata = metadata
  BY <1>9
<1>12. /\ Exists(items) /\ \A i \in 1..n : items[i] = f.items[i]
       /\ items[n + 1] = x /\ items \in Seq(Nat \cup {Absent}) /\ Len(items) = n + 1
  <2>1. Exists(items) /\ Exists(f.items)
    BY <1>3, <1>7 DEF OneMore
  <2>2. \A i \in 1..n : Slot(items, i, 0) = Slot(f.items, i, 0)
    BY <1>7 DEF OneMore
  <2>3. Slot(items, n + 1, 0) = x
    BY <1>7, <2>1 DEF OneMore
  <2>4. Maybe(items, Nat \cup {Absent}, n + 1)
    BY <1>7 DEF OneMore
  <2> QED
    BY <2>1, <2>2, <2>3, <2>4 DEF Slot, Maybe, Exists
<1>13. ASSUME NEW i \in 1..n
       PROVE  RowAt(h, i) = RowAt(f, i) /\ \A v : Slot(ids, i, v) = Slot(f.ids, i, v)
  <2>1. \A v : Slot(ids, i, v) = Slot(f.ids, i, v)
    BY <1>7 DEF OneMore
  <2>2. Slot(attempts, i, 1) = Slot(f.attempts, i, 1) /\ Slot(handoffs, i, 0) = Slot(f.handoffs, i, 0)
    BY <1>7 DEF Recorded
  <2> QED
    BY <1>11, <1>12, <2>1, <2>2 DEF RowAt
<1>14. RowAt(h, n + 1) = [r EXCEPT !.at = 0]
  <2>1. Slot(attempts, n + 1, 1) = y /\ Slot(handoffs, n + 1, 0) = z
    BY <1>7 DEF Recorded
  <2>2. [r EXCEPT !.at = 0] = [id |-> x, at |-> 0, attempt |-> y, handoff |-> z]
    BY <1>4 DEF Row
  <2> QED
    BY <1>11, <1>12, <2>1, <2>2 DEF RowAt
<1>15. PICK L, s : L = LineOf(f) /\ s = [r EXCEPT !.at = 0]
  OBVIOUS
<1>16. /\ L \in Seq(Row) /\ Len(L) = f.count /\ s \in Row /\ s.attempt = y /\ s.handoff = z
       /\ \A k \in 1..f.count : L[k] = RowAt(f, f.head + k)
  <2>1. L \in Seq(Row) /\ Len(L) = f.count /\ \A k \in 1..f.count : L[k] = RowAt(f, f.head + k)
    BY <1>1, <1>15, LineFacts
  <2>2. s \in Row /\ s.attempt = y /\ s.handoff = z
    BY <1>4, <1>15 DEF Row
  <2> QED
    BY <2>1, <2>2
<1>17. PICK M : M = Append(L, s)
  OBVIOUS
<1>18. /\ M \in Seq(Row) /\ Len(M) = f.count + 1 /\ M[f.count + 1] = s
       /\ \A k \in 1..f.count : M[k] = L[k]
  BY <1>3, <1>16, <1>17
<1>19. retried = Count(M, Retried) /\ handed = Count(M, Handed)
  <2>1. Count(M, Retried) = IF s \in Retried THEN Count(L, Retried) + 1 ELSE Count(L, Retried)
    BY <1>16, <1>17, CountAppend
  <2>2. Count(M, Handed) = IF s \in Handed THEN Count(L, Handed) + 1 ELSE Count(L, Handed)
    BY <1>16, <1>17, CountAppend
  <2>3. (s \in Retried <=> y # 1) /\ (s \in Handed <=> z # 0)
    BY <1>5, <1>16 DEF Retried, Handed
  <2>4. f.retried = Count(L, Retried) /\ f.handed = Count(L, Handed)
    BY <1>1, <1>15 DEF Counted
  <2> QED
    BY <1>8, <2>1, <2>2, <2>3, <2>4
<1>20. retried \in Nat /\ handed \in Nat /\ metadata \in BOOLEAN
  BY <1>8, <1>18, <1>19, CountFacts
<1>21. Shape(h, t)
  <2>1. Maybe(items, Nat \cup {Absent}, n + 1) /\ Maybe(ids, Nat, n + 1) /\ Exists(ids) = Exists(f.ids)
    BY <1>7 DEF OneMore
  <2>2. Maybe(attempts, Nat \ {0}, n + 1) /\ Maybe(handoffs, Nat, n + 1)
    BY <1>7 DEF Recorded
  <2>3. f.count + 1 \in Nat /\ f.head + (f.count + 1) = n + 1 /\ n + 1 \in Nat
    BY <1>3
  <2>4. Aligned(h, n + 1)
    BY <1>3, <1>9, <1>11, <1>12, <1>20, <2>1, <2>2, <2>3 DEF Aligned
  <2>5. ASSUME NEW k \in 1..(f.count + 1)
        PROVE  /\ items[f.head + k] \in Nat
               /\ Slot(ids, f.head + k, items[f.head + k]) = items[f.head + k]
    <3>1. CASE k = f.count + 1
      <4>1. f.head + k = n + 1
        BY <1>3, <3>1
      <4>2. Slot(ids, n + 1, x) = x
        BY <1>7 DEF OneMore
      <4> QED
        BY <1>5, <1>12, <4>1, <4>2
    <3>2. CASE k # f.count + 1
      <4>1. k \in 1..f.count /\ f.head + k \in 1..n
        BY <1>3, <3>2
      <4>2. /\ f.items[f.head + k] \in Nat
            /\ Slot(f.ids, f.head + k, f.items[f.head + k]) = f.items[f.head + k]
        BY <1>1, <4>1 DEF Shape
      <4> QED
        BY <1>12, <1>13, <4>1, <4>2
    <3> QED
      BY <3>1, <3>2
  <2>6. t <=> Exists(ids)
    BY <1>1, <2>1 DEF Shape
  <2> QED
    BY <1>11, <2>3, <2>4, <2>5, <2>6, Assembled
<1>22. LineOf(h) = M
  <2>1. ASSUME NEW k \in 1..h.count PROVE RowAt(h, h.head + k) = M[k]
    <3>1. k \in 1..(f.count + 1) /\ h.head = f.head
      BY <1>11
    <3>2. CASE k = f.count + 1
      <4>1. f.head + k = n + 1
        BY <1>3, <3>2
      <4> QED
        BY <1>14, <1>15, <1>18, <3>1, <3>2, <4>1
    <3>3. CASE k # f.count + 1
      <4>1. k \in 1..f.count /\ f.head + k \in 1..n
        BY <1>3, <3>1, <3>3
      <4> QED
        BY <1>13, <1>16, <1>18, <3>1, <4>1
    <3> QED
      BY <3>2, <3>3
  <2>2. Len(M) = h.count
    BY <1>11, <1>18
  <2> QED
    BY <1>18, <1>21, <2>1, <2>2, SameLine
<1>23. Counted(h)
  BY <1>11, <1>19, <1>22 DEF Counted
<1>24. Tidy(h)
  <2>1. /\ Exists(f.attempts) <=> f.retried > 0
        /\ Exists(f.handoffs) <=> f.handed > 0
    BY <1>1 DEF Tidy
  <2>2. f.retried \in Nat /\ f.handed \in Nat
    BY <1>1 DEF Fifos
  <2>3. Exists(attempts) <=> retried > 0
    BY <1>7, <1>8, <2>1, <2>2 DEF Recorded
  <2>4. Exists(handoffs) <=> handed > 0
    BY <1>7, <1>8, <2>1, <2>2 DEF Recorded
  <2> QED
    BY <1>8, <1>11, <2>3, <2>4 DEF Tidy
<1>25. ~Sparse(h)
  <2>1. ~(f.head >= CompactMin) \/ ~(f.head * 2 >= n)
    BY <1>1, <1>2 DEF Sparse
  <2>2. ~(f.head * 2 >= n) => ~(f.head * 2 >= n + 1)
    <3>1. PICK m \in Nat : m = f.head * 2
      BY <1>3
    <3> QED
      BY <3>1
  <2> QED
    BY <1>11, <1>12, <2>1, <2>2 DEF Sparse
<1>26. \A i \in (f.head + 1)..n : RowAt(h, i) = RowAt(f, i)
  BY <1>3, <1>13
<1> QED
  BY <1>2, <1>10, <1>11, <1>12, <1>15, <1>17, <1>21, <1>22, <1>23, <1>24, <1>25, <1>26 DEF Kept

-----------------------------------------------------------------------------
(* The state: the FIFO is kept in order, the heap is one, and no two rows    *)
(* share an id, so that a row is found again after others have come and gone. *)

Delayed == {r \in Row : r.at # 0}
HeapPart == delayed \in Seq(Delayed) /\ IsHeap(delayed) /\ IsInjective(delayed)

Identified(line, rows, p) ==
  /\ IsInjective(line)
  /\ \A a, b \in ToSet(line) \cup rows : a.id = b.id => a = b
  /\ \A a \in ToSet(line) \cup rows : a.id \in 1..p

IdsPart == Identified(LineOf(fifo), ToSet(delayed), pushed)

\* Nothing removes a row from the FIFO between a search and the removal, so
\* the index that was found is still that of the row.
FoundPart ==
  \/ located = Nothing
  \/ located.index = 0 /\ located.row \in Delayed /\ located = [row |-> located.row, index |-> 0]
  \/ /\ located.index \in (fifo.head + 1)..Len(fifo.items)
     /\ located = [row |-> RowAt(fifo, located.index), index |-> located.index]

StorageKept ==
  /\ tracked \in BOOLEAN /\ pushed \in 0..MaxRows /\ Kept(fifo, tracked)
  /\ HeapPart /\ IdsPart /\ FoundPart

\* A row at the end of a line.
LEMMA Appended ==
  ASSUME NEW T, NEW L \in Seq(T), NEW s \in T
  PROVE  /\ Append(L, s) \in Seq(T) /\ ToSet(Append(L, s)) = ToSet(L) \cup {s}
         /\ IsInjective(L) /\ s \notin ToSet(L) => IsInjective(Append(L, s))
<1>1. PICK n \in Nat : n = Len(L) /\ DOMAIN L = 1..n
  OBVIOUS
<1>2. PICK M : M = Append(L, s)
  OBVIOUS
<1>3. /\ M \in Seq(T) /\ Len(M) = n + 1 /\ DOMAIN M = 1..(n + 1) /\ M[n + 1] = s
      /\ \A k \in 1..n : M[k] = L[k]
  BY <1>1, <1>2
<1>4. 1..(n + 1) = (1..n) \cup {n + 1}
  OBVIOUS
<1>5. ToSet(M) = ToSet(L) \cup {s}
  BY <1>1, <1>3, <1>4 DEF ToSet
<1>6. ASSUME IsInjective(L), s \notin ToSet(L) PROVE IsInjective(M)
  <2>1. \A a, b \in 1..n : L[a] = L[b] => a = b
    BY <1>1, <1>6 DEF IsInjective
  <2>2. \A a \in 1..n : L[a] # s
    BY <1>1, <1>6 DEF ToSet
  <2>3. \A a, b \in 1..(n + 1) : M[a] = M[b] => a = b
    BY <1>3, <1>4, <2>1, <2>2
  <2> QED
    BY <1>3, <2>3 DEF IsInjective
<1> QED
  BY <1>2, <1>3, <1>5, <1>6

\* A row taken out of a line that has it once.
LEMMA TakenOut ==
  ASSUME NEW T, NEW L \in Seq(T), IsInjective(L), NEW i \in 1..Len(L)
  PROVE  LET M == RemoveAt(L, i)
         IN M \in Seq(T) /\ ToSet(M) = ToSet(L) \ {L[i]} /\ IsInjective(M)
<1>1. PICK n \in Nat : n = Len(L) /\ DOMAIN L = 1..n /\ i \in 1..n
  OBVIOUS
<1>2. PICK M : M = RemoveAt(L, i)
  OBVIOUS
<1>3. /\ M \in Seq(T) /\ Len(M) = n - 1
      /\ \A k \in 1..(n - 1) : M[k] = IF k < i THEN L[k] ELSE L[k + 1]
  BY <1>1, <1>2, RemoveAtFacts
<1>4. DOMAIN M = 1..(n - 1)
  BY <1>3
<1>5. \A a, b \in 1..n : L[a] = L[b] => a = b
  BY <1>1 DEF IsInjective
<1>6. IsInjective(M)
  <2>1. \A a, b \in 1..(n - 1) : M[a] = M[b] => a = b
    <3> SUFFICES ASSUME NEW a \in 1..(n - 1), NEW b \in 1..(n - 1), M[a] = M[b] PROVE a = b
      OBVIOUS
    <3>1. PICK p \in 1..n : p = IF a < i THEN a ELSE a + 1
      <4>1. a \in 1..n /\ a + 1 \in 1..n
        BY <1>1
      <4> QED
        BY <4>1
    <3>2. PICK q \in 1..n : q = IF b < i THEN b ELSE b + 1
      <4>1. b \in 1..n /\ b + 1 \in 1..n
        BY <1>1
      <4> QED
        BY <4>1
    <3>3. L[p] = L[q]
      BY <1>3, <3>1, <3>2
    <3>4. p = q
      BY <1>5, <3>3
    <3> QED
      BY <1>1, <3>1, <3>2, <3>4
  <2> QED
    BY <1>4, <2>1 DEF IsInjective
<1>7. ToSet(M) \subseteq ToSet(L) \ {L[i]}
  <2> SUFFICES ASSUME NEW k \in 1..(n - 1) PROVE M[k] \in ToSet(L) \ {L[i]}
    BY <1>4 DEF ToSet
  <2>1. PICK p \in 1..n : p = (IF k < i THEN k ELSE k + 1) /\ p # i
    <3>1. k \in 1..n /\ k + 1 \in 1..n /\ (k < i => k # i) /\ (~(k < i) => k + 1 # i)
      BY <1>1
    <3> QED
      BY <3>1
  <2>2. M[k] = L[p] /\ L[p] # L[i]
    BY <1>1, <1>3, <1>5, <2>1
  <2> QED
    BY <1>1, <2>2 DEF ToSet
<1>8. ToSet(L) \ {L[i]} \subseteq ToSet(M)
  <2> SUFFICES ASSUME NEW p \in 1..n, p # i PROVE L[p] \in ToSet(M)
    BY <1>1 DEF ToSet
  <2>1. PICK k \in 1..(n - 1) : p = IF k < i THEN k ELSE k + 1
    <3>1. CASE p < i
      BY <1>1, <3>1
    <3>2. CASE ~(p < i)
      <4>1. p - 1 \in 1..(n - 1) /\ ~(p - 1 < i) /\ (p - 1) + 1 = p
        BY <1>1, <3>2
      <4> QED
        BY <4>1
    <3> QED
      BY <3>1, <3>2
  <2>2. M[k] = L[p]
    BY <1>3, <2>1
  <2> QED
    BY <1>4, <2>2 DEF ToSet
<1> QED
  BY <1>2, <1>3, <1>6, <1>7, <1>8

\* e holds the k first rows of L.
Begins(e, L, k, T) == e \in Seq(T) /\ Len(e) = k /\ \A j \in 1..k : e[j] = L[j]

\* Keeping all of a line keeps the line.
LEMMA AmongAll ==
  ASSUME NEW T, NEW L \in Seq(T), NEW S, ToSet(L) \subseteq S
  PROVE  Among(L, S) = L
<1>1. PICK n \in Nat : n = Len(L) /\ DOMAIN L = 1..n
  OBVIOUS
<1>2. PICK g : /\ Among(L, S) = g[n] /\ g[0] = <<>>
               /\ \A k \in 1..n :
                    g[k] = IF L[k] \in S THEN Append(g[k - 1], L[k]) ELSE g[k - 1]
  BY <1>1, AmongUnfolds
<1>3. \A k \in 1..n : L[k] \in S /\ L[k] \in T
  BY <1>1 DEF ToSet
<1> DEFINE A == {k \in 0..n : Begins(g[k], L, k, T)}
<1>4. 0 \in A
  <2>1. Begins(<<>>, L, 0, T)
    BY DEF Begins
  <2> QED
    BY <1>2, <2>1
<1>5. ASSUME NEW k \in 0..n, k < n, k \in A PROVE k + 1 \in A
  <2>1. k + 1 \in 1..n /\ k + 1 \in 0..n /\ (k + 1) - 1 = k
    BY <1>5
  <2>2. g[k + 1] = Append(g[k], L[k + 1]) /\ L[k + 1] \in T
    BY <1>2, <1>3, <2>1
  <2>3. PICK e : e = g[k] /\ Begins(e, L, k, T)
    BY <1>5
  <2>4. PICK x \in T : x = L[k + 1]
    BY <2>2
  <2>5. /\ Append(e, x) \in Seq(T) /\ Len(Append(e, x)) = k + 1 /\ Append(e, x)[k + 1] = x
        /\ \A j \in 1..k : Append(e, x)[j] = e[j]
    BY <2>3 DEF Begins
  <2>6. \A j \in 1..(k + 1) : j = k + 1 \/ j \in 1..k
    OBVIOUS
  <2>7. Begins(Append(e, x), L, k + 1, T)
    BY <2>3, <2>4, <2>5, <2>6 DEF Begins
  <2> QED
    BY <2>1, <2>2, <2>3, <2>4, <2>7
<1>6. 0..n \subseteq A
  <2> HIDE DEF A
  <2> QED
    BY <1>4, <1>5, UpTo
<1>7. g[n] \in Seq(T) /\ Len(g[n]) = n /\ \A j \in 1..n : g[n][j] = L[j]
  <2>1. Begins(g[n], L, n, T)
    BY <1>6
  <2> QED
    BY <2>1 DEF Begins
<1>8. g[n] = [j \in 1..n |-> g[n][j]] /\ L = [j \in 1..n |-> L[j]]
  BY <1>1, <1>7
<1> QED
  BY <1>2, <1>7, <1>8

\* e holds the k first rows of L but the one at i.
Skips(e, L, k, i, T) ==
  /\ e \in Seq(T) /\ Len(e) = (IF k < i THEN k ELSE k - 1)
  /\ \A j \in 1..Len(e) : e[j] = IF j < i THEN L[j] ELSE L[j + 1]

\* Keeping all of a line but one row takes that row out.
LEMMA AmongButOne ==
  ASSUME NEW T, NEW L \in Seq(T), IsInjective(L), NEW i \in 1..Len(L)
  PROVE  Among(L, ToSet(L) \ {L[i]}) = RemoveAt(L, i)
<1>1. PICK n \in Nat : n = Len(L) /\ DOMAIN L = 1..n /\ i \in 1..n
  OBVIOUS
<1>2. PICK S : S = ToSet(L) \ {L[i]}
  OBVIOUS
<1>3. PICK g : /\ Among(L, S) = g[n] /\ g[0] = <<>>
               /\ \A k \in 1..n :
                    g[k] = IF L[k] \in S THEN Append(g[k - 1], L[k]) ELSE g[k - 1]
  BY <1>1, AmongUnfolds
<1>4. \A k \in 1..n : L[k] \in T /\ (L[k] \in S <=> k # i)
  <2>1. \A a, b \in 1..n : L[a] = L[b] => a = b
    BY <1>1 DEF IsInjective
  <2> QED
    BY <1>1, <1>2, <2>1 DEF ToSet
<1> DEFINE A == {k \in 0..n : Skips(g[k], L, k, i, T)}
<1>5. 0 \in A
  <2>1. Skips(<<>>, L, 0, i, T)
    BY <1>1 DEF Skips
  <2> QED
    BY <1>3, <2>1
<1>6. ASSUME NEW k \in 0..n, k < n, k \in A PROVE k + 1 \in A
  <2>1. k + 1 \in 1..n /\ k + 1 \in 0..n /\ (k + 1) - 1 = k
    BY <1>6
  <2>2. PICK e : e = g[k] /\ Skips(e, L, k, i, T)
    BY <1>6
  <2>3. PICK m \in Nat : /\ m = (IF k < i THEN k ELSE k - 1) /\ e \in Seq(T) /\ Len(e) = m
                         /\ \A j \in 1..m : e[j] = IF j < i THEN L[j] ELSE L[j + 1]
    BY <1>1, <2>2 DEF Skips
  <2>4. CASE k + 1 = i
    <3>1. g[k + 1] = e
      BY <1>3, <1>4, <2>1, <2>2, <2>4
    <3>2. (IF k + 1 < i THEN k + 1 ELSE (k + 1) - 1) = m
      BY <1>1, <2>1, <2>3, <2>4
    <3>3. Skips(e, L, k + 1, i, T)
      BY <2>3, <3>2 DEF Skips
    <3> QED
      BY <2>1, <3>1, <3>3
  <2>5. CASE k + 1 # i
    <3>1. PICK x \in T : x = L[k + 1]
      BY <1>4, <2>1
    <3>2. g[k + 1] = Append(e, x)
      BY <1>3, <1>4, <2>1, <2>2, <2>5, <3>1
    <3>3. /\ Append(e, x) \in Seq(T) /\ Len(Append(e, x)) = m + 1 /\ Append(e, x)[m + 1] = x
          /\ \A j \in 1..m : Append(e, x)[j] = e[j]
      BY <2>3
    <3>4. (IF k + 1 < i THEN k + 1 ELSE (k + 1) - 1) = m + 1
      BY <1>1, <1>6, <2>1, <2>3, <2>5
    <3>5. x = IF m + 1 < i THEN L[m + 1] ELSE L[(m + 1) + 1]
      <4>1. CASE k < i
        <5>1. m = k /\ k + 1 < i
          BY <1>1, <1>6, <2>3, <2>5, <4>1
        <5> QED
          BY <3>1, <5>1
      <4>2. CASE ~(k < i)
        <5>1. m + 1 = k /\ ~(k < i)
          BY <1>1, <1>6, <2>3, <4>2
        <5> QED
          BY <3>1, <5>1
      <4> QED
        BY <4>1, <4>2
    <3>6. \A j \in 1..(m + 1) : j = m + 1 \/ j \in 1..m
      BY <2>3
    <3>7. Skips(Append(e, x), L, k + 1, i, T)
      BY <2>3, <3>3, <3>4, <3>5, <3>6 DEF Skips
    <3> QED
      BY <2>1, <3>2, <3>7
  <2> QED
    BY <2>4, <2>5
<1>7. 0..n \subseteq A
  <2> HIDE DEF A
  <2> QED
    BY <1>5, <1>6, UpTo
<1>8. PICK M, r : M = g[n] /\ r = RemoveAt(L, i)
  OBVIOUS
<1>9. /\ M \in Seq(T) /\ Len(M) = n - 1
      /\ \A j \in 1..(n - 1) : M[j] = IF j < i THEN L[j] ELSE L[j + 1]
  <2>1. Skips(M, L, n, i, T) /\ ~(n < i)
    BY <1>1, <1>7, <1>8
  <2> QED
    BY <2>1 DEF Skips
<1>10. /\ r \in Seq(T) /\ Len(r) = n - 1
       /\ \A j \in 1..(n - 1) : r[j] = IF j < i THEN L[j] ELSE L[j + 1]
  BY <1>1, <1>8, RemoveAtFacts
<1>11. M = [j \in 1..(n - 1) |-> M[j]] /\ r = [j \in 1..(n - 1) |-> r[j]]
  BY <1>9, <1>10
<1>12. \A j \in 1..(n - 1) : M[j] = r[j]
  BY <1>9, <1>10
<1>13. M = r
  BY <1>11, <1>12
<1> QED
  BY <1>2, <1>3, <1>8, <1>13

\* An empty FIFO is kept, and holds nothing.
LEMMA EmptyKept ==
  ASSUME tracked \in BOOLEAN
  PROVE  Kept(EmptyFifo, tracked) /\ LineOf(EmptyFifo) = <<>>
<1>1. PICK ids : ids = IF tracked THEN <<>> ELSE Absent
  OBVIOUS
<1>2. PICK f : f = EmptyFifo
  OBVIOUS
<1>3. f = [items |-> <<>>, ids |-> ids, attempts |-> Absent, handoffs |-> Absent,
           head |-> 0, count |-> 0, retried |-> 0, handed |-> 0, metadata |-> FALSE]
  BY <1>1, <1>2 DEF EmptyFifo
<1>4. /\ f.items = <<>> /\ f.ids = ids /\ f.attempts = Absent /\ f.handoffs = Absent
      /\ f.head = 0 /\ f.count = 0 /\ f.retried = 0 /\ f.handed = 0 /\ f.metadata = FALSE
  BY <1>3
<1>5. <<>> \in Seq(Nat) /\ <<>> \in Seq(Nat \cup {Absent}) /\ Len(<<>>) = 0 /\ <<>> # Absent
  <2>1. <<>> \in Seq(Nat) /\ <<>> \in Seq(Nat \cup {Absent}) /\ Len(<<>>) = 0
    OBVIOUS
  <2>2. <<>> # Absent
    BY <2>1, ArraysExist
  <2> QED
    BY <2>1, <2>2
<1>6. Shape(f, tracked)
  <2>1. Aligned(f, 0)
    <3>1. Maybe(ids, Nat, 0)
      BY <1>1, <1>5 DEF Maybe
    <3> QED
      BY <1>3, <1>4, <1>5, <3>1 DEF Aligned, Maybe, Exists
  <2>2. tracked <=> Exists(f.ids)
    BY <1>1, <1>4, <1>5 DEF Exists
  <2>3. \A k \in 1..f.count : FALSE
    BY <1>4
  <2> QED
    BY <2>1, <2>2, <2>3, Assembled
<1>7. LineOf(f) \in Seq(Row) /\ Len(LineOf(f)) = 0
  BY <1>4, <1>6, LineFacts
<1>8. LineOf(f) = <<>>
  BY <1>7
<1>9. Counted(f)
  <2>1. \A S : Count(LineOf(f), S) = 0
    <3> SUFFICES ASSUME NEW S PROVE Count(LineOf(f), S) = 0
      OBVIOUS
    <3>1. \A k \in 1..Len(LineOf(f)) : LineOf(f)[k] \notin S
      BY <1>7
    <3> QED
      BY <1>7, <3>1, CountFacts
  <2> QED
    BY <1>4, <2>1 DEF Counted
<1>10. Tidy(f) /\ ~Sparse(f)
  <2>1. ~(0 >= CompactMin)
    BY StorageAssumption
  <2> QED
    BY <1>4, <2>1 DEF Tidy, Sparse, Exists
<1> QED
  BY <1>2, <1>6, <1>8, <1>9, <1>10 DEF Kept

\* The state at the start.
LEMMA StorageStart ==
  ASSUME Init PROVE StorageKept
<1>1. /\ tracked \in BOOLEAN /\ fifo = EmptyFifo /\ delayed = <<>> /\ located = Nothing
      /\ pushed = 0
  BY DEF Init
<1>2. Kept(fifo, tracked) /\ LineOf(fifo) = <<>>
  BY <1>1, EmptyKept
<1>3. HeapPart
  <2>1. <<>> \in Seq(Delayed) /\ Len(<<>>) = 0
    OBVIOUS
  <2> QED
    BY <1>1, <2>1 DEF HeapPart, IsHeap, IsInjective
<1>4. IdsPart
  <2>1. ToSet(<<>>) = {}
    BY DEF ToSet
  <2> QED
    BY <1>1, <1>2, <2>1 DEF IdsPart, Identified, IsInjective
<1>5. 0 \in 0..MaxRows
  BY StorageAssumption
<1> QED
  BY <1>1, <1>2, <1>3, <1>4, <1>5 DEF StorageKept, FoundPart

\* What follows from the invariant, in the terms of the lemmas above.
LEMMA StateFacts ==
  ASSUME StorageKept
  PROVE  /\ Shape(fifo, tracked) /\ LineOf(fifo) \in Seq(Row) /\ Len(LineOf(fifo)) = fifo.count
         /\ \A r \in ToSet(LineOf(fifo)) : r \in Row /\ r.at = 0
         /\ delayed \in Seq(Delayed) /\ ToSet(delayed) \subseteq Delayed
         /\ \A r \in Delayed : r \in Row /\ r.at \in Nat /\ r.at # 0
         /\ pushed \in Nat /\ fifo.head \in Nat /\ fifo.count \in Nat
         /\ fifo.head + fifo.count = Len(fifo.items)
<1>1. Shape(fifo, tracked) /\ delayed \in Seq(Delayed) /\ pushed \in Nat
  BY StorageAssumption DEF StorageKept, Kept, HeapPart
<1>2. /\ LineOf(fifo) \in Seq(Row) /\ Len(LineOf(fifo)) = fifo.count
      /\ \A k \in 1..fifo.count : LineOf(fifo)[k].at = 0
  BY <1>1, LineFacts
<1>3. \A r \in ToSet(LineOf(fifo)) : r \in Row /\ r.at = 0
  <2>1. DOMAIN LineOf(fifo) = 1..fifo.count /\ \A k \in 1..fifo.count : LineOf(fifo)[k] \in Row
    BY <1>2
  <2> QED
    BY <1>2, <2>1 DEF ToSet
<1>4. ToSet(delayed) \subseteq Delayed
  BY <1>1 DEF ToSet
<1>5. \A r \in Delayed : r \in Row /\ r.at \in Nat /\ r.at # 0
  BY DEF Delayed, Row
<1>6. fifo.head \in Nat /\ fifo.count \in Nat /\ fifo.head + fifo.count = Len(fifo.items)
  BY <1>1, ArraysOf
<1> QED
  BY <1>1, <1>2, <1>3, <1>4, <1>5, <1>6

\* Rows that can be pushed.
Pushable == [id : 1..MaxRows, at : {k.at : k \in Kinds}, attempt : {k.attempt : k \in Kinds},
             handoff : {k.handoff : k \in Kinds}]

\* A row more, with an id of its own, keeps the ids apart.
LEMMA OneMoreId ==
  ASSUME NEW L, NEW D, NEW p \in Nat, Identified(L, D, p), NEW r, r.id = p + 1
  PROVE  /\ r \notin ToSet(L) \cup D
         /\ \A a, b \in ToSet(L) \cup D \cup {r} : a.id = b.id => a = b
         /\ \A a \in ToSet(L) \cup D \cup {r} : a.id \in 1..(p + 1)
<1>1. \A a \in ToSet(L) \cup D : a.id \in 1..p
  BY DEF Identified
<1>2. \A a \in ToSet(L) \cup D : a.id # r.id /\ a.id \in 1..(p + 1)
  BY <1>1
<1>3. r.id \in 1..(p + 1)
  OBVIOUS
<1>4. \A a, b \in ToSet(L) \cup D : a.id = b.id => a = b
  BY DEF Identified
<1> QED
  BY <1>2, <1>3, <1>4

\* A push of a ready row.
LEMMA PushReady ==
  ASSUME StorageKept, NEW kind \in Kinds, Push(kind), kind.at = 0
  PROVE  /\ StorageKept' /\ delayed' = delayed /\ located' = located
         /\ \E r \in Pushable : LineOf(fifo') = Append(LineOf(fifo), r)
<1>1. PICK r : r = [id |-> pushed + 1, at |-> kind.at, attempt |-> kind.attempt,
                    handoff |-> kind.handoff]
  OBVIOUS
<1>2. /\ fifo' = PushAvailable(fifo, r) /\ delayed' = delayed /\ tracked' = tracked
      /\ located' = located /\ located = Nothing /\ pushed' = pushed + 1 /\ pushed < MaxRows
  BY <1>1 DEF Push, ChainFree
<1>3. Kept(fifo, tracked) /\ HeapPart /\ IdsPart /\ tracked \in BOOLEAN /\ pushed \in 0..MaxRows
  BY DEF StorageKept
<1>4. kind \in [at : Nat, attempt : Nat \ {0}, handoff : Nat]
  BY StorageAssumption
<1>5. r \in Row /\ r.id = pushed + 1 /\ r = [r EXCEPT !.at = 0] /\ r \in Pushable
  <2>1. pushed \in Nat /\ pushed + 1 \in 1..MaxRows /\ pushed + 1 \in Nat
    BY <1>2, <1>3, StorageAssumption
  <2>2. r \in Row
    BY <1>1, <1>4, <2>1 DEF Row
  <2>3. r.id = pushed + 1 /\ r.at = 0
    BY <1>1
  <2>4. r = [r EXCEPT !.at = 0]
    BY <1>1
  <2>5. r \in Pushable
    BY <1>1, <2>1 DEF Pushable
  <2> QED
    BY <2>2, <2>3, <2>4, <2>5
<1>6. Kept(fifo', tracked) /\ LineOf(fifo') = Append(LineOf(fifo), r)
  BY <1>2, <1>3, <1>5, PushFacts
<1>7. PICK L, M, D : L = LineOf(fifo) /\ M = LineOf(fifo') /\ D = ToSet(delayed)
  OBVIOUS
<1>8. /\ M \in Seq(Row) /\ ToSet(M) = ToSet(L) \cup {r}
      /\ IsInjective(L) /\ r \notin ToSet(L) => IsInjective(M)
  <2>1. L \in Seq(Row)
    BY <1>7, StateFacts
  <2> QED
    BY <1>5, <1>6, <1>7, <2>1, Appended
<1>9. Identified(M, D, pushed + 1)
  <2>1. Identified(L, D, pushed) /\ pushed \in Nat
    BY <1>3, <1>7, StateFacts DEF IdsPart
  <2>2. /\ r \notin ToSet(L) \cup D
        /\ \A a, b \in ToSet(L) \cup D \cup {r} : a.id = b.id => a = b
        /\ \A a \in ToSet(L) \cup D \cup {r} : a.id \in 1..(pushed + 1)
    BY <1>5, <2>1, OneMoreId
  <2>3. ToSet(M) \cup D = ToSet(L) \cup D \cup {r} /\ IsInjective(M)
    BY <1>8, <2>1, <2>2 DEF Identified
  <2> QED
    BY <2>2, <2>3 DEF Identified
<1>10. IdsPart'
  BY <1>2, <1>7, <1>9 DEF IdsPart
<1>11. HeapPart'
  BY <1>2, <1>3 DEF HeapPart
<1>12. FoundPart' /\ pushed' \in 0..MaxRows /\ tracked' \in BOOLEAN /\ Kept(fifo, tracked)'
  <2>1. pushed + 1 \in 0..MaxRows
    BY <1>2, <1>3, StorageAssumption
  <2> QED
    BY <1>2, <1>3, <1>6, <2>1 DEF FoundPart, Nothing
<1> QED
  BY <1>2, <1>5, <1>6, <1>10, <1>11, <1>12 DEF StorageKept

\* A push of a delayed row.
LEMMA PushDelayed ==
  ASSUME StorageKept, NEW kind \in Kinds, Push(kind), kind.at # 0
  PROVE  /\ StorageKept' /\ fifo' = fifo /\ located' = located
         /\ \E r \in Pushable : ToSet(delayed') = ToSet(delayed) \cup {r}
<1>1. PICK r : r = [id |-> pushed + 1, at |-> kind.at, attempt |-> kind.attempt,
                    handoff |-> kind.handoff]
  OBVIOUS
<1>2. /\ delayed' = HeapPush(delayed, r) /\ fifo' = fifo /\ tracked' = tracked
      /\ located' = located /\ located = Nothing /\ pushed' = pushed + 1 /\ pushed < MaxRows
  BY <1>1 DEF Push, ChainFree
<1>3. Kept(fifo, tracked) /\ HeapPart /\ IdsPart /\ tracked \in BOOLEAN /\ pushed \in 0..MaxRows
  BY DEF StorageKept
<1>4. kind \in [at : Nat, attempt : Nat \ {0}, handoff : Nat]
  BY StorageAssumption
<1>5. r \in Delayed /\ r.id = pushed + 1 /\ r \in Pushable
  <2>1. pushed \in Nat /\ pushed + 1 \in 1..MaxRows /\ pushed + 1 \in Nat
    BY <1>2, <1>3, StorageAssumption
  <2>2. r \in Row
    BY <1>1, <1>4, <2>1 DEF Row
  <2>3. r.id = pushed + 1 /\ r.at # 0
    BY <1>1
  <2>4. r \in Pushable
    BY <1>1, <2>1 DEF Pushable
  <2> QED
    BY <2>2, <2>3, <2>4 DEF Delayed
<1>6. PICK L, D : L = LineOf(fifo) /\ D = ToSet(delayed)
  OBVIOUS
<1>7. /\ r \notin ToSet(L) \cup D /\ IsInjective(L)
      /\ \A a, b \in ToSet(L) \cup D \cup {r} : a.id = b.id => a = b
      /\ \A a \in ToSet(L) \cup D \cup {r} : a.id \in 1..(pushed + 1)
  <2>1. Identified(L, D, pushed) /\ pushed \in Nat
    BY <1>3, <1>6, StateFacts DEF IdsPart
  <2> QED
    BY <1>5, <2>1, OneMoreId DEF Identified
<1>8. /\ delayed' \in Seq(Delayed) /\ IsHeap(delayed') /\ IsInjective(delayed')
      /\ ToSet(delayed') = D \cup {r}
  <2>1. \A x \in Delayed : x.at \in Nat
    BY StateFacts
  <2>2. delayed \in Seq(Delayed) /\ IsHeap(delayed) /\ IsInjective(delayed) /\ r \notin ToSet(delayed)
    BY <1>3, <1>6, <1>7 DEF HeapPart
  <2> QED
    BY <1>2, <1>5, <1>6, <2>1, <2>2, HeapPushFacts
<1>9. Identified(L, D \cup {r}, pushed + 1)
  BY <1>7 DEF Identified
<1>10. IdsPart'
  BY <1>2, <1>6, <1>8, <1>9 DEF IdsPart
<1>11. HeapPart'
  BY <1>8 DEF HeapPart
<1>12. FoundPart' /\ pushed' \in 0..MaxRows /\ tracked' \in BOOLEAN /\ Kept(fifo, tracked)'
  <2>1. pushed + 1 \in 0..MaxRows
    BY <1>2, <1>3, StorageAssumption
  <2> QED
    BY <1>2, <1>3, <2>1 DEF FoundPart, Nothing
<1> QED
  BY <1>2, <1>5, <1>6, <1>8, <1>10, <1>11, <1>12 DEF StorageKept

\* A row is taken from the head of the line.
LEMMA PopStep ==
  ASSUME StorageKept, Pop
  PROVE  /\ StorageKept' /\ delayed' = delayed /\ located' = located
         /\ LineOf(fifo) # <<>> /\ LineOf(fifo') = Tail(LineOf(fifo))
<1>1. /\ fifo' = ConsumeAvailableSlot(fifo) /\ delayed' = delayed /\ tracked' = tracked
      /\ located' = located /\ located = Nothing /\ pushed' = pushed /\ fifo.count > 0
  BY DEF Pop, ChainFree
<1>2. Kept(fifo, tracked) /\ HeapPart /\ IdsPart /\ tracked \in BOOLEAN /\ pushed \in 0..MaxRows
  BY DEF StorageKept
<1>3. Kept(fifo', tracked) /\ LineOf(fifo') = RemoveAt(LineOf(fifo), 1)
  BY <1>1, <1>2, ConsumeFacts
<1>4. PICK L, M, D : L = LineOf(fifo) /\ M = LineOf(fifo') /\ D = ToSet(delayed)
  OBVIOUS
<1>5. L \in Seq(Row) /\ 1 \in 1..Len(L) /\ Len(L) \in Nat /\ L # <<>>
  <2>1. L \in Seq(Row) /\ Len(L) = fifo.count /\ fifo.count \in Nat
    BY <1>4, StateFacts
  <2> QED
    BY <1>1, <2>1
<1>6. Identified(L, D, pushed)
  BY <1>2, <1>4 DEF IdsPart
<1>7. M \in Seq(Row) /\ ToSet(M) = ToSet(L) \ {L[1]} /\ IsInjective(M)
  BY <1>3, <1>4, <1>5, <1>6, TakenOut DEF Identified
<1>8. Identified(M, D, pushed)
  BY <1>6, <1>7 DEF Identified
<1>9. M = Tail(L)
  <2>1. PICK n \in Nat : n = Len(L) /\ n >= 1
    BY <1>5
  <2>2. /\ Len(M) = n - 1 /\ \A k \in 1..(n - 1) : M[k] = IF k < 1 THEN L[k] ELSE L[k + 1]
    BY <1>3, <1>4, <1>5, <2>1, RemoveAtFacts
  <2>3. \A k \in 1..(n - 1) : ~(k < 1)
    OBVIOUS
  <2>4. Tail(L) \in Seq(Row) /\ Len(Tail(L)) = n - 1 /\ \A k \in 1..(n - 1) : Tail(L)[k] = L[k + 1]
    BY <1>5, <2>1
  <2>5. PICK t : t = Tail(L)
    OBVIOUS
  <2>6. PICK m \in Nat : m = n - 1
    BY <2>1
  <2>7. M \in Seq(Row) /\ Len(M) = m /\ t \in Seq(Row) /\ Len(t) = m
    BY <1>7, <2>2, <2>4, <2>5, <2>6
  <2>8. M = [k \in 1..m |-> M[k]] /\ t = [k \in 1..m |-> t[k]]
    BY <2>7
  <2>9. \A k \in 1..m : M[k] = t[k]
    BY <2>2, <2>3, <2>4, <2>5, <2>6
  <2> QED
    BY <2>5, <2>8, <2>9
<1>10. IdsPart' /\ HeapPart'
  BY <1>1, <1>2, <1>4, <1>8 DEF IdsPart, HeapPart
<1>11. FoundPart' /\ pushed' \in 0..MaxRows /\ tracked' \in BOOLEAN /\ Kept(fifo, tracked)'
  BY <1>1, <1>2, <1>3 DEF FoundPart, Nothing
<1> QED
  BY <1>1, <1>4, <1>5, <1>9, <1>10, <1>11 DEF StorageKept

\* The first due row joins the line, whatever an operation has found.
LEMMA PromoteStep ==
  ASSUME StorageKept, Promote
  PROVE  /\ StorageKept' /\ located' = located
         /\ \E r \in ToSet(delayed) :
              /\ \A other \in ToSet(delayed) : r.at <= other.at
              /\ ToSet(delayed') = ToSet(delayed) \ {r}
              /\ LineOf(fifo') = Append(LineOf(fifo), [r EXCEPT !.at = 0])
<1>1. /\ delayed # <<>> /\ delayed' = HeapPop(delayed) /\ tracked' = tracked
      /\ located' = located /\ pushed' = pushed
  BY DEF Promote
<1>2. /\ Kept(fifo, tracked) /\ HeapPart /\ IdsPart /\ tracked \in BOOLEAN /\ pushed \in 0..MaxRows
      /\ FoundPart
  BY DEF StorageKept
<1>3. PICK r : r = delayed[1]
  OBVIOUS
<1>4. \A x \in Delayed : x.at \in Nat /\ x \in Row
  BY StateFacts
<1>5. delayed \in Seq(Delayed) /\ IsHeap(delayed) /\ IsInjective(delayed)
  BY <1>2 DEF HeapPart
<1>6. r \in ToSet(delayed) /\ \A other \in ToSet(delayed) : r.at <= other.at
  BY <1>1, <1>3, <1>4, <1>5, RootIsLeast
<1>7. /\ delayed' \in Seq(Delayed) /\ IsHeap(delayed') /\ IsInjective(delayed')
      /\ ToSet(delayed') = ToSet(delayed) \ {r}
  BY <1>1, <1>3, <1>4, <1>5, HeapPopFacts
<1>8. r \in Delayed /\ r \in Row /\ r.at # 0
  <2>1. r \in Delayed
    BY <1>6, StateFacts
  <2> QED
    BY <2>1, StateFacts
<1>9. PICK s : s = [r EXCEPT !.at = 0]
  OBVIOUS
<1>10. s \in Row /\ s.id = r.id /\ s.at = 0
  BY <1>8, <1>9 DEF Row
<1>11. /\ Kept(fifo', tracked) /\ LineOf(fifo') = Append(LineOf(fifo), s)
       /\ fifo'.head = fifo.head /\ Len(fifo'.items) = Len(fifo.items) + 1
       /\ \A i \in (fifo.head + 1)..Len(fifo.items) : RowAt(fifo', i) = RowAt(fifo, i)
  <2>1. fifo' = PushAvailable(fifo, r)
    BY <1>3 DEF Promote
  <2> QED
    BY <1>2, <1>8, <1>9, <2>1, PushFacts
<1>12. PICK L, M, D : L = LineOf(fifo) /\ M = LineOf(fifo') /\ D = ToSet(delayed)
  OBVIOUS
<1>13. Identified(L, D, pushed)
  BY <1>2, <1>12 DEF IdsPart
<1>14. s \notin ToSet(L) /\ \A a \in ToSet(L) \cup (D \ {r}) : a.id # s.id
  <2>1. ASSUME NEW a \in ToSet(L) \cup (D \ {r}), a.id = s.id PROVE FALSE
    <3>1. a = r
      BY <1>6, <1>10, <1>12, <1>13, <2>1 DEF Identified
    <3>2. r \in ToSet(L)
      BY <2>1, <3>1
    <3>3. r.at = 0
      BY <1>12, <3>2, StateFacts
    <3> QED
      BY <1>8, <3>3
  <2> QED
    BY <2>1
<1>15. M \in Seq(Row) /\ ToSet(M) = ToSet(L) \cup {s} /\ IsInjective(M)
  <2>1. L \in Seq(Row)
    BY <1>12, StateFacts
  <2> QED
    BY <1>10, <1>11, <1>12, <1>13, <1>14, <2>1, Appended DEF Identified
<1>16. Identified(M, D \ {r}, pushed)
  <2>1. \A a \in ToSet(L) \cup (D \ {r}) : a.id \in 1..pushed
    BY <1>13 DEF Identified
  <2>2. s.id \in 1..pushed
    BY <1>6, <1>10, <1>12, <1>13 DEF Identified
  <2>3. \A a, b \in ToSet(L) \cup (D \ {r}) : a.id = b.id => a = b
    BY <1>13 DEF Identified
  <2>4. ToSet(M) \cup (D \ {r}) = ToSet(L) \cup (D \ {r}) \cup {s}
    BY <1>15
  <2> QED
    BY <1>14, <1>15, <2>1, <2>2, <2>3, <2>4 DEF Identified
<1>17. IdsPart' /\ HeapPart'
  BY <1>1, <1>7, <1>12, <1>16 DEF IdsPart, HeapPart
<1>18. FoundPart'
  <2>1. CASE located = Nothing
    BY <1>1, <2>1 DEF FoundPart, Nothing
  <2>2. CASE /\ located.index = 0 /\ located.row \in Delayed
             /\ located = [row |-> located.row, index |-> 0]
    BY <1>1, <2>2 DEF FoundPart
  <2>3. CASE /\ located.index \in (fifo.head + 1)..Len(fifo.items)
             /\ located = [row |-> RowAt(fifo, located.index), index |-> located.index]
    <3>1. PICK i : i = located.index /\ i \in (fifo.head + 1)..Len(fifo.items)
      BY <2>3
    <3>2. i \in (fifo.head + 1)..(Len(fifo.items) + 1)
      <4>1. fifo.head \in Nat /\ Len(fifo.items) \in Nat
        BY StateFacts
      <4> QED
        BY <3>1, <4>1
    <3>3. RowAt(fifo', i) = RowAt(fifo, i)
      BY <1>11, <3>1
    <3> QED
      BY <1>1, <1>11, <2>3, <3>1, <3>2, <3>3 DEF FoundPart
  <2> QED
    BY <1>2, <2>1, <2>2, <2>3 DEF FoundPart
<1>19. pushed' \in 0..MaxRows /\ tracked' \in BOOLEAN /\ Kept(fifo, tracked)'
  BY <1>1, <1>2, <1>11
<1> QED
  BY <1>1, <1>6, <1>7, <1>9, <1>11, <1>17, <1>18, <1>19 DEF StorageKept

\* The slots from the head on are the line.
LEMMA SlotInLine ==
  ASSUME StorageKept, NEW i \in (fifo.head + 1)..Len(fifo.items)
  PROVE  /\ i - fifo.head \in 1..Len(LineOf(fifo))
         /\ LineOf(fifo)[i - fifo.head] = RowAt(fifo, i) /\ RowAt(fifo, i) \in ToSet(LineOf(fifo))
         /\ RowAt(fifo, i) \in Row /\ RowAt(fifo, i).at = 0
<1>1. /\ Shape(fifo, tracked) /\ LineOf(fifo) \in Seq(Row) /\ Len(LineOf(fifo)) = fifo.count
      /\ fifo.head \in Nat /\ fifo.count \in Nat /\ fifo.head + fifo.count = Len(fifo.items)
  BY StateFacts
<1>2. PICK k : k = i - fifo.head /\ k \in 1..fifo.count /\ fifo.head + k = i
  <2>1. i - fifo.head \in 1..fifo.count /\ fifo.head + (i - fifo.head) = i
    BY <1>1
  <2> QED
    BY <2>1
<1>3. LineOf(fifo)[k] = RowAt(fifo, i)
  BY <1>1, <1>2, LineFacts
<1>4. k \in 1..Len(LineOf(fifo)) /\ k \in DOMAIN LineOf(fifo)
  BY <1>1, <1>2
<1>5. RowAt(fifo, i) \in ToSet(LineOf(fifo))
  BY <1>3, <1>4 DEF ToSet
<1> QED
  BY <1>2, <1>3, <1>4, <1>5, StateFacts

\* What an operation has found is a row.
LEMMA FoundIsRow ==
  ASSUME StorageKept, located # Nothing
  PROVE  located.row \in Row /\ located.row # NoRow
<1>1. located.row \in Row
  <2>1. CASE located.index = 0 /\ located.row \in Delayed
    BY <2>1 DEF Delayed
  <2>2. CASE /\ located.index \in (fifo.head + 1)..Len(fifo.items)
             /\ located = [row |-> RowAt(fifo, located.index), index |-> located.index]
    <3>1. PICK i \in (fifo.head + 1)..Len(fifo.items) :
            located = [row |-> RowAt(fifo, i), index |-> i]
      BY <2>2
    <3>2. located.row = RowAt(fifo, i)
      BY <3>1
    <3> QED
      BY <3>2, SlotInLine
  <2> QED
    BY <2>1, <2>2 DEF StorageKept, FoundPart
<1>2. Row \subseteq [id : Nat, at : Nat, attempt : Nat, handoff : Nat]
  BY DEF Row
<1> QED
  BY <1>1, <1>2, StorageAssumption

\* An operation looks for a row.
LEMMA LocateStep ==
  ASSUME StorageKept, Locate
  PROVE  /\ StorageKept' /\ fifo' = fifo /\ delayed' = delayed /\ located = Nothing
         /\ located'.row \in ToSet(LineOf(fifo)) \cup ToSet(delayed)
<1>1. /\ located = Nothing /\ fifo' = fifo /\ delayed' = delayed /\ tracked' = tracked
      /\ pushed' = pushed
  BY DEF Locate, ChainFree
<1>2. /\ Kept(fifo, tracked) /\ HeapPart /\ IdsPart /\ tracked \in BOOLEAN /\ pushed \in 0..MaxRows
  BY DEF StorageKept
<1>3. FoundPart' /\ located'.row \in ToSet(LineOf(fifo)) \cup ToSet(delayed)
  <2>1. ASSUME NEW i \in (fifo.head + 1)..Len(fifo.items),
               located' = [row |-> RowAt(fifo, i), index |-> i]
        PROVE  FoundPart' /\ located'.row \in ToSet(LineOf(fifo)) \cup ToSet(delayed)
    <3>1. located'.row = RowAt(fifo, i) /\ located'.index = i
      BY <2>1
    <3>2. RowAt(fifo, i) \in ToSet(LineOf(fifo))
      BY SlotInLine
    <3>3. FoundPart'
      BY <1>1, <2>1, <3>1 DEF FoundPart
    <3> QED
      BY <3>1, <3>2, <3>3
  <2>2. ASSUME NEW r \in ToSet(delayed), located' = [row |-> r, index |-> 0]
        PROVE  FoundPart' /\ located'.row \in ToSet(LineOf(fifo)) \cup ToSet(delayed)
    <3>1. located'.row = r /\ located'.index = 0
      BY <2>2
    <3>2. r \in Delayed
      BY StateFacts
    <3>3. FoundPart'
      BY <2>2, <3>1, <3>2 DEF FoundPart
    <3> QED
      BY <3>1, <3>3
  <2> QED
    BY <2>1, <2>2 DEF Locate
<1>4. IdsPart' /\ HeapPart'
  BY <1>1, <1>2 DEF IdsPart, HeapPart
<1>5. pushed' \in 0..MaxRows /\ tracked' \in BOOLEAN /\ Kept(fifo, tracked)'
  BY <1>1, <1>2
<1> QED
  BY <1>1, <1>3, <1>4, <1>5 DEF StorageKept

\* The row that was found is withdrawn, from where it was.
LEMMA RemoveStep ==
  ASSUME StorageKept, RemovePendingJob
  PROVE  /\ StorageKept' /\ located.row # NoRow /\ located' = Nothing
         /\ LineOf(fifo') = Among(LineOf(fifo), ToSet(LineOf(fifo)) \ {located.row})
         /\ ToSet(delayed') = ToSet(delayed) \ {located.row}
<1>1. /\ located # Nothing /\ located' = Nothing /\ tracked' = tracked /\ pushed' = pushed
  BY DEF RemovePendingJob, ChainFree
<1>2. /\ Kept(fifo, tracked) /\ HeapPart /\ IdsPart /\ tracked \in BOOLEAN /\ pushed \in 0..MaxRows
      /\ FoundPart
  BY DEF StorageKept
<1>3. PICK L, D, r : L = LineOf(fifo) /\ D = ToSet(delayed) /\ r = located.row
  OBVIOUS
<1>4. Identified(L, D, pushed) /\ L \in Seq(Row)
  BY <1>2, <1>3, StateFacts DEF IdsPart
<1>5. FoundPart' /\ pushed' \in 0..MaxRows /\ tracked' \in BOOLEAN
  BY <1>1, <1>2 DEF FoundPart, Nothing
<1>6. r # NoRow
  BY <1>1, <1>3, FoundIsRow
<1>7. CASE located.index = 0 /\ r \in Delayed
  <2>1. fifo' = fifo /\ delayed' = HeapRemove(delayed, r)
    <3>1. ~(located.index > 0)
      BY <1>7
    <3> QED
      BY <1>3, <3>1 DEF RemovePendingJob
  <2>2. /\ delayed' \in Seq(Delayed) /\ IsHeap(delayed') /\ IsInjective(delayed')
        /\ ToSet(delayed') = ToSet(delayed) \ {r}
    <3>1. \A x \in Delayed : x.at \in Nat
      BY StateFacts
    <3>2. delayed \in Seq(Delayed) /\ IsHeap(delayed) /\ IsInjective(delayed)
      BY <1>2 DEF HeapPart
    <3> QED
      BY <2>1, <3>1, <3>2, HeapRemoveFacts
  <2>3. r \notin ToSet(L)
    BY <1>3, <1>7, StateFacts
  <2>4. Among(L, ToSet(L) \ {r}) = L
    <3>1. ToSet(L) \subseteq ToSet(L) \ {r}
      BY <2>3
    <3> QED
      BY <1>4, <3>1, AmongAll
  <2>5. Identified(L, D \ {r}, pushed)
    BY <1>4 DEF Identified
  <2>6. IdsPart' /\ HeapPart' /\ Kept(fifo, tracked)'
    BY <1>1, <1>2, <1>3, <2>1, <2>2, <2>5 DEF IdsPart, HeapPart
  <2> QED
    BY <1>1, <1>3, <1>5, <1>6, <2>1, <2>2, <2>4, <2>6 DEF StorageKept
<1>8. CASE /\ located.index \in (fifo.head + 1)..Len(fifo.items)
           /\ located = [row |-> RowAt(fifo, located.index), index |-> located.index]
  <2>1. PICK i \in (fifo.head + 1)..Len(fifo.items) :
          i = located.index /\ located = [row |-> RowAt(fifo, i), index |-> i]
    BY <1>8
  <2>2. PICK k : /\ k = i - fifo.head /\ k \in 1..Len(L) /\ L[k] = RowAt(fifo, i)
                 /\ RowAt(fifo, i).at = 0
    BY <1>3, SlotInLine
  <2>3. r = L[k] /\ r.at = 0
    BY <1>3, <2>1, <2>2
  <2>4. fifo' = RemoveAvailableAt(fifo, i) /\ delayed' = delayed
    <3>1. fifo.head \in Nat
      BY StateFacts
    <3>2. located.index > 0
      BY <2>1, <3>1
    <3> QED
      BY <2>1, <3>2 DEF RemovePendingJob
  <2>5. Kept(fifo', tracked) /\ LineOf(fifo') = RemoveAt(L, k)
    BY <1>2, <1>3, <2>2, <2>4, RemoveFacts
  <2>6. PICK M : M = LineOf(fifo')
    OBVIOUS
  <2>7. M \in Seq(Row) /\ ToSet(M) = ToSet(L) \ {r} /\ IsInjective(M)
    BY <1>4, <2>2, <2>3, <2>5, <2>6, TakenOut DEF Identified
  <2>8. M = Among(L, ToSet(L) \ {r})
    BY <1>4, <2>2, <2>3, <2>5, <2>6, AmongButOne DEF Identified
  <2>9. r \notin D
    BY <1>3, <2>3, StateFacts
  <2>10. Identified(M, D, pushed)
    BY <1>4, <2>7 DEF Identified
  <2>11. IdsPart' /\ HeapPart' /\ Kept(fifo, tracked)'
    BY <1>1, <1>2, <1>3, <2>4, <2>5, <2>6, <2>10 DEF IdsPart, HeapPart
  <2> QED
    BY <1>1, <1>3, <1>5, <1>6, <2>4, <2>6, <2>8, <2>9, <2>11 DEF StorageKept
<1> QED
  BY <1>1, <1>2, <1>3, <1>7, <1>8 DEF FoundPart

\* Everything is dropped.
LEMMA ClearStep ==
  ASSUME StorageKept, ClearMemory
  PROVE  /\ StorageKept' /\ located' = located
         /\ LineOf(fifo') = <<>> /\ ToSet(delayed') = {}
<1>1. /\ located = Nothing /\ located' = located /\ tracked' = tracked /\ pushed' = pushed
      /\ fifo' = EmptyFifo /\ delayed' = <<>>
  BY DEF ClearMemory, ChainFree
<1>2. tracked \in BOOLEAN /\ pushed \in 0..MaxRows
  BY DEF StorageKept
<1>3. Kept(fifo', tracked) /\ LineOf(fifo') = <<>>
  BY <1>1, <1>2, EmptyKept
<1>4. ToSet(<<>>) = {}
  BY DEF ToSet
<1>5. HeapPart'
  <2>1. <<>> \in Seq(Delayed) /\ Len(<<>>) = 0
    OBVIOUS
  <2> QED
    BY <1>1, <2>1 DEF HeapPart, IsHeap, IsInjective
<1>6. IdsPart'
  BY <1>1, <1>3, <1>4 DEF IdsPart, Identified, IsInjective
<1> QED
  BY <1>1, <1>2, <1>3, <1>4, <1>5, <1>6 DEF StorageKept, FoundPart, Nothing

\* The invariant is kept by every step.
LEMMA StorageStep ==
  ASSUME StorageKept, [Next]_vars PROVE StorageKept'
<1>1. CASE \E kind \in Kinds : Push(kind)
  <2>1. PICK kind \in Kinds : Push(kind)
    BY <1>1
  <2> QED
    BY <2>1, PushReady, PushDelayed
<1>2. CASE Pop
  BY <1>2, PopStep
<1>3. CASE Promote
  BY <1>3, PromoteStep
<1>4. CASE Locate
  BY <1>4, LocateStep
<1>5. CASE RemovePendingJob
  BY <1>5, RemoveStep
<1>6. CASE ClearMemory
  BY <1>6, ClearStep
<1>7. CASE UNCHANGED vars
  BY <1>7 DEF vars, StorageKept, HeapPart, IdsPart, FoundPart
<1> QED
  BY <1>1, <1>2, <1>3, <1>4, <1>5, <1>6, <1>7 DEF Next

\* The arrays, the counts, the heap and the ids are kept in order whatever
\* operations run and wherever the delay timer fires between them
\* (pushAvailable, consumeAvailableSlot, removeAvailableAt, compactAvailable,
\* releaseAvailableMetadata and the heap of min-heap.util.ts).
THEOREM StorageIsKept == Spec => []StorageKept
<1>1. Init => StorageKept
  BY StorageStart
<1>2. StorageKept /\ [Next]_vars => StorageKept'
  BY StorageStep
<1> QED
  BY <1>1, <1>2, PTL DEF Spec

\* The invariant the run checks follows.
LEMMA KeptIsInvariant ==
  ASSUME StorageKept PROVE StorageInvariant
<1>1. /\ Shape(fifo, tracked) /\ Counted(fifo) /\ IsHeap(delayed) /\ fifo \in Fifos
      /\ tracked \in BOOLEAN
  BY DEF StorageKept, Kept, HeapPart, Shape
<1>2. /\ LineOf(fifo) \in Seq(Row) /\ Len(LineOf(fifo)) = fifo.count
      /\ fifo.head \in Nat /\ fifo.count \in Nat /\ fifo.head + fifo.count = Len(fifo.items)
  BY StateFacts
<1>3. fifo.count = Len(fifo.items) - fifo.head
  BY <1>2
<1>4. \A a \in {fifo.ids, fifo.attempts, fifo.handoffs} : Exists(a) => Len(a) = Len(fifo.items)
  BY <1>1 DEF Shape, Maybe, Exists
<1>5. ASSUME NEW k \in 1..fifo.count
      PROVE  /\ LineOf(fifo)[k] \in Retried <=> Slot(fifo.attempts, fifo.head + k, 1) > 1
             /\ LineOf(fifo)[k] \in Handed <=> Slot(fifo.handoffs, fifo.head + k, 0) > 0
  <2>1. LineOf(fifo)[k] = RowAt(fifo, fifo.head + k) /\ LineOf(fifo)[k] \in Row
    BY <1>1, <1>2, LineFacts
  <2>2. /\ LineOf(fifo)[k].attempt = Slot(fifo.attempts, fifo.head + k, 1)
        /\ LineOf(fifo)[k].handoff = Slot(fifo.handoffs, fifo.head + k, 0)
    BY <2>1 DEF RowAt
  <2> QED
    BY <2>1, <2>2 DEF Retried, Handed
<1>6. fifo.retried = Occupied(fifo.attempts, 1)
  <2>1. Positions(LineOf(fifo), Retried)
          = {k \in 1..fifo.count : Slot(fifo.attempts, fifo.head + k, 1) > 1}
    BY <1>2, <1>5 DEF Positions
  <2> QED
    BY <1>1, <2>1 DEF Counted, Count, Occupied
<1>7. fifo.handed = Occupied(fifo.handoffs, 0)
  <2>1. Positions(LineOf(fifo), Handed)
          = {k \in 1..fifo.count : Slot(fifo.handoffs, fifo.head + k, 0) > 0}
    BY <1>2, <1>5 DEF Positions
  <2> QED
    BY <1>1, <2>1 DEF Counted, Count, Occupied
<1>8. ASSUME tracked, NEW i \in (fifo.head + 1)..Len(fifo.items)
      PROVE  fifo.ids[i] = fifo.items[i]
  <2>1. PICK k \in 1..fifo.count : fifo.head + k = i
    <3>1. i - fifo.head \in 1..fifo.count /\ fifo.head + (i - fifo.head) = i
      BY <1>2
    <3> QED
      BY <3>1
  <2>2. Slot(fifo.ids, i, fifo.items[i]) = fifo.items[i] /\ Exists(fifo.ids)
    BY <1>1, <1>8, <2>1 DEF Shape
  <2> QED
    BY <2>2 DEF Slot
<1> QED
  BY <1>1, <1>3, <1>4, <1>6, <1>7, <1>8 DEF StorageInvariant

\* The property of the run Storage.
THEOREM StorageInvariantHolds == Spec => []StorageInvariant
<1>1. StorageKept => StorageInvariant
  BY KeptIsInvariant
<1> QED
  BY <1>1, StorageIsKept, PTL

-----------------------------------------------------------------------------
(* The arrays and the heap implement the line and the set of ReadyLine.     *)

\* ReadyLine's operators on sequences are the ones the lemmas are about.
LEMMA SameOperators ==
  /\ \A s : Line!ToSet(s) = ToSet(s)
  /\ \A s, S : Line!Among(s, S) = Among(s, S)
<1>1. \A s : Line!ToSet(s) = ToSet(s)
  BY DEF Line!ToSet, ToSet
<1>2. \A s, S : Line!Among(s, S) = Among(s, S)
  BY DEF Line!Among, Among
<1> QED
  BY <1>1, <1>2

\* The empty storage is the empty line.
LEMMA LineStart ==
  ASSUME Init PROVE Line!LineInit
<1>1. ToSet(<<>>) = {}
  BY DEF ToSet
<1>2. LineOf(fifo) = <<>> /\ ToSet(delayed) = {} /\ located.row = NoRow
  BY <1>1, EmptyKept DEF Init, Nothing
<1> QED
  BY <1>2 DEF Line!LineInit, LineOf

\* Every step of the storage is one of the line, or changes nothing it shows.
LEMMA LineStep ==
  ASSUME StorageKept, [Next]_vars PROVE [Line!LineNext]_(Line!parts)
<1> USE DEF Pushable
<1>1. CASE \E kind \in Kinds : Push(kind)
  <2>1. PICK kind \in Kinds : Push(kind)
    BY <1>1
  <2>2. CASE kind.at = 0
    <3>1. PICK r \in Pushable : Line!Join(r)
      <4>1. /\ delayed' = delayed /\ located' = located
            /\ \E r \in Pushable : LineOf(fifo') = Append(LineOf(fifo), r)
        BY <2>1, <2>2, PushReady
      <4> QED
        BY <4>1 DEF Line!Join, LineOf
    <3> QED
      BY <3>1 DEF Line!LineNext
  <2>3. CASE kind.at # 0
    <3>1. PICK r \in Pushable : Line!Wait(r)
      <4>1. /\ fifo' = fifo /\ located' = located
            /\ \E r \in Pushable : ToSet(delayed') = ToSet(delayed) \cup {r}
        BY <2>1, <2>3, PushDelayed
      <4> QED
        BY <4>1 DEF Line!Wait
    <3> QED
      BY <3>1 DEF Line!LineNext
  <2> QED
    BY <2>2, <2>3
<1>2. CASE Pop
  <2>1. Line!Serve
    BY <1>2, PopStep DEF Line!Serve, LineOf
  <2> QED
    BY <2>1 DEF Line!LineNext
<1>3. CASE Promote
  <2>1. PICK r \in ToSet(delayed) :
          /\ \A other \in ToSet(delayed) : r.at <= other.at
          /\ ToSet(delayed') = ToSet(delayed) \ {r}
          /\ LineOf(fifo') = Append(LineOf(fifo), [r EXCEPT !.at = 0])
    BY <1>3, PromoteStep
  <2>2. Line!Ripen(r)
    BY <1>3, <2>1, PromoteStep DEF Line!Ripen, LineOf
  <2> QED
    BY <2>1, <2>2 DEF Line!LineNext
<1>4. CASE Locate
  <2>1. Line!Find
    BY <1>4, LocateStep, SameOperators DEF Line!Find, LineOf, Nothing
  <2> QED
    BY <2>1 DEF Line!LineNext
<1>5. CASE RemovePendingJob
  <2>1. /\ located.row # NoRow /\ located' = Nothing
        /\ LineOf(fifo') = Among(LineOf(fifo), ToSet(LineOf(fifo)) \ {located.row})
        /\ ToSet(delayed') = ToSet(delayed) \ {located.row}
    BY <1>5, RemoveStep
  <2>2. PICK L : L = LineOf(fifo)
    OBVIOUS
  <2>3. Line!Among(L, Line!ToSet(L) \ {located.row}) = Among(L, ToSet(L) \ {located.row})
    BY SameOperators
  <2>4. LineOf(fifo') = Line!Among(L, Line!ToSet(L) \ {located.row})
    BY <2>1, <2>2, <2>3
  <2>5. located'.row = NoRow
    BY <2>1 DEF Nothing
  <2>6. Line!Withdraw
    <3>1. L = [k \in 1..fifo.count |-> RowAt(fifo, fifo.head + k)]
      BY <2>2 DEF LineOf
    <3>2. LineOf(fifo') = [k \in 1..fifo'.count |-> RowAt(fifo', fifo'.head + k)]
      BY DEF LineOf
    <3> QED
      BY <2>1, <2>4, <2>5, <3>1, <3>2 DEF Line!Withdraw
  <2> QED
    BY <2>6 DEF Line!LineNext
<1>6. CASE ClearMemory
  <2>1. Line!Empty
    BY <1>6, ClearStep DEF Line!Empty, LineOf
  <2> QED
    BY <2>1 DEF Line!LineNext
<1>7. CASE UNCHANGED vars
  BY <1>7 DEF vars, Line!parts
<1> QED
  BY <1>1, <1>2, <1>3, <1>4, <1>5, <1>6, <1>7 DEF Next

\* The storage serves the rows in turn, lets them ripen in the order of their
\* times, and withdraws the row that was found even when promotions have moved
\* others since (locatePendingJob, removePendingJob, promoteDueDelayed).
THEOREM StorageServesTheLine == Spec => ServesTheLine
<1>1. Init => Line!LineInit
  BY LineStart
<1>2. StorageKept /\ [Next]_vars => [Line!LineNext]_(Line!parts)
  BY LineStep
<1> QED
  BY <1>1, <1>2, StorageIsKept, PTL DEF Spec, ServesTheLine, Line!LineSpec
=============================================================================
