-------------------------------- MODULE MinHeap --------------------------------
(***************************************************************************)
(* The binary heap of packages/queue/src/queue/core/min-heap.util.ts: a      *)
(* sequence of entries with their key in `at`, counted from 1, so that the  *)
(* parent of i is i \div 2.  A loop of the code is a recursive function over  *)
(* as many rounds as it can take; a round after its end changes nothing.   *)
(***************************************************************************)
EXTENDS Naturals, Sequences, SequencesExt

Swap(d, i, j) == [d EXCEPT ![i] = d[j], ![j] = d[i]]

\* A sift at index s.i of s.d, one round.
UpRound(s) ==
  IF s.i = 1 \/ s.d[s.i].at >= s.d[s.i \div 2].at THEN s
  ELSE [d |-> Swap(s.d, s.i, s.i \div 2), i |-> s.i \div 2]

SiftUp(d, index) ==
  LET s[k \in 0..Len(d)] ==
        IF k = 0 THEN [d |-> d, i |-> index] ELSE UpRound(s[k - 1])
  IN s[Len(d)].d

\* The smaller of i and its children; i itself before the left before the right.
SmallestOf(d, i) ==
  LET below(a, c) == IF c <= Len(d) /\ d[c].at < d[a].at THEN c ELSE a
  IN below(below(i, 2 * i), 2 * i + 1)

DownRound(s) ==
  LET c == SmallestOf(s.d, s.i) IN [d |-> Swap(s.d, s.i, c), i |-> c]

SiftDown(d, index) ==
  LET s[k \in 0..Len(d)] ==
        IF k = 0 THEN [d |-> d, i |-> index] ELSE DownRound(s[k - 1])
  IN s[Len(d)].d

HeapPush(d, e) == SiftUp(Append(d, e), Len(d) + 1)

HeapPop(d) ==
  IF Len(d) = 1 THEN <<>> ELSE SiftDown([Front(d) EXCEPT ![1] = Last(d)], 1)

\* Mutation of HeapRemove: the entry that fills the gap only moves down.
HeapRemove_DownOnly(d, e) ==
  IF e \notin ToSet(d) THEN d
  ELSE LET i == CHOOSE k \in DOMAIN d : d[k] = e
       IN IF i = Len(d) THEN Front(d) ELSE SiftDown([Front(d) EXCEPT ![i] = Last(d)], i)

\* remove by identity: the last entry fills the gap and moves up or down.
HeapRemove(d, e) ==
  IF e \notin ToSet(d) THEN d
  ELSE LET i == CHOOSE k \in DOMAIN d : d[k] = e
           filled == [Front(d) EXCEPT ![i] = Last(d)]
       IN IF i = Len(d) THEN Front(d)
          ELSE IF i > 1 /\ filled[i].at < filled[i \div 2].at THEN SiftUp(filled, i)
          ELSE SiftDown(filled, i)

HeapRebuild(values) ==
  LET half == Len(values) \div 2
      s[k \in 0..half] ==
        IF k = 0 THEN values ELSE SiftDown(s[k - 1], half + 1 - k)
  IN s[half]

IsHeap(d) == \A i \in 2..Len(d) : d[i \div 2].at <= d[i].at
=============================================================================
