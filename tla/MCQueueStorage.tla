---------------------------- MODULE MCQueueStorage ----------------------------
(* Instances of QueueStorage for TLC.  Six rows make the heap three levels   *)
(* deep, so that an entry that fills a gap may have to move up, and let the  *)
(* FIFO compact twice.                                                     *)
EXTENDS QueueStorage

Kind(at, attempt, handoff) == [at |-> at, attempt |-> attempt, handoff |-> handoff]
KindsMC == {Kind(0, 1, 0), Kind(1, 1, 1), Kind(2, 2, 0)}

\* rebuild, which only the lease expiries use: a heap of the same entries.
Keyed == UNION {[1..n -> [at : 1..3]] : n \in 0..6}
ASSUME RebuildIsHeap ==
  \A s \in Keyed :
    /\ IsHeap(HeapRebuild(s))
    /\ \A k \in 1..3 : Len(SelectSeq(HeapRebuild(s), LAMBDA e : e.at = k))
                        = Len(SelectSeq(s, LAMBDA e : e.at = k))
=============================================================================
