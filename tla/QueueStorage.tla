----------------------------- MODULE QueueStorage -----------------------------
(***************************************************************************)
(* How the queue holds its ready and delayed rows (packages/queue/src/      *)
(* queue/core/queue.ts): a FIFO in parallel arrays with a head index, whose  *)
(* arrays for attempts and handoff counts exist only while some row needs   *)
(* them, and a binary heap.                                                *)
(*                                                                         *)
(* Operations run one after the other on the write chain, except that the   *)
(* delay timer may fire between an operation's search for a row and its      *)
(* removal, with the store call in between.                                *)
(***************************************************************************)
EXTENDS MinHeap, FiniteSets

CONSTANTS
  Kinds,       \* what is pushed: [at, attempt, handoff], ready when at = 0
  CompactMin,  \* AVAILABLE_COMPACT_MIN
  MaxRows,     \* bound on rows pushed
  Absent,      \* an array that does not exist, a slot's missing value
  NoRow

ASSUME StorageAssumption ==
  /\ Kinds \subseteq [at : Nat, attempt : Nat \ {0}, handoff : Nat]
  /\ CompactMin \in Nat \ {0} /\ MaxRows \in Nat
  /\ Absent \notin Seq(Nat \cup {Absent})
  /\ NoRow \notin [id : Nat, at : Nat, attempt : Nat, handoff : Nat]

VARIABLES
  tracked,  \* trackAvailableIds
  fifo,     \* the FIFO's arrays, head index and counts
  delayed,  \* the heap of delayed rows
  located,  \* what locatePendingJob has returned to a running operation
  pushed    \* rows pushed so far

vars == <<tracked, fifo, delayed, located, pushed>>

Nothing == [row |-> NoRow]
-----------------------------------------------------------------------------
(* The FIFO.  An absent array stays absent under every update.              *)

Exists(a) == a # Absent
Slot(a, i, default) == IF Exists(a) THEN a[i] ELSE default
Less(n, holds) == IF holds THEN n - 1 ELSE n

\* clearMemory
EmptyFifo ==
  [items |-> <<>>, ids |-> IF tracked THEN <<>> ELSE Absent,
   attempts |-> Absent, handoffs |-> Absent,
   head |-> 0, count |-> 0, retried |-> 0, handed |-> 0, metadata |-> FALSE]

ReleaseAvailableMetadata(f) ==
  LET a == IF f.retried = 0 THEN Absent ELSE f.attempts
      h == IF f.handed = 0 THEN Absent ELSE f.handoffs
  IN [f EXCEPT !.attempts = a, !.handoffs = h, !.metadata = Exists(a) \/ Exists(h)]

Emptied(a) == IF Exists(a) THEN <<>> ELSE Absent
From(a, head) == IF Exists(a) THEN SubSeq(a, head + 1, Len(a)) ELSE Absent

Sparse(f) == f.head >= CompactMin /\ f.head * 2 >= Len(f.items)

CompactAvailable(f) ==
  IF f.head = 0 THEN f
  ELSE IF f.count = 0
  THEN [f EXCEPT !.items = <<>>, !.ids = Emptied(@), !.attempts = Emptied(@),
                 !.handoffs = Emptied(@), !.head = 0, !.retried = 0, !.handed = 0,
                 !.metadata = FALSE]
  ELSE IF Sparse(f)
  THEN [f EXCEPT !.items = From(@, f.head), !.ids = From(@, f.head),
                 !.attempts = From(@, f.head), !.handoffs = From(@, f.head), !.head = 0]
  ELSE f

\* Mutation of AfterRemoval: compaction is left to the next push.
AfterRemoval_Later(f) ==
  LET g == ReleaseAvailableMetadata([f EXCEPT !.count = @ - 1])
  IN IF g.count = 0 THEN CompactAvailable(g) ELSE g

\* The end of consumeAvailableSlot and of removeAvailableAt.
AfterRemoval(f) ==
  LET g == ReleaseAvailableMetadata([f EXCEPT !.count = @ - 1])
  IN IF g.count = 0 \/ Sparse(g) THEN CompactAvailable(g) ELSE g

\* consumeAvailableSlot: the head slot is overwritten with empty values.
ConsumeAvailableSlot(f) ==
  LET i == f.head + 1
      blank(a, v) == IF Exists(a) THEN [a EXCEPT ![i] = v] ELSE Absent
  IN AfterRemoval(
       [f EXCEPT !.items = blank(@, Absent), !.ids = blank(@, 0),
                 !.attempts = blank(@, 1), !.handoffs = blank(@, 0),
                 !.retried = Less(@, Slot(f.attempts, i, 1) > 1),
                 !.handed = Less(@, Slot(f.handoffs, i, 0) > 0),
                 !.head = @ + 1])

\* removeAvailableAt
RemoveAvailableAt(f, i) ==
  LET cut(a) == IF Exists(a) THEN RemoveAt(a, i) ELSE Absent
  IN IF i <= f.head \/ i > Len(f.items) THEN f
     ELSE AfterRemoval(
            [f EXCEPT !.items = cut(@), !.ids = cut(@),
                      !.attempts = cut(@), !.handoffs = cut(@),
                      !.retried = Less(@, Slot(f.attempts, i, 1) > 1),
                      !.handed = Less(@, Slot(f.handoffs, i, 0) > 0)])

\* materializeAvailableAttempts, materializeAvailableDlqHandoffAttempts
Materialized(a, f, v) == IF Exists(a) THEN a ELSE [i \in DOMAIN f.items |-> v]
Pushed(a, v) == IF Exists(a) THEN Append(a, v) ELSE Absent

\* pushAvailable.  A row that needs no metadata goes the short way while no
\* metadata array is in use, even if one exists.
PushAvailable(f0, r) ==
  LET f == IF Sparse(f0) THEN CompactAvailable(f0) ELSE f0
      g == [f EXCEPT !.items = Append(@, r.id), !.ids = Pushed(@, r.id), !.count = @ + 1]
      a == IF r.attempt # 1 THEN Materialized(f.attempts, f, 1) ELSE f.attempts
      h == IF r.handoff > 0 THEN Materialized(f.handoffs, f, 0) ELSE f.handoffs
  IN IF ~f.metadata /\ r.attempt = 1 /\ r.handoff = 0 THEN g
     ELSE [g EXCEPT !.metadata = TRUE,
                    !.attempts = Pushed(a, r.attempt), !.handoffs = Pushed(h, r.handoff),
                    !.retried = IF r.attempt # 1 THEN @ + 1 ELSE @,
                    !.handed = IF r.handoff > 0 THEN @ + 1 ELSE @]

\* popAvailable, locatePendingJob: what slot i says of its row.
RowAt(f, i) ==
  [id |-> f.items[i], at |-> 0, attempt |-> Slot(f.attempts, i, 1),
   handoff |-> Slot(f.handoffs, i, 0)]
-----------------------------------------------------------------------------
(* Operations.                                                             *)

\* The operations on the chain wait for the one that has located a row.
ChainFree == located = Nothing

\* enqueue, release, reschedule, a reclaim and each row of hydrate: ready rows
\* join the FIFO, delayed ones the heap.
Push(kind) ==
  LET row == [id |-> pushed + 1, at |-> kind.at, attempt |-> kind.attempt,
              handoff |-> kind.handoff] IN
  /\ ChainFree /\ pushed < MaxRows /\ pushed' = pushed + 1
  /\ IF kind.at = 0
     THEN fifo' = PushAvailable(fifo, row) /\ UNCHANGED delayed
     ELSE delayed' = HeapPush(delayed, row) /\ UNCHANGED fifo
  /\ UNCHANGED <<tracked, located>>

\* popAvailable, for a claim or a tryDequeue.
Pop ==
  /\ ChainFree /\ fifo.count > 0
  /\ fifo' = ConsumeAvailableSlot(fifo)
  /\ UNCHANGED <<tracked, delayed, located, pushed>>

\* One round of promoteDueDelayed, by the timer or at the start of an operation.
Promote ==
  /\ delayed # <<>>
  /\ delayed' = HeapPop(delayed)
  /\ fifo' = PushAvailable(fifo, delayed[1])
  /\ UNCHANGED <<tracked, located, pushed>>

\* locatePendingJob, for cancelJob, rescheduleJob or promoteJob.
Locate ==
  /\ ChainFree
  /\ \/ \E i \in (fifo.head + 1)..Len(fifo.items) :
          located' = [row |-> RowAt(fifo, i), index |-> i]
     \/ \E row \in ToSet(delayed) : located' = [row |-> row, index |-> 0]
  /\ UNCHANGED <<tracked, fifo, delayed, pushed>>

\* removePendingJob, after the store call.
RemovePendingJob ==
  /\ ~ChainFree /\ located' = Nothing
  /\ IF located.index > 0
     THEN fifo' = RemoveAvailableAt(fifo, located.index) /\ UNCHANGED delayed
     ELSE delayed' = HeapRemove(delayed, located.row) /\ UNCHANGED fifo
  /\ UNCHANGED <<tracked, pushed>>

\* clear, replaceAll, hydrate
ClearMemory ==
  /\ ChainFree /\ fifo # EmptyFifo /\ fifo' = EmptyFifo /\ delayed' = <<>>
  /\ UNCHANGED <<tracked, located, pushed>>

Init ==
  /\ tracked \in BOOLEAN
  /\ fifo = EmptyFifo /\ delayed = <<>> /\ located = Nothing /\ pushed = 0

Next ==
  \/ \E kind \in Kinds : Push(kind)
  \/ Pop \/ Promote \/ Locate \/ RemovePendingJob \/ ClearMemory

Spec == Init /\ [][Next]_vars
-----------------------------------------------------------------------------
(* Properties.                                                             *)

\* The arrays that exist are as long as the items, the counts are those of
\* the occupied slots (a wrong count drops an array that is still needed or
\* keeps one for ever), a row never has another row's id, and the heap is one
\* (compactAvailable, releaseAvailableMetadata, the sifts of min-heap.util.ts).
Occupied(a, v) == Cardinality({k \in 1..fifo.count : Slot(a, fifo.head + k, v) > v})

StorageInvariant ==
  /\ fifo.count = Len(fifo.items) - fifo.head
  /\ \A a \in {fifo.ids, fifo.attempts, fifo.handoffs} :
       Exists(a) => Len(a) = Len(fifo.items)
  /\ fifo.retried = Occupied(fifo.attempts, 1)
  /\ fifo.handed = Occupied(fifo.handoffs, 0)
  /\ tracked => \A i \in (fifo.head + 1)..Len(fifo.items) : fifo.ids[i] = fifo.items[i]
  /\ IsHeap(delayed)

\* The arrays and the heap are the line and the set the rest of the queue is
\* written for: rows are served in turn with their own attempt and handoff
\* count, ripen in the order of their times, and the index found before the
\* store call removes the row that was found, whatever has been promoted since.
Line == INSTANCE ReadyLine WITH
  Rows <- [id : 1..MaxRows, at : {k.at : k \in Kinds}, attempt : {k.attempt : k \in Kinds},
           handoff : {k.handoff : k \in Kinds}],
  line <- [k \in 1..fifo.count |-> RowAt(fifo, fifo.head + k)],
  pending <- ToSet(delayed),
  found <- located.row
ServesTheLine == Line!LineSpec
=============================================================================
