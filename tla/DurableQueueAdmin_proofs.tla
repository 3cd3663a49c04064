---------------------- MODULE DurableQueueAdmin_proofs ----------------------
(***************************************************************************)
(* Theorems about DurableQueueAdmin, the whole queue, for every value of   *)
(* its constants.  AdminShape holds whatever happens; AdminRowInvariant,   *)
(* AdminStoreInvariant, AdminDepthInvariant and AdminLedgerInvariant stand *)
(* on it, each until those of the mishaps that break it.  The steps of     *)
(* DurableQueue are covered by the lemmas of DurableQueue_proofs.          *)
(***************************************************************************)
EXTENDS DurableQueue_proofs

USE DEF None, Ids

-----------------------------------------------------------------------------
(* The operations of DurableQueueAdmin: how they leave the state in shape,  *)
(* and no row in two places.                                                *)

\* A store call that needs no lease.
LEMMA CallStoreIs ==
  ASSUME NEW del \in BOOLEAN, NEW i \in Ids, NEW rec \in Stored,
         CallStore(del, i, None, rec)
  PROVE  /\ cur' \in Call /\ cur' # Idle /\ cur'.pc = "main" /\ cur'.reply = "wait"
         /\ cur'.del = del /\ cur'.id = i /\ cur'.gen = None /\ cur'.rec = rec
BY DEF CallStore, Call, Idle

\* The types, after a step that leaves most of the state alone.
LEMMA TypesAfter ==
  ASSUME AdminTypeOK, MemTypeOK', AdminChainTypeOK', CallerTypeOK',
         UNCHANGED <<now, idVars, hydVars, storeVars, faultVars>>
  PROVE  AdminTypeOK'
BY PartsStay DEF AdminTypeOK, idVars, faultVars

\* What a step of a well-shaped state that moves rows about leaves.
StepFits ==
  ShapeFit' /\ PlacedIds' \subseteq PlacedIds /\ (RowParts => RowParts')

\* Rows that move between the collections, while no operation joins the chain.
LEMMA MovedRows ==
  ASSUME ShapeFit, AdminTypeOK', hyd' = hyd, hyd.pc # "clear", AdminCallFits',
         cur' # Idle => ~Running("enqueue")',
         RowInOnePlace => Placed(available', delayed', DOMAIN leased', InFlight'),
         Everything(available', delayed', DOMAIN leased', InFlight') \subseteq PlacedIds
  PROVE  StepFits
<1>1. ShapeFit'
  BY DEF ShapeFit, ShapeParts, QuietLoad
<1>2. PlacedIds' \subseteq PlacedIds /\ (RowInOnePlace => RowInOnePlace')
  BY Placement
<1>3. NewRow'
  BY DEF NewRow
<1>4. QED
  BY <1>1, <1>2, <1>3 DEF StepFits, RowParts

\* An operation that ends.
LEMMA EndedRows ==
  ASSUME ShapeFit, MemTypeOK', CallerTypeOK', chain # <<>>, EndOp, hyd.pc # "clear",
         UNCHANGED <<now, idVars, hydVars, storeVars, faultVars>>,
         RowInOnePlace => Placed(available', delayed', DOMAIN leased', {}),
         Everything(available', delayed', DOMAIN leased', {}) \subseteq PlacedIds
  PROVE  StepFits
<1>1. InFlight' = {} /\ AdminCallFits' /\ cur' = Idle /\ hyd' = hyd
  BY DEF EndOp, InFlight, AdminCallFits, CallFitsOperation, hydVars
<1>2. AdminTypeOK'
  BY EndOpParts, ShapeTypes, TypesAfter DEF ShapeFit
<1>3. QED
  BY <1>1, <1>2, MovedRows

\* What the invariants say of the state in which one of these operations runs.
LEMMA AdminRuns ==
  ASSUME ShapeFit, chain # <<>>,
         Head(chain).kind \in {"dequeue"} \cup Bulk \cup JobKinds
  PROVE  /\ hyd.pc # "clear" /\ chain \in Seq(AnyOp) /\ MemTypeOK /\ AdminTypeOK
         /\ CallerTypeOK /\ StoreTypeOK /\ HydTypeOK /\ AdminChainTypeOK
         /\ available \in Seq(Row) /\ 1 \in DOMAIN chain /\ Head(chain) = chain[1]
         /\ cur = Idle => InFlight = {}
         /\ RowInOnePlace <=> Placed(available, delayed, DOMAIN leased, InFlight)
         /\ PlacedIds = Everything(available, delayed, DOMAIN leased, InFlight)
         /\ cur # Idle /\ Head(chain).kind \in {"dequeue"} \cup JobKinds =>
              /\ cur.pc = "main" /\ cur \in Call /\ cur.id \in Ids
              /\ cur.rec \in Stored
         /\ cur # Idle /\ Head(chain).kind \in Bulk =>
              BulkFits /\ cur.id \in Nat /\ InFlight = {}
         /\ Head(chain).kind \in Bulk \cup JobKinds => InFlight = {}
<1>1. /\ chain \in Seq(AnyOp) /\ MemTypeOK /\ available \in Seq(Row) /\ ShapeParts
      /\ AdminTypeOK /\ CallerTypeOK /\ StoreTypeOK /\ HydTypeOK /\ AdminChainTypeOK
  BY ShapeTypes DEF ShapeFit, AdminTypeOK
<1>2. 1 \in DOMAIN chain /\ Head(chain) = chain[1]
  BY <1>1
<1>3. hyd.pc # "clear"
  BY <1>1, <1>2 DEF ShapeParts, QuietLoad, Flushed, JobKinds, Bulk
<1>4. /\ RowInOnePlace <=> Placed(available, delayed, DOMAIN leased, InFlight)
      /\ PlacedIds = Everything(available, delayed, DOMAIN leased, InFlight)
  BY Placement
<1>5. cur # Idle /\ Head(chain).kind \in {"dequeue"} \cup JobKinds => cur.pc = "main"
  BY <1>1 DEF ShapeParts, AdminCallFits, CallFitsOperation, BulkRuns, Bulk, Running,
     JobKinds
<1>6. cur # Idle /\ Head(chain).kind \in Bulk => BulkFits
  BY <1>1 DEF ShapeParts, AdminCallFits, CallFitsOperation, JobRuns, DequeueRuns,
     Running, JobKinds, Bulk
<1>7. cur # Idle /\ Head(chain).kind \in Bulk => cur.id \in Nat
  BY ShapeTypes DEF Call, WholeCall
<1>8. Head(chain).kind \in Bulk \cup JobKinds => InFlight = {}
  BY DEF InFlight, Running, Bulk, JobKinds
<1>9. cur = Idle => InFlight = {}
  BY DEF InFlight
<1>10. QED
  BY <1>1, <1>2, <1>3, <1>4, <1>5, <1>6, <1>7, <1>8, <1>9, ShapeTypes

\* The lists replaceAll is given.
LEMMA ItemsType ==
  ASSUME NEW items \in ItemLists
  PROVE  items \in Seq(Jobs) /\ IsInjective(items)
<1>1. PICK n \in 0..Cardinality(Jobs) : items \in [1..n -> Jobs]
  BY DEF ItemLists
<1>2. n \in Nat
  BY <1>1
<1>3. QED
  BY <1>1, <1>2 DEF ItemLists

\* An operation that is only queued.
OnlyQueued ==
  /\ \E op : Push(op)
  /\ UNCHANGED <<now, memVars, hydVars, cur, storeVars, tokens, outdated, accepted,
                 leaseGenSeq, faultVars>>

\* Calls only queue operations.
LEMMA AdminCallsRows ==
  ASSUME QueueAssumption, ShapeFit, AdminCalls
  PROVE  StepFits /\ hydrated /\ OnlyQueued
<1>1. ASSUME NEW op \in AnyOp, op.kind \notin {"enqueue", "extend", "expire"}, Push(op),
             Serving, submitted' \subseteq Jobs,
             UNCHANGED <<now, memVars, idVars, hydVars, cur, storeVars, tokens, outdated,
                         accepted, faultVars>>
      PROVE  StepFits /\ hydrated /\ OnlyQueued
  <2>1. AdminChainTypeOK' /\ MemTypeOK'
    BY <1>1, ShapeTypes DEF Push, AdminChainTypeOK, MemTypeOK, memVars
  <2>2. CallerTypeOK'
    BY <1>1 DEF ShapeFit, AdminTypeOK, CallerTypeOK
  <2>3. AdminTypeOK'
    BY <1>1, <2>1, <2>2, TypesAfter DEF ShapeFit
  <2>4. UNCHANGED <<available, delayed, leased, hyd, cur>> /\ hyd.pc = "off"
    BY <1>1 DEF memVars, idVars, hydVars, Serving
  <2>5. /\ ShapeParts' /\ InFlight' = InFlight /\ PlacedIds' = PlacedIds
        /\ chain # <<>> => chain' # <<>> /\ Head(chain') = Head(chain)
    BY <1>1, <2>4, PushShape
  <2>6. RowParts => RowParts'
    BY <2>4, <2>5, RowsStay, SameCall
  <2>7. QED
    BY <1>1, <2>3, <2>5, <2>6 DEF StepFits, ShapeFit, Serving, OnlyQueued, idVars
<1>2. submitted \subseteq Jobs
  BY DEF ShapeFit, AdminTypeOK, CallerTypeOK
<1>3. ASSUME NEW op \in AnyOp, op.kind \notin {"enqueue", "extend", "expire"},
             Serving, LeaseOp(op)
      PROVE  StepFits /\ hydrated /\ OnlyQueued
  BY <1>1, <1>2, <1>3 DEF LeaseOp, callerVars
<1>4. CASE TryDequeue \/ Clear
  <2>1. PICK kind \in {"dequeue", "clear"} : Serving /\ LeaseOp([kind |-> kind])
    BY <1>4 DEF TryDequeue, Clear
  <2>2. PICK op : op = [kind |-> kind]
    OBVIOUS
  <2>3. op \in AnyOp /\ op.kind = kind
    BY <2>2 DEF AnyOp, BareOp
  <2>4. QED
    BY <1>3, <2>1, <2>2, <2>3
<1>5. ASSUME NEW items \in ItemLists, ReplaceAll(items)
      PROVE  StepFits /\ hydrated /\ OnlyQueued
  <2>1. PICK op : op = [kind |-> "replace", items |-> items]
    OBVIOUS
  <2>2. op \in AnyOp /\ op.kind = "replace"
    BY <2>1, ItemsType DEF AnyOp, ReplaceOp
  <2>3. submitted' \subseteq Jobs
    <3>1. items \in Seq(Jobs) /\ submitted' = submitted \cup Range(items)
      BY <1>5, ItemsType DEF ReplaceAll
    <3>2. QED
      BY <1>2, <3>1 DEF Range
  <2>4. QED
    BY <1>1, <1>5, <2>1, <2>2, <2>3 DEF ReplaceAll
<1>6. ASSUME NEW j \in submitted, NEW kind \in JobKinds, NEW d \in Nat,
             JobCall(kind, j, d)
      PROVE  StepFits /\ hydrated /\ OnlyQueued
  <2>1. PICK op : op = [kind |-> kind, job |-> j, delay |-> d]
    OBVIOUS
  <2>2. op \in AnyOp /\ op.kind = kind
    BY <1>2, <2>1 DEF AnyOp, JobOp
  <2>3. QED
    BY <1>3, <1>6, <2>1, <2>2 DEF JobCall, JobKinds
<1>7. Delays \subseteq Nat
  BY DEF QueueAssumption
<1>8. QED
  BY <1>4, <1>5, <1>6, <1>7 DEF AdminCalls, JobKinds

\* tryDequeue pops a row, gives it back, or is done with it.
LEMMA DequeueRows ==
  ASSUME ShapeFit, BeginDequeue \/ DequeueRefused \/ FinishDequeue
  PROVE  StepFits
<1>1. /\ chain # <<>> /\ Head(chain).kind = "dequeue"
      /\ UNCHANGED <<now, leased, expiries, leaseTimer, idVars, hydVars, storeVars,
                     callerVars, faultVars>>
  BY DEF BeginDequeue, DequeueRefused, FinishDequeue, Starting, Replied, Running,
     memVars
<1>2. /\ hyd.pc # "clear" /\ chain \in Seq(AnyOp) /\ MemTypeOK
      /\ available \in Seq(Row) /\ CallerTypeOK' /\ UNCHANGED <<hyd, idCounter>>
      /\ RowInOnePlace <=> Placed(available, delayed, DOMAIN leased, InFlight)
      /\ PlacedIds = Everything(available, delayed, DOMAIN leased, InFlight)
  BY <1>1, AdminRuns, PartsStay DEF idVars, hydVars
<1>3. CASE BeginDequeue
  <2>1. PICK av \in Drained :
          /\ Promotes(av)
          /\ IF av = <<>>
               THEN available' = av /\ EndOp
               ELSE /\ available' = Tail(av)
                    /\ CallStore(TRUE, Head(av).id, None, Cleared(Head(av)))
                    /\ UNCHANGED chain
    BY <1>3 DEF BeginDequeue
  <2>2. InFlight = {}
    BY <1>3 DEF BeginDequeue, Starting, InFlight
  <2>3. /\ av \in Seq(Row) /\ delayed' = delayed \ Due
        /\ RowInOnePlace => Placed(av, delayed', DOMAIN leased, {})
        /\ Everything(av, delayed', DOMAIN leased, {}) \subseteq PlacedIds
    BY <1>2, <2>1, <2>2, DrainPlaced, DrainIds DEF Promotes
  <2>4. ASSUME available' \in Seq(Row) PROVE MemTypeOK'
    BY <1>1, <1>2, <2>1, <2>4, PromotesType DEF MemTypeOK
  <2>5. CASE av = <<>>
    <3>1. available' = av /\ EndOp
      BY <2>1, <2>5
    <3>2. QED
      BY <1>1, <1>2, <2>3, <2>4, <3>1, EndedRows
  <2>6. CASE av # <<>>
    <3>1. /\ Head(av) \in Row /\ Tail(av) \in Seq(Row)
          /\ available' = Tail(av) /\ UNCHANGED chain
          /\ CallStore(TRUE, Head(av).id, None, Cleared(Head(av)))
      <4>1. Head(av) \in Row /\ Tail(av) \in Seq(Row)
        BY <2>3, <2>6
      <4>2. QED
        BY <2>1, <2>6, <4>1, Zenon
    <3>2. Cleared(Head(av)) \in Stored /\ Head(av).id \in Ids
      BY <3>1 DEF Cleared, Row, Stored
    <3>3. /\ cur' \in Call /\ cur' # Idle /\ cur'.pc = "main" /\ cur'.id = Head(av).id
      BY <3>1, <3>2, CallStoreIs
    <3>4. /\ AdminChainTypeOK' /\ AdminCallFits' /\ InFlight' = {Head(av).id}
          /\ ~Running("enqueue")'
      BY <1>1, <1>2, <3>1, <3>3 DEF AdminChainTypeOK, AdminCallFits, DequeueRuns,
         Running, InFlight
    <3>5. RowInOnePlace => Placed(Tail(av), delayed', DOMAIN leased, {Head(av).id})
      BY <2>3, <2>6, PopPlaced
    <3>6. Everything(Tail(av), delayed', DOMAIN leased, {Head(av).id}) \subseteq PlacedIds
      BY <2>3, <2>6, TailIds DEF Everything
    <3>7. AdminTypeOK'
      BY <1>1, <1>2, <2>4, <3>1, <3>4, TypesAfter DEF ShapeFit
    <3>8. QED
      BY <1>1, <1>2, <3>1, <3>4, <3>5, <3>6, <3>7, MovedRows
  <2>7. QED
    BY <2>5, <2>6
<1>4. ASSUME DequeueRefused \/ FinishDequeue
      PROVE  /\ cur.id \in Ids /\ cur.rec \in Stored /\ InFlight = {cur.id} /\ EndOp
             /\ RowInOnePlace => Placed(available, delayed, DOMAIN leased, {})
             /\ Everything(available, delayed, DOMAIN leased, {}) \subseteq PlacedIds
             /\ RowInOnePlace => cur.id \notin Everything(available, delayed, DOMAIN leased, {})
             /\ cur.id \in PlacedIds
  <2>1. cur # Idle /\ cur.pc = "main" /\ Running("dequeue") /\ EndOp
    BY <1>4 DEF DequeueRefused, FinishDequeue, Replied
  <2>2. InFlight = {cur.id} /\ cur.id \in Ids /\ cur.rec \in Stored
    BY <1>1, <2>1, AdminRuns DEF InFlight
  <2>3. RowInOnePlace => Placed(available, delayed, DOMAIN leased, {})
    BY <1>2, ShrinkPlaced
  <2>4. QED
    BY <1>2, <2>1, <2>2, <2>3 DEF Placed, Everything
<1>5. CASE DequeueRefused
  <2>1. /\ available' = Append(available, RowOf(cur.id, cur.rec))
        /\ UNCHANGED <<delayed, delayTimer>>
    BY <1>5 DEF DequeueRefused
  <2>2. PICK row : row = RowOf(cur.id, cur.rec)
    OBVIOUS
  <2>3. row \in Row /\ row.id = cur.id
    BY <1>4, <1>5, <2>2 DEF RowOf, Row, Stored
  <2>4. RowInOnePlace => Placed(available', delayed, DOMAIN leased, {})
    BY <1>2, <1>4, <1>5, <2>1, <2>2, <2>3, AppendPlaced
  <2>5. Everything(available', delayed, DOMAIN leased, {}) \subseteq PlacedIds
    BY <1>2, <1>4, <1>5, <2>1, <2>2, <2>3, AppendIds DEF Everything
  <2>6. MemTypeOK'
    BY <1>1, <1>2, <2>1, <2>2, <2>3 DEF MemTypeOK
  <2>7. QED
    BY <1>1, <1>2, <1>4, <1>5, <2>1, <2>4, <2>5, <2>6, EndedRows
<1>6. CASE FinishDequeue
  <2>1. UNCHANGED memVars
    BY <1>6 DEF FinishDequeue
  <2>2. QED
    BY <1>1, <1>2, <1>4, <1>6, <2>1, EndedRows, PartsStay DEF memVars
<1>7. QED
  BY <1>3, <1>5, <1>6

\* The records that replaceAll has planned, and the rows they become.
LEMMA PlannedIs ==
  ASSUME NEW items \in Seq(Jobs)
  PROVE  /\ Planned(items) \in Seq(Row) /\ Len(Planned(items)) = Len(items)
         /\ Len(items) \in Nat /\ DOMAIN items = 1..Len(items)
         /\ DOMAIN PlannedStore(items) = 1..Len(items)
         /\ \A i \in 1..Len(items) :
              /\ Planned(items)[i] = [id |-> i, job |-> items[i], attempt |-> 1]
              /\ PlannedStore(items)[i] = [job |-> items[i], at |-> 0, gen |-> None,
                                           exp |-> None, attempt |-> 1]
         /\ SeqIds(Planned(items)) = 1..Len(items) /\ DistinctIds(Planned(items))
         /\ MapsIdsTo(PlannedStore(items), Stored)
         /\ IsFiniteSet(DOMAIN PlannedStore(items))
<1>1. Len(items) \in Nat /\ DOMAIN items = 1..Len(items)
  OBVIOUS
<1>2. /\ DOMAIN Planned(items) = 1..Len(items)
      /\ \A i \in 1..Len(items) :
           Planned(items)[i] = [id |-> i, job |-> items[i], attempt |-> 1]
  BY <1>1 DEF Planned
<1>3. \A i \in 1..Len(items) : Planned(items)[i] \in Row
  BY <1>1, <1>2 DEF Row
<1>4. Planned(items) \in Seq(Row) /\ Len(Planned(items)) = Len(items)
  BY <1>1, <1>2, <1>3 DEF Planned
<1>5. /\ DOMAIN PlannedStore(items) = 1..Len(items)
      /\ \A i \in 1..Len(items) :
           PlannedStore(items)[i] = [job |-> items[i], at |-> 0, gen |-> None,
                                     exp |-> None, attempt |-> 1]
  BY <1>1, <1>2 DEF PlannedStore, Cleared
<1>6. SeqIds(Planned(items)) = 1..Len(items) /\ DistinctIds(Planned(items))
  BY <1>2 DEF SeqIds, DistinctIds
<1>7. MapsIdsTo(PlannedStore(items), Stored)
  BY <1>1, <1>5 DEF MapsIdsTo, Stored
<1>8. IsFiniteSet(1..Len(items))
  BY <1>1, FS_Interval
<1>9. QED
  BY <1>1, <1>2, <1>4, <1>5, <1>6, <1>7, <1>8

\* What is written by the bulk operation that runs.
LEMMA BulkHead ==
  ASSUME ShapeFit, chain # <<>>, Head(chain).kind \in Bulk
  PROVE  /\ BulkItems \in Seq(Jobs) /\ Len(BulkItems) \in Nat
         /\ DOMAIN BulkItems = 1..Len(BulkItems)
         /\ Running("replace") <=> Head(chain).kind = "replace"
         /\ Running("clear") <=> Head(chain).kind = "clear"
         /\ ~Running("claim") /\ ~Running("dequeue") /\ ~Running("enqueue")
         /\ Running("replace") => BulkItems = Head(chain).items
         /\ ~Running("replace") => BulkItems = <<>>
         /\ cur # Idle => BulkRuns
<1>1. Head(chain).kind = "replace" => Head(chain).items \in Seq(Jobs)
  BY ShapeTypes, HeadOp DEF ReplaceOp
<1>2. BulkItems \in Seq(Jobs)
  BY <1>1 DEF BulkItems
<1>3. Len(BulkItems) \in Nat /\ DOMAIN BulkItems = 1..Len(BulkItems)
  BY <1>2
<1>4. QED
  BY <1>2, <1>3 DEF BulkItems, Running, BulkRuns, Bulk

\* A call for the whole collection, or for a planned record, moves no row.
LEMMA BulkCallRows ==
  ASSUME ShapeFit, AdminTypeOK', chain # <<>>, Head(chain).kind \in Bulk,
         UNCHANGED <<available, delayed, leased, chain, hyd>>, cur' # Idle, BulkFits'
  PROVE  StepFits
<1>1. /\ hyd.pc # "clear" /\ InFlight = {}
      /\ RowInOnePlace <=> Placed(available, delayed, DOMAIN leased, {})
      /\ PlacedIds = Everything(available, delayed, DOMAIN leased, {})
  BY AdminRuns
<1>2. InFlight' = {} /\ AdminCallFits' /\ ~Running("enqueue")'
  BY DEF InFlight, Running, AdminCallFits, BulkRuns, Bulk
<1>3. QED
  BY <1>1, <1>2, MovedRows

\* clear and replaceAll start, or replaceAll refuses because of a lease.
LEMMA BeginBulkRows ==
  ASSUME ShapeFit, BeginBulk
  PROVE  StepFits
<1>1. /\ chain # <<>> /\ Head(chain).kind \in Bulk /\ cur = Idle
      /\ UNCHANGED <<now, memVars, idVars, hydVars, storeVars, callerVars, faultVars>>
  BY DEF BeginBulk, Starting, Running
<1>2. /\ UNCHANGED <<available, delayed, leased, hyd, idCounter>>
      /\ MemTypeOK' /\ CallerTypeOK' /\ hyd.pc # "clear" /\ chain \in Seq(AnyOp)
      /\ RowInOnePlace <=> Placed(available, delayed, DOMAIN leased, {})
      /\ PlacedIds = Everything(available, delayed, DOMAIN leased, {})
  BY <1>1, AdminRuns, PartsStay DEF memVars, hydVars, idVars
<1>3. CASE EndOp
  BY <1>1, <1>2, <1>3, EndedRows
<1>4. CASE ~EndOp
  <2>1. PICK pc : pc = IF Head(chain).kind = "replace" /\ hasReplaceAll
                       THEN "batch" ELSE "clear"
    OBVIOUS
  <2>2. /\ BulkCall(pc) /\ UNCHANGED chain /\ pc \in {"batch", "clear"}
        /\ Head(chain).kind = "replace" => DOMAIN leased = {}
        /\ pc = "batch" => Head(chain).kind = "replace"
    BY <1>4, <2>1 DEF BeginBulk
  <2>3. /\ cur' \in WholeCall /\ cur' # Idle /\ cur'.pc = pc
    BY <2>2 DEF BulkCall, WholeCall, Idle
  <2>4. BulkFits'
    BY <1>1, <1>2, <2>2, <2>3 DEF BulkFits, Running, Bulk
  <2>5. AdminTypeOK'
    BY <1>1, <1>2, <2>2, <2>3, TypesAfter DEF AdminChainTypeOK, ShapeFit
  <2>6. QED
    BY <1>1, <1>2, <2>2, <2>3, <2>4, <2>5, BulkCallRows
<1>5. QED
  BY <1>3, <1>4

\* The store applies the call of a clear or a replaceAll.
LEMMA BulkAppliesRows ==
  ASSUME ShapeFit, BulkStoreApplies
  PROVE  StepFits
<1>1. /\ cur # Idle /\ cur.pc \in {"batch", "clear"}
      /\ cur' = [cur EXCEPT !.reply = "ok"]
      /\ UNCHANGED <<now, memVars, idVars, hydVars, chain, callerVars, faultVars>>
  BY DEF BulkStoreApplies, Idle
<1>2. cur \in WholeCall /\ chain # <<>> /\ StoreTypeOK /\ ShapeParts /\ chain \in Seq(AnyOp)
  BY <1>1, ShapeTypes DEF ShapeFit, AdminTypeOK, Call
<1>3. /\ cur' \in WholeCall /\ cur' # Idle /\ cur'.pc = cur.pc /\ cur'.id = cur.id
      /\ cur'.gen = cur.gen
  BY <1>1, <1>2 DEF WholeCall, Idle
<1>4. BulkFits /\ Head(chain).kind \in Bulk
  BY <1>1, <1>2 DEF ShapeParts, AdminCallFits, CallFitsOperation, BulkFits, Running, Bulk
<1>5. UNCHANGED <<available, delayed, leased, chain, hyd, idCounter>> /\ InFlight = {}
  BY <1>1 DEF memVars, hydVars, idVars, InFlight
<1>6. BulkFits'
  BY <1>3, <1>4, <1>5 DEF BulkFits, Running
<1>7. StoreTypeOK'
  <2>1. StoredJobs \subseteq Jobs /\ settled' \subseteq Jobs
    BY <1>2 DEF StoredJobs, StoreTypeOK, MapsIdsTo, Stored, BulkStoreApplies
  <2>2. CASE cur.pc = "batch"
    <3>1. Running("replace")
      BY <1>4, <2>2 DEF BulkFits
    <3>2. store' = PlannedStore(BulkItems)
      BY <1>2, <1>4, <2>2, <3>1, BulkHead DEF BulkStoreApplies
    <3>3. BulkItems \in Seq(Jobs)
      BY <1>2, <1>4, BulkHead
    <3>4. QED
      BY <2>1, <3>2, <3>3, PlannedIs DEF StoreTypeOK
  <2>3. CASE cur.pc # "batch"
    <3>1. store' = EmptyMap /\ IsFiniteSet({})
      BY <2>3, FS_EmptySet DEF BulkStoreApplies
    <3>2. QED
      BY <2>1, <3>1 DEF StoreTypeOK, MapsIdsTo, EmptyMap
  <2>4. QED
    BY <2>2, <2>3
<1>8. /\ MemTypeOK' /\ CallerTypeOK' /\ HydTypeOK' /\ AdminChainTypeOK'
  BY <1>1, <1>2, <1>3, PartsStay DEF ShapeFit, AdminTypeOK, AdminChainTypeOK
<1>9. AdminTypeOK'
  BY <1>1, <1>7, <1>8 DEF ShapeFit, AdminTypeOK, idVars, faultVars
<1>10. QED
  BY <1>2, <1>3, <1>4, <1>5, <1>6, <1>9, BulkCallRows

\* replaceAll asks for the next of its records to be written.
LEMMA NextPutRows ==
  ASSUME ShapeFit, NextPut
  PROVE  StepFits
<1>1. /\ chain # <<>> /\ Head(chain).kind \in Bulk /\ cur # Idle
      /\ cur.pc # "batch" /\ Upcoming <= Len(BulkItems)
      /\ CallStore(FALSE, Upcoming, None, PlannedStore(BulkItems)[Upcoming])
      /\ UNCHANGED <<now, memVars, idVars, hydVars, chain, storeVars, callerVars,
                     faultVars>>
  BY DEF NextPut, BulkReplied, Running, BulkLeft
<1>2. /\ BulkFits /\ cur.id \in Nat /\ InFlight = {} /\ chain \in Seq(AnyOp)
      /\ BulkItems \in Seq(Jobs) /\ Len(BulkItems) \in Nat
      /\ DOMAIN BulkItems = 1..Len(BulkItems)
  BY <1>1, AdminRuns, BulkHead
<1>3. Upcoming \in 1..Len(BulkItems) /\ Upcoming \in Ids
  BY <1>1, <1>2 DEF Upcoming
<1>4. /\ Running("replace") /\ DOMAIN leased = {} /\ BulkItems = Head(chain).items
  <2>1. Running("replace")
    BY <1>1, <1>2, <1>3, BulkHead
  <2>2. QED
    BY <1>1, <1>2, <2>1, BulkHead DEF BulkFits, Running
<1>5. PlannedStore(BulkItems)[Upcoming] \in Stored
  BY <1>2, <1>3, PlannedIs DEF MapsIdsTo
<1>6. cur' \in Call /\ cur' # Idle /\ cur'.pc = "main" /\ cur'.id = Upcoming
  BY <1>1, <1>3, <1>5, CallStoreIs
<1>7. UNCHANGED <<available, delayed, leased, chain, hyd, idCounter>>
  BY <1>1 DEF memVars, hydVars, idVars
<1>8. BulkFits'
  BY <1>1, <1>2, <1>3, <1>4, <1>6, <1>7 DEF BulkFits, Running
<1>9. MemTypeOK' /\ CallerTypeOK' /\ AdminChainTypeOK'
  BY <1>1, <1>2, <1>6, PartsStay DEF ShapeFit, AdminTypeOK, AdminChainTypeOK
<1>10. AdminTypeOK'
  BY <1>1, <1>9, TypesAfter DEF ShapeFit
<1>11. QED
  BY <1>1, <1>6, <1>7, <1>8, <1>10, BulkCallRows

\* After a clear or a replaceAll no row is there but the planned ones.
LEMMA FinishBulkRows ==
  ASSUME ShapeFit, FinishBulk
  PROVE  ShapeFit' /\ RowParts' /\ PlacedIds' = 1..Len(BulkItems)
<1>1. /\ chain # <<>> /\ Head(chain).kind \in Bulk /\ cur # Idle
      /\ available' = Planned(BulkItems)
      /\ delayed' = {} /\ leased' = EmptyMap /\ expiries' = {}
      /\ delayTimer' = None /\ leaseTimer' = None
      /\ idCounter' = Len(BulkItems) /\ leaseGenSeq' = 0
      /\ accepted' = accepted \cup Range(BulkItems)
      /\ settled' = settled \cup MemoryJobs
      /\ outdated' = tokens /\ EndOp
      /\ UNCHANGED <<now, hydVars, store, tokens, submitted, faultVars>>
  BY DEF FinishBulk, BulkReplied, Running
<1>2. /\ hyd.pc # "clear" /\ chain \in Seq(AnyOp) /\ MemTypeOK
      /\ BulkItems \in Seq(Jobs) /\ CallerTypeOK /\ StoreTypeOK /\ HydTypeOK
      /\ AdminTypeOK /\ AdminChainTypeOK
  BY <1>1, AdminRuns, BulkHead
<1>3. /\ Planned(BulkItems) \in Seq(Row) /\ Len(BulkItems) \in Nat
      /\ SeqIds(Planned(BulkItems)) = 1..Len(BulkItems)
      /\ DistinctIds(Planned(BulkItems))
  BY <1>2, PlannedIs
<1>4. MemTypeOK'
  BY <1>1, <1>3, FS_EmptySet DEF MemTypeOK, MapsIdsTo, EmptyMap
<1>5. StoreTypeOK' /\ CallerTypeOK'
  <2>1. MemoryJobs \subseteq Jobs
    <3>1. {r.job : r \in AvailableRows} \subseteq Jobs
      <4>1. \A k \in DOMAIN available : available[k].job \in Jobs
        <5>1. available \in Seq(Row)
          BY <1>2 DEF MemTypeOK
        <5>2. \A k \in DOMAIN available : available[k] \in Row
          BY <5>1
        <5>3. QED
          BY <5>2 DEF Row
      <4>2. QED
        BY <4>1 DEF AvailableRows, Range
    <3>2. {d.job : d \in delayed} \subseteq Jobs
      BY <1>2 DEF MemTypeOK, Delayed
    <3>3. {leased[i].job : i \in DOMAIN leased} \subseteq Jobs
      BY <1>2 DEF MemTypeOK, MapsIdsTo, Leased
    <3>4. QED
      BY <3>1, <3>2, <3>3 DEF MemoryJobs
  <2>2. Range(BulkItems) \subseteq Jobs
    BY <1>2 DEF Range
  <2>3. QED
    BY <1>1, <1>2, <2>1, <2>2 DEF StoreTypeOK, CallerTypeOK
<1>6. AdminTypeOK'
  <2>1. AdminChainTypeOK' /\ HydTypeOK'
    BY <1>1, <1>2, EndOpParts, PartsStay
  <2>2. QED
    BY <1>1, <1>2, <1>3, <1>4, <1>5, <2>1 DEF AdminTypeOK, faultVars
<1>7. InFlight' = {} /\ AdminCallFits' /\ QuietLoad' /\ NewRow'
  BY <1>1, <1>2 DEF EndOp, InFlight, AdminCallFits, CallFitsOperation, QuietLoad, hydVars,
     NewRow
<1>8. /\ Placed(available', delayed', DOMAIN leased', InFlight')
      /\ Everything(available', delayed', DOMAIN leased', InFlight') = 1..Len(BulkItems)
  <2>1. HeapIds(delayed') = {} /\ DOMAIN leased' = {}
    BY <1>1 DEF HeapIds, EmptyMap
  <2>2. QED
    BY <1>1, <1>3, <1>7, <2>1 DEF Placed, Everything, KeyedById
<1>9. RowInOnePlace' /\ PlacedIds' = 1..Len(BulkItems)
  BY <1>8, Placement
<1>10. QED
  BY <1>6, <1>7, <1>9 DEF ShapeFit, ShapeParts, RowParts

\* A refused clear or replaceAll leaves memory as it was.
LEMMA BulkRefusedRows ==
  ASSUME ShapeFit, BulkRefused
  PROVE  StepFits
<1>1. /\ chain # <<>> /\ Head(chain).kind \in Bulk /\ EndOp
      /\ UNCHANGED <<now, memVars, idVars, hydVars, storeVars, callerVars, faultVars>>
  BY DEF BulkRefused, BulkReplied, Running
<1>2. /\ MemTypeOK' /\ CallerTypeOK' /\ hyd.pc # "clear"
      /\ UNCHANGED <<available, delayed, leased>>
      /\ RowInOnePlace <=> Placed(available, delayed, DOMAIN leased, {})
      /\ PlacedIds = Everything(available, delayed, DOMAIN leased, {})
  BY <1>1, AdminRuns, PartsStay DEF memVars
<1>3. QED
  BY <1>1, <1>2, EndedRows

\* What locatePendingJob returns.
LEMMA LocatedIs ==
  ASSUME ShapeFit, NEW j, NEW f \in Located(j)
  PROVE  \/ /\ f.state = "ready" /\ f.index \in 1..Len(available)
            /\ f.row = available[f.index] /\ f.row \in Row /\ f.row.job = j
         \/ /\ f.state = "delayed" /\ f.row \in delayed /\ f.row \in Delayed
            /\ f.row.job = j
<1>1. available \in Seq(Row) /\ delayed \subseteq Delayed
  BY DEF ShapeFit, AdminTypeOK, MemTypeOK
<1> DEFINE ready == {i \in DOMAIN available : available[i].job = j}
<1>2. CASE ready # {}
  <2>1. PICK i \in ready : f = [state |-> "ready", index |-> i, row |-> available[i]]
    BY <1>2 DEF Located
  <2>2. i \in 1..Len(available) /\ available[i] \in Row /\ available[i].job = j
    BY <1>1, <2>1
  <2>3. QED
    BY <2>1, <2>2
<1>3. CASE ready = {}
  <2>1. PICK d \in delayed : d.job = j /\ f = [state |-> "delayed", index |-> 0, row |-> d]
    BY <1>3 DEF Located
  <2>2. QED
    BY <1>1, <2>1
<1>4. QED
  BY <1>2, <1>3

\* A sequence of rows without its i-th.
LEMMA RemoveAtIs ==
  ASSUME NEW s \in Seq(Row), NEW i \in 1..Len(s), NEW r, r = SX!RemoveAt(s, i)
  PROVE  /\ r \in Seq(Row) /\ Len(r) = Len(s) - 1 /\ Len(s) \in Nat
         /\ \A k \in 1..Len(r) : r[k] = IF k < i THEN s[k] ELSE s[k + 1]
<1>1. Len(s) \in Nat /\ i \in Nat /\ i - 1 \in Nat /\ i <= Len(s)
  OBVIOUS
<1>2. PICK a : a = SubSeq(s, 1, i - 1)
  OBVIOUS
<1>3. PICK b : b = SubSeq(s, i + 1, Len(s))
  OBVIOUS
<1>4. a \in Seq(Row) /\ Len(a) = i - 1 /\ \A k \in 1..(i - 1) : a[k] = s[k]
  BY <1>1, <1>2
<1>5. b \in Seq(Row) /\ Len(b) = Len(s) - i /\ \A k \in 1..(Len(s) - i) : b[k] = s[k + i]
  BY <1>1, <1>3
<1>6. r = a \o b
  BY <1>2, <1>3 DEF SX!RemoveAt
<1>7. /\ r \in Seq(Row) /\ Len(r) = Len(a) + Len(b)
      /\ \A k \in 1..Len(r) : r[k] = IF k <= Len(a) THEN a[k] ELSE b[k - Len(a)]
  <2>1. a \in Seq(Row) /\ b \in Seq(Row) /\ r = a \o b
    BY <1>4, <1>5, <1>6
  <2>2. /\ r \in Seq(Row) /\ Len(r) = Len(a) + Len(b)
        /\ \A k \in 1..(Len(a) + Len(b)) :
             r[k] = IF k <= Len(a) THEN a[k] ELSE b[k - Len(a)]
    BY <2>1, ConcatProperties, Zenon
  <2>3. QED
    BY <2>2
<1>8. Len(r) = Len(s) - 1
  BY <1>1, <1>4, <1>5, <1>7
<1>9. ASSUME NEW k \in 1..Len(r)
      PROVE  r[k] = IF k < i THEN s[k] ELSE s[k + 1]
  <2>1. k \in Nat /\ 1 <= k /\ k <= Len(s) - 1
    BY <1>1, <1>8
  <2>2. CASE k < i
    BY <1>1, <1>4, <1>7, <2>1, <2>2
  <2>3. CASE ~(k < i)
    <3>1. k - (i - 1) \in 1..(Len(s) - i) /\ k - (i - 1) + i = k + 1
      BY <1>1, <2>1, <2>3
    <3>2. b[k - (i - 1)] = s[k + 1]
      BY <1>5, <3>1
    <3>3. Len(a) = i - 1 /\ ~(k <= Len(a)) /\ k - Len(a) = k - (i - 1)
      BY <1>1, <1>4, <2>1, <2>3
    <3>4. r[k] = b[k - Len(a)]
      BY <1>7, <3>3
    <3>5. QED
      BY <2>3, <3>2, <3>3, <3>4
  <2>4. QED
    BY <2>2, <2>3
<1>10. QED
  BY <1>1, <1>7, <1>8, <1>9

\* The ids of the rows that are left are the others'.
LEMMA RemovedIds ==
  ASSUME NEW s \in Seq(Row), NEW i \in 1..Len(s), NEW r, r = SX!RemoveAt(s, i),
         DistinctIds(s)
  PROVE  /\ SeqIds(r) = SeqIds(s) \ {s[i].id} /\ DistinctIds(r)
         /\ \A k \in DOMAIN r : \E m \in DOMAIN s : r[k] = s[m]
<1>1. /\ Len(s) \in Nat /\ DOMAIN s = 1..Len(s) /\ DOMAIN r = 1..(Len(s) - 1)
      /\ \A k \in DOMAIN r : r[k] = IF k < i THEN s[k] ELSE s[k + 1]
  <2>1. /\ r \in Seq(Row) /\ Len(r) = Len(s) - 1 /\ Len(s) \in Nat
        /\ \A k \in 1..Len(r) : r[k] = IF k < i THEN s[k] ELSE s[k + 1]
    BY RemoveAtIs, Zenon
  <2>2. DOMAIN r = 1..Len(r) /\ DOMAIN s = 1..Len(s)
    BY <2>1
  <2>3. QED
    BY <2>1, <2>2
<1>2. \A k \in DOMAIN r : \E m \in DOMAIN s :
        r[k] = s[m] /\ m # i /\ m = IF k < i THEN k ELSE k + 1
  <2> SUFFICES ASSUME NEW k \in DOMAIN r
               PROVE  \E m \in DOMAIN s :
                        r[k] = s[m] /\ m # i /\ m = IF k < i THEN k ELSE k + 1
    OBVIOUS
  <2>1. k \in 1..(Len(s) - 1)
    BY <1>1
  <2>2. (IF k < i THEN k ELSE k + 1) \in DOMAIN s
    BY <1>1, <2>1
  <2>3. (IF k < i THEN k ELSE k + 1) # i
    BY <2>1
  <2>4. QED
    BY <1>1, <2>2, <2>3
<1>3. SeqIds(r) \subseteq SeqIds(s) \ {s[i].id}
  BY <1>2 DEF SeqIds, DistinctIds
<1>4. ASSUME NEW m \in DOMAIN s, m # i
      PROVE  s[m].id \in SeqIds(r)
  <2>1. PICK k : k = IF m < i THEN m ELSE m - 1
    OBVIOUS
  <2>2. k \in DOMAIN r /\ m = IF k < i THEN k ELSE k + 1
    BY <1>1, <1>4, <2>1
  <2>3. r[k] = s[m]
    BY <1>1, <2>2
  <2>4. QED
    BY <2>2, <2>3 DEF SeqIds
<1>5. SeqIds(s) \ {s[i].id} \subseteq SeqIds(r)
  BY <1>4 DEF SeqIds
<1>6. DistinctIds(r)
  <2> SUFFICES ASSUME NEW k \in DOMAIN r, NEW n \in DOMAIN r, r[k].id = r[n].id
               PROVE  k = n
    BY DEF DistinctIds
  <2>1. PICK m \in DOMAIN s : r[k] = s[m] /\ m = IF k < i THEN k ELSE k + 1
    BY <1>2
  <2>2. PICK o \in DOMAIN s : r[n] = s[o] /\ o = IF n < i THEN n ELSE n + 1
    BY <1>2
  <2>3. m = o
    BY <2>1, <2>2 DEF DistinctIds
  <2>4. k \in Nat /\ n \in Nat
    BY <1>1
  <2>5. QED
    BY <2>1, <2>2, <2>3, <2>4
<1>7. QED
  BY <1>2, <1>3, <1>5, <1>6

\* removePendingJob takes the located row out of its collection, if it is there.
LEMMA FoundGone ==
  ASSUME ShapeFit, FoundFits, JobRuns
  PROVE  /\ FifoWithoutFound \in Seq(Row)
         /\ HeapWithoutFound \subseteq delayed
         /\ \A k \in DOMAIN FifoWithoutFound :
              \E m \in DOMAIN available : FifoWithoutFound[k] = available[m]
         /\ Everything(FifoWithoutFound, HeapWithoutFound, DOMAIN leased, {})
              \subseteq PlacedIds
         /\ cur.id \in PlacedIds
<1>1. /\ available \in Seq(Row)
      /\ PlacedIds = Everything(available, delayed, DOMAIN leased, {})
  <2>1. chain # <<>> /\ Head(chain).kind \in JobKinds
    BY DEF JobRuns, Running, JobKinds
  <2>2. QED
    BY <2>1, AdminRuns
<1>2. CASE found.state = "ready"
  <2>1. found.index \in 1..Len(available) /\ cur.id = available[found.index].id
    BY <1>1, <1>2 DEF FoundFits
  <2>2. FifoWithoutFound = SX!RemoveAt(available, found.index) /\ HeapWithoutFound = delayed
    BY <1>2 DEF FifoWithoutFound, HeapWithoutFound
  <2>3. PICK F : F = FifoWithoutFound
    OBVIOUS
  <2>4. /\ F \in Seq(Row) /\ Len(F) = Len(available) - 1 /\ Len(available) \in Nat
        /\ \A k \in 1..Len(F) :
             F[k] = IF k < found.index THEN available[k] ELSE available[k + 1]
    BY <1>1, <2>1, <2>2, <2>3, RemoveAtIs
  <2>5. \A k \in DOMAIN F : \E m \in DOMAIN available : F[k] = available[m]
    <3> SUFFICES ASSUME NEW k \in DOMAIN F
                 PROVE  \E m \in DOMAIN available : F[k] = available[m]
      OBVIOUS
    <3>1. /\ k \in 1..Len(F) /\ DOMAIN available = 1..Len(available)
          /\ found.index \in Nat
      BY <1>1, <2>1, <2>4
    <3>2. k \in DOMAIN available /\ k + 1 \in DOMAIN available
      BY <2>4, <3>1
    <3>3. QED
      BY <2>4, <3>1, <3>2
  <2>6. SeqIds(F) \subseteq SeqIds(available)
    BY <2>5 DEF SeqIds
  <2>7. cur.id \in SeqIds(available)
    BY <1>1, <2>1 DEF SeqIds
  <2>8. QED
    BY <1>1, <2>2, <2>3, <2>4, <2>5, <2>6, <2>7 DEF Everything
<1>3. CASE found.state # "ready"
  <2>1. /\ found.state = "delayed" /\ cur.id = found.row.id
        /\ found.row \in delayed \/ RowOf(found.row.id, found.row) \in AvailableRows
    BY <1>3 DEF FoundFits
  <2>2. FifoWithoutFound = available /\ HeapWithoutFound = delayed \ {found.row}
    BY <1>3, <2>1 DEF FifoWithoutFound, HeapWithoutFound
  <2>3. cur.id \in SeqIds(available) \cup HeapIds(delayed)
    BY <2>1 DEF SeqIds, HeapIds, AvailableRows, RowOf, Range
  <2>4. HeapIds(HeapWithoutFound) \subseteq HeapIds(delayed)
    BY <2>2 DEF HeapIds
  <2>5. QED
    BY <1>1, <2>2, <2>3, <2>4 DEF Everything
<1>4. QED
  BY <1>2, <1>3

\* When the row is still where it was located, nothing else goes.
LEMMA LocatedGone ==
  ASSUME ShapeFit, RowInOnePlace, FoundFits, JobRuns,
         found.state = "delayed" => found.row \in delayed
  PROVE  /\ Placed(FifoWithoutFound, HeapWithoutFound, DOMAIN leased, {})
         /\ Everything(FifoWithoutFound, HeapWithoutFound, DOMAIN leased, {})
              = PlacedIds \ {cur.id}
         /\ SeqIds(FifoWithoutFound) = SeqIds(available) \ {cur.id}
         /\ HeapIds(HeapWithoutFound) = HeapIds(delayed) \ {cur.id}
<1>1. /\ available \in Seq(Row) /\ Placed(available, delayed, DOMAIN leased, {})
      /\ PlacedIds = Everything(available, delayed, DOMAIN leased, {})
  <2>1. chain # <<>> /\ Head(chain).kind \in JobKinds
    BY DEF JobRuns, Running, JobKinds
  <2>2. QED
    BY <2>1, AdminRuns
<1>2. cur.id = found.row.id
  BY DEF FoundFits
<1>3. DistinctIds(available) /\ KeyedById(delayed) /\ SeqIds(available) \cap HeapIds(delayed) = {}
      /\ (SeqIds(available) \cup HeapIds(delayed)) \cap DOMAIN leased = {}
  BY <1>1 DEF Placed
<1>4. CASE found.state = "ready"
  <2>1. found.index \in 1..Len(available) /\ found.row = available[found.index]
    BY <1>1, <1>4 DEF FoundFits
  <2>2. cur.id \in SeqIds(available) /\ cur.id \notin HeapIds(delayed)
    BY <1>1, <1>2, <1>3, <2>1 DEF SeqIds
  <2>3. FifoWithoutFound = SX!RemoveAt(available, found.index) /\ HeapWithoutFound = delayed
    BY <1>4 DEF FifoWithoutFound, HeapWithoutFound
  <2>4. /\ SeqIds(FifoWithoutFound) = SeqIds(available) \ {cur.id}
        /\ DistinctIds(FifoWithoutFound)
    BY <1>1, <1>2, <1>3, <2>1, <2>3, RemovedIds
  <2>5. QED
    BY <1>1, <1>3, <2>2, <2>3, <2>4 DEF Placed, Everything
<1>5. CASE found.state # "ready"
  <2>1. found.state = "delayed" /\ found.row \in delayed
    BY <1>5 DEF FoundFits
  <2>2. cur.id \in HeapIds(delayed) /\ cur.id \notin SeqIds(available)
    BY <1>2, <1>3, <2>1 DEF HeapIds
  <2>3. FifoWithoutFound = available /\ HeapWithoutFound = delayed \ {found.row}
    BY <1>5, <2>1 DEF FifoWithoutFound, HeapWithoutFound
  <2>4. /\ HeapIds(HeapWithoutFound) = HeapIds(delayed) \ {cur.id}
        /\ KeyedById(HeapWithoutFound)
    BY <1>2, <1>3, <2>1, <2>3 DEF HeapIds, KeyedById
  <2>5. QED
    BY <1>1, <1>3, <2>2, <2>3, <2>4 DEF Placed, Everything
<1>6. QED
  BY <1>4, <1>5

\* An administration call locates its row and calls the store.
LEMMA BeginJobRows ==
  ASSUME ShapeFit, BeginJobCall
  PROVE  StepFits
<1>1. /\ chain # <<>> /\ Head(chain).kind \in JobKinds /\ cur = Idle
      /\ UNCHANGED <<now, memVars, idVars, hydVars, storeVars, callerVars, faultVars>>
  BY DEF BeginJobCall, Starting, Running
<1>2. /\ UNCHANGED <<available, delayed, leased, hyd, idCounter>>
      /\ MemTypeOK' /\ CallerTypeOK' /\ hyd.pc # "clear" /\ chain \in Seq(AnyOp)
      /\ RowInOnePlace <=> Placed(available, delayed, DOMAIN leased, {})
      /\ PlacedIds = Everything(available, delayed, DOMAIN leased, {})
  BY <1>1, AdminRuns, PartsStay DEF memVars, hydVars, idVars
<1>3. CASE EndOp
  BY <1>1, <1>2, <1>3, EndedRows
<1>4. CASE ~EndOp
  <2>1. PICK f \in Located(Head(chain).job) :
          /\ CallStore(Head(chain).kind = "cancel", f.row.id, None,
                       AdminRecord(Head(chain), f))
          /\ UNCHANGED chain
    BY <1>4 DEF BeginJobCall
  <2>2. f.row.id \in Ids /\ AdminRecord(Head(chain), f) \in Stored
    <3>1. f.row.id \in Ids /\ f.row.job \in Jobs /\ f.row.attempt \in Ids
      BY LocatedIs DEF Row, Delayed
    <3>2. Head(chain) \in JobOp
      BY <1>1, <1>2, HeadOp
    <3>3. now \in Nat /\ Head(chain).delay \in Nat
      BY <3>2 DEF ShapeFit, AdminTypeOK, JobOp
    <3>4. QED
      BY <3>1, <3>3 DEF AdminRecord, Cleared, Stored
  <2>3. cur' \in Call /\ cur' # Idle /\ cur'.pc = "main"
    BY <2>1, <2>2, CallStoreIs
  <2>4. AdminChainTypeOK' /\ AdminCallFits' /\ InFlight' = {} /\ ~Running("enqueue")'
    BY <1>1, <1>2, <2>1, <2>3 DEF AdminChainTypeOK, AdminCallFits, JobRuns,
       Running, InFlight, JobKinds
  <2>5. AdminTypeOK'
    BY <1>1, <1>2, <2>4, TypesAfter DEF ShapeFit
  <2>6. QED
    BY <1>2, <2>4, <2>5, MovedRows
<1>5. QED
  BY <1>3, <1>4

\* The row that was located goes back, or is dropped; a row that a timer or a
\* reader has moved meanwhile stays where it is, too.
LEMMA FinishJobRows ==
  ASSUME ShapeFit, FoundFits, FinishJobCall
  PROVE  /\ ShapeFit' /\ PlacedIds' \subseteq PlacedIds
         /\ RowParts /\ (found.state = "delayed" => found.row \in delayed) => RowParts'
<1> DEFINE InPlace == found.state = "delayed" => found.row \in delayed
<1>1. PICK later : later = (Head(chain).kind = "defer" /\ cur.rec.at # 0)
  OBVIOUS
<1>2. /\ available' = IF Head(chain).kind = "cancel" \/ later THEN FifoWithoutFound
                      ELSE Append(FifoWithoutFound, RowOf(cur.id, cur.rec))
      /\ delayed' = IF later
                    THEN HeapWithoutFound \cup {DelayedRow(cur.id, cur.rec)}
                    ELSE HeapWithoutFound
      /\ IF DelayTimerStands(delayed') THEN UNCHANGED delayTimer
         ELSE ArmDelayTimer(delayed')
  BY <1>1 DEF FinishJobCall
<1>3. /\ chain # <<>> /\ Head(chain).kind \in JobKinds /\ cur # Idle /\ EndOp /\ JobRuns
      /\ UNCHANGED <<now, leased, expiries, leaseTimer, idVars, hydVars, storeVars,
                     callerVars, faultVars>>
  BY DEF FinishJobCall, Replied, Running, JobRuns
<1>4. /\ hyd.pc # "clear" /\ chain \in Seq(AnyOp) /\ MemTypeOK /\ cur.id \in Ids
      /\ cur.rec \in Stored /\ CallerTypeOK' /\ UNCHANGED <<hyd, idCounter>>
  BY <1>3, AdminRuns, PartsStay DEF idVars, hydVars
<1>5. PICK F : F = FifoWithoutFound
  OBVIOUS
<1>6. PICK H : H = HeapWithoutFound
  OBVIOUS
<1>7. /\ F \in Seq(Row) /\ H \subseteq delayed /\ H \subseteq Delayed /\ IsFiniteSet(H)
      /\ Everything(F, H, DOMAIN leased, {}) \subseteq PlacedIds
      /\ cur.id \in PlacedIds
  BY <1>3, <1>4, <1>5, <1>6, FoundGone, FS_Subset DEF MemTypeOK
<1>8. RowInOnePlace /\ InPlace =>
        /\ Placed(F, H, DOMAIN leased, {})
        /\ cur.id \notin Everything(F, H, DOMAIN leased, {})
  BY <1>3, <1>5, <1>6, LocatedGone
<1>9. ASSUME available' \in Seq(Row), delayed' \subseteq Delayed, IsFiniteSet(delayed'),
             RowInOnePlace /\ InPlace => Placed(available', delayed', DOMAIN leased, {}),
             Everything(available', delayed', DOMAIN leased, {}) \subseteq PlacedIds
      PROVE  ShapeFit' /\ PlacedIds' \subseteq PlacedIds /\ (RowParts /\ InPlace => RowParts')
  <2>1. delayTimer' \in Nat
    BY <1>2, <1>4, <1>9, ArmDelayTimerType DEF MemTypeOK
  <2>2. MemTypeOK'
    BY <1>3, <1>4, <1>9, <2>1 DEF MemTypeOK
  <2>3. AdminTypeOK'
    BY <1>3, <1>4, <2>2, EndOpParts, ShapeTypes, TypesAfter DEF ShapeFit
  <2>4. ShapeParts' /\ InFlight' = {}
    BY <1>3, <1>4, EndShape
  <2>5. PlacedIds' \subseteq PlacedIds /\ (RowInOnePlace /\ InPlace => RowInOnePlace')
    BY <1>3, <1>9, <2>4, Placement
  <2>6. NewRow'
    BY <1>3 DEF NewRow, EndOp
  <2>7. QED
    BY <2>3, <2>4, <2>5, <2>6 DEF ShapeFit, RowParts
<1>10. CASE later
  <2>1. PICK d : d = DelayedRow(cur.id, cur.rec)
    OBVIOUS
  <2>2. available' = F /\ delayed' = H \cup {d}
    BY <1>2, <1>5, <1>6, <1>10, <2>1
  <2>3. d \in Delayed /\ d.id = cur.id
    BY <1>4, <2>1 DEF DelayedRow, Delayed, Stored
  <2>4. IsFiniteSet(H \cup {d})
    BY <1>7, FS_AddElement
  <2>5. RowInOnePlace /\ InPlace => Placed(F, H \cup {d}, DOMAIN leased, {})
    BY <1>7, <1>8, <2>3, DelayPlaced
  <2>6. Everything(F, H \cup {d}, DOMAIN leased, {}) \subseteq PlacedIds
    BY <1>7, <2>3 DEF Everything, HeapIds
  <2>7. QED
    BY <1>7, <1>9, <2>2, <2>3, <2>4, <2>5, <2>6
<1>11. CASE ~later /\ Head(chain).kind = "cancel"
  <2>1. available' = F /\ delayed' = H
    BY <1>2, <1>5, <1>6, <1>11
  <2>2. QED
    BY <1>7, <1>8, <1>9, <2>1
<1>12. CASE ~later /\ Head(chain).kind # "cancel"
  <2>1. PICK r : r = RowOf(cur.id, cur.rec)
    OBVIOUS
  <2>2. available' = Append(F, r) /\ delayed' = H
    BY <1>2, <1>5, <1>6, <1>12, <2>1
  <2>3. r \in Row /\ r.id = cur.id
    BY <1>4, <2>1 DEF RowOf, Row, Stored
  <2>4. Append(F, r) \in Seq(Row)
    BY <1>7, <2>3
  <2>5. RowInOnePlace /\ InPlace => Placed(Append(F, r), H, DOMAIN leased, {})
    BY <1>7, <1>8, <2>3, AppendPlaced
  <2>6. Everything(Append(F, r), H, DOMAIN leased, {}) \subseteq PlacedIds
    BY <1>7, <2>3, AppendIds DEF Everything
  <2>7. QED
    BY <1>7, <1>9, <2>2, <2>4, <2>5, <2>6
<1>13. QED
  BY <1>10, <1>11, <1>12

\* A refused administration call leaves memory as it was.
LEMMA JobRefusedRows ==
  ASSUME ShapeFit, JobCallRefused
  PROVE  StepFits
<1>1. /\ chain # <<>> /\ Head(chain).kind \in JobKinds /\ EndOp
      /\ UNCHANGED <<now, memVars, idVars, hydVars, storeVars, callerVars, faultVars>>
  BY DEF JobCallRefused, Replied, Running
<1>2. /\ MemTypeOK' /\ CallerTypeOK' /\ hyd.pc # "clear"
      /\ UNCHANGED <<available, delayed, leased>>
      /\ RowInOnePlace <=> Placed(available, delayed, DOMAIN leased, {})
      /\ PlacedIds = Everything(available, delayed, DOMAIN leased, {})
  BY <1>1, AdminRuns, PartsStay DEF memVars
<1>3. QED
  BY <1>1, <1>2, EndedRows

-----------------------------------------------------------------------------
(* What runs, and what an administration call has located.                  *)

\* The calls of DurableQueue only queue an operation, too.
LEMMA CoreCallsQueue ==
  ASSUME Calls
  PROVE  OnlyQueued
<1>1. ASSUME NEW op, LeaseOp(op)
      PROVE  OnlyQueued
  BY <1>1 DEF LeaseOp, OnlyQueued, callerVars, idVars
<1>2. ASSUME NEW j, NEW d, Enqueue(j, d)
      PROVE  OnlyQueued
  BY <1>2 DEF Enqueue, OnlyQueued
<1>3. CASE Claim
  BY <1>3 DEF Claim, OnlyQueued, callerVars, idVars
<1>4. ASSUME NEW t \in tokens,
             \/ Ack(t) \/ Release(t)
             \/ \E d \in Delays, a \in t.attempt..MaxAttempt : Reschedule(t, d, a)
             \/ \E ttl \in ExtendTtls : ExtendLease(t, ttl)
      PROVE  OnlyQueued
  BY <1>1, <1>4 DEF Ack, Release, Reschedule, ExtendLease
<1>5. QED
  BY <1>2, <1>3, <1>4 DEF Calls

\* The operation at the head stays, whatever joins the chain behind it.
HeadStays == chain' # <<>> /\ Head(chain') = Head(chain)

\* A call does not change what runs.
LEMMA QueuedBehind ==
  ASSUME ShapeFit, OnlyQueued, chain # <<>>
  PROVE  HeadStays
BY ShapeTypes DEF OnlyQueued, Push, HeadStays

\* The pending rows stay pending: a delayed one may become ready.
PendingStays ==
  /\ \A m \in DOMAIN available : m \in DOMAIN available' /\ available'[m] = available[m]
  /\ \A d \in delayed :
       d \in delayed' \/ RowOf(d.id, d) \in {available'[m] : m \in DOMAIN available'}

\* Readers and the two timers.
LEMMA TimersPend ==
  ASSUME ShapeFit, ReaderPromotes \/ DelayTimerFires \/ LeaseTimerFires
  PROVE  /\ PendingStays /\ (chain # <<>> => HeadStays)
         /\ UNCHANGED <<now, leased, idVars, hydVars, cur, storeVars, callerVars, faultVars>>
<1>1. CASE ReaderPromotes \/ DelayTimerFires
  <2>1. PICK av \in Drained : Promotes(av) /\ available' = av
    BY <1>1 DEF ReaderPromotes, DelayTimerFires
  <2>2. delayed' = delayed \ Due
    BY <2>1 DEF Promotes
  <2>3. /\ \A m \in DOMAIN available : m \in DOMAIN av /\ av[m] = available[m]
        /\ \A d \in Due : \E k \in DOMAIN av : av[k] = RowOf(d.id, d)
    BY <2>1, ShapeTypes, DrainRows
  <2>4. /\ UNCHANGED <<now, leased, idVars, hydVars, chainVars, storeVars, callerVars,
                       faultVars>>
    BY <1>1 DEF ReaderPromotes, DelayTimerFires
  <2>5. QED
    BY <2>1, <2>2, <2>3, <2>4 DEF PendingStays, HeadStays, chainVars
<1>2. CASE LeaseTimerFires
  <2>1. /\ UNCHANGED <<now, available, delayed, leased, idVars, hydVars, cur, storeVars,
                       callerVars, faultVars>>
        /\ UNCHANGED chain \/ \E op : Push(op)
    BY <1>2 DEF LeaseTimerFires
  <2>2. chain # <<>> => HeadStays
    BY <2>1, ShapeTypes DEF Push, HeadStays
  <2>3. QED
    BY <2>1, <2>2 DEF PendingStays
<1>3. QED
  BY <1>1, <1>2

\* The steps that are part of no administration call.
Elsewhere == CoreSteps \/ AdminQuiet \/ FinishBulk \/ BeginEnqueue \/ BeginLeaseOp

\* No step of another operation touches what an administration call is about,
\* but a timer or a reader may make its row ready.
LEMMA WhileJobRuns ==
  ASSUME ShapeFit, JobRuns, Elsewhere
  PROVE  /\ cur' # Idle /\ cur'.id = cur.id /\ cur'.pc = "main" /\ HeadStays
         /\ cur'.rec = cur.rec /\ cur'.del = cur.del /\ PendingStays
         /\ UNCHANGED <<leased, hydrated, tokens, outdated, accepted, leaseGenSeq>>
<1>1. /\ cur # Idle /\ chain # <<>> /\ Head(chain).kind \in JobKinds
      /\ Head(chain).kind \notin CoreKinds \cup Bulk \cup {"dequeue"}
      /\ \A kind : Running(kind) => kind = Head(chain).kind
      /\ \A kind : ~Starting(kind)
  BY DEF JobRuns, Running, Starting, JobKinds, CoreKinds, Bulk
<1>2. cur.pc = "main" /\ hyd.pc # "clear" /\ cur \in Call /\ ~Flushed
  <2>1. cur.pc = "main" /\ hyd.pc # "clear" /\ cur \in Call /\ 1 \in DOMAIN chain
        /\ Head(chain) = chain[1]
    BY <1>1, AdminRuns
  <2>2. QED
    BY <1>1, <2>1 DEF Flushed, JobKinds
<1>3. ASSUME UNCHANGED <<available, delayed>>
      PROVE  PendingStays
  BY <1>3 DEF PendingStays
<1>4. CASE Calls \/ AdminCalls
  <2>1. OnlyQueued
    BY <1>4, CoreCallsQueue, AdminCallsRows, QueueAssumption
  <2>2. QED
    BY <1>1, <1>2, <1>3, <2>1, QueuedBehind DEF OnlyQueued, hydVars, memVars
<1>5. ~Begins /\ ~BeginDequeue /\ ~BeginBulk /\ ~BeginEnqueue /\ ~BeginLeaseOp
      /\ ~BeginClaim /\ ~BeginExpire
  BY <1>1 DEF Begins, BeginEnqueue, BeginLeaseOp, BeginClaim, BeginExpire,
     BeginDequeue, BeginBulk
<1>6. ~Finishes /\ ~DequeueRefused /\ ~FinishDequeue /\ ~NextPut /\ ~FinishBulk
  BY <1>1 DEF Finishes, FinishEnqueue, FinishRefused, FinishAck, FinishReturn,
     FinishExtend, FinishClaim, ClaimRefused, ReclaimThenClaim, ReclaimThenLoop,
     ReclaimRefused, Replied, Reclaiming, DequeueRefused, FinishDequeue, NextPut,
     FinishBulk, BulkReplied, CoreKinds, Bulk
<1>7. ~BulkStoreApplies
  BY <1>2 DEF BulkStoreApplies
<1>8. CASE StoreApplies \/ StoreRefuses
  <2>1. UNCHANGED <<now, memVars, hydVars, callerVars, chain, leaseGenSeq>>
    BY <1>8 DEF StoreApplies, StoreRefuses, idVars
  <2>2. cur' = [cur EXCEPT !.reply = "ok"] \/ cur' = [cur EXCEPT !.reply = "err"]
    BY <1>8 DEF StoreApplies, StoreRefuses
  <2>3. /\ cur' # Idle /\ cur'.id = cur.id /\ cur'.pc = "main" /\ cur'.rec = cur.rec
        /\ cur'.del = cur.del
    BY <1>2, <2>2 DEF Call, Idle
  <2>4. QED
    BY <1>1, <1>3, <2>1, <2>3 DEF HeadStays, memVars, hydVars, callerVars
<1>9. CASE Hydrates
  <2>1. HydrateStart
    BY <1>2, <1>9 DEF Hydrates, HydrateRejects, HydrateLoad, HydrateClear,
       HydrateRefused, HydrateInstall
  <2>2. QED
    BY <1>1, <1>2, <1>3, <2>1 DEF HydrateStart, chainVars, callerVars, HeadStays, memVars,
       idVars
<1>10. CASE ReaderPromotes \/ DelayTimerFires \/ LeaseTimerFires
  BY <1>1, <1>2, <1>10, TimersPend DEF hydVars, callerVars, idVars
<1>11. CASE Tick
  BY <1>1, <1>2, <1>3, <1>11 DEF Tick, chainVars, callerVars, HeadStays, memVars, hydVars,
     idVars
<1>12. QED
  BY <1>4, <1>5, <1>6, <1>7, <1>8, <1>9, <1>10, <1>11 DEF Elsewhere, CoreSteps, AdminQuiet

\* An administration call begins with its own action only.
LEMMA NoJobBegins ==
  ASSUME ShapeFit, ~JobRuns, Elsewhere
  PROVE  ~JobRuns'
<1>1. ASSUME cur = Idle => cur' = Idle,
             cur # Idle /\ cur' # Idle => HeadStays
      PROVE  ~JobRuns'
  BY <1>1, ShapeTypes DEF HeadStays, JobRuns, Running
<1>2. ASSUME chain # <<>>, Head(chain).kind \notin JobKinds, EndOp \/ UNCHANGED chain
      PROVE  ~JobRuns'
  BY <1>2 DEF JobRuns, Running, EndOp
<1>3. cur # Idle => chain # <<>>
  BY ShapeTypes
<1>4. CASE Calls \/ AdminCalls
  <2>1. OnlyQueued
    BY <1>4, CoreCallsQueue, AdminCallsRows, QueueAssumption
  <2>2. QED
    BY <1>1, <1>3, <2>1, QueuedBehind DEF OnlyQueued
<1>5. CASE Begins \/ Finishes \/ BeginEnqueue \/ BeginLeaseOp \/ BeginClaim \/ BeginExpire
  <2>1. chain # <<>> /\ Head(chain).kind \in CoreKinds
    BY <1>5 DEF Begins, BeginEnqueue, BeginLeaseOp, BeginClaim, BeginExpire, Starting,
       Finishes, FinishEnqueue, FinishRefused, FinishAck, FinishReturn,
       FinishExtend, FinishClaim, ClaimRefused, ReclaimThenClaim, ReclaimThenLoop,
       ReclaimRefused, Replied, Reclaiming, Running, CoreKinds
  <2>2. EndOp \/ UNCHANGED chain
    BY <1>5 DEF Begins, BeginEnqueue, BeginLeaseOp, BeginClaim, BeginExpire,
       Finishes, FinishEnqueue, FinishRefused, FinishAck, FinishReturn,
       FinishExtend, FinishClaim, ClaimRefused, ReclaimThenClaim,
       ReclaimThenLoop, ReclaimRefused, ClaimFrom, TakeHead
  <2>3. QED
    BY <1>2, <2>1, <2>2 DEF CoreKinds, JobKinds
<1>6. CASE BeginDequeue \/ DequeueRefused \/ FinishDequeue
  <2>1. chain # <<>> /\ Head(chain).kind = "dequeue"
    BY <1>6 DEF BeginDequeue, DequeueRefused, FinishDequeue, Starting, Replied, Running
  <2>2. EndOp \/ UNCHANGED chain
    BY <1>6 DEF BeginDequeue, DequeueRefused, FinishDequeue
  <2>3. QED
    BY <1>2, <2>1, <2>2 DEF JobKinds
<1>7. CASE BeginBulk \/ NextPut \/ FinishBulk
  <2>1. chain # <<>> /\ Head(chain).kind \in Bulk
    BY <1>7 DEF BeginBulk, NextPut, FinishBulk, BulkReplied, Starting, Running
  <2>2. EndOp \/ UNCHANGED chain
    BY <1>7 DEF BeginBulk, NextPut, FinishBulk
  <2>3. QED
    BY <1>2, <2>1, <2>2 DEF Bulk, JobKinds
<1>8. CASE StoreApplies \/ StoreRefuses \/ BulkStoreApplies
  <2>1. cur # Idle /\ UNCHANGED chain
    BY <1>8 DEF StoreApplies, StoreRefuses, BulkStoreApplies, Idle
  <2>2. QED
    BY <1>1, <1>3, <2>1 DEF HeadStays
<1>9. CASE Hydrates \/ Tick
  <2>1. UNCHANGED <<chain, cur>>
    BY <1>9 DEF Hydrates, HydrateStart, HydrateRejects, HydrateLoad, HydrateClear,
       HydrateRefused, HydrateInstall, Tick, chainVars
  <2>2. QED
    BY <1>1, <1>3, <2>1 DEF HeadStays
<1>10. CASE ReaderPromotes \/ DelayTimerFires \/ LeaseTimerFires
  BY <1>1, <1>3, <1>10, TimersPend
<1>11. QED
  BY <1>4, <1>5, <1>6, <1>7, <1>8, <1>9, <1>10 DEF Elsewhere, CoreSteps, AdminQuiet

-----------------------------------------------------------------------------
(* What holds whatever happens.                                             *)

\* What an administration call has located stays where it was, or becomes ready.
LEMMA FoundStays ==
  ASSUME ShapeFit, FoundFits, Elsewhere, found' = found
  PROVE  FoundFits'
<1>1. CASE JobRuns
  <2>1. /\ cur' # Idle /\ cur'.id = cur.id /\ chain' # <<>> /\ Head(chain') = Head(chain)
        /\ PendingStays
    BY <1>1, WhileJobRuns DEF HeadStays
  <2>2. JobRuns'
    BY <1>1, <2>1 DEF JobRuns, Running
  <2>3. found # Nothing /\ found.row.id = cur.id /\ found.row.job = Head(chain).job
    BY <1>1 DEF FoundFits
  <2>4. CASE found.state = "ready" /\ found.index \in DOMAIN available
             /\ found.row = available[found.index]
    BY <2>1, <2>2, <2>3, <2>4 DEF FoundFits, PendingStays
  <2>5. CASE /\ found.state = "delayed" /\ found.row \in Delayed
             /\ found.row \in delayed \/ RowOf(found.row.id, found.row) \in AvailableRows
    <3>1. found.row \in delayed' \/ RowOf(found.row.id, found.row) \in AvailableRows'
      <4>1. CASE found.row \in delayed
        BY <2>1, <4>1 DEF PendingStays, AvailableRows, Range
      <4>2. CASE RowOf(found.row.id, found.row) \in AvailableRows
        <5>1. PICK m \in DOMAIN available : RowOf(found.row.id, found.row) = available[m]
          BY <4>2 DEF AvailableRows, Range
        <5>2. m \in DOMAIN available' /\ available'[m] = available[m]
          BY <2>1 DEF PendingStays
        <5>3. QED
          BY <5>1, <5>2 DEF AvailableRows, Range
      <4>3. QED
        BY <2>5, <4>1, <4>2
    <3>2. RowOf(found.row.id, found.row)' = RowOf(found.row.id, found.row)
      BY DEF RowOf
    <3>3. QED
      BY <2>1, <2>2, <2>3, <2>5, <3>1, <3>2 DEF FoundFits
  <2>6. QED
    BY <1>1, <2>4, <2>5 DEF FoundFits
<1>2. CASE ~JobRuns
  BY <1>2, NoJobBegins DEF FoundFits
<1>3. QED
  BY <1>1, <1>2

\* What an administration call begins with.
LEMMA FoundBegins ==
  ASSUME ShapeFit, FoundFits, BeginJobCall
  PROVE  FoundFits'
<1>1. /\ cur = Idle /\ chain # <<>> /\ Head(chain).kind \in JobKinds
      /\ UNCHANGED <<available, delayed>>
  BY DEF BeginJobCall, Starting, Running, memVars
<1>2. CASE EndOp /\ UNCHANGED found
  BY <1>1, <1>2 DEF EndOp, FoundFits, JobRuns
<1>3. CASE ~(EndOp /\ UNCHANGED found)
  <2>1. PICK f \in Located(Head(chain).job) :
          /\ found' = f /\ UNCHANGED chain
          /\ CallStore(Head(chain).kind = "cancel", f.row.id, None,
                       AdminRecord(Head(chain), f))
    BY <1>3 DEF BeginJobCall
  <2>2. cur' # Idle /\ cur'.id = f.row.id
    BY <2>1 DEF CallStore, Idle
  <2>3. JobRuns'
    BY <1>1, <2>1, <2>2 DEF JobRuns, Running
  <2>4. \/ /\ f.state = "ready" /\ f.index \in DOMAIN available
           /\ f.row = available[f.index] /\ f.row.job = Head(chain).job
        \/ /\ f.state = "delayed" /\ f.row \in delayed /\ f.row \in Delayed
           /\ f.row.job = Head(chain).job
    <3>1. DOMAIN available = 1..Len(available)
      BY ShapeTypes
    <3>2. QED
      BY <3>1, LocatedIs
  <2>5. f # Nothing
    BY <2>4 DEF Nothing
  <2>6. QED
    BY <1>1, <2>1, <2>2, <2>3, <2>4, <2>5 DEF FoundFits
<1>4. QED
  BY <1>2, <1>3

\* The steps of AdminNext and their variables: a step of DurableQueue's or a call
\* of this module's.
LEMMA AdminSteps ==
  ASSUME [AdminNext]_adminVars
  PROVE  \/ Elsewhere /\ UNCHANGED found
         \/ BeginJobCall \/ FinishJobCall \/ JobCallRefused \/ BulkRefused
         \/ CrashMidway \/ UNCHANGED adminVars
BY DEF AdminNext, Elsewhere, BeginEnqueueNoting, BeginLeaseOpNoting

LEMMA AdminFound ==
  ASSUME ShapeFit, FoundFits, [AdminNext]_adminVars
  PROVE  FoundFits'
<1>1. CASE FinishJobCall \/ JobCallRefused \/ CrashMidway
  BY <1>1 DEF FinishJobCall, JobCallRefused, CrashMidway, Crash, EndOp, FoundFits, JobRuns
<1>2. CASE BulkRefused
  BY <1>2 DEF BulkRefused, BulkReplied, EndOp, FoundFits, JobRuns, Running, Bulk, JobKinds
<1>3. CASE UNCHANGED adminVars
  <2>1. UNCHANGED <<available, delayed, chain, cur, found>>
    BY <1>3 DEF adminVars, vars, memVars, chainVars
  <2>2. QED
    BY <2>1 DEF FoundFits, JobRuns, Running, AvailableRows
<1>4. QED
  BY <1>1, <1>2, <1>3, AdminSteps, FoundStays, FoundBegins

\* Nothing joins the chain of a process that has not hydrated.
LEMMA ColdStays ==
  ASSUME QueueAssumption, ShapeFit, ColdStart, [AdminNext]_adminVars
  PROVE  ColdStart'
<1> SUFFICES ASSUME ~hydrated'
             PROVE  chain' = <<>> /\ tokens' = {} /\ DOMAIN leased' = {} /\ leaseTimer' = None
  BY DEF ColdStart
<1>1. CASE CrashMidway
  BY <1>1 DEF CrashMidway, Crash, EmptyMap
<1>2. ASSUME UNCHANGED <<chain, tokens, leased, leaseTimer, hydrated>>
      PROVE  chain' = <<>> /\ tokens' = {} /\ DOMAIN leased' = {} /\ leaseTimer' = None
  BY <1>2 DEF ColdStart
<1>3. CASE StoreApplies \/ StoreRefuses \/ BulkStoreApplies \/ Tick \/ UNCHANGED adminVars
  BY <1>2, <1>3 DEF StoreApplies, StoreRefuses, BulkStoreApplies, Tick, adminVars, vars,
     memVars, hydVars, chainVars, callerVars
<1>4. CASE ReaderPromotes \/ DelayTimerFires
  BY <1>2, <1>4 DEF ReaderPromotes, DelayTimerFires, hydVars, chainVars, callerVars
<1>5. CASE LeaseTimerFires
  BY <1>5 DEF LeaseTimerFires, ColdStart, hydVars
<1>6. CASE Hydrates
  <2>1. ~HydrateInstall
    BY DEF HydrateInstall
  <2>2. QED
    BY <1>2, <1>6, <2>1 DEF Hydrates, HydrateStart, HydrateRejects, HydrateLoad,
       HydrateClear, HydrateRefused, memVars, chainVars, callerVars
<1>7. CASE Calls \/ AdminCalls
  <2>1. OnlyQueued
    BY <1>7, CoreCallsQueue, AdminCallsRows
  <2>2. hydrated' = hydrated
    BY <2>1 DEF OnlyQueued, hydVars
  <2>3. tokens = {}
    BY <2>2 DEF ColdStart
  <2>4. CASE AdminCalls
    BY <2>2, <2>4, AdminCallsRows
  <2>5. CASE Calls
    BY <2>2, <2>3, <2>5 DEF Calls, Enqueue, Claim, Serving
  <2>6. QED
    BY <1>7, <2>4, <2>5
<1>8. CASE \/ BeginEnqueue \/ BeginLeaseOp \/ BeginClaim \/ BeginExpire \/ Finishes
           \/ BeginDequeue \/ DequeueRefused \/ FinishDequeue \/ BeginBulk \/ NextPut
           \/ FinishBulk \/ BeginJobCall \/ FinishJobCall \/ JobCallRefused \/ BulkRefused
  <2>1. chain # <<>>
    BY <1>8 DEF BeginEnqueue, BeginLeaseOp, BeginClaim, BeginExpire, Finishes, FinishEnqueue,
       FinishRefused, FinishAck, FinishReturn, FinishExtend, FinishClaim, ClaimRefused,
       ReclaimThenClaim, ReclaimThenLoop, ReclaimRefused, Reclaiming, Replied, Starting,
       Running, BeginDequeue, DequeueRefused, FinishDequeue, BeginBulk, NextPut, FinishBulk,
       BulkReplied, BeginJobCall, FinishJobCall, JobCallRefused, BulkRefused
  <2>2. UNCHANGED hydVars
    BY <1>8 DEF BeginEnqueue, BeginLeaseOp, BeginClaim, BeginExpire, Finishes, FinishEnqueue,
       FinishRefused, FinishAck, FinishReturn, FinishExtend, FinishClaim, ClaimRefused,
       ReclaimThenClaim, ReclaimThenLoop, ReclaimRefused,
       BeginDequeue, DequeueRefused, FinishDequeue, BeginBulk, NextPut, FinishBulk,
       BeginJobCall, FinishJobCall, JobCallRefused, BulkRefused
  <2>3. QED
    BY <2>1, <2>2 DEF ColdStart, hydVars
<1>9. QED
  BY <1>1, <1>3, <1>4, <1>5, <1>6, <1>7, <1>8 DEF AdminNext, CoreSteps, AdminQuiet,
     BeginEnqueueNoting, BeginLeaseOpNoting

\* The steps that are DurableQueue's.
CoreLike == CoreSteps \/ BeginEnqueue \/ BeginLeaseOp \/ CrashMidway \/ UNCHANGED adminVars

LEMMA CoreLikeSteps ==
  /\ CoreLike => [Next]_vars
  /\ [AdminNext]_adminVars =>
       \/ CoreLike \/ AdminQuiet \/ FinishBulk
       \/ BeginJobCall \/ FinishJobCall \/ JobCallRefused \/ BulkRefused
<1>1. CoreLike => [Next]_vars
  BY DEF CoreLike, CoreSteps, CrashMidway, adminVars, Next, Begins
<1>2. [AdminNext]_adminVars =>
       \/ CoreLike \/ AdminQuiet \/ FinishBulk
       \/ BeginJobCall \/ FinishJobCall \/ JobCallRefused \/ BulkRefused
  BY DEF CoreLike, AdminNext, BeginEnqueueNoting, BeginLeaseOpNoting
<1>3. QED
  BY <1>1, <1>2

LEMMA AdminStepShape ==
  ASSUME QueueAssumption, ShapeFit, FoundFits, [AdminNext]_adminVars
  PROVE  ShapeFit'
<1>1. CASE CoreLike
  BY <1>1, CoreLikeSteps, CoreStepShape
<1>2. CASE AdminQuiet \/ FinishBulk
  BY <1>2, AdminCallsRows, DequeueRows, BeginBulkRows, BulkAppliesRows, NextPutRows,
     FinishBulkRows DEF AdminQuiet, StepFits
<1>3. CASE BeginJobCall \/ FinishJobCall \/ JobCallRefused \/ BulkRefused
  BY <1>3, BeginJobRows, FinishJobRows, JobRefusedRows, BulkRefusedRows DEF StepFits
<1>4. QED
  BY <1>1, <1>2, <1>3, CoreLikeSteps

LEMMA ShapeIs == AdminShape <=> ShapeFit /\ ColdStart /\ FoundFits
BY DEF AdminShape, Shaped, ShapeFit, ShapeParts

LEMMA AdminStarts ==
  ASSUME QueueAssumption, AdminInit
  PROVE  /\ AdminShape /\ RowsFit /\ PlacedIds = {} /\ mishaps = {} /\ cur = Idle
         /\ chain = <<>> /\ found = Nothing
<1>1. RowsFit /\ PlacedIds = {}
  BY InitRows DEF AdminInit
<1>2. chain = <<>> /\ cur = Idle /\ found = Nothing /\ mishaps = {} /\ ColdStart
  BY DEF AdminInit, Init, ColdStart, EmptyMap
<1>3. FoundFits
  BY <1>2 DEF FoundFits, JobRuns
<1>4. QED
  BY <1>1, <1>2, <1>3, ShapeIs DEF RowsFit

LEMMA AdminShapeStep ==
  ASSUME QueueAssumption, AdminShape, [AdminNext]_adminVars
  PROVE  AdminShape'
<1>1. ShapeFit' /\ ColdStart' /\ FoundFits'
  BY ShapeIs, AdminStepShape, ColdStays, AdminFound
<1>2. QED
  BY <1>1 DEF AdminShape, Shaped, ShapeFit, ShapeParts

LEMMA AdminShapeHolds == AdminSpec => []AdminShape
<1>1. AdminInit => AdminShape
  BY AdminStarts, QueueAssumption
<1>2. AdminShape /\ [AdminNext]_adminVars => AdminShape'
  BY AdminShapeStep, QueueAssumption
<1>3. QED
  BY <1>1, <1>2, PTL DEF AdminSpec
-----------------------------------------------------------------------------
(* A row is in one place.                                                    *)

\* What has happened stays known.
LEMMA MishapsGrow ==
  ASSUME mishaps \subseteq Mishaps, [AdminNext]_adminVars
  PROVE  mishaps \subseteq mishaps' /\ mishaps' \subseteq Mishaps
<1>1. ASSUME NEW what \in Mishaps, NEW happens, Note(what, happens)
      PROVE  mishaps \subseteq mishaps' /\ mishaps' \subseteq Mishaps
  BY <1>1 DEF Note
<1>2. {"torn", "stale", "collided", "mistaken"} \subseteq Mishaps
  BY DEF Mishaps
<1>3. CASE FinishJobCall \/ BulkRefused \/ CrashMidway \/ BeginEnqueueNoting
           \/ BeginLeaseOpNoting
  BY <1>1, <1>2, <1>3 DEF FinishJobCall, BulkRefused, CrashMidway, BeginEnqueueNoting,
     BeginLeaseOpNoting
<1>4. CASE UNCHANGED mishaps
  BY <1>4
<1>5. QED
  BY <1>3, <1>4 DEF AdminNext, BeginJobCall, JobCallRefused, adminVars

\* Until a clear or a replaceAll overtakes an enqueue, ids are handed out once.
LEMMA AdminCallsAre ==
  ASSUME AdminCalls
  PROVE  \E op : Push(op) /\ op.kind # "enqueue" /\ idCounter' = idCounter
<1>1. ASSUME NEW op, LeaseOp(op), op.kind # "enqueue"
      PROVE  \E o : Push(o) /\ o.kind # "enqueue" /\ idCounter' = idCounter
  BY <1>1 DEF LeaseOp, idVars
<1>2. CASE TryDequeue \/ Clear
  BY <1>1, <1>2 DEF TryDequeue, Clear
<1>3. ASSUME NEW items, ReplaceAll(items)
      PROVE  \E op : Push(op) /\ op.kind # "enqueue" /\ idCounter' = idCounter
  BY <1>3 DEF ReplaceAll, idVars
<1>4. ASSUME NEW kind \in JobKinds, NEW j, NEW d, JobCall(kind, j, d)
      PROVE  \E op : Push(op) /\ op.kind # "enqueue" /\ idCounter' = idCounter
  <2>1. PICK op : op = [kind |-> kind, job |-> j, delay |-> d]
    OBVIOUS
  <2>2. LeaseOp(op) /\ op.kind # "enqueue"
    BY <1>4, <2>1 DEF JobCall, JobKinds
  <2>3. QED
    BY <1>1, <2>2
<1>5. QED
  BY <1>2, <1>3, <1>4 DEF AdminCalls, JobKinds

LEMMA AdminFresh ==
  ASSUME QueueAssumption, ShapeFit, FoundFits, overtaken \/ FreshIds,
         [AdminNext]_adminVars, ~overtaken'
  PROVE  FreshIds'
<1>1. chain \in Seq(AnyOp) /\ idCounter \in Nat
  BY ShapeTypes
<1>2. CASE CrashMidway
  <2>1. PlacedIds' = {} /\ chain' = <<>>
    BY <1>2, EnvironmentShape DEF CrashMidway, Crash
  <2>2. QED
    BY <2>1 DEF FreshIds, QueuedEnqueues
<1>3. CASE ~CrashMidway
  <2>1. FreshIds
    BY <1>3 DEF AdminNext, adminVars, BeginEnqueueNoting, BeginLeaseOpNoting, FinishBulk,
       BeginJobCall, FinishJobCall, JobCallRefused, BulkRefused
  <2>2. ASSUME PlacedIds' \subseteq PlacedIds, idCounter' = idCounter,
               (chain # <<>> /\ (EndOp \/ UNCHANGED chain)) \/ UNCHANGED chain
        PROVE  FreshIds'
    BY <1>1, <2>1, <2>2, FreshAfter DEF EndOp
  <2>3. CASE CoreLike
    BY <2>1, <2>3, CoreLikeSteps, CoreStepFresh
  <2>4. CASE AdminCalls
    <3>1. PlacedIds' \subseteq PlacedIds
      BY <2>4, AdminCallsRows DEF StepFits
    <3>2. QED
      BY <1>1, <2>1, <2>4, <3>1, AdminCallsAre, FreshAfterPush
  <2>5. CASE BeginDequeue \/ DequeueRefused \/ FinishDequeue \/ BeginBulk \/ BulkStoreApplies
             \/ NextPut
    <3>1. PlacedIds' \subseteq PlacedIds
      BY <2>5, DequeueRows, BeginBulkRows, BulkAppliesRows, NextPutRows DEF StepFits
    <3>2. idCounter' = idCounter /\ ((chain # <<>> /\ EndOp) \/ UNCHANGED chain)
      BY <2>5 DEF BeginDequeue, DequeueRefused, FinishDequeue, BeginBulk, BulkStoreApplies,
         NextPut, Starting, Replied, BulkReplied, Running, idVars
    <3>3. QED
      BY <2>2, <3>1, <3>2
  <2>6. CASE BeginJobCall \/ FinishJobCall \/ JobCallRefused \/ BulkRefused
    <3>1. PlacedIds' \subseteq PlacedIds
      BY <2>6, BeginJobRows, FinishJobRows, JobRefusedRows, BulkRefusedRows DEF StepFits
    <3>2. idCounter' = idCounter /\ ((chain # <<>> /\ EndOp) \/ UNCHANGED chain)
      BY <2>6 DEF BeginJobCall, FinishJobCall, JobCallRefused, BulkRefused, Starting,
         Replied, BulkReplied, Running, idVars
    <3>3. QED
      BY <2>2, <3>1, <3>2
  <2>7. CASE FinishBulk
    <3>1. /\ QueuedEnqueues = {} /\ chain # <<>> /\ chain' = Tail(chain)
          /\ idCounter' = Len(BulkItems) /\ PlacedIds' = 1..Len(BulkItems)
      BY <2>7, FinishBulkRows DEF FinishBulk, BulkReplied, Running, EndOp
    <3>2. QueuedEnqueues' = {}
      <4>1. \A i \in DOMAIN chain' : i + 1 \in DOMAIN chain /\ chain'[i] = chain[i + 1]
        BY <1>1, <3>1
      <4>2. QED
        BY <3>1, <4>1 DEF QueuedEnqueues
    <3>3. QED
      BY <3>1, <3>2 DEF FreshIds
  <2>8. QED
    BY <1>3, <2>3, <2>4, <2>5, <2>6, <2>7, CoreLikeSteps DEF AdminQuiet
<1>4. QED
  BY <1>2, <1>3

\* A step after which no administration call has missed its row, nor any two rows
\* got one id, keeps every row in one place.
LEMMA AdminStepRows ==
  ASSUME QueueAssumption, ShapeFit, FoundFits, RowParts, overtaken \/ FreshIds,
         [AdminNext]_adminVars, mishaps' \cap {"stale", "collided"} = {}
  PROVE  RowParts'
<1>1. RowsFit
  BY DEF RowsFit
<1>2. CASE \/ Calls \/ Finishes \/ StoreApplies \/ StoreRefuses \/ ReaderPromotes
           \/ DelayTimerFires \/ LeaseTimerFires \/ Hydrates \/ Tick \/ CrashMidway
  BY <1>1, <1>2, CallsRows, FinishesRows, StoreRows, TimersRows, HydratesRows,
     EnvironmentRows DEF CrashMidway
<1>3. CASE BeginClaim \/ BeginExpire \/ BeginLeaseOp
  <2>1. ~Starting("enqueue")
    BY <1>3 DEF BeginClaim, BeginExpire, BeginLeaseOp, Starting, Running
  <2>2. QED
    BY <1>1, <1>3, <2>1, BeginsRows DEF Begins
<1>4. CASE BeginEnqueueNoting
  <2>1. BeginEnqueue /\ (overtaken /\ cur' # Idle => Head(chain).id \notin PlacedIds)
    BY <1>4 DEF BeginEnqueueNoting, Note
  <2>2. QED
    BY <1>1, <2>1, FreshStarts, BeginsRows DEF Begins
<1>5. CASE UNCHANGED adminVars
  <2>1. [Next]_vars /\ cur' = cur
    BY <1>5 DEF adminVars, vars, chainVars
  <2>2. BeginEnqueue => cur = Idle
    BY DEF BeginEnqueue, Starting
  <2>3. QED
    BY <1>1, <2>1, <2>2, CoreStepRows DEF RowsFit
<1>6. CASE AdminQuiet \/ FinishBulk
  BY <1>6, AdminCallsRows, DequeueRows, BeginBulkRows, BulkAppliesRows, NextPutRows,
     FinishBulkRows DEF AdminQuiet, StepFits
<1>7. CASE FinishJobCall
  <2>1. found.state = "delayed" => found.row \in delayed
    BY <1>7 DEF FinishJobCall, Note
  <2>2. QED
    BY <1>7, <2>1, FinishJobRows
<1>8. CASE BeginJobCall \/ JobCallRefused \/ BulkRefused
  BY <1>8, BeginJobRows, JobRefusedRows, BulkRefusedRows DEF StepFits
<1>9. QED
  BY <1>2, <1>3, <1>4, <1>5, <1>6, <1>7, <1>8 DEF AdminNext, CoreSteps, BeginLeaseOpNoting

RowsHeld ==
  /\ AdminShape /\ mishaps \subseteq Mishaps /\ (overtaken \/ FreshIds)
  /\ RowsTrusted => RowParts

LEMMA RowsHeldIs == RowsHeld <=> AdminRowInvariant
BY DEF RowsHeld, AdminRowInvariant, RowParts

LEMMA RowsHeldStep ==
  ASSUME QueueAssumption, RowsHeld, [AdminNext]_adminVars
  PROVE  RowsHeld'
<1>1. AdminShape' /\ ShapeFit /\ FoundFits
  BY AdminShapeStep, ShapeIs DEF RowsHeld
<1>2. mishaps \subseteq mishaps' /\ mishaps' \subseteq Mishaps
  BY MishapsGrow DEF RowsHeld
<1>3. RowsTrusted' => RowParts'
  BY <1>1, <1>2, AdminStepRows DEF RowsHeld, RowsTrusted
<1>4. overtaken' \/ FreshIds'
  BY <1>1, AdminFresh DEF RowsHeld
<1>5. QED
  BY <1>1, <1>2, <1>3, <1>4 DEF RowsHeld, Mishaps

LEMMA RowsHeldHolds == AdminSpec => []RowsHeld
<1>1. AdminInit => RowsHeld
  BY AdminStarts, QueueAssumption DEF RowsHeld, RowsFit, FreshIds, QueuedEnqueues
<1>2. RowsHeld /\ [AdminNext]_adminVars => RowsHeld'
  BY RowsHeldStep, QueueAssumption
<1>3. QED
  BY <1>1, <1>2, PTL DEF AdminSpec

\* AdminRowInvariant holds in every reachable state, whatever of the mishaps
\* happens: the operation at the head of the chain, its store call and what an
\* administration call has located fit together; and until such a call misses its
\* row or two rows get one id, every row is in one place, however enqueues, claims,
\* timers, clear, replaceAll, tryDequeue and administration calls are interleaved.
THEOREM AdminRowsHold == AdminSpec => []AdminRowInvariant
<1>1. RowsHeld => AdminRowInvariant
  BY RowsHeldIs
<1>2. QED
  BY <1>1, RowsHeldHolds, PTL

\* No operation puts a row in two places, nor leaves one in the FIFO beside its
\* copy in the delay heap, until one of those two mishaps.
THEOREM AdminOnePlace == AdminSpec => []AdminRowInOnePlace
<1>1. RowsHeld => AdminRowInOnePlace
  BY DEF RowsHeld, AdminRowInOnePlace, RowsTrusted, RowParts
<1>2. QED
  BY <1>1, RowsHeldHolds, PTL
-----------------------------------------------------------------------------
(* The delay timer.                                                         *)

\* The operations of DurableQueueAdmin that only queue, start, or give up.
QuietDelay ==
  \/ AdminCalls \/ DequeueRefused \/ FinishDequeue \/ BeginBulk
  \/ BulkStoreApplies \/ NextPut \/ BulkRefused \/ BeginJobCall \/ JobCallRefused

\* Those leave the delay heap and its timer alone.
LEMMA QuietDelayStays ==
  ASSUME QueueAssumption, ShapeFit, DelayParts, QuietDelay
  PROVE  DelayParts'
<1>1. UNCHANGED <<delayed, delayTimer>>
  <2>1. CASE AdminCalls
    BY <2>1, AdminCallsRows DEF OnlyQueued, memVars
  <2>2. CASE \/ DequeueRefused \/ FinishDequeue \/ BeginBulk \/ BulkStoreApplies
             \/ NextPut \/ BulkRefused
    BY <2>2 DEF DequeueRefused, FinishDequeue, BeginBulk, BulkStoreApplies, NextPut,
       BulkRefused, memVars
  <2>3. CASE BeginJobCall \/ JobCallRefused
    BY <2>3 DEF BeginJobCall, JobCallRefused, memVars
  <2>4. QED
    BY <2>1, <2>2, <2>3 DEF QuietDelay
<1>2. QED
  BY <1>1, DelayStays

\* An administration call that leaves the timer alone leaves the heap alone too:
\* it re-arms for the heap it leaves behind whenever it takes a delayed row or
\* adds one.
LEMMA FinishJobDelay ==
  ASSUME DelayParts, FinishJobCall
  PROVE  DelayParts'
<1>1. \/ delayed' = delayed /\ delayTimer' = delayTimer
      \/ ArmDelayTimer(delayed')
  BY DEF FinishJobCall, DelayTimerStands
<1>2. \A d \in HeapWithoutFound : d.at # None
  BY DEF HeapWithoutFound, DelayParts
<1>3. \A d \in delayed' : d.at # None
  <2>1. CASE delayed' = HeapWithoutFound
    BY <1>2, <2>1
  <2>2. CASE /\ delayed' = HeapWithoutFound \cup {DelayedRow(cur.id, cur.rec)}
             /\ cur.rec.at # 0
    BY <1>2, <2>2 DEF DelayedRow
  <2>3. QED
    BY <2>1, <2>2 DEF FinishJobCall
<1>4. QED
  BY <1>1, <1>3, DelayStays, ArmDelayCovers

LEMMA DelayStep ==
  ASSUME QueueAssumption, AdminShape, DelayParts, [AdminNext]_adminVars
  PROVE  DelayParts'
<1>1. ShapeFit /\ (hyd.pc = "clear" => hyd.now \in Nat)
  BY ShapeIs DEF ShapeFit, AdminTypeOK, HydTypeOK, NoHydrate
<1>2. CASE UNCHANGED adminVars
  BY <1>2, DelayStays DEF adminVars, vars, memVars
<1>3. CASE CoreSteps \/ BeginEnqueue \/ BeginLeaseOp \/ CrashMidway
  BY <1>1, <1>3, CoreDelay DEF CoreSteps, CrashMidway, Begins
<1>4. CASE BeginDequeue
  BY <1>4, PromotesCovers DEF BeginDequeue
<1>5. CASE FinishBulk
  BY <1>5 DEF FinishBulk, DelayParts, DelayTimerCovers
<1>6. CASE FinishJobCall
  BY <1>6, FinishJobDelay
<1>7. CASE QuietDelay
  BY <1>1, <1>7, QuietDelayStays
<1>8. QED
  BY <1>2, <1>3, <1>4, <1>5, <1>6, <1>7, CoreLikeSteps DEF CoreLike, AdminQuiet, QuietDelay

\* Whatever cancelJob, rescheduleJob and promoteJob take from the delay heap or
\* add to it, whatever replaceAll and clear drop, and whichever of the mishaps
\* happens, the delay timer is set for the earliest of the rows that still wait.
THEOREM AdminDelayHolds == AdminSpec => []DelayTimerCovers
<1>1. AdminInit => AdminShape /\ DelayParts
  BY AdminStarts, QueueAssumption DEF AdminInit, Init, DelayParts, DelayTimerCovers
<1>2. AdminShape /\ DelayParts /\ [AdminNext]_adminVars => AdminShape' /\ DelayParts'
  BY AdminShapeStep, DelayStep, QueueAssumption
<1>3. DelayParts => DelayTimerCovers
  BY DEF DelayParts
<1>4. QED
  BY <1>1, <1>2, <1>3, PTL DEF AdminSpec
-----------------------------------------------------------------------------
(* Memory and store.                                                         *)

LEMMA Fits == RowsFit <=> ShapeFit /\ RowParts
BY DEF RowsFit

\* An operation of either module begins, goes on or ends: memory has changed, the
\* store has not, and no answered call is left.
LEMMA AdminChainStep ==
  ASSUME StoreParts, hydrated, UNCHANGED <<store, now, hydrated, hyd>>,
         Ahead' = {}, AdminCallWrites',
         Backed(available', delayed', leased', {}),
         DOMAIN store \subseteq
           Everything(available', delayed', DOMAIN leased', InFlight'),
         \A i \in DOMAIN leased' : leased'[i].gen # None
  PROVE  StoreParts'
<1>1. Backed(available, delayed, leased, Ahead)'
  BY DEF Backed, Waiting, Delaying, Leasing, Same
<1>2. RowsBacked'
  BY <1>1, Placement DEF RowsBacked
<1>3. ColdStart' /\ LeasesNumbered' /\ LoadFits'
  BY DEF StoreParts, ColdStart, LeasesNumbered, LoadFits
<1>4. ~JobApplied'
  BY DEF JobApplied, JobRuns, Ahead
<1>5. QED
  BY <1>2, <1>3, <1>4 DEF StoreParts, MemoryBacked

\* What the steps below start from, while one of this module's operations runs.
LEMMA AdminStoreTypes ==
  ASSUME RowsFit, StoreParts, chain # <<>>,
         Head(chain).kind \in {"dequeue"} \cup Bulk \cup JobKinds
  PROVE  /\ hydrated /\ MemTypeOK /\ now \in Nat /\ available \in Seq(Row)
         /\ \A i \in DOMAIN store : store[i] \in Stored
         /\ \A i \in DOMAIN leased : leased[i].gen # None
         /\ hyd.pc # "clear" /\ ShapeFit /\ RowInOnePlace
         /\ Placed(available, delayed, DOMAIN leased, InFlight)
         /\ PlacedIds = Everything(available, delayed, DOMAIN leased, InFlight)
         /\ cur = Idle => Ahead = {} /\ InFlight = {}
         /\ ~BulkApplied /\ ~JobApplied =>
              /\ Backed(available, delayed, leased, Ahead)
              /\ DOMAIN store \subseteq PlacedIds \cup Ahead
         /\ cur # Idle /\ Head(chain).kind = "dequeue" =>
              /\ DequeueWrites /\ InFlight = {cur.id} /\ cur.pc = "main"
              /\ cur.id \in Ids /\ cur.rec \in Stored /\ cur \in Call
              /\ ~BulkApplied /\ ~JobApplied
         /\ cur # Idle /\ Head(chain).kind \in JobKinds =>
              /\ JobRuns /\ JobWrites /\ InFlight = {} /\ cur.pc = "main"
              /\ cur.id \in Ids /\ cur.rec \in Stored /\ cur \in Call /\ ~BulkApplied
         /\ cur # Idle /\ Head(chain).kind \in Bulk =>
              /\ BulkRuns /\ BulkFits /\ InFlight = {} /\ cur.id \in Nat
              /\ BulkApplied => BulkWrites
              /\ ~JobApplied
<1>1. /\ hydrated /\ MemTypeOK /\ now \in Nat /\ available \in Seq(Row)
      /\ \A i \in DOMAIN store : store[i] \in Stored
  BY StoreTypes
<1>2. /\ \A i \in DOMAIN leased : leased[i].gen # None
      /\ MemoryBacked /\ AdminCallWrites
  BY DEF StoreParts, LeasesNumbered
<1>3. /\ hyd.pc # "clear" /\ ShapeFit /\ RowInOnePlace
      /\ Placed(available, delayed, DOMAIN leased, InFlight)
      /\ PlacedIds = Everything(available, delayed, DOMAIN leased, InFlight)
      /\ cur = Idle => InFlight = {}
      /\ cur # Idle /\ Head(chain).kind \in {"dequeue"} \cup JobKinds =>
           /\ cur.pc = "main" /\ cur \in Call /\ cur.id \in Ids /\ cur.rec \in Stored
      /\ cur # Idle /\ Head(chain).kind \in Bulk =>
           BulkFits /\ cur.id \in Nat /\ InFlight = {}
  BY AdminRuns, Fits DEF RowParts
<1>4. cur = Idle => Ahead = {}
  BY DEF Ahead
<1>5. ~BulkApplied /\ ~JobApplied =>
        /\ Backed(available, delayed, leased, Ahead)
        /\ DOMAIN store \subseteq PlacedIds \cup Ahead
  BY <1>1, <1>2 DEF MemoryBacked, RowsBacked
<1>6. /\ JobRuns <=> cur # Idle /\ Head(chain).kind \in JobKinds
      /\ BulkRuns <=> cur # Idle /\ Head(chain).kind \in Bulk
      /\ DequeueRuns <=> cur # Idle /\ Head(chain).kind = "dequeue"
  BY DEF JobRuns, BulkRuns, DequeueRuns, Running, JobKinds, Bulk
<1>7. cur # Idle /\ Head(chain).kind = "dequeue" =>
        DequeueWrites /\ InFlight = {cur.id} /\ ~BulkApplied /\ ~JobApplied
  BY <1>2, <1>3, <1>6 DEF AdminCallWrites, InFlight, Running, BulkApplied,
     JobApplied, JobKinds, Bulk
<1>8. cur # Idle /\ Head(chain).kind \in JobKinds =>
        JobRuns /\ JobWrites /\ InFlight = {} /\ ~BulkApplied
  BY <1>2, <1>3, <1>6 DEF AdminCallWrites, InFlight, Running, BulkApplied,
     JobKinds, Bulk
<1>9. cur # Idle /\ Head(chain).kind \in Bulk =>
        BulkRuns /\ (BulkApplied => BulkWrites) /\ ~JobApplied
  BY <1>2, <1>6 DEF AdminCallWrites, JobApplied, JobKinds, Bulk
<1>10. QED
  BY <1>1, <1>2, <1>3, <1>4, <1>5, <1>7, <1>8, <1>9

\* tryDequeue starts: its row leaves memory while the store still has it.
LEMMA BeginDequeueStore ==
  ASSUME RowsFit, StoreParts, BeginDequeue
  PROVE  StoreParts'
<1>1. /\ chain # <<>> /\ Head(chain).kind = "dequeue" /\ cur = Idle
      /\ UNCHANGED <<leased, store, now, hydrated, hyd>>
  BY DEF BeginDequeue, Starting, Running, hydVars, storeVars
<1>2. /\ hydrated /\ MemTypeOK /\ \A i \in DOMAIN leased : leased[i].gen # None
      /\ \A i \in DOMAIN store : store[i] \in Stored
      /\ Backed(available, delayed, leased, {}) /\ InFlight = {}
      /\ DOMAIN store \subseteq Everything(available, delayed, DOMAIN leased, {})
  <2>1. ~BulkApplied /\ ~JobApplied
    BY <1>1 DEF BulkApplied, JobApplied, BulkRuns, JobRuns
  <2>2. QED
    BY <1>1, <2>1, AdminStoreTypes
<1>3. PICK av \in Drained :
        /\ Promotes(av)
        /\ IF av = <<>>
             THEN available' = av /\ EndOp
             ELSE /\ available' = Tail(av)
                  /\ CallStore(TRUE, Head(av).id, None, Cleared(Head(av)))
                  /\ UNCHANGED chain
  BY DEF BeginDequeue
<1>4. /\ delayed' = delayed \ Due /\ av \in Seq(Row)
      /\ Backed(av, delayed', leased', {})
      /\ DOMAIN store \subseteq Everything(av, delayed', DOMAIN leased', {})
  <2>1. delayed' = delayed \ Due /\ av \in Seq(Row)
    BY <1>2, <1>3, DrainedType DEF Promotes, MemTypeOK
  <2>2. /\ Backed(av, delayed \ Due, leased, {})
        /\ Everything(available, delayed, DOMAIN leased, {})
             \subseteq Everything(av, delayed \ Due, DOMAIN leased, {})
    BY <1>2, DrainBacked
  <2>3. QED
    BY <1>1, <1>2, <2>1, <2>2
<1>5. CASE av = <<>>
  <2>1. available' = av /\ EndOp
    BY <1>3, <1>5
  <2>2. QED
    BY <1>1, <1>2, <1>4, <2>1, ChainEnds
<1>6. CASE av # <<>>
  <2>1. /\ available' = Tail(av) /\ chain' = chain
        /\ cur' = [pc |-> "main", reply |-> "wait", del |-> TRUE,
                   id |-> Head(av).id, gen |-> None, rec |-> Cleared(Head(av)),
                   due |-> 0, now |-> 0]
    BY <1>3, <1>6 DEF CallStore
  <2>2. /\ cur' # Idle /\ cur'.reply = "wait" /\ cur'.del /\ cur'.pc = "main"
        /\ cur'.id = Head(av).id /\ cur'.rec = Cleared(Head(av))
    BY <2>1 DEF Idle
  <2>3. /\ DequeueRuns' /\ ~JobRuns' /\ ~BulkRuns' /\ InFlight' = {Head(av).id}
        /\ Ahead' = {}
    BY <1>1, <2>1, <2>2 DEF DequeueRuns, JobRuns, BulkRuns, Running, InFlight, Ahead,
       JobKinds, Bulk
  <2>4. /\ Backed(Tail(av), delayed', leased', {}) /\ Waiting(Head(av))
        /\ Everything(av, delayed', DOMAIN leased', {})
             \subseteq Everything(Tail(av), delayed', DOMAIN leased', {Head(av).id})
    BY <1>4, <1>6, PopBacked
  <2>5. DequeueWrites'
    <3>1. /\ Head(av).id \in DOMAIN store /\ store[Head(av).id].at <= now
          /\ [store[Head(av).id] EXCEPT !.at = 0] = Cleared(Head(av))
      BY <1>2, <2>4, RecordFields DEF Waiting
    <3>2. Cleared(Cleared(Head(av))) = Cleared(Head(av))
      BY DEF Cleared
    <3>3. QED
      BY <1>1, <2>2, <3>1, <3>2 DEF DequeueWrites
  <2>6. AdminCallWrites'
    BY <2>3, <2>5 DEF AdminCallWrites, BulkApplied
  <2>7. QED
    BY <1>1, <1>2, <1>4, <2>1, <2>3, <2>4, <2>6, AdminChainStep
<1>7. QED
  BY <1>5, <1>6

\* A refused tryDequeue has its row back in memory; a finished one has its row
\* in neither.
LEMMA EndDequeueStore ==
  ASSUME RowsFit, StoreParts, DequeueRefused \/ FinishDequeue
  PROVE  StoreParts'
<1>1. /\ chain # <<>> /\ Head(chain).kind = "dequeue" /\ cur # Idle /\ EndOp
      /\ UNCHANGED <<delayed, leased, store, now, hydrated, hyd>>
  BY DEF DequeueRefused, FinishDequeue, Replied, Running, memVars, hydVars, storeVars
<1>2. /\ hydrated /\ available \in Seq(Row) /\ \A i \in DOMAIN leased : leased[i].gen # None
      /\ \A i \in DOMAIN store : store[i] \in Stored
      /\ Backed(available, delayed, leased, Ahead) /\ InFlight = {cur.id}
      /\ DOMAIN store \subseteq PlacedIds \cup Ahead
      /\ Placed(available, delayed, DOMAIN leased, InFlight)
      /\ PlacedIds = Everything(available, delayed, DOMAIN leased, InFlight)
      /\ DequeueWrites /\ cur.id \in Ids /\ cur.rec \in Stored
  BY <1>1, AdminStoreTypes
<1>3. CASE DequeueRefused
  <2>1. /\ cur.reply = "err" /\ available' = Append(available, RowOf(cur.id, cur.rec))
    BY <1>3 DEF DequeueRefused, Replied
  <2>2. Ahead = {}
    BY <2>1 DEF Ahead
  <2>3. PICK row : row = RowOf(cur.id, cur.rec)
    OBVIOUS
  <2>4. row \in Row /\ row.id = cur.id
    BY <1>2, <2>3 DEF RowOf, Row, Stored
  <2>5. Waiting(row)
    <3>1. /\ cur.id \in DOMAIN store /\ store[cur.id].at <= now
          /\ [store[cur.id] EXCEPT !.at = 0] = Cleared(cur.rec)
      BY <1>2, <2>1 DEF DequeueWrites
    <3>2. Same(store[cur.id], cur.rec)
      BY <1>2, <3>1, RecordFields
    <3>3. QED
      BY <2>3, <3>1, <3>2 DEF Waiting, Same, RowOf
  <2>6. /\ Backed(Append(available, row), delayed, leased, {})
        /\ Everything(Append(available, row), delayed, DOMAIN leased, {})
             = Everything(available, delayed, DOMAIN leased, {}) \cup {cur.id}
    <3>1. available \in Seq(Row) /\ Backed(available, delayed, leased, {})
      BY <1>2, <2>2
    <3>2. PICK w : w = Append(available, row)
      OBVIOUS
    <3>3. SeqIds(w) = SeqIds(available) \cup {cur.id}
      BY <2>4, <3>1, <3>2, AppendIds
    <3>4. Backed(w, delayed, leased, {})
      BY <2>4, <2>5, <3>1, <3>2, AppendBacked
    <3>5. QED
      BY <3>2, <3>3, <3>4 DEF Everything
  <2>7. DOMAIN store \subseteq Everything(available, delayed, DOMAIN leased, {}) \cup {cur.id}
    BY <1>2, <2>2 DEF Everything
  <2>8. QED
    BY <1>1, <1>2, <2>1, <2>3, <2>6, <2>7, ChainEnds
<1>4. CASE FinishDequeue
  <2>1. cur.reply = "ok" /\ available' = available
    BY <1>4 DEF FinishDequeue, Replied, memVars
  <2>2. cur.id \notin DOMAIN store /\ Ahead = {cur.id}
    BY <1>1, <1>2, <2>1 DEF DequeueWrites, Ahead
  <2>3. cur.id \notin DOMAIN leased
    BY <1>2 DEF Placed
  <2>4. Backed(available, delayed, leased, {})
    BY <1>2, <2>2, <2>3, ShrinkBacked
  <2>5. DOMAIN store \subseteq Everything(available, delayed, DOMAIN leased, {})
    BY <1>2, <2>2 DEF Everything
  <2>6. QED
    BY <1>1, <1>2, <2>1, <2>4, <2>5, ChainEnds
<1>5. QED
  BY <1>3, <1>4

\* clear and replaceAll: the store is emptied or replaced.
LEMMA BeginBulkStore ==
  ASSUME RowsFit, StoreParts, BeginBulk
  PROVE  StoreParts'
<1>1. /\ chain # <<>> /\ Head(chain).kind \in Bulk /\ cur = Idle
      /\ UNCHANGED <<available, delayed, leased, store, now, hydrated, hyd>>
  BY DEF BeginBulk, Starting, Running, memVars, hydVars, storeVars
<1>2. /\ hydrated /\ \A i \in DOMAIN leased : leased[i].gen # None
      /\ Backed(available, delayed, leased, {})
      /\ DOMAIN store \subseteq Everything(available, delayed, DOMAIN leased, {})
  <2>1. ~BulkApplied /\ ~JobApplied
    BY <1>1 DEF BulkApplied, JobApplied, BulkRuns, JobRuns
  <2>2. QED
    BY <1>1, <2>1, AdminStoreTypes
<1>3. CASE EndOp
  BY <1>1, <1>2, <1>3, ChainEnds
<1>4. CASE ~EndOp
  <2>1. PICK pc \in {"batch", "clear"} : BulkCall(pc) /\ UNCHANGED chain
    BY <1>4 DEF BeginBulk
  <2>2. cur' # Idle /\ cur'.pc # "main" /\ cur'.reply = "wait"
    BY <2>1 DEF BulkCall, Idle
  <2>3. /\ BulkRuns' /\ ~DequeueRuns' /\ ~JobRuns' /\ ~BulkApplied'
        /\ InFlight' = {} /\ Ahead' = {}
    BY <1>1, <2>1, <2>2 DEF BulkRuns, DequeueRuns, JobRuns, BulkApplied, Running,
       InFlight, Ahead, Bulk, JobKinds
  <2>4. AdminCallWrites'
    BY <2>3 DEF AdminCallWrites
  <2>5. QED
    BY <1>1, <1>2, <2>3, <2>4, AdminChainStep
<1>5. QED
  BY <1>3, <1>4

\* What planReplaceRows plans: no lease, no delay, the first attempt.
LEMMA PlannedFields ==
  ASSUME NEW items \in Seq(Jobs), NEW i \in 1..Len(items)
  PROVE  /\ Planned(items)[i].id = i
         /\ Planned(items)[i].job = PlannedStore(items)[i].job
         /\ Planned(items)[i].attempt = PlannedStore(items)[i].attempt
         /\ PlannedStore(items)[i].at = 0
         /\ PlannedStore(items)[i].gen = None /\ PlannedStore(items)[i].exp = None
<1>1. i \in DOMAIN items
  OBVIOUS
<1>2. /\ Planned(items)[i] = [id |-> i, job |-> items[i], attempt |-> 1]
      /\ PlannedStore(items)[i] = Cleared(Planned(items)[i])
  BY <1>1 DEF Planned, PlannedStore
<1>3. QED
  BY <1>2 DEF Cleared

\* The store now has the planned records it was given, and nothing else.
LEMMA BulkWritten ==
  ASSUME RowsFit, chain # <<>>, Head(chain).kind \in Bulk,
         UNCHANGED <<leased, chain, now, hydrated, hyd, leaseGenSeq, tokens, leaseTimer>>,
         hydrated, hyd.pc # "clear",
         BulkApplied', BulkWrites', BulkDone' \in 0..Len(BulkItems),
         \A i \in DOMAIN leased : leased[i].gen # None
  PROVE  StoreParts'
<1>1. /\ BulkItems \in Seq(Jobs) /\ BulkItems' = BulkItems /\ Len(BulkItems) \in Nat
  BY BulkHead, Fits DEF BulkItems
<1>2. /\ DOMAIN store' = 1..BulkDone'
      /\ \A i \in DOMAIN store' : store'[i] = PlannedStore(BulkItems)[i]
  BY <1>1 DEF BulkWrites, PlannedStore, Planned
<1>3. \A i \in DOMAIN store' : store'[i].gen = None /\ store'[i].exp = None
  <2>1. \A i \in DOMAIN store' : i \in 1..Len(BulkItems)
    BY <1>1, <1>2
  <2>2. \A i \in 1..Len(BulkItems) :
          /\ PlannedStore(BulkItems)[i].gen = None
          /\ PlannedStore(BulkItems)[i].exp = None
    BY <1>1, PlannedFields
  <2>3. QED
    BY <1>2, <2>1, <2>2
<1>4. LeasesNumbered' /\ ColdStart' /\ LoadFits' /\ MemoryBacked'
  BY <1>3 DEF LeasesNumbered, ColdStart, LoadFits, MemoryBacked
<1>5. BulkRuns' /\ ~DequeueRuns' /\ ~JobRuns'
  BY DEF BulkApplied, BulkRuns, DequeueRuns, JobRuns, Running, Bulk, JobKinds
<1>6. AdminCallWrites'
  BY <1>5 DEF AdminCallWrites
<1>7. QED
  BY <1>4, <1>6 DEF StoreParts

\* A clear or a batched replaceAll is applied by the store at once.
LEMMA BulkAppliesStore ==
  ASSUME RowsFit, StoreParts, BulkStoreApplies
  PROVE  StoreParts'
<1>1. /\ cur # Idle /\ cur.pc \in {"batch", "clear"}
      /\ cur' = [cur EXCEPT !.reply = "ok"]
      /\ UNCHANGED <<leased, chain, now, hydrated, hyd, leaseGenSeq, tokens, leaseTimer>>
  BY DEF BulkStoreApplies, Idle, memVars, hydVars, idVars, callerVars
<1>2. cur \in WholeCall /\ chain # <<>> /\ ShapeParts
  BY <1>1, StoreTypes DEF Call
<1>3. /\ cur' # Idle /\ cur'.pc = cur.pc /\ cur'.id = 0 /\ cur'.reply = "ok"
  BY <1>1, <1>2 DEF WholeCall, Idle
<1>4. BulkFits /\ Head(chain).kind \in Bulk
  BY <1>1, <1>2 DEF ShapeParts, AdminCallFits, CallFitsOperation, BulkFits, Running, Bulk
<1>5. /\ BulkItems \in Seq(Jobs) /\ BulkItems' = BulkItems /\ Len(BulkItems) \in Nat
      /\ hydrated /\ hyd.pc # "clear" /\ \A i \in DOMAIN leased : leased[i].gen # None
  BY <1>1, <1>2, <1>4, BulkHead, Fits, AdminStoreTypes DEF BulkItems
<1>6. BulkApplied'
  BY <1>1, <1>2, <1>3, <1>4 DEF BulkApplied, BulkRuns, Running
<1>7. CASE cur.pc = "batch"
  <2>1. Running("replace") /\ Head(chain).items = BulkItems
    BY <1>2, <1>4, <1>7, BulkHead, Fits DEF BulkFits
  <2>2. store' = PlannedStore(BulkItems)
    BY <1>7, <2>1 DEF BulkStoreApplies
  <2>3. BulkDone' = Len(BulkItems)
    BY <1>3, <1>5, <1>7 DEF BulkDone
  <2>4. BulkWrites'
    BY <1>3, <1>5, <1>7, <2>2, <2>3, PlannedIs DEF BulkWrites
  <2>5. QED
    BY <1>1, <1>2, <1>4, <1>5, <1>6, <2>3, <2>4, BulkWritten
<1>8. CASE cur.pc = "clear"
  <2>1. store' = EmptyMap
    BY <1>8 DEF BulkStoreApplies
  <2>2. BulkDone' = 0
    BY <1>3, <1>8 DEF BulkDone
  <2>3. BulkWrites'
    BY <1>3, <1>8, <2>1, <2>2 DEF BulkWrites, EmptyMap
  <2>4. QED
    BY <1>1, <1>2, <1>4, <1>5, <1>6, <2>2, <2>3, BulkWritten
<1>9. QED
  BY <1>1, <1>7, <1>8

\* The next record of a replaceAll that is written one by one.
LEMMA NextPutStore ==
  ASSUME RowsFit, StoreParts, NextPut
  PROVE  StoreParts'
<1>1. /\ chain # <<>> /\ Head(chain).kind \in Bulk /\ cur # Idle /\ cur.reply = "ok"
      /\ cur.pc # "batch" /\ Upcoming <= Len(BulkItems)
      /\ cur' = [pc |-> "main", reply |-> "wait", del |-> FALSE, id |-> Upcoming,
                 gen |-> None, rec |-> PlannedStore(BulkItems)[Upcoming],
                 due |-> 0, now |-> 0]
      /\ UNCHANGED <<leased, chain, now, hydrated, hyd, leaseGenSeq, tokens,
                     leaseTimer, store>>
  BY DEF NextPut, BulkReplied, Running, BulkLeft, CallStore, memVars, hydVars, idVars,
     callerVars, storeVars
<1>2. /\ BulkRuns /\ BulkApplied /\ cur.id \in Nat /\ BulkWrites
      /\ hydrated /\ hyd.pc # "clear" /\ \A i \in DOMAIN leased : leased[i].gen # None
  BY <1>1, AdminStoreTypes DEF BulkApplied
<1>3. BulkItems' = BulkItems /\ Len(BulkItems) \in Nat
  BY <1>1, BulkHead, Fits DEF BulkItems
<1>4. /\ cur' # Idle /\ cur'.pc = "main" /\ cur'.reply = "wait" /\ ~cur'.del
      /\ cur'.id = cur.id + 1 /\ cur'.rec = PlannedStore(BulkItems)[cur'.id]
  BY <1>1 DEF Idle, Upcoming
<1>5. BulkApplied' /\ BulkDone = cur.id /\ BulkDone' = cur.id
  BY <1>1, <1>2, <1>4 DEF BulkApplied, BulkRuns, Running, BulkDone
<1>6. BulkWrites'
  BY <1>1, <1>2, <1>3, <1>4, <1>5 DEF BulkWrites, PlannedStore, Planned
<1>7. cur.id \in 0..Len(BulkItems)
  BY <1>1, <1>2, <1>3 DEF Upcoming
<1>8. QED
  BY <1>1, <1>2, <1>5, <1>6, <1>7, BulkWritten

\* Memory becomes what the store has been given.
LEMMA FinishBulkStore ==
  ASSUME RowsFit, StoreParts, FinishBulk
  PROVE  StoreParts'
<1>1. /\ chain # <<>> /\ Head(chain).kind \in Bulk /\ cur # Idle /\ cur.reply = "ok"
      /\ cur.pc = "batch" \/ ~(Upcoming <= Len(BulkItems))
      /\ available' = Planned(BulkItems) /\ delayed' = {} /\ leased' = EmptyMap /\ EndOp
      /\ UNCHANGED <<now, store, hydrated, hyd>>
  BY DEF FinishBulk, BulkReplied, Running, BulkLeft, hydVars
<1>2. /\ BulkRuns /\ BulkApplied /\ cur.id \in Nat /\ BulkWrites /\ BulkFits /\ hydrated
      /\ now \in Nat
  BY <1>1, AdminStoreTypes DEF BulkApplied
<1>3. /\ BulkItems \in Seq(Jobs) /\ Len(BulkItems) \in Nat
      /\ DOMAIN BulkItems = 1..Len(BulkItems)
      /\ Running("replace") => BulkItems = Head(chain).items
      /\ ~Running("replace") => BulkItems = <<>>
  BY <1>1, BulkHead, Fits
<1>4. BulkDone = Len(BulkItems)
  <2>1. CASE cur.pc = "batch"
    BY <2>1 DEF BulkDone
  <2>2. CASE cur.pc = "clear"
    <3>1. cur.id = 0
      BY <1>1, <2>2, StoreTypes DEF Call, WholeCall
    <3>2. QED
      BY <1>1, <1>3, <2>2, <3>1 DEF BulkDone, Upcoming
  <2>3. CASE cur.pc = "main"
    <3>1. cur.id \in 1..Len(BulkItems)
      BY <1>2, <1>3, <2>3 DEF BulkFits
    <3>2. QED
      BY <1>1, <1>3, <2>3, <3>1 DEF BulkDone, Upcoming
  <2>4. QED
    BY <1>2, <2>1, <2>2, <2>3 DEF BulkFits
<1>5. /\ DOMAIN store = 1..Len(BulkItems)
      /\ \A i \in 1..Len(BulkItems) : store[i] = PlannedStore(BulkItems)[i]
  BY <1>2, <1>4 DEF BulkWrites
<1>6. \A i \in 1..Len(BulkItems) : Waiting(Planned(BulkItems)[i])
  <2> SUFFICES ASSUME NEW i \in 1..Len(BulkItems)
               PROVE  Waiting(Planned(BulkItems)[i])
    OBVIOUS
  <2>1. PICK r, s : r = Planned(BulkItems)[i] /\ s = PlannedStore(BulkItems)[i]
    OBVIOUS
  <2>2. /\ r.id = i /\ r.job = s.job /\ r.attempt = s.attempt
        /\ s.at = 0 /\ s.gen = None /\ s.exp = None
    BY <1>3, <2>1, PlannedFields
  <2>3. i \in DOMAIN store /\ store[i] = s
    BY <1>5, <2>1
  <2>4. Waiting(r)
    BY <1>2, <2>2, <2>3 DEF Waiting, Same
  <2>5. QED
    BY <2>1, <2>4
<1>7. Backed(available', delayed', leased', {})
  <2>1. DOMAIN Planned(BulkItems) = 1..Len(BulkItems)
    BY <1>3 DEF Planned
  <2>2. QED
    BY <1>1, <1>6, <2>1 DEF Backed, EmptyMap
<1>8. DOMAIN store \subseteq Everything(available', delayed', DOMAIN leased', {})
  BY <1>1, <1>3, <1>5, PlannedIs DEF Everything
<1>9. \A i \in DOMAIN leased' : leased'[i].gen # None
  BY <1>1 DEF EmptyMap
<1>10. QED
  BY <1>1, <1>2, <1>7, <1>8, <1>9, ChainEnds

\* Unless it has torn the store, a refused call has changed nothing.
LEMMA BulkRefusedStore ==
  ASSUME RowsFit, StoreParts, BulkRefused, "torn" \notin mishaps'
  PROVE  StoreParts'
<1>1. /\ chain # <<>> /\ Head(chain).kind \in Bulk /\ cur # Idle /\ cur.reply = "err"
      /\ EndOp /\ ~MidReplace
      /\ UNCHANGED <<available, delayed, leased, store, now, hydrated, hyd>>
  BY DEF BulkRefused, BulkReplied, Running, Note, memVars, hydVars, storeVars
<1>2. ~BulkApplied
  <2>1. BulkFits
    BY <1>1, AdminStoreTypes
  <2>2. QED
    BY <1>1, <2>1 DEF BulkFits, MidReplace, BulkApplied, Running
<1>3. Ahead = {}
  BY <1>1 DEF Ahead
<1>4. /\ hydrated /\ \A i \in DOMAIN leased : leased[i].gen # None
      /\ Backed(available, delayed, leased, {})
      /\ DOMAIN store \subseteq Everything(available, delayed, DOMAIN leased, {})
  BY <1>1, <1>2, <1>3, AdminStoreTypes
<1>5. QED
  BY <1>1, <1>4, ChainEnds

\* An administration call locates a row and calls the store about it.
LEMMA BeginJobStore ==
  ASSUME RowsFit, StoreParts, BeginJobCall
  PROVE  StoreParts'
<1>1. /\ chain # <<>> /\ Head(chain).kind \in JobKinds /\ cur = Idle
      /\ UNCHANGED <<available, delayed, leased, store, now, hydrated, hyd>>
  BY DEF BeginJobCall, Starting, Running, memVars, hydVars, storeVars
<1>2. /\ hydrated /\ \A i \in DOMAIN leased : leased[i].gen # None
      /\ Backed(available, delayed, leased, {})
      /\ DOMAIN store \subseteq Everything(available, delayed, DOMAIN leased, {})
  <2>1. ~BulkApplied /\ ~JobApplied
    BY <1>1 DEF BulkApplied, JobApplied, BulkRuns, JobRuns
  <2>2. QED
    BY <1>1, <2>1, AdminStoreTypes
<1>3. CASE EndOp
  BY <1>1, <1>2, <1>3, ChainEnds
<1>4. CASE ~EndOp
  <2>1. PICK f \in Located(Head(chain).job) :
          /\ found' = f
          /\ CallStore(Head(chain).kind = "cancel", f.row.id, None,
                       AdminRecord(Head(chain), f))
          /\ UNCHANGED chain
    BY <1>4 DEF BeginJobCall
  <2>2. /\ cur' # Idle /\ cur'.pc = "main" /\ cur'.reply = "wait"
        /\ cur'.del <=> Head(chain).kind = "cancel"
        /\ cur'.rec = AdminRecord(Head(chain), f)
    BY <2>1 DEF CallStore, Idle
  <2>3. /\ JobRuns' /\ ~DequeueRuns' /\ ~BulkRuns' /\ InFlight' = {} /\ Ahead' = {}
        /\ \A kind : Running(kind)' <=> Head(chain).kind = kind
    BY <1>1, <2>1, <2>2 DEF BulkRuns, DequeueRuns, JobRuns, Running,
       InFlight, Ahead, Bulk, JobKinds
  <2>4. /\ cur'.rec = [Cleared(f.row) EXCEPT !.at = cur'.rec.at]
        /\ cur'.rec.at = 0 \/ Head(chain).kind = "defer"
    BY <2>2 DEF AdminRecord, Cleared
  <2>5. JobWrites'
    BY <2>1, <2>2, <2>3, <2>4 DEF JobWrites
  <2>6. AdminCallWrites'
    BY <2>3, <2>5 DEF AdminCallWrites, BulkApplied
  <2>7. QED
    BY <1>1, <1>2, <2>3, <2>6, AdminChainStep
<1>5. QED
  BY <1>3, <1>4

\* Memory catches up with what the store has of the located row.
LEMMA FinishJobStore ==
  ASSUME RowsFit, StoreParts, FoundFits, FinishJobCall, "stale" \notin mishaps'
  PROVE  StoreParts'
<1>1. PICK later : later = (Head(chain).kind = "defer" /\ cur.rec.at # 0)
  OBVIOUS
<1>2. /\ available' = IF Head(chain).kind = "cancel" \/ later THEN FifoWithoutFound
                      ELSE Append(FifoWithoutFound, RowOf(cur.id, cur.rec))
      /\ delayed' = IF later
                    THEN HeapWithoutFound \cup {DelayedRow(cur.id, cur.rec)}
                    ELSE HeapWithoutFound
  BY <1>1 DEF FinishJobCall
<1>3. /\ chain # <<>> /\ Head(chain).kind \in JobKinds /\ cur # Idle /\ EndOp /\ JobRuns
      /\ cur.reply = "ok" /\ JobApplied
      /\ UNCHANGED <<now, leased, store, hydrated, hyd>>
  BY DEF FinishJobCall, Replied, Running, JobRuns, JobApplied, hydVars, storeVars
<1>4. /\ hydrated /\ now \in Nat /\ cur.id \in Ids /\ cur.rec \in Stored /\ JobWrites
      /\ ~BulkApplied /\ \A i \in DOMAIN leased : leased[i].gen # None
  BY <1>3, AdminStoreTypes
<1>5. JobBacked
  BY <1>3, <1>4 DEF StoreParts, MemoryBacked
<1>6. PICK F : F = FifoWithoutFound
  OBVIOUS
<1>7. PICK H : H = HeapWithoutFound
  OBVIOUS
<1>8. /\ F \in Seq(Row) /\ H \subseteq delayed
      /\ Everything(F, H, DOMAIN leased, {}) = PlacedIds \ {cur.id}
      /\ SeqIds(F) = SeqIds(available) \ {cur.id}
      /\ HeapIds(H) = HeapIds(delayed) \ {cur.id}
      /\ \A k \in DOMAIN F : \E m \in DOMAIN available : F[k] = available[m]
  <2>1. found.state = "delayed" => found.row \in delayed
    BY DEF FinishJobCall, Note
  <2>2. ShapeFit /\ RowInOnePlace
    BY <1>3, AdminStoreTypes
  <2>3. QED
    BY <1>3, <1>6, <1>7, <2>1, <2>2, FoundGone, LocatedGone
<1>9. Backed(F, H, leased, {})
  <2>1. \A k \in DOMAIN F : F[k].id # cur.id
    BY <1>8 DEF SeqIds
  <2>2. \A d \in H : d.id # cur.id
    BY <1>8 DEF HeapIds
  <2>3. QED
    BY <1>5, <1>8, <2>1, <2>2 DEF JobBacked, Backed
<1>10. DOMAIN store \subseteq Everything(F, H, DOMAIN leased, {}) \cup {cur.id}
  BY <1>5, <1>8 DEF JobBacked
<1>11. CASE Head(chain).kind = "cancel"
  <2>1. ~later /\ available' = F /\ delayed' = H
    BY <1>1, <1>2, <1>6, <1>7, <1>11
  <2>2. cur.id \notin DOMAIN store
    BY <1>3, <1>4, <1>11 DEF JobWrites, Running
  <2>3. DOMAIN store \subseteq Everything(F, H, DOMAIN leased, {})
    BY <1>10, <2>2
  <2>4. QED
    BY <1>3, <1>4, <1>9, <2>1, <2>3, ChainEnds
<1>12. ASSUME Head(chain).kind # "cancel"
       PROVE  /\ cur.id \in DOMAIN store /\ store[cur.id] = cur.rec
              /\ cur.rec.gen = None /\ cur.rec.exp = None
              /\ ~later => cur.rec.at = 0
  <2>1. ~cur.del
    BY <1>4, <1>12 DEF JobWrites, Running
  <2>2. cur.id \in DOMAIN store /\ store[cur.id] = cur.rec
    BY <1>3, <1>4, <2>1 DEF JobWrites
  <2>3. cur.rec.gen = None /\ cur.rec.exp = None
    BY <1>4 DEF JobWrites, Cleared
  <2>4. ~later => cur.rec.at = 0
    BY <1>1, <1>4 DEF JobWrites, Running
  <2>5. QED
    BY <2>2, <2>3, <2>4
<1>13. CASE Head(chain).kind # "cancel" /\ later
  <2>1. PICK d : d = DelayedRow(cur.id, cur.rec)
    OBVIOUS
  <2>2. available' = F /\ delayed' = H \cup {d}
    BY <1>2, <1>6, <1>7, <1>13, <2>1
  <2>3. d.id = cur.id /\ Delaying(d)
    BY <1>12, <1>13, <2>1 DEF DelayedRow, Delaying, Same
  <2>4. Backed(F, H \cup {d}, leased, {})
    BY <1>9, <2>3 DEF Backed
  <2>5. Everything(F, H \cup {d}, DOMAIN leased, {})
          = Everything(F, H, DOMAIN leased, {}) \cup {cur.id}
    BY <2>3 DEF Everything, HeapIds
  <2>6. QED
    BY <1>3, <1>4, <1>10, <2>2, <2>4, <2>5, ChainEnds
<1>14. CASE Head(chain).kind # "cancel" /\ ~later
  <2>1. PICK r : r = RowOf(cur.id, cur.rec)
    OBVIOUS
  <2>2. PICK w : w = Append(F, r)
    OBVIOUS
  <2>3. available' = w /\ delayed' = H
    BY <1>2, <1>6, <1>7, <1>14, <2>1, <2>2
  <2>4. r \in Row /\ r.id = cur.id
    BY <1>4, <2>1 DEF RowOf, Row, Stored
  <2>5. Waiting(r)
    BY <1>4, <1>12, <1>14, <2>1 DEF RowOf, Waiting, Same
  <2>6. SeqIds(w) = SeqIds(F) \cup {cur.id}
    BY <1>8, <2>2, <2>4, AppendIds
  <2>7. Backed(w, H, leased, {})
    BY <1>8, <1>9, <2>2, <2>4, <2>5, AppendBacked
  <2>8. Everything(w, H, DOMAIN leased, {})
          = Everything(F, H, DOMAIN leased, {}) \cup {cur.id}
    BY <2>6 DEF Everything
  <2>9. QED
    BY <1>3, <1>4, <1>10, <2>3, <2>7, <2>8, ChainEnds
<1>15. QED
  BY <1>11, <1>13, <1>14

\* A refused administration call leaves both as they were.
LEMMA JobRefusedStore ==
  ASSUME RowsFit, StoreParts, JobCallRefused
  PROVE  StoreParts'
<1>1. /\ chain # <<>> /\ Head(chain).kind \in JobKinds /\ cur # Idle
      /\ cur.reply = "err" /\ EndOp
      /\ UNCHANGED <<available, delayed, leased, store, now, hydrated, hyd>>
  BY DEF JobCallRefused, Replied, Running, memVars, hydVars, storeVars
<1>2. /\ ~BulkApplied /\ ~JobApplied /\ Ahead = {} /\ InFlight = {}
  BY <1>1, AdminStoreTypes DEF JobApplied, Ahead
<1>3. /\ hydrated /\ \A i \in DOMAIN leased : leased[i].gen # None
      /\ Backed(available, delayed, leased, {})
      /\ DOMAIN store \subseteq Everything(available, delayed, DOMAIN leased, {})
  BY <1>1, <1>2, AdminStoreTypes
<1>4. QED
  BY <1>1, <1>3, ChainEnds

\* The store answers the call of one of this module's operations.
LEMMA AdminAnswer ==
  ASSUME RowsFit, StoreParts, ~CoreAtHead, StoreApplies \/ StoreRefuses
  PROVE  /\ cur # Idle /\ cur.reply = "wait" /\ chain # <<>>
         /\ Head(chain).kind \in {"dequeue"} \cup Bulk \cup JobKinds
         /\ cur' # Idle /\ cur'.pc = cur.pc /\ cur'.id = cur.id
         /\ cur'.reply = IF StoreApplies THEN "ok" ELSE "err"
         /\ cur \in Call => cur'.rec = cur.rec /\ cur'.del = cur.del
         /\ StoreApplies => cur.pc = "main" \/ cur.pc = "reclaim"
         /\ InFlight' = InFlight /\ Ahead = {} /\ PlacedIds' = PlacedIds
         /\ JobRuns' <=> JobRuns
         /\ BulkRuns' <=> BulkRuns
         /\ DequeueRuns' <=> DequeueRuns
         /\ UNCHANGED <<available, delayed, leased, hydVars, chain, now,
                        leaseGenSeq, tokens, leaseTimer>>
         /\ ColdStart' /\ LoadFits'
<1>1. /\ cur # Idle /\ cur.reply = "wait"
      /\ StoreApplies => cur.pc = "main" \/ cur.pc = "reclaim"
      /\ UNCHANGED <<available, delayed, leased, hydVars, chain, now,
                     leaseGenSeq, tokens, leaseTimer>>
  BY DEF StoreApplies, StoreRefuses, Idle, memVars, idVars, callerVars
<1>2. cur \in Call \cup WholeCall /\ chain # <<>> /\ chain \in Seq(AnyOp) /\ QuietLoad
  BY <1>1, StoreTypes DEF ShapeParts
<1>3. Head(chain).kind \in {"dequeue"} \cup Bulk \cup JobKinds
  <2>1. Head(chain) \in AnyOp
    BY <1>2
  <2>2. QED
    BY <1>2, <2>1 DEF CoreAtHead, CoreKinds, AnyOp, Op, EnqueueOp, SettleOp, RetryOp,
       ExtendOp, PlainOp, BareOp, ReplaceOp, JobOp, Bulk, JobKinds
<1>4. \/ StoreApplies /\ ~StoreRefuses /\ cur' = [cur EXCEPT !.reply = "ok"]
      \/ StoreRefuses /\ ~StoreApplies /\ cur' = [cur EXCEPT !.reply = "err"]
  <2>1. [cur EXCEPT !.reply = "ok"].reply = "ok" /\ [cur EXCEPT !.reply = "err"].reply = "err"
    BY <1>2 DEF Call, WholeCall
  <2>2. ~(StoreApplies /\ StoreRefuses)
    BY <2>1 DEF StoreApplies, StoreRefuses
  <2>3. QED
    BY <2>2 DEF StoreApplies, StoreRefuses
<1>5. /\ cur' # Idle /\ cur'.pc = cur.pc /\ cur'.id = cur.id
      /\ cur'.reply = IF StoreApplies THEN "ok" ELSE "err"
      /\ cur \in Call => cur'.rec = cur.rec /\ cur'.del = cur.del
  <2>1. ASSUME NEW a, cur' = [cur EXCEPT !.reply = a]
        PROVE  /\ cur' # Idle /\ cur'.pc = cur.pc /\ cur'.id = cur.id /\ cur'.reply = a
               /\ cur \in Call => cur'.rec = cur.rec /\ cur'.del = cur.del
    BY <1>2, <2>1 DEF Call, WholeCall, Idle
  <2>2. QED
    BY <1>4, <2>1
<1>6. \A kind : Running(kind)' <=> Running(kind)
  BY <1>1 DEF Running
<1>7. /\ JobRuns' <=> JobRuns
      /\ BulkRuns' <=> BulkRuns
      /\ DequeueRuns' <=> DequeueRuns
  BY <1>1, <1>5, <1>6 DEF JobRuns, BulkRuns, DequeueRuns
<1>8. InFlight' = InFlight /\ Ahead = {}
  BY <1>1, <1>5, <1>6 DEF InFlight, Ahead
<1>9. PlacedIds' = PlacedIds
  BY <1>1, <1>8 DEF PlacedIds, AvailableIds, AvailableRows, DelayedIds
<1>10. ColdStart'
  BY <1>1 DEF StoreParts, ColdStart, hydVars
<1>11. LoadFits'
  <2>1. hyd'.pc # "clear"
    BY <1>1, <1>2 DEF QuietLoad, hydVars
  <2>2. QED
    BY <2>1 DEF LoadFits
<1>12. QED
  BY <1>1, <1>2, <1>3, <1>5, <1>7, <1>8, <1>9, <1>10, <1>11

\* tryDequeue's removal: the popped row leaves the store, or stays.
LEMMA DequeueAnswerStore ==
  ASSUME RowsFit, StoreParts, ~CoreAtHead, StoreApplies \/ StoreRefuses,
         Head(chain).kind = "dequeue"
  PROVE  StoreParts'
<1>1. /\ cur # Idle /\ cur.reply = "wait" /\ chain # <<>>
      /\ cur' # Idle /\ cur'.pc = cur.pc /\ cur'.id = cur.id
      /\ cur'.reply = IF StoreApplies THEN "ok" ELSE "err"
      /\ cur \in Call => cur'.rec = cur.rec /\ cur'.del = cur.del
      /\ InFlight' = InFlight /\ Ahead = {} /\ PlacedIds' = PlacedIds
      /\ JobRuns' <=> JobRuns
      /\ BulkRuns' <=> BulkRuns
      /\ DequeueRuns' <=> DequeueRuns
      /\ UNCHANGED <<available, delayed, leased, hydVars, chain, now,
                     leaseGenSeq, tokens, leaseTimer>>
      /\ ColdStart' /\ LoadFits'
  BY AdminAnswer
<1>2. /\ ~BulkRuns /\ ~JobRuns
  BY <1>1 DEF BulkRuns, JobRuns, Running, Bulk, JobKinds
<1>3. ~BulkRuns' /\ ~JobRuns' /\ ~BulkApplied' /\ ~JobApplied'
  BY <1>1, <1>2 DEF BulkApplied, JobApplied
<1>4. /\ hydrated /\ \A i \in DOMAIN leased : leased[i].gen # None
      /\ Backed(available, delayed, leased, {}) /\ InFlight = {cur.id}
      /\ DOMAIN store \subseteq PlacedIds
      /\ Placed(available, delayed, DOMAIN leased, InFlight)
      /\ DequeueWrites /\ cur \in Call
  BY <1>1, AdminStoreTypes
<1>5. cur'.rec = cur.rec /\ cur'.del /\ cur.del /\ cur.rec = Cleared(cur.rec)
  BY <1>1, <1>4 DEF DequeueWrites
<1>6. CASE StoreApplies
  <2>1. cur'.reply = "ok" /\ Ahead' = {cur.id}
    BY <1>1, <1>6 DEF Ahead
  <2>2. DOMAIN store' = DOMAIN store \ {cur.id} /\ \A i \in DOMAIN store' : store'[i] = store[i]
    BY <1>5, <1>6 DEF StoreApplies, Without, Restrict
  <2>3. /\ \A k \in DOMAIN available : available[k].id # cur.id
        /\ \A d \in delayed : d.id # cur.id
        /\ cur.id \notin DOMAIN leased
    BY <1>4 DEF Placed, SeqIds, HeapIds
  <2>4. Backed(available, delayed, leased, Ahead)'
    BY <1>1, <1>4, <2>2, <2>3 DEF Backed, Waiting, Delaying, Leasing, Same
  <2>5. RowsBacked'
    BY <1>1, <1>4, <2>2, <2>4 DEF RowsBacked
  <2>6. DequeueWrites'
    BY <1>1, <1>5, <2>1, <2>2 DEF DequeueWrites
  <2>7. AdminCallWrites'
    BY <1>1, <1>2, <1>3, <1>4, <2>6, AdminStoreTypes DEF AdminCallWrites, DequeueRuns,
       Running
  <2>8. LeasesNumbered'
    BY <1>1, <2>2 DEF StoreParts, LeasesNumbered
  <2>9. QED
    BY <1>1, <1>3, <2>5, <2>7, <2>8 DEF StoreParts, MemoryBacked
<1>7. CASE StoreRefuses /\ ~StoreApplies
  <2>1. cur'.reply = "err" /\ Ahead' = {} /\ store' = store
    BY <1>1, <1>7 DEF Ahead, StoreRefuses, storeVars
  <2>2. Backed(available, delayed, leased, Ahead)'
    BY <1>1, <1>4, <2>1 DEF Backed, Waiting, Delaying, Leasing, Same
  <2>3. RowsBacked'
    BY <1>1, <1>4, <2>1, <2>2 DEF RowsBacked
  <2>4. DequeueWrites'
    BY <1>1, <1>4, <1>5, <2>1 DEF DequeueWrites
  <2>5. AdminCallWrites'
    BY <1>1, <1>2, <1>3, <2>4 DEF AdminCallWrites, DequeueRuns, Running
  <2>6. LeasesNumbered'
    BY <1>1, <2>1 DEF StoreParts, LeasesNumbered
  <2>7. QED
    BY <1>1, <1>3, <2>3, <2>5, <2>6 DEF StoreParts, MemoryBacked
<1>8. QED
  BY <1>6, <1>7

\* The store writes or removes the row that an administration call has located.
LEMMA JobAnswerStore ==
  ASSUME RowsFit, StoreParts, FoundFits, ~CoreAtHead, StoreApplies \/ StoreRefuses,
         Head(chain).kind \in JobKinds, found' = found
  PROVE  StoreParts'
<1>1. /\ cur # Idle /\ cur.reply = "wait" /\ chain # <<>>
      /\ cur' # Idle /\ cur'.pc = cur.pc /\ cur'.id = cur.id
      /\ cur'.reply = IF StoreApplies THEN "ok" ELSE "err"
      /\ cur \in Call => cur'.rec = cur.rec /\ cur'.del = cur.del
      /\ InFlight' = InFlight /\ Ahead = {} /\ PlacedIds' = PlacedIds
      /\ JobRuns' <=> JobRuns
      /\ BulkRuns' <=> BulkRuns
      /\ DequeueRuns' <=> DequeueRuns
      /\ UNCHANGED <<available, delayed, leased, hydVars, chain, now,
                     leaseGenSeq, tokens, leaseTimer>>
      /\ ColdStart' /\ LoadFits'
  BY AdminAnswer
<1>2. ~BulkRuns /\ ~DequeueRuns
  BY <1>1 DEF BulkRuns, DequeueRuns, Running, Bulk, JobKinds
<1>3. ~JobApplied
  BY <1>1 DEF JobApplied
<1>4. /\ hydrated /\ \A i \in DOMAIN leased : leased[i].gen # None
      /\ Backed(available, delayed, leased, {})
      /\ DOMAIN store \subseteq PlacedIds
      /\ JobRuns /\ JobWrites /\ cur \in Call
  BY <1>1, <1>3, AdminStoreTypes
<1>5. cur'.rec = cur.rec /\ cur'.del = cur.del
  BY <1>1, <1>4
<1>6. \A kind : Running(kind)' <=> Running(kind)
  BY <1>1 DEF Running
<1>7. CASE StoreApplies
  <2>1. cur'.reply = "ok" /\ JobApplied'
    BY <1>1, <1>4, <1>7 DEF JobApplied
  <2>2. cur.id \in PlacedIds /\ cur.id \notin DOMAIN leased
    <3>1. ShapeFit /\ Placed(available, delayed, DOMAIN leased, InFlight)
      BY <1>1, AdminStoreTypes
    <3>2. cur.id \in SeqIds(available) \cup HeapIds(delayed)
      BY <1>4 DEF FoundFits, SeqIds, HeapIds, AvailableRows, RowOf, Range
    <3>3. QED
      BY <1>4, <3>1, <3>2, FoundGone DEF Placed
  <2>3. /\ DOMAIN store' \subseteq DOMAIN store \cup {cur.id}
        /\ DOMAIN store \ {cur.id} \subseteq DOMAIN store'
        /\ \A i \in DOMAIN store \ {cur.id} : store'[i] = store[i]
        /\ cur.del => cur.id \notin DOMAIN store'
        /\ ~cur.del => cur.id \in DOMAIN store' /\ store'[cur.id] = cur.rec
    BY <1>7 DEF StoreApplies, Put, Without, Restrict
  <2>4. JobBacked'
    <3>1. \A k \in DOMAIN available :
            available[k].id # cur.id => Waiting(available[k])'
      BY <1>1, <1>4, <2>3 DEF Backed, Waiting, Same
    <3>2. \A d \in delayed : d.id # cur.id => Delaying(d)'
      BY <1>1, <1>4, <2>3 DEF Backed, Delaying, Same
    <3>3. \A i \in DOMAIN leased : Leasing(i, leased[i])'
      BY <1>1, <1>4, <2>2, <2>3 DEF Backed, Leasing
    <3>4. QED
      BY <1>1, <1>4, <2>2, <2>3, <3>1, <3>2, <3>3 DEF JobBacked
  <2>5. JobWrites'
    BY <1>1, <1>4, <1>5, <1>6, <2>3 DEF JobWrites
  <2>6. AdminCallWrites'
    BY <1>1, <1>2, <1>4, <2>5 DEF AdminCallWrites, BulkApplied
  <2>7. LeasesNumbered'
    <3>1. ~cur.del => cur.rec.exp = None
      BY <1>4 DEF JobWrites, Cleared
    <3>2. QED
      BY <1>1, <2>3, <3>1 DEF StoreParts, LeasesNumbered
  <2>8. QED
    BY <1>1, <2>1, <2>4, <2>6, <2>7 DEF StoreParts, MemoryBacked
<1>8. CASE StoreRefuses /\ ~StoreApplies
  <2>1. cur'.reply = "err" /\ Ahead' = {} /\ store' = store /\ ~JobApplied'
    BY <1>1, <1>8 DEF Ahead, StoreRefuses, storeVars, JobApplied
  <2>2. Backed(available, delayed, leased, Ahead)'
    BY <1>1, <1>4, <2>1 DEF Backed, Waiting, Delaying, Leasing, Same
  <2>3. RowsBacked'
    BY <1>1, <1>4, <2>1, <2>2 DEF RowsBacked
  <2>4. JobWrites'
    BY <1>1, <1>4, <1>5, <1>6, <2>1 DEF JobWrites
  <2>5. AdminCallWrites'
    BY <1>1, <1>2, <1>4, <2>4 DEF AdminCallWrites, BulkApplied
  <2>6. LeasesNumbered'
    BY <1>1, <2>1 DEF StoreParts, LeasesNumbered
  <2>7. QED
    BY <1>1, <2>1, <2>3, <2>5, <2>6 DEF StoreParts, MemoryBacked
<1>9. QED
  BY <1>7, <1>8

\* A call of clear or replaceAll that is refused, or a planned record that is
\* written.
LEMMA BulkAnswerStore ==
  ASSUME RowsFit, StoreParts, ~CoreAtHead, StoreApplies \/ StoreRefuses,
         Head(chain).kind \in Bulk
  PROVE  StoreParts'
<1>1. /\ cur # Idle /\ cur.reply = "wait" /\ chain # <<>>
      /\ cur' # Idle /\ cur'.pc = cur.pc /\ cur'.id = cur.id
      /\ cur'.reply = IF StoreApplies THEN "ok" ELSE "err"
      /\ cur \in Call => cur'.rec = cur.rec /\ cur'.del = cur.del
      /\ StoreApplies => cur.pc = "main" \/ cur.pc = "reclaim"
      /\ InFlight' = InFlight /\ Ahead = {} /\ PlacedIds' = PlacedIds
      /\ JobRuns' <=> JobRuns
      /\ BulkRuns' <=> BulkRuns
      /\ DequeueRuns' <=> DequeueRuns
      /\ UNCHANGED <<available, delayed, leased, hydVars, chain, now,
                     leaseGenSeq, tokens, leaseTimer>>
      /\ ColdStart' /\ LoadFits'
  BY AdminAnswer
<1>2. ~DequeueRuns /\ ~JobRuns
  BY <1>1 DEF DequeueRuns, JobRuns, Running, Bulk, JobKinds
<1>3. /\ hydrated /\ hyd.pc # "clear" /\ BulkRuns /\ BulkFits /\ cur.id \in Nat
      /\ \A i \in DOMAIN leased : leased[i].gen # None
      /\ BulkApplied => BulkWrites
      /\ ~BulkApplied => /\ Backed(available, delayed, leased, {})
                         /\ DOMAIN store \subseteq PlacedIds
  BY <1>1, AdminStoreTypes
<1>4. BulkItems' = BulkItems /\ Len(BulkItems) \in Nat
  BY <1>1, BulkHead, Fits DEF BulkItems
<1>5. CASE cur.pc = "main"
  <2>1. /\ cur \in Call /\ cur.id \in 1..Len(BulkItems) /\ BulkApplied /\ BulkWrites
    <3>1. cur.id \in DOMAIN Head(chain).items /\ Head(chain).kind = "replace"
      BY <1>3, <1>5 DEF BulkFits, Running
    <3>2. cur \in Call
      BY <1>1, <1>5, StoreTypes
    <3>3. BulkApplied
      BY <1>3, <1>5 DEF BulkApplied
    <3>4. cur.id \in 1..Len(BulkItems)
      BY <1>1, <3>1, BulkHead, Fits DEF Running
    <3>5. QED
      BY <1>3, <3>2, <3>3, <3>4
  <2>2. cur'.rec = cur.rec /\ cur'.del = cur.del /\ BulkApplied'
    BY <1>1, <1>3, <1>5, <2>1 DEF BulkApplied
  <2>3. /\ DOMAIN store = 1..(cur.id - 1) /\ ~cur.del
        /\ \A i \in 1..(cur.id - 1) : store[i] = PlannedStore(BulkItems)[i]
        /\ cur.rec = PlannedStore(BulkItems)[cur.id]
    BY <1>1, <1>5, <2>1 DEF BulkWrites, BulkDone
  <2>4. CASE StoreApplies
    <3>1. BulkDone' = cur.id
      BY <1>1, <1>5, <2>4 DEF BulkDone
    <3>2. /\ DOMAIN store' = DOMAIN store \cup {cur.id}
          /\ store'[cur.id] = cur.rec
          /\ \A i \in DOMAIN store : i # cur.id => store'[i] = store[i]
      BY <2>3, <2>4 DEF StoreApplies, Put
    <3>3. 1..cur.id = (1..(cur.id - 1)) \cup {cur.id}
      BY <1>4, <2>1
    <3>4. BulkWrites'
      BY <1>1, <1>4, <1>5, <2>2, <2>3, <3>1, <3>2, <3>3
      DEF BulkWrites, PlannedStore, Planned
    <3>5. BulkDone' \in 0..Len(BulkItems)
      BY <1>4, <2>1, <3>1
    <3>6. QED
      BY <1>1, <1>3, <2>2, <3>4, <3>5, BulkWritten DEF hydVars
  <2>5. CASE StoreRefuses /\ ~StoreApplies
    <3>1. BulkDone' = cur.id - 1 /\ store' = store
      BY <1>1, <1>5, <2>5 DEF BulkDone, StoreRefuses, storeVars
    <3>2. BulkWrites'
      BY <1>1, <1>4, <1>5, <2>2, <2>3, <3>1 DEF BulkWrites, PlannedStore, Planned
    <3>3. BulkDone' \in 0..Len(BulkItems)
      BY <1>4, <2>1, <3>1
    <3>4. QED
      BY <1>1, <1>3, <2>2, <3>2, <3>3, BulkWritten DEF hydVars
  <2>6. QED
    BY <2>4, <2>5
<1>6. CASE cur.pc # "main"
  <2>1. cur.pc \in {"batch", "clear"}
    BY <1>3, <1>6 DEF BulkFits
  <2>2. cur'.reply = "err" /\ Ahead' = {} /\ store' = store
    BY <1>1, <2>1 DEF Ahead, StoreRefuses, storeVars
  <2>3. ~BulkApplied /\ ~BulkApplied' /\ ~JobApplied'
    BY <1>1, <1>2, <1>6, <2>2 DEF BulkApplied, JobApplied
  <2>4. Backed(available, delayed, leased, Ahead)'
    BY <1>1, <1>3, <2>2, <2>3 DEF Backed, Waiting, Delaying, Leasing, Same
  <2>5. RowsBacked'
    BY <1>1, <1>3, <2>2, <2>3, <2>4 DEF RowsBacked
  <2>6. AdminCallWrites'
    BY <1>1, <1>2, <1>3, <2>3 DEF AdminCallWrites
  <2>7. LeasesNumbered'
    BY <1>1, <2>2 DEF StoreParts, LeasesNumbered
  <2>8. QED
    BY <1>1, <2>3, <2>5, <2>6, <2>7 DEF StoreParts, MemoryBacked
<1>7. QED
  BY <1>5, <1>6

\* An operation of this module that is called is only queued.
LEMMA AdminCallsStore ==
  ASSUME QueueAssumption, RowsFit, StoreParts, RowsFit', AdminCalls, found' = found
  PROVE  StoreParts'
<1>1. OnlyQueued /\ hydrated
  BY AdminCallsRows, Fits
<1>2. PICK op : Push(op)
  BY <1>1 DEF OnlyQueued
<1>3. UNCHANGED <<available, delayed, leased, cur, store, hydVars, leaseGenSeq, now>>
  BY <1>1 DEF OnlyQueued, memVars, storeVars
<1>4. QED
  BY <1>1, <1>2, <1>3, PushStore

\* Each step keeps the parts, but for a replaceAll cut short, an administration
\* call that misses its row, or two rows with one id.
LEMMA AdminStepStore ==
  ASSUME QueueAssumption, RowsFit, RowsFit', FoundFits, StoreParts, StoreTrusted',
         [AdminNext]_adminVars
  PROVE  StoreParts'
<1>1. CASE CoreSteps /\ found' = found
  <2>1. CASE Calls
    BY <1>1, <2>1, CallsStore
  <2>2. CASE BeginClaim \/ BeginExpire \/ Finishes
    BY <2>2, BeginsStore, FinishesStore DEF Begins
  <2>3. CASE (StoreApplies \/ StoreRefuses) /\ CoreAtHead
    BY <2>3, StoreStore
  <2>4. CASE (StoreApplies \/ StoreRefuses) /\ ~CoreAtHead
    BY <1>1, <2>4, AdminAnswer, DequeueAnswerStore, JobAnswerStore, BulkAnswerStore
  <2>5. CASE Hydrates
    BY <1>1, <2>5, HydratesStore
  <2>6. CASE ReaderPromotes \/ DelayTimerFires \/ LeaseTimerFires \/ Tick
    BY <1>1, <2>6, TimersStore, EnvironmentStore
  <2>7. QED
    BY <1>1, <2>1, <2>2, <2>3, <2>4, <2>5, <2>6 DEF CoreSteps
<1>2. CASE (AdminQuiet \/ FinishBulk) /\ found' = found
  BY <1>2, AdminCallsStore, BeginDequeueStore, EndDequeueStore, BeginBulkStore,
     BulkAppliesStore, NextPutStore, FinishBulkStore DEF AdminQuiet
<1>3. CASE BeginEnqueueNoting \/ BeginLeaseOpNoting
  BY <1>3, BeginsStore DEF BeginEnqueueNoting, BeginLeaseOpNoting, Begins
<1>4. CASE BeginJobCall \/ JobCallRefused
  BY <1>4, BeginJobStore, JobRefusedStore
<1>5. CASE FinishJobCall \/ BulkRefused
  BY <1>5, FinishJobStore, BulkRefusedStore DEF StoreTrusted
<1>6. CASE CrashMidway
  <2>1. Crash /\ ~Tick
    BY <1>6, StoreTypes DEF CrashMidway, Crash, Tick
  <2>2. QED
    BY <2>1, EnvironmentStore
<1>7. CASE UNCHANGED adminVars
  <2>1. /\ UNCHANGED <<memVars, hydVars, chainVars, storeVars, idVars, tokens, now, found>>
        /\ now \in Nat
    BY <1>7, StoreTypes DEF adminVars, vars, callerVars
  <2>2. ColdStart' /\ LoadFits'
    BY <2>1 DEF StoreParts, ColdStart, LoadFits, memVars, hydVars, chainVars, storeVars
  <2>3. QED
    BY <2>1, <2>2, StoreStays DEF memVars, hydVars, chainVars, storeVars, idVars
<1>8. QED
  BY <1>1, <1>2, <1>3, <1>4, <1>5, <1>6, <1>7 DEF AdminNext

StoreHeld == RowsHeld /\ (StoreTrusted => StoreParts)

LEMMA StoreHeldStep ==
  ASSUME QueueAssumption, StoreHeld, [AdminNext]_adminVars
  PROVE  StoreHeld'
<1>1. RowsHeld' /\ mishaps \subseteq mishaps' /\ ShapeFit /\ FoundFits /\ ShapeFit'
  BY RowsHeldStep, MishapsGrow, ShapeIs, AdminStepShape DEF StoreHeld, RowsHeld
<1>2. ASSUME StoreTrusted'
      PROVE  StoreParts'
  <2>1. StoreTrusted /\ RowsTrusted /\ RowsTrusted'
    BY <1>1, <1>2 DEF StoreTrusted, RowsTrusted
  <2>2. RowsFit /\ RowsFit' /\ StoreParts
    BY <1>1, <2>1 DEF StoreHeld, RowsHeld, RowsFit
  <2>3. QED
    BY <1>1, <1>2, <2>2, AdminStepStore
<1>3. QED
  BY <1>1, <1>2 DEF StoreHeld

LEMMA StoreHeldHolds == AdminSpec => []StoreHeld
<1>1. ASSUME AdminInit
      PROVE  StoreHeld
  <2>1. /\ AdminShape /\ RowsFit /\ PlacedIds = {} /\ mishaps = {}
        /\ chain = <<>>
    BY <1>1, AdminStarts, QueueAssumption
  <2>2. FreshIds
    BY <2>1 DEF FreshIds, QueuedEnqueues
  <2>3. StoreParts
    BY <1>1, InitStore DEF AdminInit
  <2>4. QED
    BY <2>1, <2>2, <2>3 DEF StoreHeld, RowsHeld, RowsFit
<1>2. StoreHeld /\ [AdminNext]_adminVars => StoreHeld'
  BY StoreHeldStep, QueueAssumption
<1>3. QED
  BY <1>1, <1>2, PTL DEF AdminSpec

\* MatchesBut in these terms.
LEMMA PartsMatch ==
  ASSUME RowsFit, StoreParts, hydrated, ~BulkApplied
  PROVE  MatchesBut(Ahead)
<1>1. \A i \in DOMAIN store : store[i] \in Stored
  BY StoreTypes
<1>2. /\ \A k \in DOMAIN available : available[k].id \notin Ahead => Waiting(available[k])
      /\ \A d \in delayed : d.id \notin Ahead => Delaying(d)
      /\ \A i \in DOMAIN leased \ Ahead : Leasing(i, leased[i])
      /\ DOMAIN store \subseteq PlacedIds \cup Ahead
  <2>1. CASE JobApplied
    <3>1. JobBacked /\ Ahead = {cur.id}
      BY <2>1 DEF StoreParts, MemoryBacked, JobApplied, JobRuns, Ahead
    <3>2. QED
      BY <3>1 DEF JobBacked
  <2>2. CASE ~JobApplied
    BY <2>2 DEF StoreParts, MemoryBacked, RowsBacked, Backed
  <2>3. QED
    BY <2>1, <2>2
<1>3. \A r \in AvailableRows :
        r.id \notin Ahead => /\ r.id \in DOMAIN store /\ store[r.id].at <= now
                             /\ [store[r.id] EXCEPT !.at = 0] = Cleared(r)
  BY <1>1, <1>2, RecordFields DEF Waiting, AvailableRows, Range
<1>4. \A d \in delayed :
        d.id \notin Ahead => /\ d.id \in DOMAIN store
                             /\ store[d.id] = [Cleared(d) EXCEPT !.at = d.at]
  BY <1>1, <1>2, RecordFields DEF Delaying
<1>5. \A i \in DOMAIN leased \ Ahead :
        /\ i \in DOMAIN store
        /\ store[i] = [job |-> leased[i].job, at |-> 0, gen |-> leased[i].gen,
                       exp |-> leased[i].exp, attempt |-> leased[i].attempt]
  BY <1>1, <1>2, RecordFields DEF Leasing
<1>6. QED
  BY <1>2, <1>3, <1>4, <1>5 DEF MatchesBut

LEMMA TrustedFits ==
  ASSUME StoreHeld, StoreTrusted
  PROVE  RowsFit /\ StoreParts
<1>1. RowsTrusted
  BY DEF StoreTrusted, RowsTrusted
<1>2. QED
  BY <1>1, ShapeIs DEF StoreHeld, RowsHeld, RowsFit

\* AdminStoreInvariant holds in every reachable state: until a replaceAll written
\* record by record is cut short, an administration call misses its row or two
\* rows get one id, memory and the store agree on every row but that of the call in
\* progress, whatever clear, replaceAll, tryDequeue and the administration calls
\* remove or rewrite; a replaceAll's records are written in order, from the first.
THEOREM AdminStoreHolds == AdminSpec => []AdminStoreInvariant
<1>1. StoreHeld => AdminStoreInvariant
  BY PartsMatch, TrustedFits, RowsHeldIs DEF AdminStoreInvariant, StoreHeld, StoreParts
<1>2. QED
  BY <1>1, StoreHeldHolds, PTL

\* Outside the call of a clear, a replaceAll or an administration call, memory is
\* what the store would give back after a crash, until one of those three mishaps;
\* a Lease that is taken for a newer one does not part them.
THEOREM AdminMemoryIsStored == AdminSpec => []AdminMemoryMatchesStore
<1>1. StoreHeld => AdminMemoryMatchesStore
  <2> SUFFICES ASSUME RowsFit, StoreParts, ~BulkRuns, ~JobRuns
               PROVE  MemoryMatchesStore
    BY TrustedFits DEF StoreTrusted, AdminMemoryMatchesStore, BulkRuns, JobRuns
  <2>1. ~BulkApplied /\ ~JobApplied
    BY DEF BulkApplied, JobApplied
  <2>2. StoreTypeOK
    BY StoreTypes
  <2>3. QED
    BY <2>1, <2>2, MatchIsBacked DEF StoreParts, MemoryBacked
<1>2. QED
  BY <1>1, StoreHeldHolds, PTL
=============================================================================
