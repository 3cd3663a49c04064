------------------------- MODULE DurableQueue_proofs -------------------------
(***************************************************************************)
(* Theorems about DurableQueue, for every value of its constants, from     *)
(* these inductive invariants:                                             *)
(*   TypeOK            every variable keeps its type;                      *)
(*   RowInvariant      a row is in one place, and a lease outlives the     *)
(*                     store call of the operation that checked it;        *)
(*   TimerInvariant    a timer is set while there is something to wait     *)
(*                     for, and in time for it;                            *)
(*   StoreInvariant    memory and store agree (MemoryMatchesStore);        *)
(*   LeaseInvariant    a Lease object fits the row it names, unless the    *)
(*                     generations have started again since it was given;  *)
(*   LedgerInvariant   what callers rely on because of it, for a queue that*)
(*                     is not hydrated while it serves: no accepted job is *)
(*                     lost, and each step is one of JobLedger.            *)
(* A step of DurableQueue is a step of DurableQueueAdmin too: the lemmas   *)
(* are about ShapeFit and RowsFit, which RowInvariant implies when the     *)
(* chain has only operations of DurableQueue, and DurableQueueAdmin_proofs *)
(* uses them for the steps of DurableQueue that it has.                    *)
(***************************************************************************)
EXTENDS DurableQueueAdmin, FiniteSetTheorems, SequenceTheorems, TLAPS

USE DEF None, Ids

\* The operations of DurableQueue, and what it says when it has no others.
CoreKinds ==
  {"enqueue", "claim", "ack", "release", "reschedule", "extend", "expire"}

CoreOnly == \A i \in DOMAIN chain : chain[i].kind \in CoreKinds

-----------------------------------------------------------------------------
(* Lemmas about the operators the actions are built from.                  *)

\* Writing a well-typed entry into a map leaves a well-typed map.
LEMMA PutType ==
  ASSUME NEW S, NEW f, MapsIdsTo(f, S), IsFiniteSet(DOMAIN f),
         NEW k \in Ids, NEW v \in S
  PROVE  /\ MapsIdsTo(Put(f, k, v), S)
         /\ IsFiniteSet(DOMAIN Put(f, k, v))
         /\ DOMAIN Put(f, k, v) = DOMAIN f \cup {k}
<1>1. IsFiniteSet(DOMAIN f \cup {k})
  BY FS_AddElement
<1>2. QED
  BY <1>1 DEF MapsIdsTo, Put

\* Removing an entry from a map leaves a well-typed map.
LEMMA WithoutType ==
  ASSUME NEW S, NEW f, MapsIdsTo(f, S), IsFiniteSet(DOMAIN f), NEW k
  PROVE  /\ MapsIdsTo(Without(f, k), S)
         /\ IsFiniteSet(DOMAIN Without(f, k))
         /\ DOMAIN Without(f, k) = DOMAIN f \ {k}
<1>1. IsFiniteSet(DOMAIN f \ {k})
  BY FS_RemoveElement
<1>2. QED
  BY <1>1 DEF MapsIdsTo, Without, Restrict

\* The FIFO after a drain of the due rows is a sequence of rows.
LEMMA DrainedType ==
  ASSUME available \in Seq(Row), delayed \subseteq Delayed,
         IsFiniteSet(delayed), NEW av \in Drained
  PROVE  av \in Seq(Row)
<1>1. PICK q \in DrainOrders(Due) :
        av = available \o [i \in DOMAIN q |-> RowOf(q[i].id, q[i])]
  BY DEF Drained
<1>2. Cardinality(Due) \in Nat
  BY FS_Subset, FS_CardinalityType DEF Due
<1>3. q \in [1..Cardinality(Due) -> Due]
  BY DEF DrainOrders, Bijection, Injection
<1>4. [i \in DOMAIN q |-> RowOf(q[i].id, q[i])] \in Seq(Row)
  <2>1. \A i \in DOMAIN q : RowOf(q[i].id, q[i]) \in Row
    BY <1>3 DEF Due, RowOf, Row, Delayed
  <2>2. QED
    BY <1>2, <1>3, <2>1
<1>5. QED
  BY <1>1, <1>4

\* Arming the delay timer sets it to a time or clears it.
LEMMA ArmDelayTimerType ==
  ASSUME NEW D, D \subseteq Delayed, ArmDelayTimer(D)
  PROVE  delayTimer' \in Nat
BY DEF ArmDelayTimer, Delayed

\* Arming the lease timer sets it to a time or clears it, and only drops
\* entries from the heap or rebuilds it from the leases.
LEMMA ArmLeaseTimerType ==
  ASSUME NEW l, NEW h, MapsIdsTo(l, Leased), h \subseteq Expiry,
         ArmLeaseTimer(l, h)
  PROVE  leaseTimer' \in Nat /\ expiries' \subseteq Expiry
<1>1. LiveExpiries(l) \subseteq Expiry
  BY DEF LiveExpiries, MapsIdsTo, Leased, Expiry
<1>2. Compacted(l, h) \subseteq Expiry
  BY <1>1 DEF Compacted
<1>3. QED
  BY <1>2 DEF ArmLeaseTimer, PoppedTo, Expiry

\* Promoting the due rows leaves a well-typed heap and timer.
LEMMA PromotesType ==
  ASSUME delayed \subseteq Delayed, IsFiniteSet(delayed), delayTimer \in Nat,
         NEW av, Promotes(av)
  PROVE  /\ delayed' \subseteq Delayed /\ IsFiniteSet(delayed')
         /\ delayTimer' \in Nat
<1>1. delayed' \subseteq Delayed /\ IsFiniteSet(delayed')
  BY FS_Subset DEF Promotes
<1>2. QED
  BY <1>1, ArmDelayTimerType DEF Promotes

\* Adding a row to the FIFO or to the delay heap.
LEMMA AddPendingType ==
  ASSUME available \in Seq(Row), delayed \subseteq Delayed,
         IsFiniteSet(delayed), delayTimer \in Nat,
         NEW i \in Ids, NEW r \in Stored, AddPending(i, r)
  PROVE  /\ available' \in Seq(Row)
         /\ delayed' \subseteq Delayed /\ IsFiniteSet(delayed')
         /\ delayTimer' \in Nat
<1>1. RowOf(i, r) \in Row /\ DelayedRow(i, r) \in Delayed
  BY DEF RowOf, Row, DelayedRow, Delayed, Stored
<1>2. IsFiniteSet(delayed \cup {DelayedRow(i, r)})
  BY FS_AddElement
<1>3. CASE r.at = 0
  BY <1>1, <1>3 DEF AddPending
<1>4. CASE r.at # 0
  <2>1. delayed' = delayed \cup {DelayedRow(i, r)} /\ ArmDelayTimer(delayed')
    BY <1>4 DEF AddPending
  <2>2. delayed' \subseteq Delayed
    BY <1>1, <2>1
  <2>3. QED
    BY <1>2, <1>4, <2>1, <2>2, ArmDelayTimerType DEF AddPending
<1>5. QED
  BY <1>3, <1>4

\* Starting a reclaim issues a well-typed store call.
LEMMA StartReclaimType ==
  ASSUME NEW l, NEW h, NEW t \in Nat, MapsIdsTo(l, Leased), h \subseteq Expiry,
         StartReclaim(l, h, t), leaseTimer \in Nat
  PROVE  /\ cur' \in Call /\ cur'.pc = "reclaim" 
         /\ expiries' \subseteq Expiry /\ leaseTimer' \in Nat
<1>1. PICK e \in DueLive(l, h, t) :
        /\ \E rest \in PoppedTo(l, h, e) : expiries' = rest \ {e}
        /\ cur' = [pc |-> "reclaim", reply |-> "wait", del |-> FALSE,
                   id |-> e.id, gen |-> e.gen, rec |-> Cleared(l[e.id]),
                   due |-> e.exp, now |-> t]
  BY DEF StartReclaim
<1>2. e \in Expiry /\ e.id \in DOMAIN l /\ l[e.id] \in Leased
  BY DEF DueLive, Live, MapsIdsTo
<1>3. Cleared(l[e.id]) \in Stored
  BY <1>2 DEF Cleared, Leased, Stored
<1>4. cur' \in Call /\ cur'.pc = "reclaim"
  BY <1>1, <1>2, <1>3 DEF Call, Expiry
<1>5. QED
  BY <1>1, <1>4 DEF PoppedTo, StartReclaim

\* Ending a reclaim leaves a well-typed heap and timer.
LEMMA EndReclaimType ==
  ASSUME NEW l, NEW h, NEW t, MapsIdsTo(l, Leased), h \subseteq Expiry,
         EndReclaim(l, h, t)
  PROVE  leaseTimer' \in Nat /\ expiries' \subseteq Expiry
<1>1. {e \in h : e.exp > t} \subseteq Expiry
  OBVIOUS
<1>2. QED
  BY <1>1, ArmLeaseTimerType DEF EndReclaim

\* What the head of the chain is, by its kind.
LEMMA HeadOp ==
  ASSUME chain \in Seq(AnyOp), chain # <<>>
  PROVE  /\ Head(chain) \in AnyOp /\ Tail(chain) \in Seq(AnyOp)
         /\ Head(chain).kind = "enqueue" => Head(chain) \in EnqueueOp
         /\ Head(chain).kind \in {"ack", "release"} => Head(chain) \in SettleOp
         /\ Head(chain).kind = "reschedule" => Head(chain) \in RetryOp
         /\ Head(chain).kind = "extend" => Head(chain) \in ExtendOp
         /\ Head(chain).kind = "replace" => Head(chain) \in ReplaceOp
         /\ Head(chain).kind \in JobKinds => Head(chain) \in JobOp
<1>1. Head(chain) \in AnyOp /\ Tail(chain) \in Seq(AnyOp)
  BY HeadTailProperties
<1>2. QED
  BY <1>1 DEF AnyOp, Op, EnqueueOp, SettleOp, RetryOp, ExtendOp, PlainOp,
     BareOp, ReplaceOp, JobOp, JobKinds

\* The end of an operation leaves a well-typed chain and no call.
LEMMA EndOpType ==
  ASSUME chain \in Seq(AnyOp), chain # <<>>, EndOp
  PROVE  chain' \in Seq(AnyOp) /\ cur' = Idle
BY HeadOp DEF EndOp

\* Popping the head of a FIFO for a claim.
LEMMA TakeHeadType ==
  ASSUME NEW av \in Seq(Row), TakeHead(av), chain \in Seq(AnyOp), chain # <<>>,
         leaseGenSeq \in Nat, now \in Nat, QueueAssumption
  PROVE  /\ available' \in Seq(Row) /\ chain' \in Seq(AnyOp)
         /\ leaseGenSeq' \in Nat /\ (cur' = Idle \/ cur' \in Call)
<1>1. CASE av = <<>>
  BY <1>1, EndOpType DEF TakeHead
<1>2. CASE av # <<>>
  <2>1. Head(av) \in Row /\ Tail(av) \in Seq(Row)
    BY <1>2, HeadTailProperties
  <2> DEFINE rec == [job |-> Head(av).job, at |-> 0, gen |-> leaseGenSeq + 1,
                     exp |-> IF LeaseTtl = None THEN None ELSE now + LeaseTtl,
                     attempt |-> Head(av).attempt]
  <2>2. /\ available' = Tail(av) /\ leaseGenSeq' = leaseGenSeq + 1
        /\ CallStore(FALSE, Head(av).id, leaseGenSeq + 1, rec)
        /\ chain' = chain
    BY <1>2 DEF TakeHead
  <2>3. (IF LeaseTtl = None THEN None ELSE now + LeaseTtl) \in Nat
    BY DEF QueueAssumption
  <2>4. rec \in Stored
    BY <2>1, <2>3 DEF Row, Stored
  <2>5. cur' \in Call
    <3> HIDE DEF rec
    <3> QED
      BY <2>1, <2>2, <2>4 DEF CallStore, Call, Row
  <2>6. QED
    BY <2>1, <2>2, <2>5
<1>3. QED
  BY <1>1, <1>2

\* claimCore from the reclaim loop on.
LEMMA ClaimFromType ==
  ASSUME NEW av \in Seq(Row), NEW l, MapsIdsTo(l, Leased),
         IsFiniteSet(DOMAIN l), NEW h, h \subseteq Expiry, NEW t \in Nat,
         ClaimFrom(av, l, h, t), chain \in Seq(AnyOp), chain # <<>>,
         leaseGenSeq \in Nat, leaseTimer \in Nat, now \in Nat, QueueAssumption
  PROVE  /\ available' \in Seq(Row) /\ chain' \in Seq(AnyOp)
         /\ leaseGenSeq' \in Nat /\ (cur' = Idle \/ cur' \in Call)
         /\ leased' = l /\ leaseTimer' \in Nat /\ expiries' \subseteq Expiry
<1>1. CASE StartReclaim(l, h, t) /\ available' = av
           /\ UNCHANGED <<chain, leaseGenSeq>>
  BY <1>1, StartReclaimType DEF ClaimFrom
<1>2. CASE EndReclaim(l, h, t) /\ TakeHead(av)
  <2>1. leaseTimer' \in Nat /\ expiries' \subseteq Expiry
    <3>1. {e \in h : e.exp > t} \subseteq Expiry
      OBVIOUS
    <3>2. QED
      BY <1>2, <3>1, ArmLeaseTimerType DEF EndReclaim
  <2>2. QED
    BY <1>2, <2>1, TakeHeadType DEF ClaimFrom
<1>3. QED
  BY <1>1, <1>2 DEF ClaimFrom
-----------------------------------------------------------------------------
(* Type correctness.                                                       *)

\* The initial state is well typed.
LEMMA InitType == QueueAssumption /\ Init => AdminTypeOK
<1> SUFFICES ASSUME QueueAssumption, Init PROVE AdminTypeOK
  OBVIOUS
<1>1. IsFiniteSet({})
  BY FS_EmptySet
<1>2. MapsIdsTo(EmptyMap, Leased) /\ MapsIdsTo(EmptyMap, Stored)
      /\ IsFiniteSet(DOMAIN EmptyMap)
  BY <1>1 DEF MapsIdsTo, EmptyMap
<1>3. MemTypeOK
  BY <1>1, <1>2 DEF Init, MemTypeOK
<1>4. HydTypeOK
  BY DEF Init, HydTypeOK
<1>5. AdminChainTypeOK
  BY DEF Init, AdminChainTypeOK
<1>6. StoreTypeOK /\ CallerTypeOK
  BY <1>2 DEF Init, StoreTypeOK, CallerTypeOK
<1>7. QED
  BY <1>3, <1>4, <1>5, <1>6 DEF Init, AdminTypeOK

\* A part of the state that an action leaves alone stays well typed.
LEMMA PartsStay ==
  /\ MemTypeOK /\ UNCHANGED memVars => MemTypeOK'
  /\ HydTypeOK /\ UNCHANGED hydVars => HydTypeOK'
  /\ AdminChainTypeOK /\ UNCHANGED chainVars => AdminChainTypeOK'
  /\ StoreTypeOK /\ UNCHANGED storeVars => StoreTypeOK'
  /\ CallerTypeOK /\ UNCHANGED callerVars => CallerTypeOK'
<1>1. MemTypeOK /\ UNCHANGED memVars => MemTypeOK'
  BY DEF MemTypeOK, memVars
<1>2. HydTypeOK /\ UNCHANGED hydVars => HydTypeOK'
  BY DEF HydTypeOK, Loading, hydVars
<1>3. AdminChainTypeOK /\ UNCHANGED chainVars => AdminChainTypeOK'
  BY DEF AdminChainTypeOK, chainVars
<1>4. StoreTypeOK /\ UNCHANGED storeVars => StoreTypeOK'
  BY DEF StoreTypeOK, storeVars
<1>5. CallerTypeOK /\ UNCHANGED callerVars => CallerTypeOK'
  BY DEF CallerTypeOK, callerVars
<1>6. QED
  BY <1>1, <1>2, <1>3, <1>4, <1>5

\* Callers only append well-typed operations.
LEMMA CallsType ==
  ASSUME QueueAssumption, AdminTypeOK, Calls
  PROVE  AdminTypeOK'
<1>1. ASSUME NEW op \in AnyOp, Push(op), UNCHANGED cur
      PROVE  AdminChainTypeOK'
  BY <1>1 DEF Push, AdminTypeOK, AdminChainTypeOK
<1>2. now \in Nat /\ idCounter \in Nat /\ tokens \subseteq Lease
  BY DEF AdminTypeOK, CallerTypeOK
<1>3. ASSUME NEW j \in Jobs, NEW d \in Delays, Enqueue(j, d)
      PROVE  AdminTypeOK'
  <2>1. d \in Nat
    BY DEF QueueAssumption
  <2>2. [kind |-> "enqueue", id |-> idCounter + 1, job |-> j,
         at |-> IF d > 0 THEN now + d ELSE 0] \in AnyOp
    BY <1>2, <2>1 DEF AnyOp, Op, EnqueueOp
  <2>3. AdminChainTypeOK'
    BY <1>1, <1>3, <2>2 DEF Enqueue
  <2>4. CallerTypeOK'
    BY <1>3 DEF Enqueue, AdminTypeOK, CallerTypeOK
  <2>5. QED
    BY <1>2, <1>3, <2>3, <2>4, PartsStay DEF Enqueue, AdminTypeOK, faultVars
<1>4. ASSUME NEW op \in AnyOp, LeaseOp(op)
      PROVE  AdminTypeOK'
  BY <1>1, <1>4, PartsStay DEF LeaseOp, AdminTypeOK, idVars, faultVars
<1>5. CASE Claim
  <2>1. [kind |-> "claim"] \in AnyOp
    BY DEF AnyOp, Op, PlainOp
  <2>2. QED
    BY <1>1, <1>5, <2>1, PartsStay DEF Claim, AdminTypeOK, idVars, faultVars
<1>6. ASSUME NEW t \in tokens, Ack(t) \/ Release(t)
      PROVE  AdminTypeOK'
  <2>1. /\ [kind |-> "ack", tok |-> t] \in AnyOp
        /\ [kind |-> "release", tok |-> t] \in AnyOp
    BY <1>2 DEF AnyOp, Op, SettleOp
  <2>2. QED
    BY <1>4, <1>6, <2>1 DEF Ack, Release
<1>7. ASSUME NEW t \in tokens, NEW d \in Delays,
             NEW a \in t.attempt..MaxAttempt, Reschedule(t, d, a)
      PROVE  AdminTypeOK'
  <2> DEFINE at == IF d > 0 THEN now + d ELSE 0
  <2>1. t \in Lease /\ t.attempt \in Ids
    BY <1>2 DEF Lease
  <2>2. a \in Ids
    BY <2>1 DEF QueueAssumption
  <2>3. at \in Nat
    BY <1>2 DEF QueueAssumption
  <2>4. [kind |-> "reschedule", tok |-> t, attempt |-> a, at |-> at] \in AnyOp
    <3> HIDE DEF at
    <3> QED
      BY <2>1, <2>2, <2>3 DEF AnyOp, Op, RetryOp
  <2>5. QED
    BY <1>4, <1>7, <2>4 DEF Reschedule
<1>8. ASSUME NEW t \in tokens, NEW ttl \in ExtendTtls, ExtendLease(t, ttl)
      PROVE  AdminTypeOK'
  <2>1. [kind |-> "extend", tok |-> t, ttl |-> ttl] \in AnyOp
    BY <1>2 DEF AnyOp, Op, ExtendOp, QueueAssumption
  <2>2. QED
    BY <1>4, <1>8, <2>1 DEF ExtendLease
<1>9. QED
  BY <1>3, <1>5, <1>6, <1>7, <1>8 DEF Calls

\* The chain and the call after an operation that ends at once.
LEMMA EndOpParts ==
  ASSUME AdminChainTypeOK, chain # <<>>, EndOp
  PROVE  AdminChainTypeOK'
BY EndOpType DEF AdminChainTypeOK

\* Starting an operation reads its arguments from the chain.
LEMMA BeginsType ==
  ASSUME QueueAssumption, AdminTypeOK, Begins
  PROVE  AdminTypeOK'
<1>1. now \in Nat /\ leaseGenSeq \in Nat /\ chain \in Seq(AnyOp)
      /\ MemTypeOK /\ AdminChainTypeOK
  BY DEF AdminTypeOK, AdminChainTypeOK
<1>2. CASE BeginEnqueue
  <2> DEFINE rec == [job |-> Head(chain).job, at |-> Head(chain).at,
                     gen |-> None, exp |-> None, attempt |-> 1]
  <2>1. chain # <<>> /\ Head(chain) \in EnqueueOp
    BY <1>1, <1>2, HeadOp DEF BeginEnqueue, Starting, Running
  <2>2. ASSUME CallStore(FALSE, Head(chain).id, None, rec), UNCHANGED chain
        PROVE  AdminChainTypeOK'
    <3>1. rec \in Stored /\ Head(chain).id \in Ids
      BY <2>1 DEF EnqueueOp, Stored
    <3>2. cur' \in Call
      <4> HIDE DEF rec
      <4> QED
        BY <2>2, <3>1 DEF CallStore, Call
    <3>3. QED
      BY <1>1, <2>2, <3>2 DEF AdminChainTypeOK
  <2>3. AdminChainTypeOK'
    BY <1>1, <1>2, <2>1, <2>2, EndOpParts DEF BeginEnqueue
  <2>4. QED
    BY <1>2, <2>3, PartsStay DEF BeginEnqueue, AdminTypeOK, idVars, faultVars
<1>3. CASE BeginLeaseOp
  <2> DEFINE op == Head(chain)
  <2>1. chain # <<>> /\ op \in SettleOp \cup RetryOp \cup ExtendOp
    BY <1>1, <1>3, HeadOp DEF BeginLeaseOp, Starting, Running
  <2>2. ASSUME Holds(op.tok.id, op.tok.gen),
               CallStore(op.kind = "ack", op.tok.id, op.tok.gen, LeaseWrite(op)),
               UNCHANGED chain
        PROVE  AdminChainTypeOK'
    <3>1. op.tok \in Lease
      BY <2>1 DEF SettleOp, RetryOp, ExtendOp
    <3>2. leased[op.tok.id] \in Leased
      BY <1>1, <2>2 DEF Holds, MemTypeOK, MapsIdsTo
    <3>3. LeaseWrite(op) \in Stored
      <4>1. CASE op.kind = "reschedule"
        <5>1. op \in RetryOp
          BY <2>1, <4>1 DEF SettleOp, RetryOp, ExtendOp
        <5>2. QED
          BY <3>1, <4>1, <5>1 DEF LeaseWrite, RetryOp, Lease, Stored
      <4>2. CASE op.kind = "extend"
        <5>1. op.ttl \in Nat
          BY <2>1, <4>2 DEF SettleOp, RetryOp, ExtendOp
        <5>2. now + op.ttl \in Nat
          BY <1>1, <5>1
        <5>3. QED
          BY <3>2, <4>2, <5>2 DEF LeaseWrite, Leased, Stored
      <4>3. CASE op.kind # "reschedule" /\ op.kind # "extend"
        BY <3>2, <4>3 DEF LeaseWrite, Cleared, Leased, Stored
      <4>4. QED
        BY <4>1, <4>2, <4>3
    <3>4. cur' \in Call
      <4>1. op.tok.id \in Ids /\ op.tok.gen \in Nat
        BY <3>1 DEF Lease
      <4>2. QED
        BY <2>2, <3>3, <4>1 DEF CallStore, Call
    <3>5. QED
      BY <1>1, <2>2, <3>4 DEF AdminChainTypeOK
  <2>3. AdminChainTypeOK'
    BY <1>1, <1>3, <2>1, <2>2, EndOpParts DEF BeginLeaseOp
  <2>4. QED
    BY <1>3, <2>3, PartsStay DEF BeginLeaseOp, AdminTypeOK, idVars, faultVars
<1>4. CASE BeginClaim
  <2>1. chain # <<>>
    BY <1>4 DEF BeginClaim, Starting, Running
  <2>2. PICK av \in Drained :
          /\ Promotes(av)
          /\ IF LeaseTtl # None \/ expiries # {}
             THEN ClaimFrom(av, leased, expiries, now)
             ELSE TakeHead(av) /\ UNCHANGED <<leased, expiries, leaseTimer>>
    BY <1>4 DEF BeginClaim
  <2>3. av \in Seq(Row)
    BY <1>1, DrainedType DEF MemTypeOK
  <2>4. delayed' \subseteq Delayed /\ IsFiniteSet(delayed') /\ delayTimer' \in Nat
    BY <1>1, <2>2, PromotesType DEF MemTypeOK
  <2>5. /\ available' \in Seq(Row) /\ chain' \in Seq(AnyOp)
        /\ leaseGenSeq' \in Nat /\ (cur' = Idle \/ cur' \in Call)
        /\ leased' = leased /\ leaseTimer' \in Nat /\ expiries' \subseteq Expiry
    <3>1. CASE ClaimFrom(av, leased, expiries, now)
      BY <1>1, <2>1, <2>3, <3>1, ClaimFromType DEF MemTypeOK
    <3>2. CASE TakeHead(av) /\ UNCHANGED <<leased, expiries, leaseTimer>>
      BY <1>1, <2>1, <2>3, <3>2, TakeHeadType DEF MemTypeOK
    <3>3. QED
      BY <2>2, <3>1, <3>2
  <2>6. MemTypeOK' /\ AdminChainTypeOK'
    BY <1>1, <2>4, <2>5 DEF MemTypeOK, AdminChainTypeOK
  <2>7. QED
    BY <1>4, <2>5, <2>6, PartsStay DEF BeginClaim, AdminTypeOK, faultVars
<1>5. CASE BeginExpire
  <2>1. chain # <<>>
    BY <1>5 DEF BeginExpire, Starting, Running
  <2>2. /\ chain' \in Seq(AnyOp) /\ (cur' = Idle \/ cur' \in Call)
        /\ leaseTimer' \in Nat /\ expiries' \subseteq Expiry
    <3>1. CASE StartReclaim(leased, expiries, now) /\ UNCHANGED chain
      BY <1>1, <3>1, StartReclaimType DEF MemTypeOK
    <3>2. CASE EndReclaim(leased, expiries, now) /\ EndOp
      BY <1>1, <2>1, <3>2, EndOpType, EndReclaimType DEF MemTypeOK
    <3>3. QED
      BY <1>5, <3>1, <3>2 DEF BeginExpire
  <2>3. MemTypeOK' /\ AdminChainTypeOK'
    BY <1>1, <1>5, <2>2 DEF BeginExpire, MemTypeOK, AdminChainTypeOK
  <2>4. QED
    BY <1>5, <2>3, PartsStay DEF BeginExpire, AdminTypeOK, idVars, faultVars
<1>6. QED
  BY <1>2, <1>3, <1>4, <1>5 DEF Begins

\* A store call for one row that has been answered.
LEMMA AnsweredType ==
  ASSUME AdminTypeOK, chain # <<>>, cur # Idle, cur.pc \in {"main", "reclaim"}
  PROVE  /\ cur \in Call /\ cur.id \in Ids /\ cur.rec \in Stored
         /\ cur.gen \in Nat /\ cur.now \in Nat /\ cur.due \in Nat
         /\ chain \in Seq(AnyOp) /\ MemTypeOK /\ AdminChainTypeOK
         /\ cur.id \in DOMAIN leased => leased[cur.id] \in Leased
<1>1. cur \in Call /\ chain \in Seq(AnyOp) /\ MemTypeOK /\ AdminChainTypeOK
  BY DEF AdminTypeOK, AdminChainTypeOK, WholeCall
<1>2. QED
  BY <1>1 DEF Call, MemTypeOK, MapsIdsTo

\* Finishing an operation writes its call's record into memory.
LEMMA FinishesType ==
  ASSUME QueueAssumption, AdminTypeOK, Finishes
  PROVE  AdminTypeOK'
<1>1. MemTypeOK /\ AdminChainTypeOK /\ CallerTypeOK /\ leaseGenSeq \in Nat
      /\ now \in Nat
  BY DEF AdminTypeOK
<1>2. chain # <<>> /\ cur # Idle /\ cur.pc \in {"main", "reclaim"}
  BY DEF Finishes, FinishEnqueue, FinishRefused, FinishAck, FinishReturn,
     FinishExtend, FinishClaim, ClaimRefused, ReclaimThenClaim,
     ReclaimThenLoop, ReclaimRefused, Replied, Reclaiming, Running
<1>3. /\ cur \in Call /\ cur.id \in Ids /\ cur.rec \in Stored
      /\ cur.gen \in Nat /\ cur.now \in Nat /\ cur.due \in Nat
      /\ chain \in Seq(AnyOp)
      /\ cur.id \in DOMAIN leased => leased[cur.id] \in Leased
  BY <1>2, AnsweredType
<1>4. EndOp => AdminChainTypeOK'
  BY <1>1, <1>2, EndOpParts
<1>5. CASE FinishEnqueue
  <2>1. MemTypeOK'
    BY <1>1, <1>3, <1>5, AddPendingType DEF FinishEnqueue, MemTypeOK
  <2>2. CallerTypeOK'
    BY <1>1, <1>3, <1>5 DEF FinishEnqueue, CallerTypeOK, Stored
  <2>3. QED
    BY <1>4, <1>5, <2>1, <2>2, PartsStay DEF FinishEnqueue, AdminTypeOK, idVars,
       faultVars
<1>6. CASE FinishRefused
  BY <1>4, <1>6, PartsStay DEF FinishRefused, AdminTypeOK, idVars, faultVars
<1>7. MapsIdsTo(Without(leased, cur.id), Leased)
      /\ IsFiniteSet(DOMAIN Without(leased, cur.id))
  BY <1>1, WithoutType DEF MemTypeOK
<1>8. CASE FinishAck
  <2>1. MemTypeOK'
    BY <1>1, <1>7, <1>8, ArmLeaseTimerType DEF FinishAck, MemTypeOK
  <2>2. QED
    BY <1>4, <1>8, <2>1, PartsStay DEF FinishAck, AdminTypeOK, idVars, faultVars
<1>9. CASE FinishReturn
  <2>1. MemTypeOK'
    BY <1>1, <1>3, <1>7, <1>9, ArmLeaseTimerType, AddPendingType
    DEF FinishReturn, MemTypeOK
  <2>2. QED
    BY <1>4, <1>9, <2>1, PartsStay DEF FinishReturn, AdminTypeOK, idVars, faultVars
<1>10. CASE FinishExtend
  <2>1. cur.id \in DOMAIN leased /\ leased[cur.id].gen = cur.gen
    BY <1>10 DEF FinishExtend, Holds
  <2>2. cur.rec.exp \in Nat
    BY <1>3 DEF Stored
  <2>3. MapsIdsTo(leased', Leased) /\ DOMAIN leased' = DOMAIN leased
    BY <1>1, <1>3, <1>10, <2>1, <2>2 DEF FinishExtend, MemTypeOK, MapsIdsTo, Leased
  <2>4. [id |-> cur.id, gen |-> cur.gen, exp |-> cur.rec.exp] \in Expiry
    BY <1>3, <2>2 DEF Expiry
  <2>5. leaseTimer' \in Nat /\ expiries' \subseteq Expiry
    <3> DEFINE h == expiries \cup
                 {[id |-> cur.id, gen |-> cur.gen, exp |-> cur.rec.exp]}
    <3>1. h \subseteq Expiry
      BY <1>1, <2>4 DEF MemTypeOK
    <3>2. ArmLeaseTimer(leased', h)
      BY <1>10 DEF FinishExtend
    <3>3. QED
      BY <2>3, <3>1, <3>2, ArmLeaseTimerType
  <2>6. MemTypeOK'
    BY <1>1, <1>10, <2>3, <2>5 DEF FinishExtend, MemTypeOK
  <2>7. QED
    BY <1>4, <1>10, <2>6, PartsStay DEF FinishExtend, AdminTypeOK, idVars, faultVars
<1>11. CASE FinishClaim
  <2> DEFINE r == cur.rec
             lease == [job |-> r.job, gen |-> r.gen, exp |-> r.exp,
                       attempt |-> r.attempt]
             entry == [id |-> cur.id, gen |-> r.gen, exp |-> r.exp]
             tok == [id |-> cur.id, gen |-> r.gen, job |-> r.job,
                     attempt |-> r.attempt]
  <2>1. lease \in Leased /\ entry \in Expiry /\ tok \in Lease
    BY <1>3 DEF Stored, Leased, Expiry, Lease
  <2>2. /\ leased' = Put(leased, cur.id, lease)
        /\ \E h \in {expiries, expiries \cup {entry}} : ArmLeaseTimer(leased', h)
        /\ tokens' = tokens \cup {tok}
        /\ EndOp
    BY <1>11 DEF FinishClaim
  <2>3. MapsIdsTo(leased', Leased) /\ IsFiniteSet(DOMAIN leased')
    <3> HIDE DEF lease
    <3> QED
      BY <1>1, <1>3, <2>1, <2>2, PutType DEF MemTypeOK
  <2>4. leaseTimer' \in Nat /\ expiries' \subseteq Expiry
    <3> HIDE DEF entry
    <3>1. \A h \in {expiries, expiries \cup {entry}} : h \subseteq Expiry
      BY <1>1, <2>1 DEF MemTypeOK
    <3>2. QED
      BY <2>2, <2>3, <3>1, ArmLeaseTimerType
  <2>5. MemTypeOK'
    BY <1>1, <1>11, <2>3, <2>4 DEF FinishClaim, MemTypeOK
  <2>6. CallerTypeOK'
    <3> HIDE DEF tok
    <3> QED
      BY <1>1, <1>11, <2>1, <2>2 DEF FinishClaim, CallerTypeOK
  <2>7. QED
    BY <1>4, <1>11, <2>5, <2>6, PartsStay DEF FinishClaim, AdminTypeOK, idVars,
       faultVars
<1>12. RowOf(cur.id, cur.rec) \in Row
  BY <1>3 DEF RowOf, Row, Stored
<1>13. CASE ClaimRefused
  <2>1. MemTypeOK'
    BY <1>1, <1>12, <1>13 DEF ClaimRefused, MemTypeOK
  <2>2. QED
    BY <1>4, <1>13, <2>1, PartsStay DEF ClaimRefused, AdminTypeOK, idVars, faultVars
<1>14. ReclaimedFifo \in Seq(Row)
  BY <1>1, <1>12 DEF ReclaimedFifo, MemTypeOK
<1>15. CASE ReclaimThenClaim
  <2>1. /\ available' \in Seq(Row) /\ chain' \in Seq(AnyOp)
        /\ leaseGenSeq' \in Nat /\ (cur' = Idle \/ cur' \in Call)
        /\ leased' = ReclaimedLeases
        /\ leaseTimer' \in Nat /\ expiries' \subseteq Expiry
    BY <1>1, <1>2, <1>3, <1>7, <1>14, <1>15, ClaimFromType
    DEF ReclaimThenClaim, ReclaimedLeases, MemTypeOK
  <2>2. MemTypeOK' /\ AdminChainTypeOK'
    BY <1>1, <1>7, <1>15, <2>1
    DEF ReclaimThenClaim, ReclaimedLeases, MemTypeOK, AdminChainTypeOK
  <2>3. QED
    BY <1>15, <2>1, <2>2, PartsStay DEF ReclaimThenClaim, AdminTypeOK, faultVars
<1>16. CASE ReclaimThenLoop
  <2>1. MapsIdsTo(leased', Leased) /\ IsFiniteSet(DOMAIN leased')
    BY <1>7, <1>16 DEF ReclaimThenLoop, ReclaimedLeases
  <2>2. /\ chain' \in Seq(AnyOp) /\ (cur' = Idle \/ cur' \in Call)
        /\ leaseTimer' \in Nat /\ expiries' \subseteq Expiry
    <3>1. CASE StartReclaim(leased', expiries, cur.now) /\ UNCHANGED chain
      BY <1>1, <1>3, <2>1, <3>1, StartReclaimType DEF MemTypeOK
    <3>2. CASE EndReclaim(leased', expiries, cur.now) /\ EndOp
      BY <1>1, <1>2, <1>3, <2>1, <3>2, EndOpType, EndReclaimType DEF MemTypeOK
    <3>3. QED
      BY <1>16, <3>1, <3>2 DEF ReclaimThenLoop
  <2>3. MemTypeOK' /\ AdminChainTypeOK'
    BY <1>1, <1>14, <1>16, <2>1, <2>2
    DEF ReclaimThenLoop, MemTypeOK, AdminChainTypeOK
  <2>4. QED
    BY <1>16, <2>3, PartsStay DEF ReclaimThenLoop, AdminTypeOK, idVars, faultVars
<1>17. CASE ReclaimRefused
  <2>1. RestoredExpiries \subseteq Expiry
    BY <1>1, <1>3 DEF RestoredExpiries, MemTypeOK, Expiry
  <2>2. leaseTimer' \in Nat /\ expiries' \subseteq Expiry
    <3>1. CASE expiries' = RestoredExpiries /\ UNCHANGED leaseTimer
      BY <1>1, <2>1, <3>1 DEF MemTypeOK
    <3>2. CASE ArmLeaseTimer(leased, RestoredExpiries)
      BY <1>1, <2>1, <3>2, ArmLeaseTimerType DEF MemTypeOK
    <3>3. QED
      BY <1>17, <3>1, <3>2 DEF ReclaimRefused
  <2>3. MemTypeOK'
    BY <1>1, <1>17, <2>2 DEF ReclaimRefused, MemTypeOK
  <2>4. QED
    BY <1>4, <1>17, <2>3, PartsStay DEF ReclaimRefused, AdminTypeOK, idVars, faultVars
<1>18. QED
  BY <1>5, <1>6, <1>8, <1>9, <1>10, <1>11, <1>13, <1>15, <1>16, <1>17 DEF Finishes

\* The store answers the pending call.
LEMMA StoreType ==
  ASSUME AdminTypeOK, StoreApplies \/ StoreRefuses
  PROVE  AdminTypeOK'
<1>1. /\ cur # Idle /\ chain \in Seq(AnyOp) /\ cur \in Call \cup WholeCall
      /\ StoreApplies => cur \in Call
  BY DEF StoreApplies, StoreRefuses, AdminTypeOK, AdminChainTypeOK, Idle, WholeCall
<1>2. StoreTypeOK
  BY DEF AdminTypeOK
<1>3. ASSUME NEW r \in {"ok", "err"}, cur' = [cur EXCEPT !.reply = r],
             UNCHANGED chain
      PROVE  AdminChainTypeOK'
  <2>1. CASE cur \in Call
    BY <1>1, <1>3, <2>1 DEF AdminChainTypeOK, Call
  <2>2. CASE cur \in WholeCall
    BY <1>1, <1>3, <2>2 DEF AdminChainTypeOK, WholeCall
  <2>3. QED
    BY <1>1, <2>1, <2>2
<1>4. CASE StoreRefuses
  BY <1>3, <1>4, PartsStay DEF StoreRefuses, AdminTypeOK, idVars
<1>5. CASE StoreApplies
  <2>1. StoreTypeOK'
    <3>1. CASE cur.del
      <4>1. MapsIdsTo(store', Stored) /\ IsFiniteSet(DOMAIN store')
        <5>1. store' = Without(store, cur.id)
          BY <1>5, <3>1 DEF StoreApplies
        <5>2. QED
          BY <1>2, <5>1, WithoutType DEF StoreTypeOK
      <4>2. settled' \subseteq Jobs
        BY <1>2, <1>5, <3>1 DEF StoreApplies, StoreTypeOK, MapsIdsTo, Stored
      <4>3. QED
        BY <4>1, <4>2 DEF StoreTypeOK
    <3>2. CASE ~cur.del
      <4>1. cur.id \in Ids /\ cur.rec \in Stored
        BY <1>1, <1>5 DEF Call
      <4>2. store' = Put(store, cur.id, cur.rec) /\ UNCHANGED settled
        BY <1>5, <3>2 DEF StoreApplies
      <4>3. QED
        BY <1>2, <4>1, <4>2, PutType DEF StoreTypeOK
    <3>3. QED
      BY <3>1, <3>2
  <2>2. QED
    BY <1>3, <1>5, <2>1, PartsStay DEF StoreApplies, AdminTypeOK, idVars, faultVars
<1>6. QED
  BY <1>4, <1>5

\* Timers and readers move due rows and queue reclaims.
LEMMA TimersType ==
  ASSUME AdminTypeOK, ReaderPromotes \/ DelayTimerFires \/ LeaseTimerFires
  PROVE  AdminTypeOK'
<1>1. MemTypeOK /\ AdminChainTypeOK
  BY DEF AdminTypeOK
<1>2. CASE ReaderPromotes \/ DelayTimerFires
  <2>1. PICK av \in Drained : Promotes(av) /\ available' = av
    BY <1>2 DEF ReaderPromotes, DelayTimerFires
  <2>2. av \in Seq(Row)
    BY <1>1, DrainedType DEF MemTypeOK
  <2>3. MemTypeOK'
    BY <1>1, <1>2, <2>1, <2>2, PromotesType
    DEF ReaderPromotes, DelayTimerFires, MemTypeOK
  <2>4. QED
    BY <1>2, <2>3, PartsStay DEF ReaderPromotes, DelayTimerFires, AdminTypeOK,
       idVars, faultVars
<1>3. CASE LeaseTimerFires
  <2>1. MemTypeOK'
    BY <1>1, <1>3 DEF LeaseTimerFires, MemTypeOK
  <2>2. [kind |-> "expire"] \in AnyOp
    BY DEF AnyOp, Op, PlainOp
  <2>3. AdminChainTypeOK'
    BY <1>1, <1>3, <2>2 DEF LeaseTimerFires, Push, AdminChainTypeOK
  <2>4. QED
    BY <1>3, <2>1, <2>3, PartsStay DEF LeaseTimerFires, AdminTypeOK, idVars, faultVars
<1>4. QED
  BY <1>2, <1>3

\* Hydration loads the stored rows and rebuilds memory from them.
LEMMA HydratesType ==
  ASSUME AdminTypeOK, Hydrates
  PROVE  AdminTypeOK'
<1>1. HydTypeOK /\ StoreTypeOK /\ MemTypeOK /\ now \in Nat
  BY DEF AdminTypeOK
<1>2. CASE HydrateStart \/ HydrateRejects \/ HydrateRefused
  <2>1. HydTypeOK'
    BY <1>1, <1>2 DEF HydrateStart, HydrateRejects, HydrateRefused, HydTypeOK
  <2>2. failures' \in Nat
    BY <1>2 DEF HydrateStart, HydrateRejects, HydrateRefused, AdminTypeOK, faultVars
  <2>3. QED
    BY <1>2, <2>1, <2>2, PartsStay DEF HydrateStart, HydrateRejects,
       HydrateRefused, AdminTypeOK, idVars, faultVars
<1>3. CASE HydrateLoad
  <2>1. HydTypeOK'
    BY <1>1, <1>3 DEF HydrateLoad, HydTypeOK, Loading, StoreTypeOK
  <2>2. QED
    BY <1>3, <2>1, PartsStay DEF HydrateLoad, AdminTypeOK, idVars, faultVars
<1>4. hyd.pc = "clear" =>
        /\ hyd = Loading /\ hydrated \in BOOLEAN
        /\ MapsIdsTo(hyd.rows, Stored) /\ IsFiniteSet(DOMAIN hyd.rows)
        /\ hyd.now \in Nat /\ hyd.left \subseteq DOMAIN hyd.rows
  BY <1>1 DEF HydTypeOK, NoHydrate
<1>5. ASSUME NEW i \in DOMAIN store, HydrateClear(i)
      PROVE  AdminTypeOK'
  <2>1. hyd.rows[i] \in Stored /\ i \in Ids
    BY <1>4, <1>5 DEF HydrateClear, MapsIdsTo
  <2>2. Cleared(hyd.rows[i]) \in Stored
    BY <2>1 DEF Cleared, Stored
  <2>3. StoreTypeOK'
    BY <1>1, <1>5, <2>1, <2>2, PutType DEF HydrateClear, StoreTypeOK
  <2>4. HydTypeOK'
    <3>1. hyd' = [hyd EXCEPT !.left = @ \ {i}] /\ hydrated' = hydrated
      BY <1>5 DEF HydrateClear
    <3>2. hyd' = [pc |-> "clear", rows |-> hyd.rows, now |-> hyd.now,
                  left |-> hyd.left \ {i}]
      BY <1>4, <1>5, <3>1 DEF HydrateClear, Loading
    <3>3. QED
      BY <1>4, <1>5, <3>1, <3>2 DEF HydrateClear, HydTypeOK, Loading
  <2>5. QED
    BY <1>5, <2>3, <2>4, PartsStay DEF HydrateClear, AdminTypeOK, idVars, faultVars
<1>6. CASE HydrateInstall
  <2>1. /\ hyd = Loading
        /\ MapsIdsTo(hyd.rows, Stored) /\ IsFiniteSet(DOMAIN hyd.rows)
    BY <1>4, <1>6 DEF HydrateInstall
  <2>2. LoadedReady \subseteq DOMAIN hyd.rows /\ IsFiniteSet(LoadedReady)
    BY <2>1, FS_Subset DEF LoadedReady
  <2>3. available' \in Seq(Row)
    <3>1. PICK q \in IdOrders(LoadedReady) :
            available' = [k \in DOMAIN q |-> RowOf(q[k], hyd.rows[q[k]])]
      BY <1>6 DEF HydrateInstall
    <3>2. Cardinality(LoadedReady) \in Nat
      BY <2>2, FS_CardinalityType
    <3>3. q \in [1..Cardinality(LoadedReady) -> LoadedReady]
      BY <3>1 DEF IdOrders, Bijection, Injection
    <3>4. \A k \in DOMAIN q : RowOf(q[k], hyd.rows[q[k]]) \in Row
      BY <2>1, <2>2, <3>3 DEF RowOf, Row, MapsIdsTo, Stored
    <3>5. QED
      BY <3>1, <3>2, <3>3, <3>4
  <2>4. delayed' \subseteq Delayed /\ IsFiniteSet(delayed')
    <3> DEFINE S == DOMAIN hyd.rows \ LoadedReady
               f == [i \in S |-> DelayedRow(i, hyd.rows[i])]
    <3>1. delayed' = {DelayedRow(i, hyd.rows[i]) : i \in S}
      BY <1>6 DEF HydrateInstall
    <3>2. \A i \in S : DelayedRow(i, hyd.rows[i]) \in Delayed
      BY <2>1 DEF MapsIdsTo, Stored, DelayedRow, Delayed
    <3>3. IsFiniteSet(S)
      BY <2>1, FS_Subset
    <3>4. f \in Surjection(S, delayed')
      <4>1. f \in [S -> delayed'] /\ \A d \in delayed' : \E i \in S : f[i] = d
        BY <3>1
      <4>2. QED
        BY <4>1 DEF Surjection
    <3>5. QED
      <4>1. IsFiniteSet(delayed')
        BY <3>3, <3>4, FS_Surjection
      <4>2. QED
        BY <3>1, <3>2, <4>1
  <2>5. delayTimer' \in Nat
    BY <1>6, <2>4, ArmDelayTimerType DEF HydrateInstall
  <2>6. MapsIdsTo(EmptyMap, Leased) /\ IsFiniteSet(DOMAIN EmptyMap)
    BY FS_EmptySet DEF MapsIdsTo, EmptyMap
  <2>7. MemTypeOK'
    BY <1>6, <2>3, <2>4, <2>5, <2>6 DEF HydrateInstall, MemTypeOK
  <2>8. idCounter' \in Nat /\ leaseGenSeq' \in Nat
    BY <1>6, <2>1 DEF HydrateInstall, RestoredCounter, MapsIdsTo
  <2>9. HydTypeOK'
    BY <1>6 DEF HydrateInstall, HydTypeOK
  <2>11. CallerTypeOK'
    BY <1>6 DEF HydrateInstall, AdminTypeOK, CallerTypeOK
  <2>10. QED
    BY <1>6, <2>7, <2>8, <2>9, <2>11, PartsStay DEF HydrateInstall, AdminTypeOK, faultVars
<1>7. QED
  BY <1>2, <1>3, <1>5, <1>6 DEF Hydrates

\* A crash empties memory and leaves the store; time passes.
LEMMA EnvironmentType ==
  ASSUME AdminTypeOK, Crash \/ Tick
  PROVE  AdminTypeOK'
<1>1. CASE Crash
  <2>1. MapsIdsTo(EmptyMap, Leased) /\ IsFiniteSet(DOMAIN EmptyMap)
        /\ IsFiniteSet({})
    BY FS_EmptySet DEF MapsIdsTo, EmptyMap
  <2>2. MemTypeOK'
    BY <1>1, <2>1 DEF Crash, MemTypeOK
  <2>3. HydTypeOK'
    BY <1>1 DEF Crash, HydTypeOK
  <2>4. AdminChainTypeOK'
    BY <1>1 DEF Crash, AdminChainTypeOK
  <2>5. CallerTypeOK'
    BY <1>1 DEF Crash, CallerTypeOK, AdminTypeOK
  <2>6. QED
    BY <1>1, <2>2, <2>3, <2>4, <2>5, PartsStay DEF Crash, AdminTypeOK
<1>2. CASE Tick
  BY <1>2, PartsStay DEF Tick, AdminTypeOK, idVars, faultVars
<1>3. QED
  BY <1>1, <1>2

\* A step of DurableQueue keeps every variable's type.
LEMMA CoreStepType ==
  ASSUME QueueAssumption, AdminTypeOK, [Next]_vars
  PROVE  AdminTypeOK'
<1>1. CASE Next
  BY <1>1, CallsType, BeginsType, FinishesType, StoreType, TimersType,
     HydratesType, EnvironmentType DEF Next
<1>2. CASE UNCHANGED vars
  BY <1>2, PartsStay DEF vars, AdminTypeOK, idVars, faultVars
<1>3. QED
  BY <1>1, <1>2
-----------------------------------------------------------------------------
(* Placements, with the FIFO av, the delay heap D, the leased ids L and the *)
(* popped ids F as parameters.                                              *)

SeqIds(s) == {s[i].id : i \in DOMAIN s}
HeapIds(D) == {d.id : d \in D}

DistinctIds(s) == \A i, j \in DOMAIN s : s[i].id = s[j].id => i = j
KeyedById(D) == \A d, e \in D : d.id = e.id => d = e

Everything(av, D, L, F) == SeqIds(av) \cup HeapIds(D) \cup L \cup F

Placed(av, D, L, F) ==
  /\ DistinctIds(av) /\ KeyedById(D)
  /\ SeqIds(av) \cap HeapIds(D) = {}
  /\ (SeqIds(av) \cup HeapIds(D)) \cap L = {}
  /\ F \cap (SeqIds(av) \cup HeapIds(D) \cup L) = {}

\* RowInOnePlace and PlacedIds, before and after a step, as placements.
LEMMA Placement ==
  /\ RowInOnePlace <=> Placed(available, delayed, DOMAIN leased, InFlight)
  /\ PlacedIds = Everything(available, delayed, DOMAIN leased, InFlight)
  /\ RowInOnePlace' <=> Placed(available', delayed', DOMAIN leased', InFlight')
  /\ PlacedIds' = Everything(available', delayed', DOMAIN leased', InFlight')
<1>1. AvailableIds = SeqIds(available) /\ DelayedIds = HeapIds(delayed)
  BY DEF AvailableIds, AvailableRows, Range, SeqIds, DelayedIds, HeapIds
<1>2. AvailableIds' = SeqIds(available') /\ DelayedIds' = HeapIds(delayed')
  BY DEF AvailableIds, AvailableRows, Range, SeqIds, DelayedIds, HeapIds
<1>3. QED
  BY <1>1, <1>2 DEF RowInOnePlace, PlacedIds, Placed, Everything, DistinctIds,
     KeyedById

\* Fewer leased or popped rows are still in one place.
LEMMA ShrinkPlaced ==
  ASSUME NEW av, NEW D, NEW L, NEW F, NEW L2, NEW F2, Placed(av, D, L, F),
         L2 \subseteq L, F2 \subseteq F
  PROVE  Placed(av, D, L2, F2)
BY DEF Placed

\* The ids of a sequence with one more row.
LEMMA AppendIds ==
  ASSUME NEW av \in Seq(Row), NEW r \in Row
  PROVE  /\ SeqIds(Append(av, r)) = SeqIds(av) \cup {r.id}
         /\ DistinctIds(av) /\ r.id \notin SeqIds(av) =>
              DistinctIds(Append(av, r))
<1> DEFINE w == Append(av, r)
<1>1. /\ Len(w) = Len(av) + 1 /\ DOMAIN w = 1..Len(w) /\ DOMAIN av = 1..Len(av)
      /\ w[Len(w)] = r /\ Len(av) \in Nat
      /\ \A i \in 1..Len(av) : w[i] = av[i]
  OBVIOUS
<1> HIDE DEF w
<1>2. SeqIds(w) = SeqIds(av) \cup {r.id}
  <2>1. SeqIds(w) \subseteq SeqIds(av) \cup {r.id}
    BY <1>1 DEF SeqIds
  <2>2. SeqIds(av) \subseteq SeqIds(w)
    BY <1>1 DEF SeqIds
  <2>3. r.id \in SeqIds(w)
    BY <1>1 DEF SeqIds
  <2>4. QED
    BY <2>1, <2>2, <2>3
<1>3. DistinctIds(av) /\ r.id \notin SeqIds(av) => DistinctIds(w)
  BY <1>1 DEF DistinctIds, SeqIds
<1>4. QED
  BY <1>2, <1>3 DEF w

\* The ids of a FIFO without its head.
LEMMA TailIds ==
  ASSUME NEW av \in Seq(Row), av # <<>>
  PROVE  SeqIds(av) = SeqIds(Tail(av)) \cup {Head(av).id}
<1> DEFINE w == Tail(av)
<1>1. /\ Len(av) \in Nat /\ Len(av) >= 1 /\ DOMAIN av = 1..Len(av)
      /\ Len(w) = Len(av) - 1 /\ DOMAIN w = 1..Len(w)
      /\ \A i \in DOMAIN w : w[i] = av[i + 1]
      /\ Head(av) = av[1]
  OBVIOUS
<1> HIDE DEF w
<1>2. SeqIds(w) \subseteq SeqIds(av)
  BY <1>1 DEF SeqIds
<1>3. ASSUME NEW i \in DOMAIN av
      PROVE  av[i].id \in SeqIds(w) \cup {Head(av).id}
  <2>1. CASE i = 1
    BY <1>1, <2>1
  <2>2. CASE i # 1
    <3>1. i - 1 \in DOMAIN w /\ w[i - 1] = av[i]
      BY <1>1, <2>2
    <3>2. QED
      BY <3>1 DEF SeqIds
  <2>3. QED
    BY <2>1, <2>2
<1>4. Head(av).id \in SeqIds(av)
  BY <1>1 DEF SeqIds
<1>5. SeqIds(av) = SeqIds(w) \cup {Head(av).id}
  BY <1>2, <1>3, <1>4 DEF SeqIds
<1>6. QED
  BY <1>5 DEF w

\* The ids that a row put among the claimable or the delayed ones brings.
LEMMA AddPendingIds ==
  ASSUME available \in Seq(Row), NEW i \in Ids, NEW r \in Stored,
         AddPending(i, r), NEW L, NEW F
  PROVE  Everything(available', delayed', L, F) \subseteq
           Everything(available, delayed, L, F) \cup {i}
<1>1. CASE r.at = 0
  <2>1. available' = Append(available, RowOf(i, r)) /\ delayed' = delayed
    BY <1>1 DEF AddPending
  <2>2. RowOf(i, r) \in Row /\ RowOf(i, r).id = i
    BY DEF RowOf, Row, Stored
  <2>3. SeqIds(available') = SeqIds(available) \cup {i}
    BY <2>1, <2>2, AppendIds
  <2>4. QED
    BY <2>1, <2>3 DEF Everything
<1>2. CASE r.at # 0
  <2>1. PICK d : d = DelayedRow(i, r)
    OBVIOUS
  <2>2. available' = available /\ delayed' = delayed \cup {d}
    BY <1>2, <2>1 DEF AddPending
  <2>3. d.id = i
    BY <2>1 DEF DelayedRow
  <2>4. QED
    BY <2>2, <2>3 DEF Everything, HeapIds
<1>3. QED
  BY <1>1, <1>2

\* A drain appends the due rows to the FIFO.
LEMMA DrainRows ==
  ASSUME MemTypeOK, NEW av \in Drained
  PROVE  /\ \A k \in DOMAIN av : \/ \E m \in DOMAIN available : av[k] = available[m]
                                 \/ \E d \in Due : av[k] = RowOf(d.id, d)
         /\ \A m \in DOMAIN available : m \in DOMAIN av /\ av[m] = available[m]
         /\ \A d \in Due : \E k \in DOMAIN av : av[k] = RowOf(d.id, d)
<1>1. PICK q \in DrainOrders(Due) :
        av = available \o [i \in DOMAIN q |-> RowOf(q[i].id, q[i])]
  BY DEF Drained
<1> DEFINE n == Cardinality(Due)
           t == [i \in DOMAIN q |-> RowOf(q[i].id, q[i])]
<1>2. /\ n \in Nat /\ q \in [1..n -> Due]
      /\ \A d \in Due : \E i \in 1..n : q[i] = d
  <2>1. n \in Nat
    BY FS_Subset, FS_CardinalityType DEF Due, MemTypeOK
  <2>2. QED
    BY <2>1 DEF DrainOrders, Bijection, Surjection
<1>3. \A i \in 1..n : q[i] \in Due /\ t[i] = RowOf(q[i].id, q[i])
  BY <1>2
<1>4. t \in Seq(Row) /\ Len(t) = n /\ DOMAIN t = 1..n
  <2>1. \A i \in 1..n : RowOf(q[i].id, q[i]) \in Row
    BY <1>3 DEF RowOf, Row, Delayed, MemTypeOK, Due
  <2>2. QED
    BY <1>2, <2>1
<1> HIDE DEF n, t
<1>5. /\ DOMAIN available = 1..Len(available) /\ Len(available) \in Nat
      /\ DOMAIN av = 1..(Len(available) + n)
      /\ \A i \in 1..Len(available) : av[i] = available[i]
      /\ \A i \in (Len(available) + 1)..(Len(available) + n) :
           i - Len(available) \in 1..n /\ av[i] = t[i - Len(available)]
      /\ \A i \in 1..n : /\ i + Len(available) \in DOMAIN av
                         /\ av[i + Len(available)] = t[i]
  BY <1>1, <1>2, <1>4 DEF MemTypeOK, t
<1>6. ASSUME NEW k \in DOMAIN av
      PROVE  \/ \E m \in DOMAIN available : av[k] = available[m]
             \/ \E d \in Due : av[k] = RowOf(d.id, d)
  <2>1. k \in DOMAIN available \/ k \in (Len(available) + 1)..(Len(available) + n)
    BY <1>2, <1>5
  <2>2. QED
    BY <1>3, <1>5, <2>1
<1>7. \A m \in DOMAIN available : m \in DOMAIN av /\ av[m] = available[m]
  BY <1>2, <1>5
<1>8. ASSUME NEW d \in Due PROVE \E k \in DOMAIN av : av[k] = RowOf(d.id, d)
  <2>1. PICK i \in 1..n : q[i] = d
    BY <1>2
  <2>2. i + Len(available) \in DOMAIN av /\ av[i + Len(available)] = t[i]
    BY <1>5
  <2>3. t[i] = RowOf(d.id, d)
    BY <1>3, <2>1
  <2>4. QED
    BY <2>2, <2>3
<1>9. QED
  BY <1>6, <1>7, <1>8

\* A drain takes the ids it appends from the delay heap.
LEMMA DrainIds ==
  ASSUME MemTypeOK, NEW av \in Drained, NEW L, NEW F
  PROVE  /\ av \in Seq(Row)
         /\ Everything(av, delayed \ Due, L, F) \subseteq
              Everything(available, delayed, L, F)
<1>1. av \in Seq(Row)
  BY DrainedType DEF MemTypeOK
<1>2. SeqIds(av) \subseteq SeqIds(available) \cup HeapIds(Due)
  BY DrainRows DEF SeqIds, HeapIds, RowOf
<1>3. QED
  BY <1>1, <1>2 DEF Everything, HeapIds, Due

\* A new row at the tail of the FIFO.
LEMMA AppendPlaced ==
  ASSUME NEW av \in Seq(Row), NEW D, NEW L, NEW F, NEW r \in Row,
         Placed(av, D, L, F), r.id \notin Everything(av, D, L, F)
  PROVE  /\ Placed(Append(av, r), D, L, F)
         /\ Everything(Append(av, r), D, L, F) \subseteq
              Everything(av, D, L, F) \cup {r.id}
BY AppendIds DEF Placed, Everything

\* A new row on the delay heap.
LEMMA DelayPlaced ==
  ASSUME NEW av, NEW D, NEW L, NEW F, NEW row, Placed(av, D, L, F),
         row.id \notin Everything(av, D, L, F)
  PROVE  /\ Placed(av, D \cup {row}, L, F)
         /\ Everything(av, D \cup {row}, L, F) \subseteq
              Everything(av, D, L, F) \cup {row.id}
<1>1. HeapIds(D \cup {row}) = HeapIds(D) \cup {row.id}
  BY DEF HeapIds
<1>2. KeyedById(D \cup {row})
  BY DEF KeyedById, Placed, Everything, HeapIds
<1>3. QED
  BY <1>1, <1>2 DEF Placed, Everything

\* A row that was nowhere becomes claimable or waits for its time.
LEMMA AddPendingPlaced ==
  ASSUME available \in Seq(Row), NEW i \in Ids, NEW r \in Stored,
         AddPending(i, r), NEW L, NEW F, Placed(available, delayed, L, F),
         i \notin Everything(available, delayed, L, F)
  PROVE  /\ Placed(available', delayed', L, F)
         /\ Everything(available', delayed', L, F) \subseteq
              Everything(available, delayed, L, F) \cup {i}
<1>1. CASE r.at = 0
  <2>1. available' = Append(available, RowOf(i, r)) /\ delayed' = delayed
    BY <1>1 DEF AddPending
  <2>2. RowOf(i, r) \in Row /\ RowOf(i, r).id = i
    BY DEF RowOf, Row, Stored
  <2>3. QED
    BY <2>1, <2>2, AppendPlaced
<1>2. CASE r.at # 0
  <2>1. PICK d : d = DelayedRow(i, r)
    OBVIOUS
  <2>2. available' = available /\ delayed' = delayed \cup {d}
    BY <1>2, <2>1 DEF AddPending
  <2>3. d.id = i
    BY <2>1 DEF DelayedRow
  <2>4. QED
    BY <2>2, <2>3, DelayPlaced
<1>3. QED
  BY <1>1, <1>2

\* The head of the FIFO is popped.
LEMMA PopPlaced ==
  ASSUME NEW av \in Seq(Row), av # <<>>, NEW D, NEW L, Placed(av, D, L, {})
  PROVE  /\ Placed(Tail(av), D, L, {Head(av).id})
         /\ Everything(Tail(av), D, L, {Head(av).id}) \subseteq Everything(av, D, L, {})
<1> DEFINE w == Tail(av)
<1>1. /\ Len(av) \in Nat /\ Len(av) >= 1 /\ DOMAIN av = 1..Len(av)
      /\ Len(w) = Len(av) - 1 /\ DOMAIN w = 1..Len(w)
      /\ \A i \in DOMAIN w : w[i] = av[i + 1]
      /\ Head(av) = av[1]
  OBVIOUS
<1> HIDE DEF w
<1>2. SeqIds(av) = SeqIds(w) \cup {Head(av).id}
  BY TailIds DEF w
<1>3. Head(av).id \notin SeqIds(w) /\ DistinctIds(w)
  <2>1. DistinctIds(av)
    BY DEF Placed
  <2>2. DistinctIds(w)
    BY <1>1, <2>1 DEF DistinctIds
  <2>3. ASSUME NEW i \in DOMAIN w, w[i].id = Head(av).id PROVE FALSE
    BY <1>1, <2>1, <2>3 DEF DistinctIds
  <2>4. QED
    BY <2>2, <2>3 DEF SeqIds
<1>4. Placed(w, D, L, {Head(av).id})
  BY <1>2, <1>3 DEF Placed
<1>5. Everything(w, D, L, {Head(av).id}) \subseteq Everything(av, D, L, {})
  BY <1>2 DEF Everything
<1>6. QED
  BY <1>4, <1>5 DEF w

\* A drain moves the due rows from the delay heap to the FIFO.
LEMMA DrainPlaced ==
  ASSUME MemTypeOK, NEW L, NEW F, Placed(available, delayed, L, F),
         NEW av \in Drained
  PROVE  /\ av \in Seq(Row)
         /\ Placed(av, delayed \ Due, L, F)
         /\ Everything(av, delayed \ Due, L, F) \subseteq
              Everything(available, delayed, L, F)
<1>1. av \in Seq(Row)
  BY DrainedType DEF MemTypeOK
<1>2. PICK q \in DrainOrders(Due) :
        av = available \o [i \in DOMAIN q |-> RowOf(q[i].id, q[i])]
  BY DEF Drained
<1> DEFINE n == Cardinality(Due)
           t == [i \in DOMAIN q |-> RowOf(q[i].id, q[i])]
<1>3. /\ n \in Nat /\ q \in [1..n -> Due]
      /\ \A i, j \in 1..n : q[i] = q[j] => i = j
  <2>1. n \in Nat
    BY FS_Subset, FS_CardinalityType DEF Due, MemTypeOK
  <2>2. QED
    BY <2>1 DEF DrainOrders, Bijection, Injection, IsInjective
<1>4. \A i \in 1..n : q[i] \in delayed /\ q[i] \in Due /\ t[i].id = q[i].id
  BY <1>3 DEF RowOf, Due
<1>5. t \in Seq(Row) /\ Len(t) = n /\ DOMAIN t = 1..n
  <2>1. \A i \in 1..n : RowOf(q[i].id, q[i]) \in Row
    BY <1>4 DEF RowOf, Row, Delayed, MemTypeOK
  <2>2. QED
    BY <1>3, <2>1
<1>6. DistinctIds(t)
  BY <1>3, <1>4, <1>5 DEF DistinctIds, Placed, KeyedById
<1> HIDE DEF n, t
<1>7. /\ DOMAIN available = 1..Len(available) /\ Len(available) \in Nat
      /\ DOMAIN av = 1..(Len(available) + n)
      /\ \A i \in 1..Len(available) : av[i] = available[i]
      /\ \A i \in (Len(available) + 1)..(Len(available) + n) :
           i - Len(available) \in 1..n /\ av[i] = t[i - Len(available)]
  BY <1>2, <1>3, <1>5 DEF MemTypeOK, t
<1>8. SeqIds(av) \subseteq SeqIds(available) \cup HeapIds(Due)
  <2> SUFFICES ASSUME NEW i \in DOMAIN av
               PROVE  av[i].id \in SeqIds(available) \cup HeapIds(Due)
    BY DEF SeqIds
  <2>1. CASE i \in 1..Len(available)
    BY <1>7, <2>1 DEF SeqIds
  <2>2. CASE i \in (Len(available) + 1)..(Len(available) + n)
    <3>1. av[i].id = q[i - Len(available)].id /\ q[i - Len(available)] \in Due
      BY <1>4, <1>7, <2>2
    <3>2. QED
      BY <3>1 DEF HeapIds
  <2>3. QED
    BY <1>3, <1>7, <2>1, <2>2
<1>9. DistinctIds(av)
  <2> SUFFICES ASSUME NEW i \in DOMAIN av, NEW j \in DOMAIN av, i <= j,
                      av[i].id = av[j].id
               PROVE  i = j
    BY <1>7 DEF DistinctIds
  <2>1. CASE j \in 1..Len(available)
    BY <1>3, <1>7, <2>1 DEF Placed, DistinctIds
  <2>2. CASE i \in (Len(available) + 1)..(Len(available) + n)
    <3>1. j \in (Len(available) + 1)..(Len(available) + n)
      BY <1>3, <1>7, <2>2
    <3>2. t[i - Len(available)].id = t[j - Len(available)].id
      BY <1>7, <2>2, <3>1
    <3>3. i - Len(available) = j - Len(available)
      BY <1>5, <1>6, <1>7, <2>2, <3>1, <3>2 DEF DistinctIds
    <3>4. QED
      BY <1>3, <1>7, <2>2, <3>1, <3>3
  <2>3. ASSUME i \in 1..Len(available),
               j \in (Len(available) + 1)..(Len(available) + n)
        PROVE  FALSE
    <3>1. av[j].id = q[j - Len(available)].id /\ q[j - Len(available)] \in delayed
      BY <1>4, <1>7, <2>3
    <3>2. av[i].id \in SeqIds(available) /\ av[j].id \in HeapIds(delayed)
      BY <1>7, <2>3, <3>1 DEF SeqIds, HeapIds
    <3>3. QED
      BY <3>2 DEF Placed
  <2>4. QED
    BY <1>3, <1>7, <2>1, <2>2, <2>3
<1>10. /\ HeapIds(Due) \cap HeapIds(delayed \ Due) = {}
       /\ HeapIds(Due) \subseteq HeapIds(delayed)
       /\ HeapIds(delayed \ Due) \subseteq HeapIds(delayed)
       /\ KeyedById(delayed \ Due)
  BY DEF Placed, KeyedById, HeapIds, Due
<1>11. Placed(av, delayed \ Due, L, F)
  BY <1>8, <1>9, <1>10 DEF Placed
<1>12. Everything(av, delayed \ Due, L, F) \subseteq
         Everything(available, delayed, L, F)
  BY <1>8, <1>10 DEF Everything
<1>13. QED
  BY <1>1, <1>11, <1>12
-----------------------------------------------------------------------------
(* The chain: what becomes of FreshIds when it moves.                       *)

\* Nothing new is placed and the chain stays or loses its head.
LEMMA FreshAfter ==
  ASSUME chain \in Seq(AnyOp), FreshIds, idCounter' = idCounter,
         PlacedIds' \subseteq PlacedIds,
         \/ chain' = chain
         \/ chain # <<>> /\ chain' = Tail(chain)
  PROVE  FreshIds'
<1>1. CASE chain' = chain
  BY <1>1 DEF FreshIds, QueuedEnqueues
<1>2. CASE chain # <<>> /\ chain' = Tail(chain)
  <2>1. \A i \in DOMAIN chain' : i + 1 \in DOMAIN chain /\ chain'[i] = chain[i + 1]
    BY <1>2
  <2>2. \A i \in QueuedEnqueues' : i + 1 \in QueuedEnqueues /\ chain'[i] = chain[i + 1]
    BY <2>1 DEF QueuedEnqueues
  <2>3. \A i \in QueuedEnqueues' : i \in Int
    BY <1>2 DEF QueuedEnqueues
  <2>4. PlacedIds' \subseteq 1..idCounter'
    BY DEF FreshIds
  <2>5. \A i \in QueuedEnqueues' : chain'[i].id \in (1..idCounter') \ PlacedIds'
    BY <2>2 DEF FreshIds
  <2>6. ASSUME NEW i \in QueuedEnqueues', NEW k \in QueuedEnqueues',
               chain'[i].id = chain'[k].id
        PROVE  i = k
    <3>1. i + 1 = k + 1
      BY <2>2, <2>6 DEF FreshIds
    <3>2. QED
      BY <2>3, <3>1
  <2>7. QED
    BY <2>4, <2>5, <2>6 DEF FreshIds
<1>3. QED
  BY <1>1, <1>2

\* The id of the enqueue that finishes is placed.
LEMMA FreshAfterEnqueue ==
  ASSUME chain \in Seq(AnyOp), idCounter \in Nat, FreshIds, idCounter' = idCounter,
         Running("enqueue"), chain' = Tail(chain),
         PlacedIds' \subseteq PlacedIds \cup {Head(chain).id}
  PROVE  FreshIds'
<1>1. /\ \A i \in DOMAIN chain' :
           i + 1 \in DOMAIN chain /\ chain'[i] = chain[i + 1] /\ i \in Int /\ i >= 1
      /\ 1 \in QueuedEnqueues /\ Head(chain) = chain[1]
  BY DEF Running, QueuedEnqueues
<1>2. \A i \in QueuedEnqueues' :
        /\ i + 1 \in QueuedEnqueues /\ chain'[i] = chain[i + 1]
        /\ i \in Int /\ i + 1 # 1
  BY <1>1 DEF QueuedEnqueues
<1>3. \A i \in QueuedEnqueues' : chain'[i].id # Head(chain).id
  BY <1>1, <1>2 DEF FreshIds
<1>4. Head(chain).id \in 1..idCounter
  BY <1>1 DEF FreshIds
<1>5. \A i, k \in QueuedEnqueues' : chain'[i].id = chain'[k].id => i = k
  <2> SUFFICES ASSUME NEW i \in QueuedEnqueues', NEW k \in QueuedEnqueues',
                      chain'[i].id = chain'[k].id
               PROVE  i = k
    OBVIOUS
  <2>1. /\ i + 1 \in QueuedEnqueues /\ k + 1 \in QueuedEnqueues
        /\ chain[i + 1].id = chain[k + 1].id
    BY <1>2
  <2>2. i + 1 = k + 1
    BY <2>1 DEF FreshIds
  <2>3. QED
    BY <1>2, <2>2
<1>6. \A i \in QueuedEnqueues' : chain'[i].id \in (1..idCounter) \ PlacedIds
  BY <1>2 DEF FreshIds
<1>7. PlacedIds' \subseteq 1..idCounter'
  <2>1. PlacedIds \subseteq 1..idCounter
    BY DEF FreshIds
  <2>2. QED
    BY <1>4, <2>1
<1>8. \A i \in QueuedEnqueues' : chain'[i].id \in (1..idCounter') \ PlacedIds'
  BY <1>3, <1>6
<1>9. QED
  BY <1>5, <1>7, <1>8 DEF FreshIds

\* An operation joins the chain; an enqueue takes the next id.
LEMMA FreshAfterPush ==
  ASSUME chain \in Seq(AnyOp), idCounter \in Nat, FreshIds, NEW op, Push(op),
         PlacedIds' \subseteq PlacedIds,
         IF op.kind = "enqueue"
         THEN op.id = idCounter + 1 /\ idCounter' = idCounter + 1
         ELSE idCounter' = idCounter
  PROVE  FreshIds'
<1>1. /\ Len(chain) \in Nat /\ DOMAIN chain = 1..Len(chain)
      /\ DOMAIN chain' = 1..(Len(chain) + 1)
      /\ \A i \in 1..Len(chain) : chain'[i] = chain[i]
      /\ chain'[Len(chain) + 1] = op
  BY DEF Push
<1>2. \A i \in QueuedEnqueues' :
        \/ i \in QueuedEnqueues /\ chain'[i] = chain[i]
        \/ /\ i = Len(chain) + 1 /\ chain'[i] = op /\ op.kind = "enqueue"
           /\ chain'[i].id = idCounter + 1
  BY <1>1 DEF QueuedEnqueues
<1>3. \A i \in QueuedEnqueues : chain[i].id \in 1..idCounter
  BY DEF FreshIds
<1>4. 1..idCounter \subseteq 1..idCounter' /\ idCounter + 1 \notin PlacedIds
  BY DEF FreshIds
<1>5. PlacedIds' \subseteq 1..idCounter'
  BY <1>4 DEF FreshIds
<1>6. \A i \in QueuedEnqueues' : chain'[i].id \in (1..idCounter') \ PlacedIds'
  BY <1>2, <1>3, <1>4 DEF FreshIds
<1>7. \A i, k \in QueuedEnqueues' : chain'[i].id = chain'[k].id => i = k
  BY <1>2, <1>3 DEF FreshIds
<1>8. QED
  BY <1>5, <1>6, <1>7 DEF FreshIds
-----------------------------------------------------------------------------
(* The shape of a state: the call awaited, the operation at the head of the *)
(* chain and a running hydrate fit, wherever the rows are; and what becomes *)
(* of the ids that are placed.                                              *)

ShapeParts == AdminCallFits /\ QuietLoad

ShapeFit == AdminTypeOK /\ ShapeParts

\* A call that is awaited belongs to the operation at the head of the chain.
LEMMA CallRuns ==
  ASSUME AdminCallFits, cur # Idle
  PROVE  chain # <<>>
BY DEF AdminCallFits, JobRuns, DequeueRuns, BulkRuns, CallFitsOperation, Running

\* What the steps below use of the types.
LEMMA ShapeTypes ==
  ASSUME ShapeFit
  PROVE  /\ MemTypeOK /\ AdminChainTypeOK /\ HydTypeOK /\ chain \in Seq(AnyOp)
         /\ idCounter \in Nat /\ now \in Nat /\ ShapeParts
         /\ available \in Seq(Row)
         /\ cur # Idle => chain # <<>> /\ cur \in Call \cup WholeCall
         /\ cur # Idle /\ cur.pc \in {"main", "reclaim"} =>
              cur \in Call /\ cur.id \in Ids /\ cur.rec \in Stored
<1>1. cur # Idle => chain # <<>>
  BY CallRuns DEF ShapeFit, ShapeParts
<1>2. QED
  BY <1>1 DEF ShapeFit, AdminTypeOK, AdminChainTypeOK, MemTypeOK, Call, WholeCall

\* The call of one of DurableQueue's operations is as it says.
LEMMA CoreCall ==
  ASSUME ShapeFit, cur # Idle, Head(chain).kind \in CoreKinds
  PROVE  /\ CallFitsOperation /\ cur.pc \in {"main", "reclaim"}
         /\ cur \in Call /\ cur.id \in Ids /\ cur.rec \in Stored
<1>1. CallFitsOperation
  BY DEF ShapeFit, ShapeParts, AdminCallFits, JobRuns, DequeueRuns, BulkRuns,
     JobKinds, Bulk, Running, CoreKinds
<1>2. cur.pc \in {"main", "reclaim"}
  BY <1>1 DEF CallFitsOperation
<1>3. cur \in Call
  BY <1>2 DEF ShapeFit, AdminTypeOK, AdminChainTypeOK, WholeCall
<1>4. QED
  BY <1>1, <1>2, <1>3 DEF Call

\* The ids of memory and of a popped row.
LEMMA PlacesAre ==
  /\ PlacedIds = Everything(available, delayed, DOMAIN leased, InFlight)
  /\ PlacedIds' = Everything(available', delayed', DOMAIN leased', InFlight')
BY Placement

\* A call that stays, for an operation that stays, still fits it.
LEMMA FitsStay ==
  ASSUME AdminCallFits, leased' = leased,
         cur = Idle => cur' = Idle,
         cur # Idle => /\ cur' # Idle /\ cur'.pc = cur.pc /\ cur'.id = cur.id
                       /\ cur'.gen = cur.gen
                       /\ chain' # <<>> /\ Head(chain') = Head(chain)
  PROVE  AdminCallFits' /\ InFlight' = InFlight
<1>1. CASE cur = Idle
  BY <1>1 DEF AdminCallFits, CallFitsOperation, InFlight
<1>2. CASE cur # Idle
  <2>1. \A kind : Running(kind)' <=> Running(kind)
    BY <1>2, CallRuns DEF Running
  <2>2. (JobRuns' <=> JobRuns) /\ (DequeueRuns' <=> DequeueRuns)
        /\ (BulkRuns' <=> BulkRuns)
    BY <1>2, <2>1 DEF JobRuns, DequeueRuns, BulkRuns
  <2>3. BulkFits => BulkFits'
    BY <1>2, <2>1 DEF BulkFits
  <2>4. CallFitsOperation => CallFitsOperation'
    BY <1>2, <2>1 DEF CallFitsOperation, Holds
  <2>5. InFlight' = InFlight
    BY <1>2, <2>1 DEF InFlight
  <2>6. QED
    BY <1>2, <2>2, <2>3, <2>4, <2>5 DEF AdminCallFits
<1>3. QED
  BY <1>1, <1>2

\* The same for a step that leaves the collections and the load alone.
LEMMA ShapeStays ==
  ASSUME ShapeParts, UNCHANGED <<available, delayed, leased, hyd>>,
         cur = Idle => cur' = Idle,
         cur # Idle => /\ cur' # Idle /\ cur'.pc = cur.pc /\ cur'.id = cur.id
                       /\ cur'.gen = cur.gen
                       /\ chain' # <<>> /\ Head(chain') = Head(chain),
         hyd.pc = "clear" => Flushed'
  PROVE  ShapeParts' /\ InFlight' = InFlight /\ PlacedIds' = PlacedIds
<1>1. AdminCallFits' /\ InFlight' = InFlight
  BY FitsStay DEF ShapeParts
<1>2. PlacedIds' = PlacedIds
  BY <1>1, PlacesAre
<1>3. QED
  BY <1>1, <1>2 DEF ShapeParts, QuietLoad

\* An operation joins the chain.
LEMMA PushShape ==
  ASSUME ShapeFit, NEW op \in AnyOp, Push(op),
         UNCHANGED <<available, delayed, leased, hyd, cur>>,
         hyd.pc = "clear" => op.kind \in {"extend", "expire"}
  PROVE  /\ ShapeParts' /\ InFlight' = InFlight /\ PlacedIds' = PlacedIds
         /\ chain # <<>> => chain' # <<>> /\ Head(chain') = Head(chain)
<1>1. chain \in Seq(AnyOp) /\ (cur # Idle => chain # <<>>) /\ ShapeParts
  BY ShapeTypes
<1>2. /\ chain' \in Seq(AnyOp) /\ chain' # <<>>
      /\ Len(chain) \in Nat /\ DOMAIN chain = 1..Len(chain)
      /\ DOMAIN chain' = 1..(Len(chain) + 1)
      /\ \A i \in 1..Len(chain) : chain'[i] = chain[i]
      /\ chain'[Len(chain) + 1] = op
      /\ chain # <<>> => Head(chain') = Head(chain)
  BY <1>1 DEF Push
<1>3. hyd.pc = "clear" => Flushed'
  BY <1>1, <1>2 DEF ShapeParts, QuietLoad, Flushed
<1>4. QED
  BY <1>1, <1>2, <1>3, ShapeStays

\* What a call of a caller does: one operation of the code's type joins.
CallJoins ==
  /\ UNCHANGED <<available, delayed, leased, leaseTimer, hyd, hydrated, cur, tokens>>
  /\ \E op \in AnyOp :
       /\ Push(op)
       /\ hyd.pc = "clear" => op.kind = "extend"
       /\ IF op.kind = "enqueue"
          THEN op.id = idCounter + 1 /\ idCounter' = idCounter + 1
          ELSE idCounter' = idCounter

LEMMA CallsJoin ==
  ASSUME QueueAssumption, AdminTypeOK, Calls
  PROVE  CallJoins
<1>1. now \in Nat /\ idCounter \in Nat /\ tokens \subseteq Lease
  BY DEF AdminTypeOK, CallerTypeOK
<1>2. ASSUME NEW j \in Jobs, NEW d \in Delays, Enqueue(j, d)
      PROVE  CallJoins
  <2> DEFINE op == [kind |-> "enqueue", id |-> idCounter + 1, job |-> j,
                    at |-> IF d > 0 THEN now + d ELSE 0]
  <2>1. d \in Nat
    BY DEF QueueAssumption
  <2>2. op \in AnyOp /\ op.kind = "enqueue" /\ op.id = idCounter + 1
    BY <1>1, <2>1 DEF AnyOp, Op, EnqueueOp
  <2>3. /\ Push(op) /\ idCounter' = idCounter + 1 /\ hyd.pc # "clear"
        /\ UNCHANGED <<available, delayed, leased, leaseTimer, hyd, hydrated, cur, tokens>>
    BY <1>2 DEF Enqueue, Serving, memVars, hydVars
  <2> HIDE DEF op
  <2>4. QED
    BY <2>2, <2>3 DEF CallJoins
<1>3. ASSUME NEW op \in AnyOp, LeaseOp(op), op.kind # "enqueue",
             hyd.pc = "clear" => op.kind = "extend"
      PROVE  CallJoins
  BY <1>3 DEF CallJoins, LeaseOp, memVars, idVars, hydVars, callerVars
<1>4. CASE Claim
  <2> DEFINE op == [kind |-> "claim"]
  <2>1. op \in AnyOp /\ op.kind = "claim"
    BY DEF AnyOp, Op, PlainOp
  <2>2. /\ Push(op) /\ hyd.pc # "clear" /\ idCounter' = idCounter
        /\ UNCHANGED <<available, delayed, leased, leaseTimer, hyd, hydrated, cur, tokens>>
    BY <1>4 DEF Claim, Serving, memVars, hydVars, idVars, callerVars
  <2> HIDE DEF op
  <2>3. QED
    BY <2>1, <2>2 DEF CallJoins
<1>5. ASSUME NEW t \in tokens, NEW kind \in {"ack", "release"}, Serving,
             LeaseOp([kind |-> kind, tok |-> t])
      PROVE  CallJoins
  <2>1. [kind |-> kind, tok |-> t] \in AnyOp
    BY <1>1 DEF AnyOp, Op, SettleOp
  <2>2. QED
    BY <1>3, <1>5, <2>1 DEF Serving
<1>6. ASSUME NEW t \in tokens, NEW d \in Delays,
             NEW a \in t.attempt..MaxAttempt, Reschedule(t, d, a)
      PROVE  CallJoins
  <2> DEFINE at == IF d > 0 THEN now + d ELSE 0
  <2>1. t \in Lease /\ a \in Ids /\ at \in Nat
    BY <1>1 DEF QueueAssumption, Lease
  <2>2. [kind |-> "reschedule", tok |-> t, attempt |-> a, at |-> at] \in AnyOp
    <3> HIDE DEF at
    <3> QED
      BY <2>1 DEF AnyOp, Op, RetryOp
  <2>3. LeaseOp([kind |-> "reschedule", tok |-> t, attempt |-> a, at |-> at])
        /\ hyd.pc # "clear"
    BY <1>6 DEF Reschedule, Serving
  <2>4. QED
    BY <1>3, <2>2, <2>3
<1>7. ASSUME NEW t \in tokens, NEW ttl \in ExtendTtls, ExtendLease(t, ttl)
      PROVE  CallJoins
  <2>1. [kind |-> "extend", tok |-> t, ttl |-> ttl] \in AnyOp
    BY <1>1 DEF AnyOp, Op, ExtendOp, QueueAssumption
  <2>2. QED
    BY <1>3, <1>7, <2>1 DEF ExtendLease
<1>8. QED
  BY <1>2, <1>4, <1>5, <1>6, <1>7 DEF Calls, Ack, Release

\* Callers change no shape and place no row.
LEMMA CallsShape ==
  ASSUME QueueAssumption, ShapeFit, Calls
  PROVE  /\ ShapeParts' /\ InFlight' = InFlight /\ PlacedIds' = PlacedIds
         /\ chain # <<>> => chain' # <<>> /\ Head(chain') = Head(chain)
<1>1. CallJoins
  BY CallsJoin DEF ShapeFit
<1>2. PICK op \in AnyOp : Push(op) /\ (hyd.pc = "clear" => op.kind = "extend")
  BY <1>1 DEF CallJoins
<1>3. UNCHANGED <<available, delayed, leased, hyd, cur>>
  BY <1>1 DEF CallJoins
<1>4. QED
  BY <1>2, <1>3, PushShape

\* An operation that ends while hydrate does not rebuild memory, or without
\* leasing a row.
LEMMA EndShape ==
  ASSUME ShapeFit, chain # <<>>, EndOp, hyd' = hyd,
         hyd.pc = "clear" => DOMAIN leased' = {} /\ Flushed
  PROVE  ShapeParts' /\ InFlight' = {}
<1>1. chain \in Seq(AnyOp)
  BY ShapeTypes
<1>2. InFlight' = {} /\ cur' = Idle /\ AdminCallFits'
  BY DEF EndOp, InFlight, AdminCallFits, CallFitsOperation
<1>3. hyd.pc = "clear" => Flushed'
  <2> SUFFICES ASSUME Flushed PROVE Flushed'
    BY DEF EndOp
  <2>1. \A i \in DOMAIN chain' : i + 1 \in DOMAIN chain /\ chain'[i] = chain[i + 1]
    BY <1>1 DEF EndOp
  <2>2. QED
    BY <2>1 DEF Flushed
<1>4. QED
  BY <1>2, <1>3 DEF ShapeParts, QuietLoad

\* A reclaim round awaits the write of a row that l leases.
LEMMA StartReclaimCall ==
  ASSUME NEW l, NEW h, NEW t, StartReclaim(l, h, t)
  PROVE  /\ cur' # Idle /\ cur'.pc = "reclaim"
         /\ cur'.id \in DOMAIN l /\ l[cur'.id].gen = cur'.gen
<1>1. PICK e \in DueLive(l, h, t) :
        cur' = [pc |-> "reclaim", reply |-> "wait", del |-> FALSE,
                id |-> e.id, gen |-> e.gen, rec |-> Cleared(l[e.id]),
                due |-> e.exp, now |-> t]
  BY DEF StartReclaim
<1>2. e.id \in DOMAIN l /\ l[e.id].gen = e.gen
  BY DEF DueLive, Live
<1>3. QED
  BY <1>1, <1>2 DEF Idle

\* A reclaim round fits the operation that runs it, and pops no row.
LEMMA StartReclaimShape ==
  ASSUME NEW l, NEW h, NEW t, StartReclaim(l, h, t), leased' = l, chain' = chain,
         Running("claim") \/ Running("expire")
  PROVE  AdminCallFits' /\ InFlight' = {} /\ ~Running("enqueue")'
<1>1. /\ cur' # Idle /\ cur'.pc = "reclaim"
      /\ cur'.id \in DOMAIN l /\ l[cur'.id].gen = cur'.gen
  BY StartReclaimCall
<1>2. (Running("claim")' \/ Running("expire")') /\ ~Running("enqueue")'
  BY DEF Running
<1>3. QED
  BY <1>1, <1>2 DEF InFlight, AdminCallFits, CallFitsOperation, Holds

\* A claim ends, or pops the head of the FIFO av and awaits its write.
LEMMA TakeHeadShape ==
  ASSUME NEW av \in Seq(Row), NEW D, NEW L,
         chain \in Seq(AnyOp), Running("claim"), TakeHead(av)
  PROVE  /\ Everything(available', D, L, InFlight') \subseteq
              Everything(av, D, L, {})
         /\ chain' = chain \/ chain' = Tail(chain)
         /\ AdminCallFits' /\ (cur' # Idle => ~Running("enqueue")')
<1>1. CASE av = <<>>
  <2>1. available' = av /\ cur' = Idle /\ chain' = Tail(chain) /\ InFlight' = {}
    BY <1>1 DEF TakeHead, EndOp, InFlight
  <2>2. QED
    BY <2>1 DEF AdminCallFits, CallFitsOperation
<1>2. CASE av # <<>>
  <2>1. available' = Tail(av) /\ chain' = chain
    BY <1>2 DEF TakeHead
  <2>2. cur' # Idle /\ cur'.pc = "main" /\ cur'.id = Head(av).id
    BY <1>2 DEF TakeHead, CallStore, Idle
  <2>3. Running("claim")' /\ ~Running("enqueue")' /\ InFlight' = {Head(av).id}
    BY <2>1, <2>2 DEF Running, InFlight
  <2>4. AdminCallFits'
    BY <2>2, <2>3 DEF AdminCallFits, CallFitsOperation
  <2>5. Everything(available', D, L, InFlight') \subseteq Everything(av, D, L, {})
    BY <1>2, <2>1, <2>3, TailIds DEF Everything
  <2>6. QED
    BY <2>1, <2>3, <2>4, <2>5
<1>3. QED
  BY <1>1, <1>2

\* claimCore from the reclaim loop on.
LEMMA ClaimFromShape ==
  ASSUME NEW av \in Seq(Row), NEW D, NEW l, NEW h, NEW t,
         chain \in Seq(AnyOp), Running("claim"), ClaimFrom(av, l, h, t)
  PROVE  /\ Everything(available', D, DOMAIN leased', InFlight') \subseteq
              Everything(av, D, DOMAIN l, {})
         /\ chain' = chain \/ chain' = Tail(chain)
         /\ AdminCallFits' /\ (cur' # Idle => ~Running("enqueue")')
<1>1. leased' = l
  BY DEF ClaimFrom
<1>2. CASE StartReclaim(l, h, t) /\ available' = av
           /\ UNCHANGED <<chain, leaseGenSeq>>
  BY <1>1, <1>2, StartReclaimShape
<1>3. CASE EndReclaim(l, h, t) /\ TakeHead(av)
  <2>1. /\ Everything(available', D, DOMAIN l, InFlight') \subseteq
             Everything(av, D, DOMAIN l, {})
        /\ chain' = chain \/ chain' = Tail(chain)
        /\ AdminCallFits' /\ (cur' # Idle => ~Running("enqueue")')
    BY <1>3, TakeHeadShape
  <2>2. QED
    BY <1>1, <2>1
<1>4. QED
  BY <1>2, <1>3 DEF ClaimFrom

\* Starting an operation places no row: a claim pops one, an enqueue has its id.
LEMMA BeginsShape ==
  ASSUME ShapeFit, Begins
  PROVE  /\ ShapeParts' /\ PlacedIds' \subseteq PlacedIds
         /\ chain' = chain \/ chain' = Tail(chain)
         /\ Running("enqueue")' /\ cur' # Idle =>
              Starting("enqueue") /\ cur'.id = Head(chain).id
<1>1. /\ chain \in Seq(AnyOp) /\ ShapeParts /\ MemTypeOK
      /\ cur = Idle /\ chain # <<>> /\ InFlight = {} /\ hyd' = hyd
  BY ShapeTypes DEF Begins, BeginEnqueue, BeginLeaseOp, BeginClaim,
     BeginExpire, Starting, Running, InFlight, hydVars
<1>2. hyd.pc = "clear" =>
        /\ Flushed /\ DOMAIN leased = {}
        /\ ~Running("enqueue") /\ ~Running("claim")
  <2>1. Head(chain) = chain[1] /\ 1 \in DOMAIN chain
    BY <1>1
  <2>2. QED
    BY <1>1, <2>1 DEF ShapeParts, QuietLoad, Flushed, Running
<1>3. ASSUME EndOp, UNCHANGED <<available, delayed, leased>>
      PROVE  /\ ShapeParts' /\ PlacedIds' \subseteq PlacedIds
             /\ chain' = Tail(chain) /\ cur' = Idle
  <2>1. ShapeParts' /\ InFlight' = {}
    BY <1>1, <1>2, <1>3, EndShape
  <2>2. QED
    BY <1>1, <1>3, <2>1, PlacesAre DEF EndOp
<1>4. CASE BeginEnqueue
  <2>1. UNCHANGED <<available, delayed, leased>>
        /\ Starting("enqueue") /\ Running("enqueue") /\ hyd.pc # "clear"
    BY <1>2, <1>4 DEF BeginEnqueue, memVars, Starting
  <2>2. CASE EndOp
    BY <1>3, <2>1, <2>2
  <2>3. ASSUME NEW rec, CallStore(FALSE, Head(chain).id, None, rec),
               UNCHANGED chain
        PROVE  ShapeParts' /\ PlacedIds' \subseteq PlacedIds /\ cur'.id = Head(chain).id
    <3>1. /\ cur' # Idle /\ cur'.pc = "main" /\ cur'.id = Head(chain').id
          /\ Running("enqueue")' /\ ~Running("claim")' /\ ~Running("dequeue")'
      BY <2>1, <2>3 DEF CallStore, Idle, Running
    <3>2. InFlight' = {} /\ AdminCallFits'
      BY <3>1 DEF InFlight, AdminCallFits, CallFitsOperation
    <3>3. QED
      BY <1>1, <2>1, <2>3, <3>1, <3>2, PlacesAre DEF ShapeParts, QuietLoad
  <2>4. QED
    BY <1>4, <2>1, <2>2, <2>3 DEF BeginEnqueue
<1>5. CASE BeginLeaseOp
  <2>1. PICK kind \in {"ack", "release", "reschedule", "extend"} : Running(kind)
    BY <1>5 DEF BeginLeaseOp, Starting
  <2>2. UNCHANGED <<available, delayed, leased>>
    BY <1>5 DEF BeginLeaseOp, memVars
  <2>3. CASE EndOp
    BY <1>3, <2>2, <2>3
  <2>4. ASSUME NEW del, NEW rec, NEW tok, Holds(tok.id, tok.gen),
               CallStore(del, tok.id, tok.gen, rec), UNCHANGED chain
        PROVE  ShapeParts' /\ PlacedIds' \subseteq PlacedIds /\ ~Running("enqueue")'
    <3>1. /\ cur' # Idle /\ cur'.pc = "main" /\ cur'.id = tok.id
          /\ cur'.gen = tok.gen
      BY <2>4 DEF CallStore, Idle
    <3>2. Running(kind)' /\ ~Running("claim")' /\ ~Running("dequeue")'
          /\ ~Running("enqueue")'
      BY <2>1, <2>4 DEF Running
    <3>3. InFlight' = {} /\ AdminCallFits'
      BY <2>2, <2>4, <3>1, <3>2 DEF InFlight, AdminCallFits, CallFitsOperation,
         Holds
    <3>4. hyd.pc # "clear"
      BY <1>2, <2>4 DEF Holds
    <3>5. QED
      BY <1>1, <2>2, <3>2, <3>3, <3>4, PlacesAre DEF ShapeParts, QuietLoad
  <2>5. QED
    BY <1>5, <2>3, <2>4 DEF BeginLeaseOp
<1>6. CASE BeginClaim
  <2>1. Running("claim") /\ hyd.pc # "clear"
    BY <1>2, <1>6 DEF BeginClaim, Starting
  <2>2. PICK av \in Drained :
          /\ Promotes(av)
          /\ IF LeaseTtl # None \/ expiries # {}
             THEN ClaimFrom(av, leased, expiries, now)
             ELSE TakeHead(av) /\ UNCHANGED <<leased, expiries, leaseTimer>>
    BY <1>6 DEF BeginClaim
  <2>3. /\ av \in Seq(Row)
        /\ Everything(av, delayed', DOMAIN leased, {}) \subseteq PlacedIds
    <3>1. delayed' = delayed \ Due
      BY <2>2 DEF Promotes
    <3>2. QED
      BY <1>1, <3>1, DrainIds, PlacesAre
  <2>4. /\ Everything(available', delayed', DOMAIN leased', InFlight')
             \subseteq Everything(av, delayed', DOMAIN leased, {})
        /\ chain' = chain \/ chain' = Tail(chain)
        /\ AdminCallFits' /\ (cur' # Idle => ~Running("enqueue")')
    <3>1. CASE ClaimFrom(av, leased, expiries, now)
      BY <1>1, <2>1, <2>3, <3>1, ClaimFromShape
    <3>2. CASE TakeHead(av) /\ UNCHANGED <<leased, expiries, leaseTimer>>
      <4>1. /\ Everything(available', delayed', DOMAIN leased, InFlight')
                 \subseteq Everything(av, delayed', DOMAIN leased, {})
            /\ chain' = chain \/ chain' = Tail(chain)
            /\ AdminCallFits' /\ (cur' # Idle => ~Running("enqueue")')
        BY <1>1, <2>1, <2>3, <3>2, TakeHeadShape
      <4>2. QED
        BY <3>2, <4>1
    <3>3. QED
      BY <2>2, <3>1, <3>2
  <2>5. QED
    BY <1>1, <2>1, <2>3, <2>4, PlacesAre DEF ShapeParts, QuietLoad
<1>7. CASE BeginExpire
  <2>1. UNCHANGED <<available, delayed, leased>> /\ Running("expire")
    BY <1>7 DEF BeginExpire, Starting
  <2>2. CASE StartReclaim(leased, expiries, now) /\ UNCHANGED chain
    <3>1. AdminCallFits' /\ InFlight' = {} /\ ~Running("enqueue")'
      BY <2>1, <2>2, StartReclaimShape
    <3>2. hyd.pc # "clear"
      BY <1>2, <2>2, StartReclaimCall
    <3>3. QED
      BY <1>1, <2>1, <2>2, <3>1, <3>2, PlacesAre DEF ShapeParts, QuietLoad
  <2>3. CASE EndReclaim(leased, expiries, now) /\ EndOp
    BY <1>3, <2>1, <2>3
  <2>4. QED
    BY <1>7, <2>2, <2>3 DEF BeginExpire
<1>8. QED
  BY <1>4, <1>5, <1>6, <1>7 DEF Begins

\* The store has answered the call of the running operation of DurableQueue.
AnswerComes == /\ cur # Idle /\ chain # <<>> /\ cur.pc \in {"main", "reclaim"}
               /\ Head(chain).kind \in CoreKinds

\* The steps of Finishes are continuations of an answered call.
LEMMA FinishAnswer ==
  ASSUME Finishes
  PROVE  AnswerComes
BY DEF Finishes, FinishEnqueue, FinishRefused, FinishAck, FinishReturn,
   FinishExtend, FinishClaim, ClaimRefused, ReclaimThenClaim, ReclaimThenLoop,
   ReclaimRefused, Replied, Reclaiming, Running, AnswerComes, CoreKinds

\* Finishing an operation places the row of its call, which only an enqueue has
\* not placed before.
LEMMA FinishesShape ==
  ASSUME ShapeFit, Finishes
  PROVE  /\ ShapeParts' /\ PlacedIds' \subseteq PlacedIds \cup {cur.id}
         /\ ~FinishEnqueue => PlacedIds' \subseteq PlacedIds
         /\ chain' = chain \/ chain' = Tail(chain)
         /\ cur' # Idle => ~Running("enqueue")'
         /\ Running("enqueue") => EndOp
<1>1. AnswerComes
  BY FinishAnswer
<1>2. /\ chain \in Seq(AnyOp) /\ ShapeParts /\ MemTypeOK
      /\ available \in Seq(Row) /\ CallFitsOperation
      /\ cur \in Call /\ cur.id \in Ids /\ cur.rec \in Stored
      /\ cur # Idle /\ chain # <<>>
  BY <1>1, ShapeTypes, CoreCall DEF AnswerComes
<1>3. hyd' = hyd /\ hyd.pc # "clear"
  <2>1. hyd' = hyd
    BY DEF Finishes, FinishEnqueue, FinishRefused, FinishAck, FinishReturn,
       FinishExtend, FinishClaim, ClaimRefused, ReclaimThenClaim,
       ReclaimThenLoop, ReclaimRefused, hydVars
  <2>2. QED
    BY <1>2, <2>1 DEF ShapeParts, QuietLoad
<1>4. ASSUME NEW S, EndOp,
             Everything(available', delayed', DOMAIN leased', {}) \subseteq S
      PROVE  /\ ShapeParts' /\ PlacedIds' \subseteq S
             /\ chain' = Tail(chain) /\ cur' = Idle
  <2>1. ShapeParts' /\ InFlight' = {}
    BY <1>2, <1>3, <1>4, EndShape
  <2>2. QED
    BY <1>4, <2>1, PlacesAre DEF EndOp
<1>5. RowOf(cur.id, cur.rec) \in Row /\ RowOf(cur.id, cur.rec).id = cur.id
  BY <1>2 DEF RowOf, Row, Stored
<1>6. DOMAIN Without(leased, cur.id) = DOMAIN leased \ {cur.id}
  BY <1>2, WithoutType DEF Without, Restrict
<1>7. cur.id \in DOMAIN leased \cup InFlight => cur.id \in PlacedIds
  BY DEF PlacedIds
<1>8. SeqIds(Append(available, RowOf(cur.id, cur.rec))) = SeqIds(available) \cup {cur.id}
  BY <1>2, <1>5, AppendIds
<1>9. CASE FinishEnqueue
  <2>1. /\ AddPending(cur.id, cur.rec) /\ EndOp /\ leased' = leased
    BY <1>9 DEF FinishEnqueue
  <2>2. Everything(available', delayed', DOMAIN leased', {})
          \subseteq PlacedIds \cup {cur.id}
    BY <1>2, <2>1, AddPendingIds, PlacesAre DEF Everything
  <2>3. QED
    BY <1>4, <1>9, <2>1, <2>2
<1>10. CASE FinishRefused \/ FinishAck \/ FinishExtend \/ ReclaimRefused
  <2>1. /\ EndOp /\ UNCHANGED <<available, delayed>>
        /\ DOMAIN leased' \subseteq DOMAIN leased
    BY <1>6, <1>10 DEF FinishRefused, FinishAck, FinishExtend, ReclaimRefused, memVars
  <2>2. Everything(available', delayed', DOMAIN leased', {}) \subseteq PlacedIds
    BY <2>1, PlacesAre DEF Everything
  <2>3. QED
    BY <1>4, <2>1, <2>2
<1>11. CASE FinishReturn
  <2>1. /\ EndOp /\ AddPending(cur.id, cur.rec) /\ cur.id \in DOMAIN leased
        /\ leased' = Without(leased, cur.id)
    BY <1>11 DEF FinishReturn, Holds
  <2>2. Everything(available', delayed', DOMAIN leased', {}) \subseteq PlacedIds
    BY <1>2, <1>6, <1>7, <2>1, AddPendingIds, PlacesAre DEF Everything
  <2>3. QED
    BY <1>4, <2>1, <2>2
<1>12. (Replied("claim", "ok") \/ Replied("claim", "err")) => InFlight = {cur.id}
  BY DEF Replied, InFlight
<1>13. CASE FinishClaim
  <2>1. /\ EndOp /\ UNCHANGED <<available, delayed>> /\ InFlight = {cur.id}
        /\ DOMAIN leased' = DOMAIN leased \cup {cur.id}
    BY <1>12, <1>13 DEF FinishClaim, Put
  <2>2. Everything(available', delayed', DOMAIN leased', {}) \subseteq PlacedIds
    BY <2>1, PlacesAre DEF Everything
  <2>3. QED
    BY <1>4, <2>1, <2>2
<1>14. CASE ClaimRefused
  <2>1. /\ EndOp /\ UNCHANGED <<delayed, leased>> /\ InFlight = {cur.id}
        /\ available' = Append(available, RowOf(cur.id, cur.rec))
    BY <1>12, <1>14 DEF ClaimRefused
  <2>2. Everything(available', delayed', DOMAIN leased', {}) \subseteq PlacedIds
    BY <1>8, <2>1, PlacesAre DEF Everything
  <2>3. QED
    BY <1>4, <2>1, <2>2
<1>15. ASSUME cur.id \in DOMAIN leased
       PROVE  /\ ReclaimedFifo \in Seq(Row)
              /\ Everything(ReclaimedFifo, delayed, DOMAIN ReclaimedLeases, {})
                   \subseteq PlacedIds
  <2>1. ReclaimedFifo \in Seq(Row)
    BY <1>2, <1>5 DEF ReclaimedFifo
  <2>2. SeqIds(ReclaimedFifo) = SeqIds(available) \cup {cur.id}
    BY <1>8 DEF ReclaimedFifo
  <2>3. DOMAIN ReclaimedLeases \subseteq DOMAIN leased
    BY <1>6 DEF ReclaimedLeases
  <2>4. QED
    BY <1>7, <1>15, <2>1, <2>2, <2>3, PlacesAre DEF Everything
<1>16. CASE ReclaimThenClaim
  <2>1. /\ Running("claim") /\ cur.id \in DOMAIN leased /\ delayed' = delayed
        /\ ClaimFrom(ReclaimedFifo, ReclaimedLeases, expiries, cur.now)
    BY <1>16 DEF ReclaimThenClaim, Reclaiming, Holds
  <2>2. /\ Everything(available', delayed, DOMAIN leased', InFlight')
             \subseteq Everything(ReclaimedFifo, delayed, DOMAIN ReclaimedLeases, {})
        /\ chain' = chain \/ chain' = Tail(chain)
        /\ AdminCallFits' /\ (cur' # Idle => ~Running("enqueue")')
    BY <1>2, <1>15, <2>1, ClaimFromShape
  <2>3. ~Running("enqueue")
    BY <2>1 DEF Running
  <2>4. QED
    BY <1>3, <1>15, <2>1, <2>2, <2>3, PlacesAre DEF ShapeParts, QuietLoad
<1>17. CASE ReclaimThenLoop
  <2>1. /\ Running("expire") /\ cur.id \in DOMAIN leased /\ delayed' = delayed
        /\ available' = ReclaimedFifo /\ leased' = ReclaimedLeases
    BY <1>17 DEF ReclaimThenLoop, Reclaiming, Holds
  <2>2. Everything(available', delayed', DOMAIN leased', {}) \subseteq PlacedIds
    BY <1>15, <2>1
  <2>3. CASE EndReclaim(leased', expiries, cur.now) /\ EndOp
    BY <1>4, <2>2, <2>3
  <2>4. CASE StartReclaim(leased', expiries, cur.now) /\ UNCHANGED chain
    <3>1. AdminCallFits' /\ InFlight' = {} /\ ~Running("enqueue")'
      BY <2>1, <2>4, StartReclaimShape
    <3>2. ~Running("enqueue")
      BY <2>1 DEF Running
    <3>3. QED
      BY <1>3, <2>2, <2>4, <3>1, <3>2, PlacesAre DEF ShapeParts, QuietLoad
  <2>5. QED
    BY <1>17, <2>3, <2>4 DEF ReclaimThenLoop
<1>18. QED
  BY <1>9, <1>10, <1>11, <1>13, <1>14, <1>16, <1>17 DEF Finishes

\* An answer of the store.
LEMMA StoreShape ==
  ASSUME ShapeFit, StoreApplies \/ StoreRefuses
  PROVE  /\ ShapeParts' /\ InFlight' = InFlight /\ PlacedIds' = PlacedIds
         /\ chain' = chain /\ cur # Idle /\ cur' # Idle /\ cur'.id = cur.id
<1>1. /\ chain \in Seq(AnyOp) /\ ShapeParts
      /\ cur # Idle => chain # <<>> /\ cur \in Call \cup WholeCall
  BY ShapeTypes
<1>2. /\ UNCHANGED <<available, delayed, leased, hyd, chain>>
      /\ cur # Idle
  BY DEF StoreApplies, StoreRefuses, memVars, hydVars, Idle
<1>3. /\ cur' # Idle /\ cur'.pc = cur.pc /\ cur'.id = cur.id
      /\ cur'.gen = cur.gen
  <2>1. PICK r : cur' = [cur EXCEPT !.reply = r]
    BY DEF StoreApplies, StoreRefuses
  <2>2. CASE cur \in Call
    BY <1>2, <2>1, <2>2 DEF Call, Idle
  <2>3. CASE cur \in WholeCall
    BY <1>2, <2>1, <2>3 DEF WholeCall, Idle
  <2>4. QED
    BY <1>1, <1>2, <2>2, <2>3
<1>4. hyd.pc # "clear"
  BY <1>1, <1>2 DEF ShapeParts, QuietLoad
<1>5. QED
  BY <1>1, <1>2, <1>3, <1>4, ShapeStays

\* Timers and readers move rows that are placed.
LEMMA TimersShape ==
  ASSUME ShapeFit, ReaderPromotes \/ DelayTimerFires \/ LeaseTimerFires
  PROVE  /\ ShapeParts' /\ InFlight' = InFlight /\ PlacedIds' \subseteq PlacedIds
         /\ cur' = cur
         /\ chain # <<>> => chain' # <<>> /\ Head(chain') = Head(chain)
<1>1. chain \in Seq(AnyOp) /\ ShapeParts /\ MemTypeOK
  BY ShapeTypes
<1>2. CASE ReaderPromotes \/ DelayTimerFires
  <2>1. PICK av \in Drained : Promotes(av) /\ available' = av
    BY <1>2 DEF ReaderPromotes, DelayTimerFires
  <2>2. /\ UNCHANGED <<leased, hyd, chain, cur>>
        /\ delayed' = delayed \ Due
    BY <1>2, <2>1 DEF ReaderPromotes, DelayTimerFires, Promotes, hydVars, chainVars
  <2>3. AdminCallFits' /\ InFlight' = InFlight
    BY <1>1, <2>2, FitsStay, CallRuns DEF ShapeParts
  <2>4. QuietLoad'
    BY <1>1, <2>2 DEF ShapeParts, QuietLoad, Flushed
  <2>5. PlacedIds' \subseteq PlacedIds
    BY <1>1, <2>1, <2>2, <2>3, DrainIds, PlacesAre
  <2>6. QED
    BY <2>2, <2>3, <2>4, <2>5 DEF ShapeParts
<1>3. CASE LeaseTimerFires
  <2>1. UNCHANGED <<available, delayed, leased, hyd, cur>>
    BY <1>3 DEF LeaseTimerFires, hydVars
  <2>2. CASE Push([kind |-> "expire"])
    <3> DEFINE op == [kind |-> "expire"]
    <3>1. op \in AnyOp /\ op.kind = "expire" /\ Push(op)
      BY <2>2 DEF AnyOp, Op, PlainOp
    <3> HIDE DEF op
    <3>2. QED
      BY <2>1, <3>1, PushShape
  <2>3. CASE UNCHANGED chain
    <3>1. hyd.pc = "clear" => Flushed'
      BY <1>1, <2>3 DEF ShapeParts, QuietLoad, Flushed
    <3>2. QED
      BY <1>1, <2>1, <2>3, <3>1, ShapeStays, CallRuns DEF ShapeParts
  <2>4. QED
    BY <1>3, <2>2, <2>3 DEF LeaseTimerFires
<1>4. QED
  BY <1>2, <1>3

\* The memory that hydrate installs.
LEMMA InstallShape ==
  ASSUME ShapeFit, HydrateInstall
  PROVE  /\ cur = Idle /\ Flushed /\ DOMAIN leased = {} /\ InFlight' = {}
         /\ MapsIdsTo(hyd.rows, Stored) /\ IsFiniteSet(DOMAIN hyd.rows)
         /\ PlacedIds' \subseteq DOMAIN hyd.rows /\ ShapeParts'
         /\ UNCHANGED <<chain, cur>>
<1>0. ShapeParts /\ HydTypeOK
  BY ShapeTypes
<1>1. /\ DOMAIN leased = {} /\ cur = Idle /\ Flushed
      /\ MapsIdsTo(hyd.rows, Stored) /\ IsFiniteSet(DOMAIN hyd.rows)
      /\ leased' = EmptyMap /\ cur' = cur /\ chain' = chain
  BY <1>0 DEF HydrateInstall, ShapeParts, QuietLoad, HydTypeOK, NoHydrate,
     chainVars
<1>2. InFlight' = {} /\ AdminCallFits' /\ QuietLoad'
  BY <1>1 DEF HydrateInstall, InFlight, AdminCallFits, CallFitsOperation,
     QuietLoad, NoHydrate
<1>3. PICK q \in IdOrders(LoadedReady) :
        available' = [k \in DOMAIN q |-> RowOf(q[k], hyd.rows[q[k]])]
  BY DEF HydrateInstall
<1>4. /\ LoadedReady \subseteq DOMAIN hyd.rows
      /\ \A k \in DOMAIN q : q[k] \in LoadedReady
  BY <1>3 DEF LoadedReady, IdOrders, Bijection, Injection, IsInjective
<1>5. SeqIds(available') \subseteq DOMAIN hyd.rows
  BY <1>3, <1>4 DEF RowOf, SeqIds
<1>6. HeapIds(delayed') \subseteq DOMAIN hyd.rows
  BY DEF HydrateInstall, HeapIds, DelayedRow
<1>7. PlacedIds' \subseteq DOMAIN hyd.rows
  BY <1>1, <1>2, <1>5, <1>6, PlacesAre DEF Everything, EmptyMap
<1>8. QED
  BY <1>1, <1>2, <1>7 DEF ShapeParts

\* hydrate places the rows it has loaded when nothing runs.
LEMMA HydratesShape ==
  ASSUME ShapeFit, Hydrates
  PROVE  /\ ShapeParts' /\ UNCHANGED <<chain, cur>>
         /\ \/ /\ UNCHANGED <<available, delayed, leased>>
               /\ InFlight' = InFlight /\ PlacedIds' = PlacedIds
            \/ HydrateInstall
<1>1. chain \in Seq(AnyOp) /\ ShapeParts /\ HydTypeOK
  BY ShapeTypes
<1>2. ASSUME UNCHANGED <<available, delayed, leased, chain, cur>>, QuietLoad'
      PROVE  /\ ShapeParts' /\ InFlight' = InFlight /\ PlacedIds' = PlacedIds
             /\ UNCHANGED <<available, delayed, leased, chain, cur>>
  <2>1. InFlight' = InFlight /\ AdminCallFits'
    BY <1>1, <1>2, FitsStay, CallRuns DEF ShapeParts
  <2>2. QED
    BY <1>2, <2>1, PlacesAre DEF ShapeParts
<1>3. CASE HydrateStart \/ HydrateRejects \/ HydrateRefused
  <2>1. QuietLoad' /\ UNCHANGED <<available, delayed, leased, chain, cur>>
    BY <1>3 DEF HydrateStart, HydrateRejects, HydrateRefused, memVars, chainVars,
       NoHydrate, QuietLoad
  <2>2. QED
    BY <1>2, <2>1
<1>4. CASE HydrateLoad
  <2>1. Flushed /\ DOMAIN leased = {}
        /\ UNCHANGED <<available, delayed, leased, chain, cur>>
    BY <1>4 DEF HydrateLoad, memVars, chainVars
  <2>2. cur = Idle
    <3> SUFFICES ASSUME cur # Idle PROVE FALSE
      OBVIOUS
    <3>1. ~Holds(cur.id, cur.gen)
      BY <2>1 DEF Holds
    <3>2. chain # <<>>
      BY <1>1, CallRuns DEF ShapeParts
    <3>3. Head(chain) = chain[1] /\ 1 \in DOMAIN chain
      BY <1>1, <3>2
    <3>4. Head(chain).kind \in {"extend", "expire"}
      BY <2>1, <3>3 DEF Flushed
    <3>5. CallFitsOperation
      BY <3>4, CoreCall DEF CoreKinds
    <3>6. QED
      BY <3>1, <3>4, <3>5 DEF CallFitsOperation, Running
  <2>3. QuietLoad'
    BY <2>1, <2>2 DEF QuietLoad, Flushed
  <2>4. QED
    BY <1>2, <2>1, <2>3
<1>5. ASSUME NEW i \in DOMAIN store, HydrateClear(i)
      PROVE  /\ ShapeParts' /\ InFlight' = InFlight /\ PlacedIds' = PlacedIds
             /\ UNCHANGED <<available, delayed, leased, chain, cur>>
  <2>1. QuietLoad' /\ UNCHANGED <<available, delayed, leased, chain, cur>>
    BY <1>1, <1>5 DEF HydrateClear, ShapeParts, QuietLoad, Flushed, memVars,
       chainVars
  <2>2. QED
    BY <1>2, <2>1
<1>6. CASE HydrateInstall
  BY <1>1, <1>6, InstallShape
<1>7. QED
  BY <1>3, <1>4, <1>5, <1>6 DEF Hydrates

\* A crash leaves nothing in memory; time changes no shape.
LEMMA EnvironmentShape ==
  ASSUME ShapeFit, Crash \/ Tick
  PROVE  ShapeParts' /\ PlacedIds' \subseteq PlacedIds
         /\ (Crash => cur' = Idle /\ InFlight' = {} /\ PlacedIds' = {})
<1>1. CASE Crash
  <2>1. /\ available' = <<>> /\ delayed' = {} /\ leased' = EmptyMap
        /\ chain' = <<>> /\ cur' = Idle /\ hyd' = NoHydrate
    BY <1>1 DEF Crash
  <2>2. InFlight' = {} /\ AdminCallFits' /\ QuietLoad'
    BY <2>1 DEF InFlight, AdminCallFits, CallFitsOperation, QuietLoad, NoHydrate
  <2>3. SeqIds(available') = {} /\ HeapIds(delayed') = {} /\ DOMAIN leased' = {}
    BY <2>1 DEF SeqIds, HeapIds, EmptyMap
  <2>4. PlacedIds' = {}
    BY <2>2, <2>3, PlacesAre DEF Everything
  <2>5. QED
    BY <2>1, <2>2, <2>4 DEF ShapeParts
<1>2. CASE Tick
  <2>1. UNCHANGED <<available, delayed, leased, hyd, chain, cur>> /\ ~Crash
    BY <1>2 DEF Tick, Crash, memVars, hydVars, chainVars, faultVars, ShapeFit,
       AdminTypeOK
  <2>2. hyd.pc = "clear" => Flushed'
    BY <2>1 DEF ShapeFit, ShapeParts, QuietLoad, Flushed
  <2>3. QED
    BY <2>1, <2>2, ShapeStays, CallRuns DEF ShapeFit, ShapeParts
<1>3. QED
  BY <1>1, <1>2

\* In the initial state nothing is placed.
LEMMA InitShape ==
  ASSUME QueueAssumption, Init
  PROVE  ShapeFit /\ InFlight = {} /\ PlacedIds = {}
<1>1. AdminTypeOK
  BY InitType
<1>2. /\ available = <<>> /\ delayed = {} /\ DOMAIN leased = {}
      /\ chain = <<>> /\ cur = Idle /\ hyd = NoHydrate
  BY DEF Init, EmptyMap
<1>3. InFlight = {} /\ AdminCallFits /\ QuietLoad
  BY <1>2 DEF InFlight, AdminCallFits, CallFitsOperation, QuietLoad, NoHydrate
<1>4. SeqIds(available) = {} /\ HeapIds(delayed) = {}
  BY <1>2 DEF SeqIds, HeapIds
<1>5. PlacedIds = {}
  BY <1>2, <1>3, <1>4, PlacesAre DEF Everything
<1>6. QED
  BY <1>1, <1>3, <1>5 DEF ShapeFit, ShapeParts

\* The steps of DurableQueue keep the shape, whatever waits on the chain.
LEMMA CoreStepShape ==
  ASSUME QueueAssumption, ShapeFit, [Next]_vars
  PROVE  ShapeFit'
<1>1. AdminTypeOK'
  BY CoreStepType DEF ShapeFit
<1>2. ShapeParts'
  <2>1. CASE Next
    BY <2>1, CallsShape, BeginsShape, FinishesShape, StoreShape, TimersShape,
       HydratesShape, EnvironmentShape DEF Next
  <2>2. CASE UNCHANGED vars
    <3>1. UNCHANGED <<available, delayed, leased, hyd, chain, cur>>
      BY <2>2 DEF vars, memVars, chainVars, hydVars
    <3>2. hyd.pc = "clear" => Flushed'
      BY <3>1 DEF ShapeFit, ShapeParts, QuietLoad, Flushed
    <3>3. QED
      BY <3>1, <3>2, ShapeStays, CallRuns DEF ShapeFit, ShapeParts
  <2>3. QED
    BY <2>1, <2>2
<1>3. QED
  BY <1>1, <1>2 DEF ShapeFit
-----------------------------------------------------------------------------
(* Every row in one place.                                                  *)

RowParts == RowInOnePlace /\ NewRow

RowsFit == ShapeFit /\ RowParts

\* The row that an enqueue is writing stays new while no other row is placed.
LEMMA StaysNew ==
  ASSUME NewRow, PlacedIds' \subseteq PlacedIds,
         Running("enqueue")' /\ cur' # Idle =>
           Running("enqueue") /\ cur # Idle /\ cur'.id = cur.id
  PROVE  NewRow'
BY DEF NewRow

\* A step that leaves the collections, the operation and its call alone.
LEMMA RowsStay ==
  ASSUME RowParts, UNCHANGED <<available, delayed, leased>>,
         InFlight' = InFlight, PlacedIds' = PlacedIds,
         Running("enqueue")' /\ cur' # Idle =>
           Running("enqueue") /\ cur # Idle /\ cur'.id = cur.id
  PROVE  RowParts'
<1>1. RowInOnePlace'
  BY Placement DEF RowParts
<1>2. QED
  BY <1>1, StaysNew DEF RowParts

\* The operation at the head stays and its call too.
LEMMA SameCall ==
  ASSUME ShapeFit, cur' = cur,
         chain # <<>> => chain' # <<>> /\ Head(chain') = Head(chain)
  PROVE  Running("enqueue")' /\ cur' # Idle =>
           Running("enqueue") /\ cur # Idle /\ cur'.id = cur.id
BY ShapeTypes DEF Running

\* Callers only queue operations.
LEMMA CallsRows ==
  ASSUME QueueAssumption, RowsFit, Calls
  PROVE  RowParts'
<1>1. /\ InFlight' = InFlight /\ PlacedIds' = PlacedIds
      /\ chain # <<>> => chain' # <<>> /\ Head(chain') = Head(chain)
  BY CallsShape DEF RowsFit
<1>2. UNCHANGED <<available, delayed, leased, cur>>
  BY CallsJoin DEF RowsFit, ShapeFit, CallJoins
<1>3. QED
  BY <1>1, <1>2, SameCall, RowsStay DEF RowsFit

\* A claim ends, or pops the head of the FIFO av.
LEMMA TakeHeadRows ==
  ASSUME NEW av \in Seq(Row), NEW D, NEW L, Placed(av, D, L, {}), TakeHead(av),
         Running("claim")
  PROVE  Placed(available', D, L, InFlight')
<1>1. CASE av = <<>>
  <2>1. available' = av /\ InFlight' = {}
    BY <1>1 DEF TakeHead, EndOp, InFlight
  <2>2. QED
    BY <2>1
<1>2. CASE av # <<>>
  <2>1. available' = Tail(av) /\ chain' = chain
    BY <1>2 DEF TakeHead
  <2>2. cur' # Idle /\ cur'.pc = "main" /\ cur'.id = Head(av).id
    BY <1>2 DEF TakeHead, CallStore, Idle
  <2>3. InFlight' = {Head(av).id}
    BY <2>1, <2>2 DEF Running, InFlight
  <2>4. QED
    BY <1>2, <2>1, <2>3, PopPlaced
<1>3. QED
  BY <1>1, <1>2

\* claimCore from the reclaim loop on: rows stay in one place.
LEMMA ClaimFromRows ==
  ASSUME NEW av \in Seq(Row), NEW D, NEW l, NEW h, NEW t,
         Placed(av, D, DOMAIN l, {}), Running("claim"), ClaimFrom(av, l, h, t)
  PROVE  Placed(available', D, DOMAIN leased', InFlight')
<1>1. leased' = l
  BY DEF ClaimFrom
<1>2. CASE StartReclaim(l, h, t) /\ available' = av
           /\ UNCHANGED <<chain, leaseGenSeq>>
  <2>1. InFlight' = {}
    BY <1>1, <1>2, StartReclaimShape
  <2>2. QED
    BY <1>1, <1>2, <2>1
<1>3. CASE EndReclaim(l, h, t) /\ TakeHead(av)
  BY <1>1, <1>3, TakeHeadRows
<1>4. QED
  BY <1>2, <1>3 DEF ClaimFrom

\* Starting an operation moves no row but the one a claim pops; an enqueue must
\* have an id that no row has.
LEMMA BeginsRows ==
  ASSUME RowsFit, Begins,
         Starting("enqueue") /\ cur' # Idle => Head(chain).id \notin PlacedIds
  PROVE  RowParts'
<1>1. /\ MemTypeOK /\ RowParts /\ cur = Idle /\ InFlight = {}
      /\ PlacedIds' \subseteq PlacedIds
      /\ Running("enqueue")' /\ cur' # Idle =>
           Starting("enqueue") /\ cur'.id = Head(chain).id
  BY ShapeTypes, BeginsShape DEF RowsFit, Begins, BeginEnqueue, BeginLeaseOp,
     BeginClaim, BeginExpire, Starting, InFlight
<1>2. NewRow'
  BY <1>1 DEF NewRow
<1>3. Placed(available, delayed, DOMAIN leased, {})
  BY <1>1, Placement DEF RowParts
<1>4. ASSUME UNCHANGED <<available, delayed, leased>>, InFlight' = {}
      PROVE  RowInOnePlace'
  BY <1>3, <1>4, Placement
<1>5. CASE BeginEnqueue \/ BeginLeaseOp \/ BeginExpire
  <2>1. UNCHANGED <<available, delayed, leased>>
    BY <1>5 DEF BeginEnqueue, BeginLeaseOp, BeginExpire, memVars
  <2>2. CASE cur' = Idle
    BY <1>2, <1>4, <2>1, <2>2 DEF InFlight, RowParts
  <2>3. CASE cur' # Idle
    <3>1. chain' = chain /\ ~Running("claim") /\ ~Running("dequeue")
      BY <1>5, <2>3 DEF BeginEnqueue, BeginLeaseOp, BeginExpire, EndOp, Starting,
         Running
    <3>2. InFlight' = {}
      BY <3>1 DEF InFlight, Running
    <3>3. QED
      BY <1>2, <1>4, <2>1, <3>2 DEF RowParts
  <2>4. QED
    BY <2>2, <2>3
<1>6. CASE BeginClaim
  <2>1. Running("claim")
    BY <1>6 DEF BeginClaim, Starting
  <2>2. PICK av \in Drained :
          /\ Promotes(av)
          /\ IF LeaseTtl # None \/ expiries # {}
             THEN ClaimFrom(av, leased, expiries, now)
             ELSE TakeHead(av) /\ UNCHANGED <<leased, expiries, leaseTimer>>
    BY <1>6 DEF BeginClaim
  <2>3. av \in Seq(Row) /\ Placed(av, delayed', DOMAIN leased, {})
    <3>1. delayed' = delayed \ Due
      BY <2>2 DEF Promotes
    <3>2. QED
      BY <1>1, <1>3, <3>1, DrainPlaced
  <2>4. Placed(available', delayed', DOMAIN leased', InFlight')
    <3>1. CASE ClaimFrom(av, leased, expiries, now)
      BY <2>1, <2>3, <3>1, ClaimFromRows
    <3>2. CASE TakeHead(av) /\ UNCHANGED <<leased, expiries, leaseTimer>>
      <4>1. Placed(available', delayed', DOMAIN leased, InFlight')
        BY <2>1, <2>3, <3>2, TakeHeadRows
      <4>2. QED
        BY <3>2, <4>1
    <3>3. QED
      BY <2>2, <3>1, <3>2
  <2>5. QED
    BY <1>2, <2>4, Placement DEF RowParts
<1>7. QED
  BY <1>5, <1>6 DEF Begins

\* Finishing an operation moves the row its call was about.
LEMMA FinishesRows ==
  ASSUME RowsFit, Finishes
  PROVE  RowParts'
<1>0. AnswerComes
  BY FinishAnswer
<1>1. /\ RowParts /\ MemTypeOK /\ available \in Seq(Row) /\ CallFitsOperation
      /\ cur \in Call /\ cur.id \in Ids /\ cur.rec \in Stored
  BY <1>0, ShapeTypes, CoreCall DEF AnswerComes, RowsFit
<1>2. cur # Idle /\ chain # <<>>
  BY <1>0 DEF AnswerComes
<1>3. NewRow'
  BY FinishesShape DEF RowsFit, NewRow
<1>4. /\ Placed(available, delayed, DOMAIN leased, InFlight)
      /\ PlacedIds = Everything(available, delayed, DOMAIN leased, InFlight)
  BY <1>1, Placement DEF RowParts
<1>5. ASSUME EndOp, Placed(available', delayed', DOMAIN leased', {})
      PROVE  RowParts'
  <2>1. InFlight' = {}
    BY <1>5 DEF EndOp, InFlight
  <2>2. QED
    BY <1>3, <1>5, <2>1, Placement DEF RowParts
<1>6. CASE FinishEnqueue
  <2>1. /\ Running("enqueue") /\ cur.id = Head(chain).id /\ InFlight = {}
        /\ AddPending(cur.id, cur.rec) /\ EndOp /\ leased' = leased
    BY <1>1, <1>2, <1>6 DEF FinishEnqueue, Replied, Running, InFlight,
       CallFitsOperation
  <2>2. cur.id \notin PlacedIds
    BY <1>1, <1>2, <2>1 DEF RowParts, NewRow
  <2>3. Placed(available', delayed', DOMAIN leased, InFlight)
    BY <1>1, <1>4, <2>1, <2>2, AddPendingPlaced
  <2>4. QED
    BY <1>5, <2>1, <2>3
<1>7. CASE FinishRefused
  <2>1. /\ EndOp /\ UNCHANGED <<available, delayed, leased>>
        /\ ~Running("claim") /\ ~Running("dequeue")
    BY <1>7 DEF FinishRefused, memVars, Replied, Running
  <2>2. InFlight = {}
    BY <2>1 DEF InFlight
  <2>3. QED
    BY <1>4, <1>5, <2>1, <2>2
<1>8. DOMAIN Without(leased, cur.id) = DOMAIN leased \ {cur.id}
  BY WithoutType DEF MapsIdsTo, Without, Restrict
<1>9. CASE FinishAck
  <2>1. /\ EndOp /\ UNCHANGED <<available, delayed>> /\ InFlight = {}
        /\ leased' = Without(leased, cur.id)
    BY <1>9 DEF FinishAck, Replied, Running, InFlight
  <2>2. Placed(available, delayed, DOMAIN leased \ {cur.id}, {})
    BY <1>4, ShrinkPlaced
  <2>3. QED
    BY <1>4, <1>5, <1>8, <2>1, <2>2 DEF Everything
<1>10. cur.id \in DOMAIN leased /\ InFlight = {} =>
         /\ Placed(available, delayed, DOMAIN leased \ {cur.id}, {})
         /\ cur.id \notin Everything(available, delayed,
                                     DOMAIN leased \ {cur.id}, {})
  BY <1>4, ShrinkPlaced DEF Everything, Placed
<1>11. CASE FinishReturn
  <2>1. /\ EndOp /\ AddPending(cur.id, cur.rec)
        /\ leased' = Without(leased, cur.id)
        /\ cur.id \in DOMAIN leased /\ InFlight = {}
    BY <1>11 DEF FinishReturn, Holds, Replied, Running, InFlight
  <2>2. Placed(available', delayed', DOMAIN leased \ {cur.id}, {})
    BY <1>1, <1>10, <2>1, AddPendingPlaced
  <2>3. QED
    BY <1>5, <1>8, <2>1, <2>2
<1>12. CASE FinishExtend
  <2>1. /\ EndOp /\ UNCHANGED <<available, delayed>> /\ InFlight = {}
        /\ DOMAIN leased' = DOMAIN leased
    BY <1>12 DEF FinishExtend, Replied, Running, InFlight
  <2>2. QED
    BY <1>4, <1>5, <2>1
<1>13. (Replied("claim", "ok") \/ Replied("claim", "err")) => InFlight = {cur.id}
  BY DEF Replied, InFlight
<1>14. CASE FinishClaim
  <2>1. /\ EndOp /\ UNCHANGED <<available, delayed>> /\ InFlight = {cur.id}
        /\ DOMAIN leased' = DOMAIN leased \cup {cur.id}
    BY <1>13, <1>14 DEF FinishClaim, Put
  <2>2. Placed(available', delayed', DOMAIN leased', {})
    BY <1>4, <2>1 DEF Placed
  <2>3. QED
    BY <1>5, <2>1, <2>2
<1>15. RowOf(cur.id, cur.rec) \in Row /\ RowOf(cur.id, cur.rec).id = cur.id
  BY <1>1, <1>2 DEF RowOf, Row, Stored
<1>16. CASE ClaimRefused
  <2>1. /\ EndOp /\ UNCHANGED <<delayed, leased>> /\ InFlight = {cur.id}
        /\ available' = Append(available, RowOf(cur.id, cur.rec))
    BY <1>13, <1>16 DEF ClaimRefused
  <2>2. /\ Placed(available, delayed, DOMAIN leased, {})
        /\ cur.id \notin Everything(available, delayed, DOMAIN leased, {})
    BY <1>4, <2>1, ShrinkPlaced DEF Placed, Everything
  <2>3. Placed(available', delayed, DOMAIN leased, {})
    BY <1>1, <1>15, <2>1, <2>2, AppendPlaced
  <2>4. QED
    BY <1>5, <2>1, <2>2, <2>3
<1>17. ASSUME cur.pc = "reclaim", cur.id \in DOMAIN leased
       PROVE  /\ ReclaimedFifo \in Seq(Row)
              /\ Placed(ReclaimedFifo, delayed, DOMAIN ReclaimedLeases, {})
  <2>1. InFlight = {}
    BY <1>17 DEF InFlight
  <2> DEFINE row == RowOf(cur.id, cur.rec)
             left == DOMAIN leased \ {cur.id}
  <2>2. /\ row \in Row /\ row.id \notin Everything(available, delayed, left, {})
        /\ Placed(available, delayed, left, {})
    BY <1>10, <1>15, <1>17, <2>1
  <2>3. ReclaimedFifo = Append(available, row) /\ DOMAIN ReclaimedLeases = left
    BY <1>8 DEF ReclaimedFifo, ReclaimedLeases
  <2> HIDE DEF row, left
  <2>4. Placed(Append(available, row), delayed, left, {})
    BY <1>1, <2>2, AppendPlaced
  <2>5. QED
    BY <1>1, <2>2, <2>3, <2>4
<1>18. CASE ReclaimThenClaim
  <2>1. /\ Running("claim") /\ cur.pc = "reclaim" /\ cur.id \in DOMAIN leased
        /\ ClaimFrom(ReclaimedFifo, ReclaimedLeases, expiries, cur.now)
        /\ delayed' = delayed
    BY <1>18 DEF ReclaimThenClaim, Reclaiming, Holds
  <2>2. Placed(available', delayed, DOMAIN leased', InFlight')
    BY <1>17, <2>1, ClaimFromRows
  <2>3. QED
    BY <1>3, <2>1, <2>2, Placement DEF RowParts
<1>19. CASE ReclaimThenLoop
  <2>1. /\ Running("expire") /\ cur.pc = "reclaim" /\ cur.id \in DOMAIN leased
        /\ available' = ReclaimedFifo /\ leased' = ReclaimedLeases
        /\ delayed' = delayed
    BY <1>19 DEF ReclaimThenLoop, Reclaiming, Holds
  <2>2. CASE EndReclaim(leased', expiries, cur.now) /\ EndOp
    BY <1>5, <1>17, <2>1, <2>2
  <2>3. CASE StartReclaim(leased', expiries, cur.now) /\ UNCHANGED chain
    <3>1. InFlight' = {}
      BY <2>1, <2>3, StartReclaimShape
    <3>2. QED
      BY <1>3, <1>17, <2>1, <3>1, Placement DEF RowParts
  <2>4. QED
    BY <1>19, <2>2, <2>3 DEF ReclaimThenLoop
<1>20. CASE ReclaimRefused
  <2>1. /\ EndOp /\ UNCHANGED <<available, delayed, leased>> /\ InFlight = {}
    BY <1>20 DEF ReclaimRefused, Reclaiming, InFlight
  <2>2. QED
    BY <1>4, <1>5, <2>1
<1>21. QED
  BY <1>6, <1>7, <1>9, <1>11, <1>12, <1>14, <1>16, <1>18, <1>19, <1>20
  DEF Finishes

\* An answer of the store moves no row.
LEMMA StoreRows ==
  ASSUME RowsFit, StoreApplies \/ StoreRefuses
  PROVE  RowParts'
<1>1. /\ InFlight' = InFlight /\ PlacedIds' = PlacedIds
      /\ Running("enqueue")' /\ cur' # Idle =>
           Running("enqueue") /\ cur # Idle /\ cur'.id = cur.id
  BY StoreShape DEF RowsFit, Running
<1>2. UNCHANGED <<available, delayed, leased>>
  BY DEF StoreApplies, StoreRefuses, memVars
<1>3. QED
  BY <1>1, <1>2, RowsStay DEF RowsFit

\* Timers and readers move due rows, once each.
LEMMA TimersRows ==
  ASSUME RowsFit, ReaderPromotes \/ DelayTimerFires \/ LeaseTimerFires
  PROVE  RowParts'
<1>1. /\ MemTypeOK /\ RowParts /\ InFlight' = InFlight /\ PlacedIds' \subseteq PlacedIds
      /\ Running("enqueue")' /\ cur' # Idle =>
           Running("enqueue") /\ cur # Idle /\ cur'.id = cur.id
  BY ShapeTypes, TimersShape, SameCall DEF RowsFit
<1>2. Placed(available, delayed, DOMAIN leased, InFlight)
  BY <1>1, Placement DEF RowParts
<1>3. Placed(available', delayed', DOMAIN leased', InFlight')
  <2>1. CASE ReaderPromotes \/ DelayTimerFires
    <3>1. PICK av \in Drained : Promotes(av) /\ available' = av
      BY <2>1 DEF ReaderPromotes, DelayTimerFires
    <3>2. leased' = leased /\ delayed' = delayed \ Due
      BY <2>1, <3>1 DEF ReaderPromotes, DelayTimerFires, Promotes
    <3>3. QED
      BY <1>1, <1>2, <3>1, <3>2, DrainPlaced
  <2>2. CASE LeaseTimerFires
    BY <1>1, <1>2, <2>2 DEF LeaseTimerFires
  <2>3. QED
    BY <2>1, <2>2
<1>4. QED
  BY <1>1, <1>3, StaysNew, Placement DEF RowParts

\* hydrate installs rows with distinct ids.
LEMMA HydratesRows ==
  ASSUME RowsFit, Hydrates
  PROVE  RowParts'
<1>1. UNCHANGED <<chain, cur>>
  BY HydratesShape DEF RowsFit
<1>2. Running("enqueue")' /\ cur' # Idle =>
        Running("enqueue") /\ cur # Idle /\ cur'.id = cur.id
  BY <1>1 DEF Running
<1>3. CASE /\ UNCHANGED <<available, delayed, leased>>
           /\ InFlight' = InFlight /\ PlacedIds' = PlacedIds
  BY <1>2, <1>3, RowsStay DEF RowsFit
<1>4. CASE HydrateInstall
  <2>1. cur = Idle /\ InFlight' = {} /\ DOMAIN leased' = {}
    BY <1>4, InstallShape DEF RowsFit, HydrateInstall, EmptyMap
  <2>2. PICK q \in IdOrders(LoadedReady) :
          available' = [k \in DOMAIN q |-> RowOf(q[k], hyd.rows[q[k]])]
    BY <1>4 DEF HydrateInstall
  <2>3. /\ \A k, m \in DOMAIN q : q[k] = q[m] => k = m
        /\ \A k \in DOMAIN q : q[k] \in LoadedReady
    BY <2>2 DEF IdOrders, Bijection, Injection, IsInjective
  <2>4. DOMAIN available' = DOMAIN q /\ \A k \in DOMAIN q : available'[k].id = q[k]
    BY <2>2 DEF RowOf
  <2>5. DistinctIds(available') /\ SeqIds(available') \subseteq LoadedReady
    BY <2>3, <2>4 DEF DistinctIds, SeqIds
  <2>6. /\ KeyedById(delayed')
        /\ HeapIds(delayed') \subseteq DOMAIN hyd.rows \ LoadedReady
    BY <1>4 DEF HydrateInstall, KeyedById, HeapIds, DelayedRow
  <2>7. Placed(available', delayed', DOMAIN leased', InFlight')
    BY <2>1, <2>5, <2>6 DEF Placed
  <2>8. QED
    BY <1>1, <2>1, <2>7, Placement DEF RowParts, NewRow
<1>5. QED
  BY <1>3, <1>4, HydratesShape DEF RowsFit

\* A crash leaves no row in memory; time moves none.
LEMMA EnvironmentRows ==
  ASSUME RowsFit, Crash \/ Tick
  PROVE  RowParts'
<1>1. CASE Crash
  <2>1. /\ available' = <<>> /\ delayed' = {} /\ leased' = EmptyMap
        /\ cur' = Idle /\ InFlight' = {}
    BY <1>1, EnvironmentShape DEF Crash, RowsFit
  <2>2. SeqIds(available') = {} /\ HeapIds(delayed') = {} /\ DOMAIN leased' = {}
    BY <2>1 DEF SeqIds, HeapIds, EmptyMap
  <2>3. Placed(available', delayed', DOMAIN leased', InFlight')
    BY <2>1, <2>2 DEF Placed, DistinctIds, KeyedById
  <2>4. QED
    BY <2>1, <2>3, Placement DEF RowParts, NewRow
<1>2. CASE Tick
  <2>1. UNCHANGED <<available, delayed, leased, chain, cur>>
    BY <1>2 DEF Tick, memVars, chainVars
  <2>2. InFlight' = InFlight
    BY <2>1 DEF InFlight, Running
  <2>3. QED
    BY <2>1, <2>2, PlacesAre, RowsStay DEF RowsFit, Running
<1>3. QED
  BY <1>1, <1>2

\* In the initial state no row is anywhere.
LEMMA InitRows ==
  ASSUME QueueAssumption, Init
  PROVE  RowsFit /\ PlacedIds = {}
<1>1. /\ ShapeFit /\ InFlight = {} /\ PlacedIds = {}
      /\ available = <<>> /\ delayed = {} /\ DOMAIN leased = {} /\ cur = Idle
  BY InitShape DEF Init, EmptyMap
<1>2. SeqIds(available) = {} /\ HeapIds(delayed) = {}
  BY <1>1 DEF SeqIds, HeapIds
<1>3. RowInOnePlace
  BY <1>1, <1>2, Placement DEF Placed, DistinctIds, KeyedById
<1>4. QED
  BY <1>1, <1>3 DEF RowsFit, RowParts, NewRow

\* The steps of DurableQueue keep RowsFit, whatever waits on the chain, when an
\* enqueue that starts has an id that no row has.
LEMMA CoreStepRows ==
  ASSUME QueueAssumption, RowsFit, [Next]_vars,
         BeginEnqueue /\ cur' # Idle => Head(chain).id \notin PlacedIds
  PROVE  RowsFit'
<1>1. ShapeFit'
  BY CoreStepShape DEF RowsFit
<1>2. CASE Begins
  <2>1. Starting("enqueue") => BeginEnqueue
    BY <1>2 DEF Begins, BeginLeaseOp, BeginClaim, BeginExpire, Starting, Running
  <2>2. QED
    BY <1>1, <1>2, <2>1, BeginsRows DEF RowsFit
<1>3. CASE UNCHANGED vars
  <2>1. UNCHANGED <<available, delayed, leased, chain, cur>>
    BY <1>3 DEF vars, memVars, chainVars
  <2>2. InFlight' = InFlight
    BY <2>1 DEF InFlight, Running
  <2>3. QED
    BY <1>1, <2>1, <2>2, PlacesAre, RowsStay DEF RowsFit, Running
<1>4. QED
  BY <1>1, <1>2, <1>3, CallsRows, FinishesRows, StoreRows, TimersRows, HydratesRows,
     EnvironmentRows DEF Next, RowsFit
-----------------------------------------------------------------------------
(* The ids of DurableQueue by itself.                                       *)

\* Queued enqueues keep the ids they have taken apart from each other and from
\* those of rows.
LEMMA CoreStepFresh ==
  ASSUME QueueAssumption, ShapeFit, FreshIds, [Next]_vars
  PROVE  FreshIds'
<1>1. chain \in Seq(AnyOp) /\ idCounter \in Nat
  BY ShapeTypes
<1>2. CASE Calls
  <2>1. PICK op \in AnyOp :
          /\ Push(op)
          /\ IF op.kind = "enqueue"
             THEN op.id = idCounter + 1 /\ idCounter' = idCounter + 1
             ELSE idCounter' = idCounter
    BY <1>2, CallsJoin DEF ShapeFit, CallJoins
  <2>2. PlacedIds' = PlacedIds
    BY <1>2, CallsShape
  <2>3. QED
    BY <1>1, <2>1, <2>2, FreshAfterPush
<1>3. CASE Begins
  <2>1. chain # <<>> /\ idCounter' = idCounter
    BY <1>3 DEF Begins, BeginEnqueue, BeginLeaseOp, BeginClaim, BeginExpire,
       Starting, Running, idVars
  <2>2. QED
    BY <1>1, <1>3, <2>1, BeginsShape, FreshAfter
<1>4. CASE Finishes
  <2>1. chain # <<>> /\ idCounter' = idCounter
    BY <1>4, FinishAnswer DEF AnswerComes, Finishes, FinishEnqueue, FinishRefused,
       FinishAck, FinishReturn, FinishExtend, FinishClaim, ClaimRefused,
       ReclaimThenClaim, ReclaimThenLoop, ReclaimRefused, idVars
  <2>2. CASE FinishEnqueue
    <3>1. Running("enqueue") /\ chain' = Tail(chain) /\ cur # Idle
      BY <2>2 DEF FinishEnqueue, Replied, EndOp
    <3>2. cur.id = Head(chain).id
      <4>1. CallFitsOperation
        BY <1>4, <3>1, FinishAnswer, CoreCall DEF AnswerComes
      <4>2. QED
        BY <3>1, <4>1 DEF CallFitsOperation, Running
    <3>3. QED
      BY <1>1, <1>4, <2>1, <3>1, <3>2, FinishesShape, FreshAfterEnqueue
  <2>3. CASE ~FinishEnqueue
    BY <1>1, <1>4, <2>1, <2>3, FinishesShape, FreshAfter
  <2>4. QED
    BY <2>2, <2>3
<1>5. CASE StoreApplies \/ StoreRefuses
  BY <1>1, <1>5, StoreShape, FreshAfter DEF StoreApplies, StoreRefuses, idVars
<1>6. CASE ReaderPromotes \/ DelayTimerFires \/ LeaseTimerFires
  <2>1. PlacedIds' \subseteq PlacedIds /\ idCounter' = idCounter
    BY <1>6, TimersShape DEF ReaderPromotes, DelayTimerFires, LeaseTimerFires, idVars
  <2>2. CASE chain' = chain
    BY <1>1, <2>1, <2>2, FreshAfter
  <2>3. CASE Push([kind |-> "expire"])
    <3> DEFINE op == [kind |-> "expire"]
    <3>1. Push(op) /\ op.kind # "enqueue"
      BY <2>3
    <3> HIDE DEF op
    <3>2. QED
      BY <1>1, <2>1, <3>1, FreshAfterPush
  <2>4. QED
    BY <1>6, <2>2, <2>3 DEF ReaderPromotes, DelayTimerFires, LeaseTimerFires, chainVars
<1>7. CASE Hydrates
  <2>1. chain' = chain
    BY <1>7, HydratesShape
  <2>2. CASE HydrateInstall
    <3>1. /\ Flushed /\ MapsIdsTo(hyd.rows, Stored) /\ PlacedIds' \subseteq DOMAIN hyd.rows
      BY <2>2, InstallShape
    <3>2. DOMAIN hyd.rows \subseteq 1..idCounter'
      BY <2>2, <3>1 DEF HydrateInstall, RestoredCounter, MapsIdsTo
    <3>3. QueuedEnqueues' = {}
      BY <2>1, <3>1 DEF QueuedEnqueues, Flushed
    <3>4. QED
      BY <3>1, <3>2, <3>3 DEF FreshIds
  <2>3. CASE ~HydrateInstall
    <3>1. idCounter' = idCounter
      BY <1>7, <2>3 DEF Hydrates, HydrateStart, HydrateRejects, HydrateLoad, HydrateClear,
         HydrateRefused, idVars
    <3>2. PlacedIds' = PlacedIds
      BY <1>7, <2>3, HydratesShape
    <3>3. QED
      BY <1>1, <2>1, <3>1, <3>2, FreshAfter
  <2>4. QED
    BY <2>2, <2>3
<1>8. CASE Crash
  <2>1. PlacedIds' = {}
    BY <1>8, EnvironmentShape
  <2>2. QueuedEnqueues' = {}
    BY <1>8 DEF Crash, QueuedEnqueues
  <2>3. QED
    BY <2>1, <2>2 DEF FreshIds
<1>9. CASE Tick \/ UNCHANGED vars
  <2>1. UNCHANGED <<available, delayed, leased, chain, cur, idCounter>>
    BY <1>9 DEF Tick, vars, memVars, chainVars, idVars
  <2>2. InFlight' = InFlight
    BY <2>1 DEF InFlight, Running
  <2>3. QED
    BY <1>1, <2>1, <2>2, PlacesAre, FreshAfter
<1>10. QED
  BY <1>2, <1>3, <1>4, <1>5, <1>6, <1>7, <1>8, <1>9 DEF Next

\* An enqueue that starts has an id that no row has.
LEMMA FreshStarts ==
  ASSUME ShapeFit, FreshIds, BeginEnqueue
  PROVE  Head(chain).id \notin PlacedIds
<1>1. 1 \in QueuedEnqueues /\ Head(chain) = chain[1]
  BY ShapeTypes DEF BeginEnqueue, Starting, Running, QueuedEnqueues
<1>2. QED
  BY <1>1 DEF FreshIds


\* RowsFit for DurableQueue by itself.
CoreRows == RowsFit /\ FreshIds /\ CoreOnly

\* DurableQueue by itself queues its own operations only.
LEMMA CoreStepOnly ==
  ASSUME ShapeFit, CoreOnly, [Next]_vars
  PROVE  CoreOnly'
<1>1. chain \in Seq(AnyOp)
  BY ShapeTypes
<1>2. ASSUME NEW op, Push(op), op.kind \in CoreKinds
      PROVE  CoreOnly'
  BY <1>1, <1>2 DEF Push, CoreOnly
<1>3. chain # <<>> /\ chain' = Tail(chain) => CoreOnly'
  BY <1>1 DEF CoreOnly
<1>4. chain' = chain \/ chain' = <<>> => CoreOnly'
  BY DEF CoreOnly
<1>5. CASE Calls
  BY <1>2, <1>5 DEF Calls, Enqueue, Claim, Ack, Release, Reschedule, ExtendLease,
     LeaseOp, CoreKinds
<1>6. CASE Begins \/ Finishes
  <2>1. chain # <<>>
    BY <1>6, FinishAnswer DEF AnswerComes, Begins, BeginEnqueue, BeginLeaseOp,
       BeginClaim, BeginExpire, Starting, Running
  <2>2. chain' = chain \/ chain' = Tail(chain)
    BY <1>6 DEF Begins, BeginEnqueue, BeginLeaseOp, BeginClaim, BeginExpire,
       Finishes, FinishEnqueue, FinishRefused, FinishAck, FinishReturn,
       FinishExtend, FinishClaim, ClaimRefused, ReclaimThenClaim,
       ReclaimThenLoop, ReclaimRefused, ClaimFrom, TakeHead, EndOp
  <2>3. QED
    BY <1>3, <1>4, <2>1, <2>2
<1>7. CASE LeaseTimerFires
  BY <1>2, <1>4, <1>7 DEF LeaseTimerFires, CoreKinds
<1>8. CASE StoreApplies \/ StoreRefuses \/ ReaderPromotes \/ DelayTimerFires
           \/ Hydrates \/ Crash \/ Tick \/ UNCHANGED vars
  BY <1>4, <1>8 DEF StoreApplies, StoreRefuses, ReaderPromotes, DelayTimerFires,
     Hydrates, HydrateStart, HydrateRejects, HydrateLoad, HydrateClear,
     HydrateRefused, HydrateInstall, Crash, Tick, vars, chainVars
<1>9. QED
  BY <1>5, <1>6, <1>7, <1>8 DEF Next

\* What DurableQueue's own operations say of the chain and the call.
LEMMA CoreTypes ==
  ASSUME CoreRows
  PROVE  /\ MemTypeOK /\ AdminChainTypeOK /\ HydTypeOK /\ chain \in Seq(AnyOp)
         /\ idCounter \in Nat /\ now \in Nat /\ CallFitsOperation
         /\ ShapeParts /\ RowParts /\ FreshIds
         /\ available \in Seq(Row)
         /\ cur # Idle => cur \in Call /\ cur.id \in Ids /\ cur.rec \in Stored
<1>1. cur # Idle => Head(chain).kind \in CoreKinds
  BY ShapeTypes DEF CoreRows, RowsFit, CoreOnly
<1>2. cur = Idle => CallFitsOperation
  BY DEF CallFitsOperation
<1>3. QED
  BY <1>1, <1>2, CoreCall, ShapeTypes DEF CoreRows, RowsFit

\* The same as RowInvariant, which knows of DurableQueue's operations only.
LEMMA CoreIsRowInvariant ==
  ASSUME CoreRows
  PROVE  RowInvariant
<1>1. chain \in Seq(Op)
  <2>1. \A i \in DOMAIN chain : chain[i] \in Op
    BY CoreTypes DEF CoreRows, CoreOnly, CoreKinds, AnyOp, BareOp, ReplaceOp,
       JobOp, JobKinds
  <2>2. QED
    BY <2>1, CoreTypes
<1>2. ChainTypeOK
  BY <1>1, CoreTypes DEF ChainTypeOK
<1>3. TypeOK
  BY <1>2 DEF CoreRows, RowsFit, ShapeFit, AdminTypeOK, TypeOK
<1>4. QED
  BY <1>3, CoreTypes DEF RowInvariant, RowParts, ShapeParts

\* It holds in every reachable state: the step of each action keeps its parts.
LEMMA CoreRowsHold == Spec => []CoreRows
<1>1. Init => CoreRows
  <2> SUFFICES ASSUME Init PROVE CoreRows
    OBVIOUS
  <2>1. chain = <<>> /\ available = <<>> /\ delayed = {} /\ DOMAIN leased = {}
    BY DEF Init, EmptyMap
  <2>2. PlacedIds = {} /\ QueuedEnqueues = {}
    BY <2>1 DEF PlacedIds, AvailableIds, AvailableRows, Range, DelayedIds, InFlight,
       Running, QueuedEnqueues
  <2>3. FreshIds /\ CoreOnly
    BY <2>1, <2>2 DEF FreshIds, CoreOnly
  <2>4. QED
    BY <2>3, InitRows, QueueAssumption DEF CoreRows
<1>2. CoreRows /\ [Next]_vars => CoreRows'
  BY CoreStepRows, CoreStepFresh, FreshStarts, CoreStepOnly, QueueAssumption
  DEF CoreRows, RowsFit
<1>3. QED
  BY <1>1, <1>2, PTL DEF Spec

\* Whatever callers, timers, the store and crashes do, every variable keeps
\* the type the code gives it.
THEOREM TypeCorrect == Spec => []TypeOK
<1>1. CoreRows => TypeOK
  BY CoreIsRowInvariant DEF RowInvariant
<1>2. QED
  BY <1>1, CoreRowsHold, PTL

\* RowInvariant holds in every reachable state.
THEOREM RowsInvariant == Spec => []RowInvariant
<1>1. CoreRows => RowInvariant
  BY CoreIsRowInvariant
<1>2. QED
  BY <1>1, CoreRowsHold, PTL

\* A row is never in two of the FIFO, the delay heap, the lease map and a
\* claim's hands, nor twice in one of them: two workers never hold one row.
THEOREM OnePlace == Spec => []RowInOnePlace
<1>1. CoreRows => RowInOnePlace
  BY DEF CoreRows, RowsFit, RowParts
<1>2. QED
  BY <1>1, CoreRowsHold, PTL

\* The lease that ack, release, reschedule, extendLease or a reclaim checked
\* before its store call is held until its continuation runs.
THEOREM LeaseOutlives == Spec => []LeaseOutlivesItsCall
<1>1. CoreRows => LeaseOutlivesItsCall
  <2> SUFFICES ASSUME CoreRows, cur # Idle
               PROVE  \/ Running("enqueue") \/ InFlight # {}
                      \/ Holds(cur.id, cur.gen)
    BY DEF LeaseOutlivesItsCall
  <2>1. QED
    BY CoreTypes DEF CallFitsOperation, InFlight
<1>2. QED
  BY <1>1, CoreRowsHold, PTL
-----------------------------------------------------------------------------
(* The delay timer.                                                        *)

\* Rows on the delay heap have a deadline, which the timer does not miss.
DelayParts == DelayTimerCovers /\ \A d \in delayed : d.at # None

\* Arming the timer for rows with deadlines.
LEMMA ArmDelayCovers ==
  ASSUME NEW D, delayed' = D, ArmDelayTimer(D), \A d \in D : d.at # None
  PROVE  DelayParts'
BY DEF DelayParts, DelayTimerCovers, ArmDelayTimer

\* A row that joins the queue.
LEMMA AddPendingCovers ==
  ASSUME DelayParts, NEW i, NEW r, AddPending(i, r)
  PROVE  DelayParts'
<1>1. CASE r.at = 0
  BY <1>1 DEF AddPending, DelayParts, DelayTimerCovers
<1>2. CASE r.at # 0
  <2>1. \A d \in delayed' : d.at # None
    BY <1>2 DEF AddPending, DelayParts, DelayedRow
  <2>2. QED
    BY <1>2, <2>1, ArmDelayCovers DEF AddPending
<1>3. QED
  BY <1>1, <1>2

\* Due rows that leave for the FIFO.
LEMMA PromotesCovers ==
  ASSUME DelayParts, NEW av, Promotes(av)
  PROVE  DelayParts'
<1>1. \A d \in delayed' : d.at # None
  BY DEF Promotes, DelayParts
<1>2. CASE delayed = {}
  BY <1>2 DEF Promotes, DelayParts, DelayTimerCovers
<1>3. CASE delayed # {}
  BY <1>1, <1>3, ArmDelayCovers DEF Promotes
<1>4. QED
  BY <1>2, <1>3

\* A step that leaves the heap and the timer alone.
LEMMA DelayStays ==
  ASSUME DelayParts, UNCHANGED <<delayed, delayTimer>>
  PROVE  DelayParts'
BY DEF DelayParts, DelayTimerCovers

\* The steps of the queue.
LEMMA CoreDelay ==
  ASSUME DelayParts, hyd.pc = "clear" => hyd.now \in Nat,
         \/ Calls \/ Begins \/ Finishes \/ StoreApplies \/ StoreRefuses
         \/ ReaderPromotes \/ DelayTimerFires \/ LeaseTimerFires
         \/ Hydrates \/ Crash \/ Tick
  PROVE  DelayParts'
<1>1. CASE Calls
  BY <1>1, DelayStays DEF Calls, Enqueue, Claim, Ack, Release, Reschedule,
     ExtendLease, LeaseOp, memVars
<1>2. CASE Begins
  <2>1. CASE BeginClaim
    BY <2>1, PromotesCovers DEF BeginClaim
  <2>2. CASE BeginEnqueue \/ BeginLeaseOp \/ BeginExpire
    BY <2>2, DelayStays DEF BeginEnqueue, BeginLeaseOp, BeginExpire, memVars
  <2>3. QED
    BY <1>2, <2>1, <2>2 DEF Begins
<1>3. CASE Finishes
  <2>1. CASE FinishEnqueue \/ FinishReturn
    BY <2>1, AddPendingCovers DEF FinishEnqueue, FinishReturn
  <2>2. CASE FinishRefused \/ FinishAck \/ FinishExtend \/ FinishClaim
             \/ ClaimRefused \/ ReclaimThenClaim \/ ReclaimThenLoop \/ ReclaimRefused
    BY <2>2, DelayStays DEF FinishRefused, FinishAck, FinishExtend, FinishClaim,
       ClaimRefused, ReclaimThenClaim, ReclaimThenLoop, ReclaimRefused, memVars
  <2>3. QED
    BY <1>3, <2>1, <2>2 DEF Finishes
<1>4. CASE StoreApplies \/ StoreRefuses \/ LeaseTimerFires \/ Tick
  BY <1>4, DelayStays DEF StoreApplies, StoreRefuses, LeaseTimerFires, Tick, memVars
<1>5. CASE ReaderPromotes \/ DelayTimerFires
  BY <1>5, PromotesCovers DEF ReaderPromotes, DelayTimerFires
<1>6. CASE Hydrates
  <2>1. CASE HydrateInstall
    <3>1. \A d \in delayed' : d.at # None
      BY <2>1 DEF HydrateInstall, LoadedReady, DelayedRow
    <3>2. QED
      BY <2>1, <3>1, ArmDelayCovers DEF HydrateInstall
  <2>2. CASE HydrateStart \/ HydrateRejects \/ HydrateLoad \/ HydrateRefused
             \/ \E i \in DOMAIN store : HydrateClear(i)
    BY <2>2, DelayStays DEF HydrateStart, HydrateRejects, HydrateLoad,
       HydrateRefused, HydrateClear, memVars
  <2>3. QED
    BY <1>6, <2>1, <2>2 DEF Hydrates
<1>7. CASE Crash
  BY <1>7 DEF Crash, DelayParts, DelayTimerCovers
<1>8. QED
  BY <1>1, <1>2, <1>3, <1>4, <1>5, <1>6, <1>7

\* While a row waits for its time the delay timer is set, no later than the
\* earliest of them: no row is left to wait for a wakeup that never comes.
THEOREM DelayTimerHolds == Spec => []DelayTimerCovers
<1>1. Init => DelayParts
  BY DEF Init, DelayParts, DelayTimerCovers
<1>2. CoreRows /\ DelayParts /\ [Next]_vars => DelayParts'
  <2> SUFFICES ASSUME CoreRows, DelayParts, [Next]_vars PROVE DelayParts'
    OBVIOUS
  <2>1. hyd.pc = "clear" => hyd.now \in Nat
    BY CoreTypes DEF HydTypeOK, NoHydrate
  <2>2. CASE UNCHANGED vars
    BY <2>2, DelayStays DEF vars, memVars
  <2>3. CASE Next
    BY <2>1, <2>3, CoreDelay DEF Next
  <2>4. QED
    BY <2>2, <2>3
<1>3. DelayParts => DelayTimerCovers
  BY DEF DelayParts
<1>4. QED
  BY <1>1, <1>2, <1>3, CoreRowsHold, PTL DEF Spec
-----------------------------------------------------------------------------
(* The lease timer: leases l with deadlines, the heap h that lists them, and *)
(* the timer t.                                                              *)

Entry(l, i) == [id |-> i, gen |-> l[i].gen, exp |-> l[i].exp]

\* The heap lists the deadline of each lease but for that of the rows in x.
Listed(l, h, x) ==
  \A i \in DOMAIN l \ x : l[i].exp # None => Entry(l, i) \in h

Deadlines(h) == \A e \in h : e.exp # None

\* The timer is set, and goes off in time for each of them.
Watched(l, t) ==
  \A i \in DOMAIN l : l[i].exp # None => t # None /\ t <= l[i].exp

\* Somebody will arm the timer: a reclaim that waits its turn or runs.
Expected == (\E k \in DOMAIN chain : chain[k].kind = "expire") \/ Reclaimed # {}

\* LeaseTimerCovers in these terms.
LEMMA CoversMeansWatched == LeaseTimerCovers <=> Expected \/ Watched(leased, leaseTimer)
BY DEF LeaseTimerCovers, Expected, Watched, Reclaimed

\* Arming the timer from a heap that lists every deadline.
LEMMA ArmWatches ==
  ASSUME NEW l, MapsIdsTo(l, Leased), NEW h \in SUBSET Expiry,
         ArmLeaseTimer(l, h), Listed(l, h, {}), Deadlines(h)
  PROVE  Listed(l, expiries', {}) /\ Deadlines(expiries') /\ Watched(l, leaseTimer')
<1> DEFINE kept == Compacted(l, h)
           live == {e \in kept : Live(l, e)}
<1>1. /\ kept \subseteq Expiry
      /\ \A e \in kept : e.exp # None
      /\ \A i \in DOMAIN l : l[i].exp # None => Entry(l, i) \in kept
  BY DEF Compacted, LiveExpiries, MapsIdsTo, Leased, Expiry, Listed, Deadlines, Entry
<1>2. \A i \in DOMAIN l : l[i].exp # None => Entry(l, i) \in live
  BY <1>1 DEF Live, Entry
<1>3. \/ /\ DOMAIN l = {} \/ live = {}
         /\ leaseTimer' = None /\ expiries' = {}
      \/ /\ DOMAIN l # {}
         /\ \E e \in live :
              /\ \A f \in live : e.exp <= f.exp
              /\ leaseTimer' = e.exp
              /\ expiries' \in PoppedTo(l, kept, e)
  BY DEF ArmLeaseTimer
<1>4. CASE (DOMAIN l = {} \/ live = {}) /\ expiries' = {}
  <2>1. \A i \in DOMAIN l : l[i].exp = None
    BY <1>2, <1>4
  <2>2. QED
    BY <1>4, <2>1 DEF Listed, Deadlines, Watched
<1>5. ASSUME NEW e \in live, \A f \in live : e.exp <= f.exp,
             leaseTimer' = e.exp, expiries' \in PoppedTo(l, kept, e)
      PROVE  Listed(l, expiries', {}) /\ Deadlines(expiries') /\ Watched(l, leaseTimer')
  <2>1. \A i \in DOMAIN l : l[i].exp # None => e.exp <= l[i].exp
    BY <1>2, <1>5 DEF Entry
  <2>2. e \in kept /\ e.exp \in Nat /\ e.exp # None
    BY <1>1 DEF Expiry
  <2>3. PICK T \in SUBSET {f \in kept : f.exp = e.exp /\ ~Live(l, f)} :
          expiries' = {f \in kept : f.exp >= e.exp} \ T
    BY <1>5 DEF PoppedTo
  <2>4. \A i \in DOMAIN l : l[i].exp # None => Entry(l, i) \in expiries'
    <3> SUFFICES ASSUME NEW i \in DOMAIN l, l[i].exp # None
                 PROVE  Entry(l, i) \in expiries'
      OBVIOUS
    <3>1. Entry(l, i) \in kept /\ Entry(l, i).exp >= e.exp
      BY <1>1, <2>1, <2>2 DEF Entry, MapsIdsTo, Leased
    <3>2. Entry(l, i) \notin T
      BY <1>2, <2>3
    <3>3. QED
      BY <2>3, <3>1, <3>2
  <2>5. Deadlines(expiries')
    BY <1>1, <2>3 DEF Deadlines
  <2>6. QED
    BY <1>5, <2>1, <2>2, <2>4, <2>5 DEF Listed, Watched
<1>6. QED
  BY <1>3, <1>4, <1>5

\* A round of the reclaim takes one deadline off the heap, no other.
LEMMA StartReclaimLists ==
  ASSUME NEW l, MapsIdsTo(l, Leased), NEW h \in SUBSET Expiry, NEW t \in Nat,
         StartReclaim(l, h, t), Listed(l, h, {}), Deadlines(h)
  PROVE  /\ cur' # Idle /\ Reclaimed' = {cur'.id} /\ cur'.reply = "wait"
         /\ cur'.due # None /\ cur'.due = l[cur'.id].exp
         /\ Listed(l, expiries', {cur'.id}) /\ Deadlines(expiries')
<1>1. PICK e \in DueLive(l, h, t) :
        /\ \A f \in DueLive(l, h, t) : e.exp <= f.exp
        /\ \E rest \in PoppedTo(l, h, e) : expiries' = rest \ {e}
        /\ cur' = [pc |-> "reclaim", reply |-> "wait", del |-> FALSE, id |-> e.id,
                   gen |-> e.gen, rec |-> Cleared(l[e.id]), due |-> e.exp, now |-> t]
  BY DEF StartReclaim
<1>2. /\ e \in h /\ e.exp <= t /\ Live(l, e) /\ e.exp # None /\ e.exp \in Nat
  BY <1>1 DEF DueLive, Deadlines, Expiry
<1>3. PICK T \in SUBSET {f \in h : f.exp = e.exp /\ ~Live(l, f)} :
        expiries' = ({f \in h : f.exp >= e.exp} \ T) \ {e}
  BY <1>1 DEF PoppedTo
<1>4. \A i \in DOMAIN l \ {e.id} : l[i].exp # None => Entry(l, i) \in expiries'
  <2> SUFFICES ASSUME NEW i \in DOMAIN l \ {e.id}, l[i].exp # None
               PROVE  Entry(l, i) \in expiries'
    OBVIOUS
  <2>1. /\ Entry(l, i) \in h /\ Live(l, Entry(l, i)) /\ Entry(l, i) # e
        /\ Entry(l, i).exp \in Nat
    BY DEF Listed, Live, Entry, MapsIdsTo, Leased
  <2>2. Entry(l, i).exp <= t => e.exp <= Entry(l, i).exp
    BY <1>1, <2>1 DEF DueLive
  <2>3. Entry(l, i).exp >= e.exp
    BY <1>2, <2>1, <2>2
  <2>4. QED
    BY <1>3, <2>1, <2>3
<1>5. cur' # Idle /\ Reclaimed' = {cur'.id} /\ cur'.reply = "wait"
  BY <1>1 DEF Idle, Reclaimed
<1>6. cur'.id = e.id /\ cur'.due = e.exp /\ l[e.id].exp = e.exp
  BY <1>1, <1>2 DEF Live
<1>7. QED
  BY <1>2, <1>3, <1>4, <1>5, <1>6 DEF Listed, Deadlines

\* The end of the reclaim arms the timer for the deadlines to come.
LEMMA EndReclaimWatches ==
  ASSUME NEW l, MapsIdsTo(l, Leased), NEW h \in SUBSET Expiry, NEW t \in Nat,
         EndReclaim(l, h, t), Listed(l, h, {}), Deadlines(h)
  PROVE  Listed(l, expiries', {}) /\ Deadlines(expiries') /\ Watched(l, leaseTimer')
<1> DEFINE later == {e \in h : e.exp > t}
<1>1. \A i \in DOMAIN l : l[i].exp # None => Entry(l, i) \in later
  <2> SUFFICES ASSUME NEW i \in DOMAIN l, l[i].exp # None
               PROVE  Entry(l, i) \in later
    OBVIOUS
  <2>1. /\ Entry(l, i) \in h /\ Live(l, Entry(l, i)) /\ Entry(l, i).exp \in Nat
    BY DEF Listed, Live, Entry, MapsIdsTo, Leased
  <2>2. Entry(l, i) \notin DueLive(l, h, t)
    BY DEF EndReclaim
  <2>3. QED
    BY <2>1, <2>2 DEF DueLive
<1>2. Listed(l, later, {}) /\ Deadlines(later) /\ ArmLeaseTimer(l, later)
      /\ later \in SUBSET Expiry
  BY <1>1 DEF Listed, Deadlines, EndReclaim
<1>3. QED
  <2> HIDE DEF later
  <2> QED
    BY <1>2, ArmWatches
-----------------------------------------------------------------------------
(* The parts of TimerInvariant that are about the lease timer.             *)

TimerParts ==
  /\ Listed(leased, expiries, Reclaimed) /\ Deadlines(expiries)
  /\ Reclaimed # {} => cur.due # None /\ cur.due = leased[cur.id].exp
  /\ Running("extend") /\ cur # Idle => cur.rec.exp # None
  /\ cur # Idle /\ cur.reply = "err" => failures > 0
  /\ failures = 0 => Expected \/ Watched(leased, leaseTimer)

\* What is proved of the timers is TimerInvariant.
LEMMA TimerInvariantParts == CoreRows /\ TimerParts => TimerInvariant
BY CoversMeansWatched, CoreIsRowInvariant
   DEF TimerInvariant, TimerParts, DeadlinesListed, Listed, Deadlines, Entry

\* What the steps use of the types.
LEMMA TimerTypes ==
  ASSUME CoreRows
  PROVE  /\ MapsIdsTo(leased, Leased) /\ expiries \in SUBSET Expiry /\ now \in Nat
         /\ chain \in Seq(AnyOp) /\ failures \in Nat
         /\ cur # Idle => cur \in Call /\ cur.rec \in Stored /\ cur.now \in Nat
         /\ Reclaimed # {} => Holds(cur.id, cur.gen)
  BY CoreTypes
     DEF CoreRows, RowsFit, ShapeFit, AdminTypeOK, MemTypeOK, Call, CallFitsOperation, Reclaimed

\* A step that leaves leases, heap and timer alone, and whoever is to arm it.
LEMMA NothingToArm ==
  ASSUME TimerParts, UNCHANGED <<leased, expiries, leaseTimer>>,
         Reclaimed' = Reclaimed, Reclaimed # {} => UNCHANGED <<cur.due, cur.id>>,
         Expected => Expected', failures' = 0 => failures = 0,
         cur' # Idle /\ cur'.reply = "err" => failures' > 0,
         Running("extend")' /\ cur' # Idle => cur'.rec.exp # None
  PROVE  TimerParts'
BY DEF TimerParts, Listed, Deadlines, Watched, Entry

\* A step that ends by arming the timer.
LEMMA TimerArmed ==
  ASSUME Listed(leased', expiries', {}), Deadlines(expiries'),
         Watched(leased', leaseTimer'), Reclaimed' = {},
         cur' # Idle => cur'.reply = "wait" /\ ~Running("extend")'
  PROVE  TimerParts'
BY DEF TimerParts

\* A step that ends by writing a reclaim.
LEMMA ReclaimBegins ==
  ASSUME CoreRows, NEW h \in SUBSET Expiry, NEW t \in Nat,
         MapsIdsTo(leased', Leased), StartReclaim(leased', h, t),
         Listed(leased', h, {}), Deadlines(h), ~Running("extend")'
  PROVE  TimerParts'
<1>1. PICK l : l = leased'
  OBVIOUS
<1>2. /\ cur' # Idle /\ Reclaimed' = {cur'.id} /\ cur'.reply = "wait"
      /\ cur'.due # None /\ cur'.due = l[cur'.id].exp
      /\ Listed(l, expiries', {cur'.id}) /\ Deadlines(expiries')
  BY <1>1, StartReclaimLists
<1>3. QED
  BY <1>1, <1>2 DEF TimerParts, Expected

\* A lease less leaves the others listed.
LEMMA WithoutListed ==
  ASSUME NEW l, NEW h, NEW i, MapsIdsTo(l, Leased), Listed(l, h, {i})
  PROVE  MapsIdsTo(Without(l, i), Leased) /\ Listed(Without(l, i), h, {})
BY DEF Without, Restrict, MapsIdsTo, Listed, Entry

\* A reclaim stays on the chain while other operations end or join.
LEMMA ExpireWaits ==
  ASSUME chain \in Seq(AnyOp), \E k \in DOMAIN chain : chain[k].kind = "expire",
         \/ chain' = chain
         \/ \E op \in AnyOp : chain' = Append(chain, op)
         \/ chain # <<>> /\ chain' = Tail(chain) /\ Head(chain).kind # "expire"
  PROVE  \E k \in DOMAIN chain' : chain'[k].kind = "expire"
<1>1. PICK k \in DOMAIN chain : chain[k].kind = "expire"
  OBVIOUS
<1>2. CASE chain' = chain
  BY <1>1, <1>2
<1>3. ASSUME NEW op \in AnyOp, chain' = Append(chain, op)
      PROVE  \E m \in DOMAIN chain' : chain'[m].kind = "expire"
  <2>1. k \in DOMAIN chain' /\ chain'[k] = chain[k]
    BY <1>3
  <2>2. QED
    BY <1>1, <2>1
<1>4. CASE chain # <<>> /\ chain' = Tail(chain) /\ Head(chain).kind # "expire"
  <2>1. k # 1 /\ k \in Nat /\ k \in 1..Len(chain)
    BY <1>1, <1>4
  <2>2. k - 1 \in DOMAIN chain' /\ chain'[k - 1] = chain[k]
    BY <1>4, <2>1
  <2>3. QED
    BY <1>1, <2>2
<1>5. QED
  BY <1>2, <1>3, <1>4

\* A step that touches no lease and starts no reclaim: it leaves the call alone,
\* makes the next one or ends an operation other than a reclaim.
LEMMA ChainMoves ==
  ASSUME CoreRows, TimerParts, UNCHANGED <<leased, expiries, leaseTimer, failures>>,
         \/ /\ cur' = cur
            /\ chain' = chain \/ \E op \in AnyOp : chain' = Append(chain, op)
         \/ /\ Reclaimed = {} /\ cur' = Idle /\ chain # <<>>
            /\ chain' = Tail(chain) /\ Head(chain).kind # "expire"
         \/ /\ Reclaimed = {} /\ chain' = chain
            /\ cur'.pc = "main" /\ cur'.reply = "wait"
            /\ Running("extend") => cur'.rec.exp # None
  PROVE  TimerParts'
<1>1. Reclaimed' = Reclaimed /\ (Reclaimed # {} => UNCHANGED <<cur.due, cur.id>>)
  BY DEF Reclaimed
<1>2. Expected => Expected'
  BY <1>1, TimerTypes, ExpireWaits DEF Expected
<1>3. cur' # Idle /\ cur'.reply = "err" => failures' > 0
  BY DEF TimerParts
<1>4. Running("extend")' /\ cur' # Idle => cur'.rec.exp # None
  <2>1. CASE chain' = chain
    BY <2>1 DEF TimerParts, Running
  <2>2. ASSUME NEW op \in AnyOp, chain' = Append(chain, op), cur' = cur, cur # Idle
        PROVE  Running("extend") <=> Running("extend")'
    <3>1. chain # <<>> /\ chain \in Seq(AnyOp)
      BY <2>2, TimerTypes, CoreTypes DEF CallFitsOperation, Running
    <3>2. Head(chain') = Head(chain) /\ chain' # <<>>
      BY <2>2, <3>1
    <3>3. QED
      BY <3>1, <3>2 DEF Running
  <2>3. QED
    BY <2>1, <2>2 DEF TimerParts
<1>5. QED
  BY <1>1, <1>2, <1>3, <1>4, NothingToArm

\* claimCore's loop: a round of it, or its end.
LEMMA ClaimWatches ==
  ASSUME CoreRows, NEW av, NEW l, MapsIdsTo(l, Leased),
         NEW h \in SUBSET Expiry, NEW t \in Nat, ClaimFrom(av, l, h, t),
         Listed(l, h, {}), Deadlines(h), Running("claim")
  PROVE  TimerParts'
<1>1. leased' = l
  BY DEF ClaimFrom
<1>2. CASE StartReclaim(l, h, t) /\ UNCHANGED chain
  BY <1>1, <1>2, ReclaimBegins DEF Running
<1>3. CASE EndReclaim(l, h, t) /\ TakeHead(av)
  <2>1. Reclaimed' = {} /\ (cur' # Idle => cur'.reply = "wait" /\ ~Running("extend")')
    BY <1>3 DEF TakeHead, EndOp, CallStore, Reclaimed, Running
  <2>2. QED
    BY <1>1, <1>3, <2>1, EndReclaimWatches, TimerArmed
<1>4. QED
  BY <1>2, <1>3 DEF ClaimFrom

\* The running operation's kind, once its own store call is answered.
LEMMA RepliedMain ==
  ASSUME NEW kind, NEW reply, Replied(kind, reply)
  PROVE  /\ Reclaimed = {} /\ chain # <<>> /\ Head(chain).kind = kind
         /\ cur # Idle /\ cur.pc = "main"
BY DEF Replied, Running, Reclaimed

\* Calls and the operations that begin.
LEMMA CallsTimer ==
  ASSUME QueueAssumption, CoreRows, TimerParts, Calls
  PROVE  TimerParts'
<1>1. /\ UNCHANGED <<leased, expiries, leaseTimer, failures, cur>>
      /\ \E op : Push(op)
  BY DEF Calls, Enqueue, Claim, Ack, Release, Reschedule, ExtendLease, LeaseOp,
     memVars, faultVars
<1>2. chain' \in Seq(AnyOp)
  BY CallsType DEF CoreRows, RowsFit, ShapeFit, AdminTypeOK, AdminChainTypeOK
<1>3. PICK op : chain' = Append(chain, op)
  BY <1>1 DEF Push
<1>4. op \in AnyOp
  <2>1. Len(chain) + 1 \in DOMAIN chain' /\ chain'[Len(chain) + 1] = op
    BY <1>3, TimerTypes
  <2>2. QED
    BY <1>2, <2>1, ElementOfSeq
<1>5. QED
  BY <1>1, <1>3, <1>4, ChainMoves

\* An operation that starts keeps every deadline listed and watched.
LEMMA BeginsTimer ==
  ASSUME CoreRows, TimerParts, Begins
  PROVE  TimerParts'
<1>1. /\ MapsIdsTo(leased, Leased) /\ expiries \in SUBSET Expiry /\ now \in Nat
      /\ Deadlines(expiries)
  BY TimerTypes DEF TimerParts
<1>2. cur = Idle => Reclaimed = {} /\ Listed(leased, expiries, {})
  BY DEF Reclaimed, TimerParts
<1>3. CASE BeginEnqueue
  <2>1. /\ cur = Idle /\ chain # <<>> /\ Head(chain).kind = "enqueue"
        /\ UNCHANGED <<leased, expiries, leaseTimer, failures>>
        /\ \/ chain' = Tail(chain) /\ cur' = Idle
           \/ chain' = chain /\ cur'.pc = "main" /\ cur'.reply = "wait"
    BY <1>3 DEF BeginEnqueue, Starting, Running, EndOp, CallStore, memVars, faultVars
  <2>2. QED
    BY <1>2, <2>1, ChainMoves DEF Running
<1>4. CASE BeginLeaseOp
  <2>1. /\ cur = Idle /\ chain # <<>> /\ Head(chain).kind # "expire"
        /\ UNCHANGED <<leased, expiries, leaseTimer, failures>>
        /\ \/ chain' = Tail(chain) /\ cur' = Idle
           \/ /\ chain' = chain /\ cur'.pc = "main" /\ cur'.reply = "wait"
              /\ cur'.rec = LeaseWrite(Head(chain))
    BY <1>4 DEF BeginLeaseOp, Starting, Running, EndOp, CallStore, memVars, faultVars
  <2>2. Running("extend") => LeaseWrite(Head(chain)).exp # None
    BY <1>1, TimerTypes, HeadOp DEF Running, LeaseWrite, ExtendOp
  <2>3. QED
    BY <1>2, <2>1, <2>2, ChainMoves
<1>5. CASE BeginClaim
  <2>1. cur = Idle /\ chain # <<>> /\ Head(chain).kind = "claim"
    BY <1>5 DEF BeginClaim, Starting, Running
  <2>2. PICK av : IF LeaseTtl # None \/ expiries # {}
                  THEN ClaimFrom(av, leased, expiries, now)
                  ELSE TakeHead(av) /\ UNCHANGED <<leased, expiries, leaseTimer>>
    BY <1>5 DEF BeginClaim
  <2>3. CASE ClaimFrom(av, leased, expiries, now)
    BY <1>1, <1>2, <2>1, <2>3, ClaimWatches DEF Running
  <2>4. CASE TakeHead(av) /\ UNCHANGED <<leased, expiries, leaseTimer>>
    <3>1. \/ chain' = Tail(chain) /\ cur' = Idle
          \/ chain' = chain /\ cur'.pc = "main" /\ cur'.reply = "wait"
      BY <2>4 DEF TakeHead, EndOp, CallStore
    <3>2. UNCHANGED failures
      BY <1>5 DEF BeginClaim, faultVars
    <3>3. QED
      BY <1>2, <2>1, <2>4, <3>1, <3>2, ChainMoves DEF Running
  <2>5. QED
    BY <2>2, <2>3, <2>4
<1>6. CASE BeginExpire
  <2>1. cur = Idle /\ UNCHANGED leased /\ Running("expire")
    BY <1>6 DEF BeginExpire, Starting
  <2>2. CASE StartReclaim(leased, expiries, now) /\ UNCHANGED chain
    BY <1>1, <1>2, <2>1, <2>2, ReclaimBegins DEF Running
  <2>3. CASE EndReclaim(leased, expiries, now) /\ EndOp
    <3>1. Reclaimed' = {} /\ cur' = Idle
      BY <2>3 DEF EndOp, Reclaimed
    <3>2. QED
      BY <1>1, <1>2, <2>1, <2>3, <3>1, EndReclaimWatches, TimerArmed
  <2>4. QED
    BY <1>6, <2>2, <2>3 DEF BeginExpire
<1>7. QED
  BY <1>3, <1>4, <1>5, <1>6 DEF Begins

\* The continuations.
LEMMA FinishesTimer ==
  ASSUME CoreRows, TimerParts, Finishes
  PROVE  TimerParts'
<1>1. /\ MapsIdsTo(leased, Leased) /\ expiries \in SUBSET Expiry
      /\ Deadlines(expiries) /\ failures \in Nat
      /\ cur # Idle => cur \in Call /\ cur.rec \in Stored /\ cur.now \in Nat
  BY TimerTypes DEF TimerParts
<1>2. Reclaimed = {} => Listed(leased, expiries, {})
  BY DEF TimerParts
<1>3. EndOp => Reclaimed' = {} /\ cur' = Idle
  BY DEF EndOp, Reclaimed
<1>4. CASE FinishEnqueue \/ FinishRefused \/ ClaimRefused
  <2>1. PICK kind \in {"enqueue", "ack", "release", "reschedule", "extend", "claim"},
             reply \in {"ok", "err"} : Replied(kind, reply)
    BY <1>4 DEF FinishEnqueue, FinishRefused, ClaimRefused
  <2>2. /\ UNCHANGED <<leased, expiries, leaseTimer, failures>>
        /\ chain' = Tail(chain) /\ cur' = Idle
    BY <1>4 DEF FinishEnqueue, FinishRefused, ClaimRefused, EndOp, memVars, faultVars
  <2>3. QED
    BY <2>1, <2>2, RepliedMain, ChainMoves
<1>5. CASE FinishAck \/ FinishReturn
  <2>1. /\ leased' = Without(leased, cur.id) /\ ArmLeaseTimer(leased', expiries)
        /\ EndOp
    BY <1>5 DEF FinishAck, FinishReturn
  <2>2. Listed(leased, expiries, {cur.id})
    BY <1>5, <1>2, RepliedMain DEF FinishAck, FinishReturn, Listed
  <2>3. MapsIdsTo(leased', Leased) /\ Listed(leased', expiries, {})
    BY <1>1, <2>1, <2>2, WithoutListed
  <2>4. PICK l : l = leased'
    OBVIOUS
  <2>5. QED
    BY <1>1, <1>3, <2>1, <2>3, <2>4, ArmWatches, TimerArmed
<1>6. CASE FinishExtend
  <2> DEFINE e == [id |-> cur.id, gen |-> cur.gen, exp |-> cur.rec.exp]
  <2>1. /\ Holds(cur.id, cur.gen) /\ EndOp /\ Reclaimed = {}
        /\ leased' = [leased EXCEPT ![cur.id].exp = cur.rec.exp]
        /\ ArmLeaseTimer(leased', expiries \cup {e})
        /\ cur \in Call /\ cur.rec \in Stored
    BY <1>1, <1>6, RepliedMain DEF FinishExtend
  <2>2. MapsIdsTo(leased', Leased) /\ e \in Expiry
    BY <1>1, <2>1 DEF MapsIdsTo, Leased, Holds, Call, Stored, Expiry
  <2>3. Listed(leased', expiries \cup {e}, {})
    BY <1>1, <1>2, <2>1 DEF Listed, Entry, Holds, MapsIdsTo, Leased
  <2>4. cur.rec.exp # None
    BY <1>6 DEF FinishExtend, Replied, TimerParts
  <2>5. QED
    BY <1>1, <1>3, <2>1, <2>2, <2>3, <2>4, ArmWatches, TimerArmed DEF Deadlines
<1>7. CASE FinishClaim
  <2> DEFINE r == cur.rec
             e == [id |-> cur.id, gen |-> r.gen, exp |-> r.exp]
             v == [job |-> r.job, gen |-> r.gen, exp |-> r.exp, attempt |-> r.attempt]
             h == IF r.exp = None THEN expiries ELSE expiries \cup {e}
  <2>1. /\ leased' = Put(leased, cur.id, v) /\ ArmLeaseTimer(leased', h)
        /\ EndOp /\ Reclaimed = {} /\ cur \in Call /\ r \in Stored
    BY <1>1, <1>7, RepliedMain DEF FinishClaim
  <2>2. MapsIdsTo(leased', Leased) /\ h \in SUBSET Expiry
    BY <1>1, <2>1 DEF MapsIdsTo, Leased, Call, Stored, Expiry, Put
  <2>3. Listed(leased', h, {}) /\ Deadlines(h)
    BY <1>1, <1>2, <2>1 DEF Listed, Entry, Put, Deadlines
  <2>4. PICK l, g : l = leased' /\ g = h
    OBVIOUS
  <2> HIDE DEF h, v, e
  <2>5. Listed(leased', expiries', {}) /\ Deadlines(expiries')
        /\ Watched(leased', leaseTimer')
    BY <2>1, <2>2, <2>3, <2>4, ArmWatches
  <2>6. QED
    BY <1>3, <2>1, <2>5, TimerArmed
<1>8. ASSUME NEW kind, Reclaiming(kind, "ok")
      PROVE  /\ MapsIdsTo(ReclaimedLeases, Leased)
             /\ Listed(ReclaimedLeases, expiries, {}) /\ cur.now \in Nat
  <2>1. Reclaimed = {cur.id} /\ cur # Idle
    BY <1>8 DEF Reclaiming, Reclaimed
  <2>2. QED
    BY <1>1, <2>1, WithoutListed DEF ReclaimedLeases, TimerParts
<1>9. CASE ReclaimThenClaim
  BY <1>1, <1>8, <1>9, ClaimWatches DEF ReclaimThenClaim, Reclaiming
<1>10. CASE ReclaimThenLoop
  <2>1. /\ Reclaiming("expire", "ok") /\ leased' = ReclaimedLeases
        /\ \/ StartReclaim(leased', expiries, cur.now) /\ UNCHANGED chain
           \/ EndReclaim(leased', expiries, cur.now) /\ EndOp
    BY <1>10 DEF ReclaimThenLoop
  <2>2. PICK l : l = leased'
    OBVIOUS
  <2>3. CASE StartReclaim(leased', expiries, cur.now) /\ UNCHANGED chain
    BY <1>1, <1>8, <2>1, <2>3, ReclaimBegins DEF Reclaiming, Running
  <2>4. CASE EndReclaim(leased', expiries, cur.now) /\ EndOp
    <3>1. Listed(l, expiries', {}) /\ Deadlines(expiries') /\ Watched(l, leaseTimer')
      BY <1>1, <1>8, <2>1, <2>2, <2>4, EndReclaimWatches
    <3>2. QED
      BY <1>3, <2>2, <2>4, <3>1, TimerArmed
  <2>5. QED
    BY <2>1, <2>3, <2>4
<1>11. CASE ReclaimRefused
  <2>1. /\ Reclaimed = {cur.id} /\ cur # Idle /\ cur.reply = "err" /\ EndOp
        /\ leased' = leased /\ failures' = failures /\ Holds(cur.id, cur.gen)
        /\ cur.due # None /\ cur.due = leased[cur.id].exp /\ cur \in Call
    BY <1>1, <1>11, TimerTypes
       DEF ReclaimRefused, Reclaiming, Reclaimed, faultVars, TimerParts
  <2>2. /\ RestoredExpiries \in SUBSET Expiry /\ Deadlines(RestoredExpiries)
        /\ Listed(leased, RestoredExpiries, {})
    BY <1>1, <2>1 DEF RestoredExpiries, Expiry, Call, Deadlines, Listed, Entry,
       Holds, TimerParts
  <2>3. CASE ArmLeaseTimer(leased, RestoredExpiries)
    BY <1>1, <1>3, <2>1, <2>2, <2>3, ArmWatches, TimerArmed
  <2>4. CASE expiries' = RestoredExpiries
    <3>1. failures > 0
      BY <2>1 DEF TimerParts
    <3>2. QED
      BY <1>1, <1>3, <2>1, <2>2, <2>4, <3>1 DEF TimerParts, Listed, Entry
  <2>5. QED
    BY <1>11, <2>3, <2>4 DEF ReclaimRefused
<1>12. QED
  BY <1>4, <1>5, <1>6, <1>7, <1>9, <1>10, <1>11 DEF Finishes

\* The store answers, timers fire, readers look.
LEMMA AnswersTimer ==
  ASSUME CoreRows, TimerParts,
         StoreApplies \/ StoreRefuses \/ ReaderPromotes \/ DelayTimerFires \/ LeaseTimerFires
  PROVE  TimerParts'
<1>1. cur # Idle => cur \in Call
  BY TimerTypes
<1>2. CASE StoreApplies \/ StoreRefuses
  <2>1. /\ UNCHANGED <<leased, expiries, leaseTimer, chain>> /\ cur # Idle
        /\ \/ cur' = [cur EXCEPT !.reply = "ok"] /\ failures' = failures
           \/ cur' = [cur EXCEPT !.reply = "err"] /\ failures' = failures + 1
    BY <1>2 DEF StoreApplies, StoreRefuses, Idle, memVars, faultVars
  <2>2. /\ cur'.pc = cur.pc /\ cur'.id = cur.id /\ cur'.due = cur.due
        /\ cur'.rec = cur.rec /\ cur' # Idle
        /\ cur'.reply = "err" => failures' > 0
        /\ failures' = 0 => failures = 0
    BY <1>1, <2>1, TimerTypes DEF Call, Idle
  <2>3. Reclaimed' = Reclaimed /\ (Expected => Expected')
    BY <2>1, <2>2 DEF Reclaimed, Expected
  <2>4. Running("extend")' => cur'.rec.exp # None
    BY <2>1, <2>2 DEF TimerParts, Running
  <2>5. QED
    BY <2>1, <2>2, <2>3, <2>4, NothingToArm
<1>3. CASE ReaderPromotes \/ DelayTimerFires
  BY <1>3, ChainMoves DEF ReaderPromotes, DelayTimerFires, chainVars, faultVars
<1>4. CASE LeaseTimerFires
  <2>1. /\ UNCHANGED <<leased, expiries, cur, failures>> /\ leaseTimer' = None
        /\ IF expiries = {} THEN chain' = chain
           ELSE chain' = Append(chain, [kind |-> "expire"])
    BY <1>4 DEF LeaseTimerFires, Push, faultVars
  <2>2. [kind |-> "expire"] \in AnyOp /\ chain \in Seq(AnyOp)
    BY TimerTypes DEF AnyOp, Op, PlainOp
  <2>3. Reclaimed' = Reclaimed
    BY <2>1 DEF Reclaimed
  <2>4. Running("extend")' /\ cur' # Idle => cur'.rec.exp # None
    <3>1. cur # Idle => chain # <<>>
      BY CoreTypes DEF CallFitsOperation, Running
    <3>2. cur # Idle => chain' # <<>> /\ Head(chain') = Head(chain)
      BY <2>1, <2>2, <3>1
    <3>3. QED
      BY <2>1, <3>1, <3>2 DEF TimerParts, Running
  <2>5. CASE expiries = {}
    <3>1. Expected' \/ Watched(leased', leaseTimer')
      BY <2>1, <2>3, <2>5 DEF TimerParts, Listed, Watched, Expected
    <3>2. QED
      BY <2>1, <2>3, <2>4, <3>1 DEF TimerParts, Listed, Entry, Deadlines
  <2>6. CASE expiries # {}
    <3>1. Len(chain) + 1 \in DOMAIN chain' /\ chain'[Len(chain) + 1].kind = "expire"
      BY <2>1, <2>2, <2>6
    <3>2. Expected'
      BY <3>1 DEF Expected
    <3>3. QED
      BY <2>1, <2>3, <2>4, <3>2 DEF TimerParts, Listed, Entry, Deadlines
  <2>7. QED
    BY <2>5, <2>6
<1>5. QED
  BY <1>2, <1>3, <1>4

\* Hydration, crashes and the clock.
LEMMA RestartsTimer ==
  ASSUME CoreRows, TimerParts, Hydrates \/ Crash \/ Tick
  PROVE  TimerParts'
<1>1. CASE HydrateInstall \/ Crash
  <2>1. /\ leased' = EmptyMap /\ expiries' = {} /\ cur' = Idle
    BY <1>1 DEF HydrateInstall, Crash, CoreRows, RowsFit, ShapeFit, ShapeParts, QuietLoad, chainVars
  <2>2. Reclaimed' = {} /\ Listed(leased', expiries', {}) /\ Deadlines(expiries')
        /\ Watched(leased', leaseTimer')
    BY <2>1 DEF Reclaimed, Listed, Deadlines, Watched, EmptyMap
  <2>3. QED
    BY <2>1, <2>2, TimerArmed
<1>2. CASE HydrateRefused
  <2>1. /\ UNCHANGED <<leased, expiries, leaseTimer, chain, cur>>
        /\ failures' = failures + 1
    BY <1>2 DEF HydrateRefused, memVars, chainVars
  <2>2. Reclaimed' = Reclaimed /\ (Expected => Expected')
    BY <2>1 DEF Reclaimed, Expected
  <2>3. /\ failures' # 0
        /\ cur' # Idle /\ cur'.reply = "err" => failures' > 0
        /\ Running("extend")' /\ cur' # Idle => cur'.rec.exp # None
    BY <2>1, TimerTypes DEF TimerParts, Running
  <2>4. QED
    BY <2>1, <2>2, <2>3, NothingToArm
<1>3. CASE HydrateStart \/ HydrateRejects \/ HydrateLoad \/ Tick
           \/ \E i \in DOMAIN store : HydrateClear(i)
  BY <1>3, ChainMoves DEF HydrateStart, HydrateRejects, HydrateLoad, HydrateClear,
     Tick, memVars, chainVars, faultVars
<1>4. QED
  BY <1>1, <1>2, <1>3 DEF Hydrates

\* TimerInvariant holds in every reachable state: each deadline is on the heap,
\* and until the store refuses a call somebody is set to act on it.
THEOREM TimersHold == Spec => []TimerInvariant
<1>1. Init => TimerParts
  BY DEF Init, TimerParts, Listed, Deadlines, Watched, Reclaimed, EmptyMap, Idle
<1>2. CoreRows /\ TimerParts /\ [Next]_vars => TimerParts'
  <2> SUFFICES ASSUME CoreRows, TimerParts, [Next]_vars PROVE TimerParts'
    OBVIOUS
  <2>1. CASE UNCHANGED vars
    BY <2>1, ChainMoves DEF vars, memVars, chainVars, faultVars
  <2>2. CASE Next
    BY <2>2, QueueAssumption, CallsTimer, BeginsTimer, FinishesTimer, AnswersTimer,
       RestartsTimer DEF Next
  <2>3. QED
    BY <2>1, <2>2
<1>3. QED
  BY <1>1, <1>2, CoreRowsHold, TimerInvariantParts, PTL DEF Spec

\* Until the store refuses a call, a lease with a deadline is watched: by the
\* lease timer, by a reclaim queued on the chain, or by one that is running.
THEOREM LeaseTimerHolds == Spec => [](failures = 0 => LeaseTimerCovers)
<1>1. TimerInvariant => (failures = 0 => LeaseTimerCovers)
  BY DEF TimerInvariant
<1>2. QED
  BY <1>1, TimersHold, PTL

-----------------------------------------------------------------------------
(* Memory against the store, field by field, with the FIFO av, the delay    *)
(* heap D, the leases l and the ids x of rows that are not compared.        *)

Same(a, r) == a.job = r.job /\ a.gen = None /\ a.exp = None /\ a.attempt = r.attempt

Waiting(r)  == r.id \in DOMAIN store /\ store[r.id].at <= now /\ Same(store[r.id], r)
Delaying(d) == d.id \in DOMAIN store /\ store[d.id].at = d.at /\ Same(store[d.id], d)

Leasing(i, l) ==
  /\ i \in DOMAIN store
  /\ store[i].job = l.job /\ store[i].at = 0 /\ store[i].gen = l.gen
  /\ store[i].exp = l.exp /\ store[i].attempt = l.attempt

Backed(av, D, l, x) ==
  /\ \A k \in DOMAIN av : Waiting(av[k])
  /\ \A d \in D : Delaying(d)
  /\ \A i \in DOMAIN l \ x : Leasing(i, l[i])

\* Equality of records as equality of their fields.
LEMMA RecordFields ==
  ASSUME NEW a \in Stored, NEW r
  PROVE  /\ [a EXCEPT !.at = 0] = Cleared(r) <=> Same(a, r)
         /\ a = [Cleared(r) EXCEPT !.at = r.at] <=> Same(a, r) /\ a.at = r.at
         /\ a = [job |-> r.job, at |-> 0, gen |-> r.gen, exp |-> r.exp,
                 attempt |-> r.attempt]
              <=> /\ a.job = r.job /\ a.at = 0 /\ a.gen = r.gen
                  /\ a.exp = r.exp /\ a.attempt = r.attempt
BY DEF Same, Cleared, Stored

RowsBacked ==
  /\ Backed(available, delayed, leased, Ahead)
  /\ DOMAIN store \subseteq PlacedIds \cup Ahead

\* MemoryMatchesStore in these terms.
LEMMA MatchIsBacked ==
  ASSUME StoreTypeOK
  PROVE  MemoryMatchesStore <=> (hydrated => RowsBacked)
<1>1. \A i \in DOMAIN store : store[i] \in Stored
  BY DEF StoreTypeOK, MapsIdsTo
<1>2. (\A r \in AvailableRows :
         /\ r.id \in DOMAIN store
         /\ store[r.id].at <= now
         /\ [store[r.id] EXCEPT !.at = 0] = Cleared(r))
      <=> \A k \in DOMAIN available : Waiting(available[k])
  <2>1. \A r : /\ r.id \in DOMAIN store
               /\ store[r.id].at <= now
               /\ [store[r.id] EXCEPT !.at = 0] = Cleared(r)
               <=> Waiting(r)
    BY <1>1, RecordFields DEF Waiting
  <2>2. QED
    BY <2>1 DEF AvailableRows, Range
<1>3. \A d : /\ d.id \in DOMAIN store
             /\ store[d.id] = [Cleared(d) EXCEPT !.at = d.at]
             <=> Delaying(d)
  BY <1>1, RecordFields DEF Delaying
<1>4. \A i : /\ i \in DOMAIN store
             /\ store[i] = [job |-> leased[i].job, at |-> 0,
                            gen |-> leased[i].gen, exp |-> leased[i].exp,
                            attempt |-> leased[i].attempt]
             <=> Leasing(i, leased[i])
  BY <1>1, RecordFields DEF Leasing
<1>5. QED
  BY <1>2, <1>3, <1>4 DEF MemoryMatchesStore, RowsBacked, Backed, PlacedIds
-----------------------------------------------------------------------------
(* What the operators on the collections keep.                              *)

\* A waiting row joins the FIFO.
LEMMA AppendBacked ==
  ASSUME NEW av \in Seq(Row), NEW D, NEW l, NEW x, NEW r \in Row,
         Backed(av, D, l, x), Waiting(r)
  PROVE  /\ Backed(Append(av, r), D, l, x)
         /\ \A L, F : Everything(Append(av, r), D, L, F)
                        = Everything(av, D, L, F) \cup {r.id}
<1>1. \A k \in DOMAIN Append(av, r) : Append(av, r)[k] = r \/
        (k \in DOMAIN av /\ Append(av, r)[k] = av[k])
  OBVIOUS
<1>2. Backed(Append(av, r), D, l, x)
  BY <1>1 DEF Backed
<1>3. SeqIds(Append(av, r)) = SeqIds(av) \cup {r.id}
  BY AppendIds
<1>4. QED
  BY <1>2, <1>3 DEF Everything

\* The head of the FIFO is popped.
LEMMA PopBacked ==
  ASSUME NEW av \in Seq(Row), av # <<>>, NEW D, NEW l, NEW x,
         Backed(av, D, l, x)
  PROVE  /\ Backed(Tail(av), D, l, x) /\ Waiting(Head(av))
         /\ \A L : Everything(av, D, L, {})
                     \subseteq Everything(Tail(av), D, L, {Head(av).id})
<1> DEFINE w == Tail(av)
<1>0. /\ Len(av) \in Nat /\ Len(av) >= 1 /\ DOMAIN av = 1..Len(av)
      /\ Len(w) = Len(av) - 1 /\ DOMAIN w = 1..Len(w)
      /\ \A i \in DOMAIN w : w[i] = av[i + 1]
      /\ Head(av) = av[1]
  OBVIOUS
<1> HIDE DEF w
<1>1. /\ \A k \in DOMAIN w : k + 1 \in DOMAIN av /\ w[k] = av[k + 1]
      /\ 1 \in DOMAIN av /\ Head(av) = av[1]
  BY <1>0
<1>2. Backed(w, D, l, x) /\ Waiting(Head(av))
  BY <1>1 DEF Backed
<1>3. \A k \in DOMAIN av : k = 1 \/ (k - 1 \in DOMAIN w /\ w[k - 1] = av[k])
  BY <1>0
<1>4. SeqIds(av) \subseteq SeqIds(w) \cup {Head(av).id}
  BY <1>1, <1>3 DEF SeqIds
<1>5. QED
  BY <1>2, <1>4 DEF Everything, w

\* A row whose time has come waits.
LEMMA DueWaits ==
  ASSUME NEW d \in Due, Delaying(d)
  PROVE  Waiting(RowOf(d.id, d))
BY DEF Due, Delaying, Waiting, RowOf, Same

\* A drain moves the due rows to the FIFO, and leaves none out.
LEMMA DrainBacked ==
  ASSUME MemTypeOK, NEW l, NEW x, Backed(available, delayed, l, x),
         NEW av \in Drained
  PROVE  /\ Backed(av, delayed \ Due, l, x)
         /\ \A L, F : Everything(available, delayed, L, F)
                        \subseteq Everything(av, delayed \ Due, L, F)
<1>1. \A k \in DOMAIN av : \/ \E m \in DOMAIN available : av[k] = available[m]
                           \/ \E d \in Due : av[k] = RowOf(d.id, d)
  BY DrainRows
<1>8. /\ \A m \in DOMAIN available : m \in DOMAIN av /\ av[m] = available[m]
      /\ \A d \in Due : \E k \in DOMAIN av : av[k] = RowOf(d.id, d)
  BY DrainRows
<1>2. \A d \in Due : Waiting(RowOf(d.id, d)) /\ RowOf(d.id, d).id = d.id
  BY DueWaits DEF Backed, Due, RowOf
<1>3. \A k \in DOMAIN av : Waiting(av[k])
  BY <1>1, <1>2 DEF Backed
<1>4. Backed(av, delayed \ Due, l, x)
  BY <1>3 DEF Backed
<1>5. SeqIds(available) \subseteq SeqIds(av) /\ HeapIds(Due) \subseteq SeqIds(av)
  BY <1>2, <1>8 DEF SeqIds, HeapIds
<1>6. HeapIds(delayed) \subseteq HeapIds(delayed \ Due) \cup HeapIds(Due)
  BY DEF HeapIds
<1>7. QED
  BY <1>4, <1>5, <1>6 DEF Everything

\* The row of a record that has just been written becomes claimable or waits.
LEMMA AddPendingBacked ==
  ASSUME MemTypeOK, NEW i \in Ids, NEW r \in Stored, AddPending(i, r),
         NEW l, NEW x, Backed(available, delayed, l, x), now \in Nat,
         i \in DOMAIN store, store[i] = r, r.gen = None, r.exp = None
  PROVE  /\ Backed(available', delayed', l, x)
         /\ \A L, F : Everything(available, delayed, L, F) \cup {i}
                        \subseteq Everything(available', delayed', L, F)
<1>1. CASE r.at = 0
  <2>1. available' = Append(available, RowOf(i, r)) /\ delayed' = delayed
    BY <1>1 DEF AddPending
  <2>2. RowOf(i, r) \in Row /\ RowOf(i, r).id = i /\ Waiting(RowOf(i, r))
    BY <1>1 DEF RowOf, Row, Stored, Waiting, Same
  <2>3. QED
    BY <2>1, <2>2, AppendBacked DEF MemTypeOK
<1>2. CASE r.at # 0
  <2>1. PICK d : d = DelayedRow(i, r)
    OBVIOUS
  <2>2. available' = available /\ delayed' = delayed \cup {d}
    BY <1>2, <2>1 DEF AddPending
  <2>3. d.id = i /\ Delaying(d)
    BY <2>1 DEF DelayedRow, Delaying, Same
  <2>4. Backed(available', delayed', l, x)
    BY <2>2, <2>3 DEF Backed
  <2>5. HeapIds(delayed) \cup {i} \subseteq HeapIds(delayed')
    BY <2>2, <2>3 DEF HeapIds
  <2>6. QED
    BY <2>2, <2>4, <2>5 DEF Everything
<1>3. QED
  BY <1>1, <1>2

\* Fewer leases, or more rows that are not compared.
LEMMA ShrinkBacked ==
  ASSUME NEW av, NEW D, NEW l, NEW x, Backed(av, D, l, x),
         NEW l2, NEW x2, DOMAIN l2 \ x2 \subseteq DOMAIN l \ x,
         \A i \in DOMAIN l2 \ x2 : l2[i] = l[i]
  PROVE  Backed(av, D, l2, x2)
BY DEF Backed
-----------------------------------------------------------------------------
(* The parts of StoreInvariant, and what a step of the chain has to show.    *)

\* Memory and store agree but for the row of an administration call.
JobBacked ==
  /\ \A k \in DOMAIN available : available[k].id # cur.id => Waiting(available[k])
  /\ \A d \in delayed : d.id # cur.id => Delaying(d)
  /\ \A i \in DOMAIN leased : Leasing(i, leased[i])
  /\ DOMAIN store \subseteq PlacedIds

JobApplied == JobRuns /\ cur.reply = "ok"

MemoryBacked ==
  hydrated => \/ BulkApplied
              \/ JobApplied /\ JobBacked
              \/ ~JobApplied /\ RowsBacked

StoreParts ==
  MemoryBacked /\ ColdStart /\ LeasesNumbered /\ AdminCallWrites /\ LoadFits

\* The call awaited, if any, is one of DurableQueue's operations'.
CoreAtHead == cur # Idle => chain # <<>> /\ Head(chain).kind \in CoreKinds

\* The writes of DurableQueue's operations are those it says.
LEMMA CoreWrites ==
  /\ CoreAtHead => /\ AdminCallWrites <=> CallWrites
                   /\ ~BulkApplied /\ ~JobRuns /\ ~DequeueRuns
                   /\ MemoryBacked <=> (hydrated => RowsBacked)
  /\ CoreAtHead' => /\ AdminCallWrites' <=> CallWrites'
                    /\ ~BulkApplied' /\ ~JobRuns' /\ ~DequeueRuns'
                    /\ MemoryBacked' <=> (hydrated' => RowsBacked')
<1>1. CoreAtHead => ~BulkRuns /\ ~JobRuns /\ ~DequeueRuns
  BY DEF CoreAtHead, BulkRuns, JobRuns, DequeueRuns, Running, CoreKinds, JobKinds, Bulk
<1>2. CoreAtHead' => ~BulkRuns' /\ ~JobRuns' /\ ~DequeueRuns'
  BY DEF CoreAtHead, BulkRuns, JobRuns, DequeueRuns, Running, CoreKinds, JobKinds, Bulk
<1>3. QED
  BY <1>1, <1>2 DEF AdminCallWrites, BulkApplied, MemoryBacked, JobApplied

\* Operations of DurableQueue that begin or end leave no other call behind.
LEMMA CoreStays ==
  ASSUME Begins \/ Finishes, RowsFit
  PROVE  CoreAtHead /\ CoreAtHead'
<1>1. CoreAtHead /\ chain # <<>> /\ Head(chain).kind \in CoreKinds
  BY FinishAnswer DEF CoreAtHead, AnswerComes, Begins, BeginEnqueue, BeginLeaseOp,
     BeginClaim, BeginExpire, Starting, Running, CoreKinds
<1>2. cur' = Idle \/ chain' = chain
  BY DEF Begins, BeginEnqueue, BeginLeaseOp, BeginClaim, BeginExpire,
     Finishes, FinishEnqueue, FinishRefused, FinishAck, FinishReturn,
     FinishExtend, FinishClaim, ClaimRefused, ReclaimThenClaim,
     ReclaimThenLoop, ReclaimRefused, ClaimFrom, TakeHead, EndOp
<1>3. QED
  BY <1>1, <1>2 DEF CoreAtHead

\* Without the operations of DurableQueueAdmin it always is.
LEMMA CoreHead ==
  ASSUME CoreRows
  PROVE  RowsFit /\ CoreAtHead
BY ShapeTypes DEF CoreRows, RowsFit, CoreOnly, CoreAtHead

\* What the steps below use of the invariants.
LEMMA StoreTypes ==
  ASSUME RowsFit, StoreParts
  PROVE  /\ AdminTypeOK /\ MemTypeOK /\ StoreTypeOK /\ HydTypeOK
         /\ chain \in Seq(AnyOp) /\ available \in Seq(Row)
         /\ now \in Nat /\ leaseGenSeq \in Nat /\ RowParts /\ ShapeParts
         /\ cur # Idle => chain # <<>> /\ cur \in Call \cup WholeCall
         /\ cur # Idle /\ cur.pc \in {"main", "reclaim"} =>
              cur \in Call /\ cur.id \in Ids /\ cur.rec \in Stored
         /\ cur # Idle /\ CoreAtHead =>
              /\ cur \in Call /\ cur.id \in Ids /\ cur.rec \in Stored
              /\ CallFitsOperation
         /\ chain # <<>> => hydrated
         /\ \A i \in DOMAIN store : store[i] \in Stored
         /\ \A i \in DOMAIN leased : leased[i] \in Leased
<1>1. cur # Idle /\ CoreAtHead =>
        /\ cur \in Call /\ cur.id \in Ids /\ cur.rec \in Stored
        /\ CallFitsOperation
  BY CoreCall DEF RowsFit, CoreAtHead
<1>2. QED
  BY <1>1, ShapeTypes DEF RowsFit, ShapeFit, AdminTypeOK, StoreTypeOK, MemTypeOK,
     MapsIdsTo, StoreParts, ColdStart

\* An operation begins, goes on or ends: memory has changed, the store has not,
\* and no answered call is left.
LEMMA ChainStep ==
  ASSUME StoreParts, hydrated, UNCHANGED <<store, now, hydrated, hyd>>,
         Ahead' = {}, CallWrites', CoreAtHead',
         Backed(available', delayed', leased', {}),
         DOMAIN store \subseteq
           Everything(available', delayed', DOMAIN leased', InFlight'),
         \A i \in DOMAIN leased' : leased'[i].gen # None
  PROVE  StoreParts'
<1>1. Backed(available, delayed, leased, Ahead)'
  BY DEF Backed, Waiting, Delaying, Leasing, Same
<1>2. RowsBacked'
  BY <1>1, Placement DEF RowsBacked
<1>3. ColdStart' /\ LeasesNumbered' /\ LoadFits'
  BY DEF StoreParts, ColdStart, LeasesNumbered, LoadFits
<1>4. QED
  BY <1>2, <1>3, CoreWrites DEF StoreParts

\* The operation ends.
LEMMA ChainEnds ==
  ASSUME StoreParts, hydrated, UNCHANGED <<store, now, hydrated, hyd>>, EndOp,
         Backed(available', delayed', leased', {}),
         DOMAIN store \subseteq
           Everything(available', delayed', DOMAIN leased', {}),
         \A i \in DOMAIN leased' : leased'[i].gen # None
  PROVE  StoreParts'
<1>1. cur' = Idle /\ Ahead' = {} /\ InFlight' = {} /\ CallWrites' /\ CoreAtHead'
  BY DEF EndOp, Ahead, InFlight, CallWrites, CoreAtHead
<1>2. QED
  BY <1>1, ChainStep

\* A store call that has just been made.
LEMMA CallMade ==
  ASSUME UNCHANGED <<store, now>>, \A i \in DOMAIN store : store[i] \in Stored,
         cur' # Idle, cur'.reply = "wait", cur'.del <=> Running("ack")', CallRecord',
         Running("claim")' /\ cur'.pc = "main" =>
           /\ cur'.id \in DOMAIN store /\ store[cur'.id].at <= now
           /\ Same(store[cur'.id], cur'.rec)
  PROVE  Ahead' = {} /\ CallWrites'
<1>1. \A i \in DOMAIN store : [store[i] EXCEPT !.at = 0] = Cleared(cur'.rec)
                                <=> Same(store[i], cur'.rec)
  BY RecordFields
<1>2. QED
  BY <1>1 DEF Ahead, CallWrites

\* A reclaim round that has just begun.
LEMMA ReclaimCall ==
  ASSUME NEW l, NEW h, NEW t, StartReclaim(l, h, t), leased' = l,
         chain' = chain, chain # <<>>, Running("claim") \/ Running("expire"),
         UNCHANGED <<store, now>>, \A i \in DOMAIN store : store[i] \in Stored
  PROVE  Ahead' = {} /\ InFlight' = {} /\ CallWrites'
<1>1. PICK e \in DueLive(l, h, t) :
        cur' = [pc |-> "reclaim", reply |-> "wait", del |-> FALSE,
                id |-> e.id, gen |-> e.gen, rec |-> Cleared(l[e.id]),
                due |-> e.exp, now |-> t]
  BY DEF StartReclaim
<1>2. /\ cur' # Idle /\ cur'.reply = "wait" /\ ~cur'.del /\ cur'.pc = "reclaim"
      /\ cur'.rec = Cleared(leased'[cur'.id])
  BY <1>1 DEF Idle
<1>3. /\ ~Running("ack")' /\ ~Running("release")' /\ ~Running("reschedule")'
      /\ ~Running("extend")' /\ ~Running("enqueue")'
  BY DEF Running
<1>4. CallRecord'
  BY <1>2, <1>3 DEF CallRecord
<1>5. InFlight' = {}
  BY <1>2 DEF InFlight
<1>6. QED
  BY <1>2, <1>3, <1>4, <1>5, CallMade

\* A claim pops the head of the FIFO, or ends without one.
LEMMA TakeHeadStore ==
  ASSUME NEW av \in Seq(Row), NEW D, NEW l, Backed(av, D, l, {}), TakeHead(av),
         DOMAIN store \subseteq Everything(av, D, DOMAIN l, {}),
         Running("claim"), leaseGenSeq \in Nat, leased' = l, delayed' = D,
         UNCHANGED <<store, now>>, \A i \in DOMAIN store : store[i] \in Stored
  PROVE  /\ Ahead' = {} /\ CallWrites'
         /\ Backed(available', delayed', leased', {})
         /\ DOMAIN store \subseteq
              Everything(available', delayed', DOMAIN leased', InFlight')
<1>1. CASE av = <<>>
  <2>1. cur' = Idle /\ available' = av
    BY <1>1 DEF TakeHead, EndOp
  <2>2. InFlight' = {} /\ Ahead' = {} /\ CallWrites'
    BY <2>1 DEF InFlight, Ahead, CallWrites
  <2>3. QED
    BY <2>1, <2>2
<1>2. CASE av # <<>>
  <2>1. /\ available' = Tail(av) /\ chain' = chain /\ leaseGenSeq' = leaseGenSeq + 1
        /\ cur' = [pc |-> "main", reply |-> "wait", del |-> FALSE,
                   id |-> Head(av).id, gen |-> leaseGenSeq',
                   rec |-> [job |-> Head(av).job, at |-> 0, gen |-> leaseGenSeq',
                            exp |-> IF LeaseTtl = None THEN None
                                    ELSE now + LeaseTtl,
                            attempt |-> Head(av).attempt],
                   due |-> 0, now |-> 0]
    BY <1>2 DEF TakeHead, CallStore
  <2>2. /\ cur' # Idle /\ cur'.reply = "wait" /\ ~cur'.del /\ cur'.pc = "main"
        /\ cur'.id = Head(av).id /\ cur'.rec.at = 0
        /\ cur'.rec.gen = leaseGenSeq' /\ cur'.rec.gen # None
        /\ cur'.rec.job = Head(av).job /\ cur'.rec.attempt = Head(av).attempt
    BY <2>1 DEF Idle
  <2>3. /\ Running("claim")' /\ ~Running("ack")' /\ ~Running("release")'
        /\ ~Running("reschedule")' /\ ~Running("extend")' /\ ~Running("enqueue")'
    BY <2>1 DEF Running
  <2>4. /\ Backed(Tail(av), D, l, {}) /\ Waiting(Head(av))
        /\ Everything(av, D, DOMAIN l, {})
             \subseteq Everything(Tail(av), D, DOMAIN l, {Head(av).id})
    BY <1>2, PopBacked
  <2>5. InFlight' = {Head(av).id}
    BY <2>2, <2>3 DEF InFlight
  <2>6. CallRecord'
    BY <2>2, <2>3 DEF CallRecord
  <2>7. /\ cur'.id \in DOMAIN store /\ store[cur'.id].at <= now
        /\ Same(store[cur'.id], cur'.rec)
    BY <2>2, <2>4 DEF Waiting, Same
  <2>8. Ahead' = {} /\ CallWrites'
    BY <2>2, <2>3, <2>6, <2>7, CallMade
  <2>9. QED
    BY <2>1, <2>4, <2>5, <2>8
<1>3. QED
  BY <1>1, <1>2

\* claimCore from the reclaim loop on.
LEMMA ClaimFromStore ==
  ASSUME NEW av \in Seq(Row), NEW D, NEW l, Backed(av, D, l, {}), NEW h, NEW t,
         DOMAIN store \subseteq Everything(av, D, DOMAIN l, {}),
         ClaimFrom(av, l, h, t), Running("claim"), leaseGenSeq \in Nat,
         delayed' = D, chain # <<>>,
         UNCHANGED <<store, now>>, \A i \in DOMAIN store : store[i] \in Stored
  PROVE  /\ Ahead' = {} /\ CallWrites' /\ leased' = l
         /\ Backed(available', delayed', leased', {})
         /\ DOMAIN store \subseteq
              Everything(available', delayed', DOMAIN leased', InFlight')
<1>1. leased' = l
  BY DEF ClaimFrom
<1>2. CASE StartReclaim(l, h, t) /\ available' = av
           /\ UNCHANGED <<chain, leaseGenSeq>>
  BY <1>1, <1>2, ReclaimCall
<1>3. CASE EndReclaim(l, h, t) /\ TakeHead(av)
  BY <1>1, <1>3, TakeHeadStore
<1>4. QED
  BY <1>2, <1>3 DEF ClaimFrom
-----------------------------------------------------------------------------
(* The steps.                                                               *)

\* The parts that speak of memory, when the store and memory stay.
LEMMA StoreStays ==
  ASSUME RowsFit, StoreParts,
         UNCHANGED <<available, delayed, leased, cur, store, hydrated, leaseGenSeq>>,
         now <= now', now' \in Nat, RowsFit',
         \/ chain' = chain
         \/ cur = Idle
         \/ chain # <<>> /\ chain' # <<>> /\ Head(chain') = Head(chain),
         JobRuns => found' = found,
         ColdStart', LoadFits'
  PROVE  StoreParts'
<1>1. cur # Idle => /\ \A kind : Running(kind)' <=> Running(kind)
                    /\ Head(chain') = Head(chain)
  BY StoreTypes DEF Running
<1>0. /\ JobRuns' <=> JobRuns
      /\ DequeueRuns' <=> DequeueRuns
      /\ BulkRuns' <=> BulkRuns
  BY <1>1 DEF JobRuns, DequeueRuns, BulkRuns
<1>10. cur.id \in DOMAIN store /\ store[cur.id].at <= now => store[cur.id].at <= now'
  BY StoreTypes DEF Stored
<1>11. CallWrites => CallWrites'
  <2> SUFFICES ASSUME cur # Idle, CallWrites PROVE CallWrites'
    BY DEF CallWrites
  <2>1. CallRecord <=> CallRecord'
    BY <1>1 DEF CallRecord
  <2>3. QED
    BY <1>1, <1>10, <2>1 DEF CallWrites
<1>12. DequeueWrites => DequeueWrites'
  BY <1>10 DEF DequeueWrites
<1>13. JobRuns /\ JobWrites => JobWrites'
  BY <1>1 DEF JobWrites, JobRuns
<1>14. BulkRuns => BulkItems' = BulkItems
  BY <1>1 DEF BulkItems, BulkRuns
<1>15. (BulkApplied' <=> BulkApplied) /\ (JobApplied' <=> JobApplied)
  BY <1>0 DEF BulkApplied, JobApplied
<1>16. BulkApplied /\ BulkWrites => BulkWrites'
  BY <1>14 DEF BulkWrites, BulkDone, PlannedStore, Planned, BulkApplied
<1>2. AdminCallWrites'
  BY <1>0, <1>11, <1>12, <1>13, <1>15, <1>16 DEF StoreParts, AdminCallWrites
<1>3. Ahead' = Ahead /\ InFlight' = InFlight /\ PlacedIds' = PlacedIds
  <2>1. Ahead' = Ahead /\ InFlight' = InFlight
    BY <1>1 DEF Ahead, InFlight
  <2>2. QED
    BY <2>1 DEF PlacedIds, AvailableIds, AvailableRows, DelayedIds
<1>4. Backed(available, delayed, leased, Ahead) =>
        Backed(available, delayed, leased, Ahead)'
  <2>1. \A i \in DOMAIN store : store[i].at <= now => store[i].at <= now'
    BY StoreTypes DEF Stored
  <2>2. \A k \in DOMAIN available : Waiting(available[k]) => Waiting(available[k])'
    BY <2>1 DEF Waiting, Same
  <2>3. QED
    BY <1>3, <2>2 DEF Backed, Delaying, Leasing, Same
<1>17. JobBacked => JobBacked'
  <2>1. \A i \in DOMAIN store : store[i].at <= now => store[i].at <= now'
    BY StoreTypes DEF Stored
  <2>2. \A k \in DOMAIN available : Waiting(available[k]) => Waiting(available[k])'
    BY <2>1 DEF Waiting, Same
  <2>3. QED
    BY <1>3, <2>2 DEF JobBacked, Delaying, Leasing, Same
<1>18. RowsBacked => RowsBacked'
  BY <1>3, <1>4 DEF RowsBacked
<1>5. MemoryBacked'
  BY <1>15, <1>17, <1>18 DEF StoreParts, MemoryBacked
<1>6. LeasesNumbered'
  BY DEF StoreParts, LeasesNumbered
<1>7. QED
  BY <1>2, <1>5, <1>6 DEF StoreParts

\* An operation joins the chain.
LEMMA PushStore ==
  ASSUME RowsFit, StoreParts, RowsFit', NEW op, Push(op), hydrated,
         JobRuns => found' = found,
         UNCHANGED <<available, delayed, leased, cur, store, hydVars, leaseGenSeq, now>>
  PROVE  StoreParts'
<1>1. \/ cur = Idle
      \/ chain # <<>> /\ chain' # <<>> /\ Head(chain') = Head(chain)
  <2>1. chain \in Seq(AnyOp) /\ (cur # Idle => chain # <<>>) /\ chain' \in Seq(AnyOp)
    BY StoreTypes DEF RowsFit, ShapeFit, AdminTypeOK, AdminChainTypeOK
  <2>2. chain # <<>> => chain' # <<>> /\ Head(chain') = Head(chain)
    BY <2>1 DEF Push
  <2>3. QED
    BY <2>1, <2>2
<1>2. ColdStart' /\ LoadFits' /\ now \in Nat
  BY StoreTypes DEF StoreParts, ColdStart, LoadFits, hydVars
<1>3. QED
  BY <1>1, <1>2, StoreStays DEF hydVars

\* Callers only queue operations.
LEMMA CallsStore ==
  ASSUME RowsFit, StoreParts, RowsFit', Calls, JobRuns => found' = found
  PROVE  StoreParts'
<1>1. ASSUME NEW op, LeaseOp(op), hydrated PROVE StoreParts'
  BY <1>1, PushStore DEF LeaseOp, memVars, idVars, storeVars
<1>2. ASSUME NEW j \in Jobs, NEW d \in Delays, Enqueue(j, d) PROVE StoreParts'
  BY <1>2, PushStore DEF Enqueue, Serving, memVars, storeVars
<1>3. CASE Claim
  BY <1>3, PushStore DEF Claim, Serving, memVars, idVars, storeVars
<1>4. tokens # {} => hydrated
  BY DEF StoreParts, ColdStart
<1>5. ASSUME NEW t \in tokens, Ack(t) \/ Release(t) PROVE StoreParts'
  BY <1>1, <1>4, <1>5 DEF Ack, Release
<1>6. ASSUME NEW t \in tokens, NEW d \in Delays, NEW a \in t.attempt..MaxAttempt,
             Reschedule(t, d, a)
      PROVE  StoreParts'
  BY <1>1, <1>4, <1>6 DEF Reschedule
<1>7. ASSUME NEW t \in tokens, NEW ttl \in ExtendTtls, ExtendLease(t, ttl)
      PROVE  StoreParts'
  BY <1>1, <1>4, <1>7 DEF ExtendLease
<1>8. QED
  BY <1>2, <1>3, <1>5, <1>6, <1>7 DEF Calls

\* An operation begins: it makes a store call, or ends with memory as it is.
LEMMA BeginsStore ==
  ASSUME RowsFit, StoreParts, RowsFit', Begins
  PROVE  StoreParts'
<1>1. /\ cur = Idle /\ chain # <<>> /\ chain \in Seq(AnyOp) /\ hydrated
      /\ UNCHANGED <<store, now, hydrated, hyd>> /\ MemTypeOK
      /\ leaseGenSeq \in Nat /\ \A i \in DOMAIN store : store[i] \in Stored
  BY StoreTypes DEF Begins, BeginEnqueue, BeginLeaseOp, BeginClaim,
     BeginExpire, Starting, Running, hydVars, storeVars
<1>2. Ahead = {} /\ InFlight = {}
  BY <1>1 DEF Ahead, InFlight
<1>10. CoreAtHead /\ CoreAtHead'
  BY CoreStays
<1>3. /\ Backed(available, delayed, leased, {})
      /\ DOMAIN store \subseteq Everything(available, delayed, DOMAIN leased, {})
      /\ \A i \in DOMAIN leased : leased[i].gen # None
  BY <1>1, <1>2, <1>10, CoreWrites, Placement DEF StoreParts, RowsBacked,
     LeasesNumbered
<1>4. ASSUME EndOp, UNCHANGED <<available, delayed, leased>> PROVE StoreParts'
  BY <1>1, <1>3, <1>4, ChainEnds
<1>5. ASSUME UNCHANGED <<available, delayed, leased>>, InFlight' = {},
             Ahead' = {}, CallWrites'
      PROVE  StoreParts'
  BY <1>1, <1>3, <1>5, <1>10, ChainStep
<1>6. CASE BeginEnqueue
  <2>1. UNCHANGED <<available, delayed, leased>> /\ Running("enqueue")
    BY <1>6 DEF BeginEnqueue, memVars, Starting
  <2>2. ASSUME CallStore(FALSE, Head(chain).id, None,
                 [job |-> Head(chain).job, at |-> Head(chain).at, gen |-> None,
                  exp |-> None, attempt |-> 1]), UNCHANGED chain
        PROVE  StoreParts'
    <3>1. /\ cur' # Idle /\ cur'.reply = "wait" /\ ~cur'.del /\ cur'.pc = "main"
          /\ cur'.rec = [job |-> Head(chain').job, at |-> Head(chain').at,
                         gen |-> None, exp |-> None, attempt |-> 1]
      BY <2>2 DEF CallStore, Idle
    <3>2. /\ ~Running("ack")' /\ ~Running("release")' /\ ~Running("reschedule")'
          /\ ~Running("extend")' /\ ~Running("claim")' /\ ~Running("dequeue")'
      BY <2>1, <2>2 DEF Running
    <3>3. CallRecord' /\ InFlight' = {}
      BY <3>1, <3>2 DEF CallRecord, InFlight
    <3>4. QED
      BY <1>1, <1>5, <2>1, <3>1, <3>2, <3>3, CallMade
  <2>3. QED
    BY <1>4, <1>6, <2>1, <2>2 DEF BeginEnqueue
<1>7. CASE BeginLeaseOp
  <2>1. PICK kind \in {"ack", "release", "reschedule", "extend"} : Running(kind)
    BY <1>7 DEF BeginLeaseOp, Starting
  <2>2. UNCHANGED <<available, delayed, leased>>
    BY <1>7 DEF BeginLeaseOp, memVars
  <2> DEFINE op == Head(chain)
  <2>3. ASSUME Holds(op.tok.id, op.tok.gen), UNCHANGED chain,
               CallStore(op.kind = "ack", op.tok.id, op.tok.gen, LeaseWrite(op))
        PROVE  StoreParts'
    <3>1. /\ cur' # Idle /\ cur'.reply = "wait" /\ cur'.pc = "main"
          /\ cur'.id = op.tok.id /\ cur'.gen = op.tok.gen
          /\ cur'.rec = LeaseWrite(op) /\ (cur'.del <=> op.kind = "ack")
      BY <2>3 DEF CallStore, Idle
    <3>2. op.kind = kind /\ \A k : Running(k)' <=> k = kind
      BY <1>1, <2>1, <2>3 DEF Running
    <3>3. leased[op.tok.id].gen = op.tok.gen /\ leased' = leased /\ Head(chain') = op
      BY <2>2, <2>3 DEF Holds
    <3>4. CallRecord'
      <4>1. kind = "release" => cur'.rec = Cleared(leased'[cur'.id])
        BY <3>1, <3>2, <3>3 DEF LeaseWrite
      <4>2. kind = "reschedule" =>
              cur'.rec = [job |-> Head(chain').tok.job, at |-> Head(chain').at,
                          gen |-> None, exp |-> None,
                          attempt |-> Head(chain').attempt]
        BY <3>1, <3>2, <3>3 DEF LeaseWrite
      <4>3. kind = "extend" =>
              /\ cur'.rec.at = 0 /\ cur'.rec.gen = cur'.gen
              /\ cur'.rec.job = leased'[cur'.id].job
              /\ cur'.rec.attempt = leased'[cur'.id].attempt
        BY <3>1, <3>2, <3>3 DEF LeaseWrite
      <4>4. QED
        BY <3>1, <3>2, <4>1, <4>2, <4>3 DEF CallRecord
    <3>5. InFlight' = {}
      BY <3>2 DEF InFlight
    <3>6. (cur'.del <=> Running("ack")') /\ ~Running("claim")'
      BY <3>1, <3>2
    <3>7. QED
      BY <1>1, <1>5, <2>2, <3>1, <3>4, <3>5, <3>6, CallMade
  <2>4. QED
    BY <1>4, <1>7, <2>2, <2>3 DEF BeginLeaseOp
<1>8. CASE BeginClaim
  <2>1. PICK av \in Drained :
          /\ Promotes(av)
          /\ IF LeaseTtl # None \/ expiries # {}
             THEN ClaimFrom(av, leased, expiries, now)
             ELSE TakeHead(av) /\ UNCHANGED <<leased, expiries, leaseTimer>>
    BY <1>8 DEF BeginClaim
  <2>2. Running("claim") /\ delayed' = delayed \ Due /\ av \in Seq(Row)
    BY <1>1, <1>8, <2>1, DrainedType DEF BeginClaim, Starting, Promotes, MemTypeOK
  <2>3. /\ Backed(av, delayed', leased, {})
        /\ DOMAIN store \subseteq Everything(av, delayed', DOMAIN leased, {})
    <3>1. /\ Backed(av, delayed \ Due, leased, {})
          /\ Everything(available, delayed, DOMAIN leased, {})
               \subseteq Everything(av, delayed \ Due, DOMAIN leased, {})
      BY <1>1, <1>3, DrainBacked
    <3>2. QED
      BY <1>3, <2>2, <3>1
  <2>4. CASE ClaimFrom(av, leased, expiries, now)
    BY <1>1, <1>3, <1>10, <2>2, <2>3, <2>4, ClaimFromStore, ChainStep
  <2>5. CASE TakeHead(av) /\ UNCHANGED <<leased, expiries, leaseTimer>>
    BY <1>1, <1>3, <1>10, <2>2, <2>3, <2>5, TakeHeadStore, ChainStep
  <2>6. QED
    BY <2>1, <2>4, <2>5
<1>9. CASE BeginExpire
  <2>1. UNCHANGED <<available, delayed, leased>> /\ Running("expire")
    BY <1>9 DEF BeginExpire, Starting
  <2>2. CASE StartReclaim(leased, expiries, now) /\ UNCHANGED chain
    BY <1>1, <1>5, <2>1, <2>2, ReclaimCall
  <2>3. CASE EndReclaim(leased, expiries, now) /\ EndOp
    BY <1>4, <2>1, <2>3
  <2>4. QED
    BY <1>9, <2>2, <2>3 DEF BeginExpire
<1>11. QED
  BY <1>6, <1>7, <1>8, <1>9 DEF Begins

\* An operation ends, or a reclaim goes on: memory takes what has been written.
LEMMA FinishesStore ==
  ASSUME RowsFit, StoreParts, RowsFit', Finishes
  PROVE  StoreParts'
<1>1. /\ chain \in Seq(AnyOp) /\ available \in Seq(Row) /\ MemTypeOK /\ RowParts
      /\ now \in Nat /\ leaseGenSeq \in Nat
      /\ \A i \in DOMAIN store : store[i] \in Stored
      /\ \A i \in DOMAIN leased : leased[i] \in Leased
  BY StoreTypes
<1>2. /\ cur # Idle /\ UNCHANGED <<store, now, hydrated, hyd>>
  BY DEF Finishes, FinishEnqueue, FinishRefused, FinishAck, FinishReturn,
     FinishExtend, FinishClaim, ClaimRefused, ReclaimThenClaim,
     ReclaimThenLoop, ReclaimRefused, Replied, Reclaiming, hydVars, storeVars
<1>3. /\ chain # <<>> /\ hydrated /\ cur.id \in Ids /\ cur.rec \in Stored
      /\ cur.del <=> Running("ack")
      /\ CallRecord
      /\ Running("claim") /\ cur.pc = "main" /\ cur.reply # "ok" =>
           /\ cur.id \in DOMAIN store /\ store[cur.id].at <= now
           /\ [store[cur.id] EXCEPT !.at = 0] = Cleared(cur.rec)
      /\ cur.reply = "ok" =>
           IF cur.del THEN cur.id \notin DOMAIN store
           ELSE cur.id \in DOMAIN store /\ store[cur.id] = cur.rec
  <2>1. CallWrites /\ CoreAtHead
    BY CoreStays, CoreWrites DEF StoreParts
  <2>2. QED
    BY <1>2, <2>1, StoreTypes DEF CallWrites
<1>0. CoreAtHead /\ CoreAtHead'
  BY CoreStays
<1>4. /\ Backed(available, delayed, leased, Ahead)
      /\ DOMAIN store \subseteq
           Everything(available, delayed, DOMAIN leased, InFlight) \cup Ahead
      /\ \A i \in DOMAIN leased : leased[i].gen # None
      /\ Placed(available, delayed, DOMAIN leased, InFlight)
      /\ PlacedIds = Everything(available, delayed, DOMAIN leased, InFlight)
  BY <1>0, <1>1, <1>3, CoreWrites, Placement DEF StoreParts, RowsBacked,
     LeasesNumbered, RowParts
<1>5. /\ cur.reply = "ok" => Ahead = {cur.id}
      /\ cur.reply # "ok" => Ahead = {}
  BY <1>2 DEF Ahead
<1>6. ASSUME EndOp, Backed(available', delayed', leased', {}),
             DOMAIN store \subseteq
               Everything(available', delayed', DOMAIN leased', {}),
             \A i \in DOMAIN leased' : leased'[i].gen # None
      PROVE  StoreParts'
  BY <1>2, <1>3, <1>6, ChainEnds
<1>7. /\ DOMAIN Without(leased, cur.id) = DOMAIN leased \ {cur.id}
      /\ \A i \in DOMAIN leased \ {cur.id} : Without(leased, cur.id)[i] = leased[i]
  BY <1>1, WithoutType DEF Without, Restrict
<1>8. cur.reply = "ok" => Backed(available, delayed, Without(leased, cur.id), {})
  BY <1>4, <1>5, <1>7, ShrinkBacked
<1>9. \A i \in DOMAIN Without(leased, cur.id) : Without(leased, cur.id)[i].gen # None
  BY <1>4, <1>7
<1>10. CASE FinishEnqueue
  <2>1. /\ Running("enqueue") /\ cur.id = Head(chain).id /\ InFlight = {}
        /\ AddPending(cur.id, cur.rec) /\ EndOp /\ leased' = leased
        /\ cur.reply = "ok" /\ ~Running("ack")
    BY <1>0, <1>2, <1>10, StoreTypes DEF FinishEnqueue, Replied, Running, InFlight,
       CallFitsOperation
  <2>2. cur.id \notin DOMAIN leased
    BY <1>1, <1>2, <1>4, <2>1 DEF RowParts, NewRow, Everything
  <2>3. /\ cur.id \in DOMAIN store /\ store[cur.id] = cur.rec
        /\ cur.rec.gen = None /\ cur.rec.exp = None
    BY <1>3, <2>1 DEF CallRecord
  <2>4. Backed(available, delayed, leased, {})
    BY <1>4, <1>5, <2>1, <2>2 DEF Backed
  <2>5. /\ Backed(available', delayed', leased, {})
        /\ Everything(available, delayed, DOMAIN leased, {}) \cup {cur.id}
             \subseteq Everything(available', delayed', DOMAIN leased, {})
    BY <1>1, <1>3, <2>1, <2>3, <2>4, AddPendingBacked
  <2>6. QED
    BY <1>4, <1>5, <1>6, <2>1, <2>5
<1>11. CASE FinishRefused
  <2>1. /\ EndOp /\ UNCHANGED <<available, delayed, leased>> /\ cur.reply # "ok"
        /\ ~Running("claim") /\ ~Running("dequeue")
    BY <1>11 DEF FinishRefused, memVars, Replied, Running
  <2>2. InFlight = {}
    BY <2>1 DEF InFlight
  <2>3. QED
    BY <1>4, <1>5, <1>6, <2>1, <2>2
<1>12. CASE FinishAck
  <2>1. /\ EndOp /\ UNCHANGED <<available, delayed>> /\ InFlight = {}
        /\ leased' = Without(leased, cur.id) /\ cur.reply = "ok" /\ Running("ack")
    BY <1>12 DEF FinishAck, Replied, Running, InFlight
  <2>2. cur.id \notin DOMAIN store
    BY <1>3, <2>1
  <2>3. DOMAIN store \subseteq
          Everything(available, delayed, DOMAIN leased \ {cur.id}, {})
    BY <1>4, <1>5, <2>1, <2>2 DEF Everything
  <2>4. QED
    BY <1>6, <1>7, <1>8, <1>9, <2>1, <2>3
<1>13. CASE FinishReturn
  <2>1. /\ EndOp /\ AddPending(cur.id, cur.rec) /\ InFlight = {}
        /\ leased' = Without(leased, cur.id) /\ cur.reply = "ok"
        /\ Running("release") \/ Running("reschedule")
    BY <1>13 DEF FinishReturn, Replied, Running, InFlight
  <2>2. ~Running("ack")
    BY <2>1 DEF Running
  <2>3. /\ cur.id \in DOMAIN store /\ store[cur.id] = cur.rec
        /\ cur.rec.gen = None /\ cur.rec.exp = None
    BY <1>3, <2>1, <2>2 DEF CallRecord, Cleared
  <2>4. /\ Backed(available', delayed', leased', {})
        /\ Everything(available, delayed, DOMAIN leased', {}) \cup {cur.id}
             \subseteq Everything(available', delayed', DOMAIN leased', {})
    BY <1>1, <1>3, <1>8, <2>1, <2>3, AddPendingBacked
  <2>5. DOMAIN store \subseteq
          Everything(available, delayed, DOMAIN leased', {}) \cup {cur.id}
    BY <1>4, <1>5, <1>7, <2>1 DEF Everything
  <2>6. QED
    BY <1>6, <1>9, <2>1, <2>4, <2>5
<1>14. CASE FinishExtend
  <2>1. /\ EndOp /\ UNCHANGED <<available, delayed>> /\ InFlight = {}
        /\ leased' = [leased EXCEPT ![cur.id].exp = cur.rec.exp]
        /\ cur.reply = "ok" /\ Running("extend") /\ ~Running("ack")
        /\ cur.id \in DOMAIN leased /\ leased[cur.id].gen = cur.gen
    BY <1>14 DEF FinishExtend, Replied, Running, InFlight, Holds
  <2>2. /\ cur.id \in DOMAIN store /\ store[cur.id] = cur.rec
        /\ cur.rec.at = 0 /\ cur.rec.gen = cur.gen
        /\ cur.rec.job = leased[cur.id].job
        /\ cur.rec.attempt = leased[cur.id].attempt
    BY <1>3, <2>1 DEF CallRecord
  <2>3. /\ DOMAIN leased' = DOMAIN leased
        /\ \A i \in DOMAIN leased : i # cur.id => leased'[i] = leased[i]
        /\ leased'[cur.id].exp = cur.rec.exp
        /\ leased'[cur.id].job = leased[cur.id].job
        /\ leased'[cur.id].gen = leased[cur.id].gen
        /\ leased'[cur.id].attempt = leased[cur.id].attempt
    BY <1>1, <2>1 DEF Leased
  <2>4. Leasing(cur.id, leased'[cur.id])
    BY <2>1, <2>2, <2>3 DEF Leasing
  <2>5. Backed(available', delayed', leased', {})
    BY <1>4, <1>5, <2>1, <2>3, <2>4 DEF Backed
  <2>6. \A i \in DOMAIN leased' : leased'[i].gen # None
    BY <1>4, <2>1, <2>3
  <2>7. QED
    BY <1>4, <1>5, <1>6, <2>1, <2>3, <2>5, <2>6 DEF Everything
<1>15. (Replied("claim", "ok") \/ Replied("claim", "err")) =>
         /\ InFlight = {cur.id} /\ Running("claim") /\ cur.pc = "main" /\ ~Running("ack")
  BY DEF Replied, InFlight, Running
<1>16. CASE FinishClaim
  <2>1. /\ EndOp /\ UNCHANGED <<available, delayed>> /\ InFlight = {cur.id}
        /\ leased' = Put(leased, cur.id,
                         [job |-> cur.rec.job, gen |-> cur.rec.gen,
                          exp |-> cur.rec.exp, attempt |-> cur.rec.attempt])
        /\ cur.reply = "ok"
    BY <1>15, <1>16 DEF FinishClaim, Replied
  <2>2. /\ cur.id \in DOMAIN store /\ store[cur.id] = cur.rec /\ cur.rec.at = 0
        /\ cur.rec.gen # None
    BY <1>3, <1>15, <1>16, <2>1 DEF FinishClaim, CallRecord
  <2>3. /\ DOMAIN leased' = DOMAIN leased \cup {cur.id}
        /\ \A i \in DOMAIN leased : i # cur.id => leased'[i] = leased[i]
        /\ leased'[cur.id].exp = cur.rec.exp
        /\ leased'[cur.id].job = cur.rec.job
        /\ leased'[cur.id].gen = cur.rec.gen
        /\ leased'[cur.id].attempt = cur.rec.attempt
    BY <2>1 DEF Put
  <2>4. Leasing(cur.id, leased'[cur.id])
    BY <2>2, <2>3 DEF Leasing
  <2>5. Backed(available', delayed', leased', {})
    BY <1>4, <1>5, <2>1, <2>3, <2>4 DEF Backed
  <2>6. \A i \in DOMAIN leased' : leased'[i].gen # None
    BY <1>4, <2>2, <2>3
  <2>7. QED
    BY <1>4, <1>5, <1>6, <2>1, <2>3, <2>5, <2>6 DEF Everything
<1>17. RowOf(cur.id, cur.rec) \in Row /\ RowOf(cur.id, cur.rec).id = cur.id
       /\ \A a : Same(a, cur.rec) => Same(a, RowOf(cur.id, cur.rec))
  BY <1>3 DEF RowOf, Row, Stored, Same
<1> DEFINE row == RowOf(cur.id, cur.rec)
<1> HIDE DEF row
<1>18. CASE ClaimRefused
  <2>1. /\ EndOp /\ UNCHANGED <<delayed, leased>> /\ InFlight = {cur.id}
        /\ available' = Append(available, row) /\ cur.reply # "ok"
    BY <1>15, <1>18 DEF ClaimRefused, Replied, row
  <2>2. /\ cur.id \in DOMAIN store /\ store[cur.id].at <= now
        /\ Same(store[cur.id], cur.rec)
    <3>1. /\ cur.id \in DOMAIN store /\ store[cur.id].at <= now
          /\ [store[cur.id] EXCEPT !.at = 0] = Cleared(cur.rec)
      BY <1>3, <1>15, <1>18, <2>1 DEF ClaimRefused
    <3>2. QED
      BY <1>1, <3>1, RecordFields
  <2>3. Waiting(row) /\ row \in Row /\ row.id = cur.id
    BY <1>17, <2>2 DEF Waiting, row
  <2>4. Backed(available, delayed, leased, {})
    BY <1>4, <1>5, <2>1
  <2>5. /\ Backed(available', delayed, leased, {})
        /\ Everything(available', delayed, DOMAIN leased, {})
             = Everything(available, delayed, DOMAIN leased, {}) \cup {cur.id}
    BY <1>1, <2>1, <2>3, <2>4, AppendBacked
  <2>6. QED
    BY <1>4, <1>5, <1>6, <2>1, <2>5 DEF Everything
<1>19. ASSUME cur.pc = "reclaim", cur.reply = "ok", ~Running("ack")
       PROVE  /\ ReclaimedFifo \in Seq(Row)
              /\ Backed(ReclaimedFifo, delayed, ReclaimedLeases, {})
              /\ DOMAIN store \subseteq
                   Everything(ReclaimedFifo, delayed, DOMAIN ReclaimedLeases, {})
              /\ \A i \in DOMAIN ReclaimedLeases : ReclaimedLeases[i].gen # None
  <2>1. InFlight = {} /\ ReclaimedFifo = Append(available, row)
    BY <1>19 DEF InFlight, ReclaimedFifo, row
  <2>2. /\ cur.id \in DOMAIN store /\ store[cur.id] = cur.rec
        /\ cur.rec.at = 0 /\ cur.rec.gen = None /\ cur.rec.exp = None
    BY <1>3, <1>19 DEF CallRecord, Cleared
  <2>3. Waiting(row) /\ row \in Row /\ row.id = cur.id
    BY <1>1, <1>17, <2>2 DEF Waiting, Same, row
  <2>4. Backed(available, delayed, ReclaimedLeases, {})
    BY <1>8, <1>19 DEF ReclaimedLeases
  <2>5. /\ Backed(ReclaimedFifo, delayed, ReclaimedLeases, {})
        /\ Everything(ReclaimedFifo, delayed, DOMAIN ReclaimedLeases, {})
             = Everything(available, delayed, DOMAIN ReclaimedLeases, {})
               \cup {cur.id}
    <3>1. PICK l, w : l = ReclaimedLeases /\ w = ReclaimedFifo
      OBVIOUS
    <3>2. available \in Seq(Row) /\ w = Append(available, row)
      BY <1>1, <2>1, <3>1
    <3>3. Backed(available, delayed, l, {}) /\ Waiting(row) /\ row \in Row
      BY <2>3, <2>4, <3>1
    <3>4. SeqIds(w) = SeqIds(available) \cup {cur.id}
      BY <2>3, <3>2, <3>3, AppendIds
    <3>5. Backed(w, delayed, l, {})
      BY <3>2, <3>3, AppendBacked
    <3>6. QED
      BY <3>1, <3>4, <3>5 DEF Everything
  <2>6. DOMAIN store \subseteq
          Everything(available, delayed, DOMAIN ReclaimedLeases, {}) \cup {cur.id}
    BY <1>4, <1>5, <1>7, <1>19, <2>1 DEF Everything, ReclaimedLeases
  <2>7. QED
    BY <1>1, <1>9, <2>1, <2>3, <2>5, <2>6 DEF ReclaimedLeases
<1>20. CASE ReclaimThenClaim
  <2>1. /\ Running("claim") /\ cur.pc = "reclaim" /\ cur.reply = "ok"
        /\ ClaimFrom(ReclaimedFifo, ReclaimedLeases, expiries, cur.now)
        /\ delayed' = delayed /\ ~Running("ack")
    BY <1>20 DEF ReclaimThenClaim, Reclaiming, Running
  <2>2. /\ Ahead' = {} /\ CallWrites' /\ leased' = ReclaimedLeases
        /\ Backed(available', delayed', leased', {})
        /\ DOMAIN store \subseteq
             Everything(available', delayed', DOMAIN leased', InFlight')
    BY <1>1, <1>2, <1>3, <1>19, <2>1, ClaimFromStore
  <2>3. QED
    BY <1>0, <1>2, <1>3, <1>19, <2>1, <2>2, ChainStep
<1>21. CASE ReclaimThenLoop
  <2>1. /\ Running("expire") /\ cur.pc = "reclaim" /\ cur.reply = "ok"
        /\ available' = ReclaimedFifo /\ leased' = ReclaimedLeases
        /\ delayed' = delayed /\ ~Running("ack")
    BY <1>21 DEF ReclaimThenLoop, Reclaiming, Running
  <2>2. CASE EndReclaim(leased', expiries, cur.now) /\ EndOp
    BY <1>6, <1>19, <2>1, <2>2
  <2>3. CASE StartReclaim(leased', expiries, cur.now) /\ UNCHANGED chain
    <3>1. Ahead' = {} /\ InFlight' = {} /\ CallWrites'
      BY <1>1, <1>2, <1>3, <2>1, <2>3, ReclaimCall
    <3>2. QED
      BY <1>0, <1>2, <1>3, <1>19, <2>1, <3>1, ChainStep
  <2>4. QED
    BY <1>21, <2>2, <2>3 DEF ReclaimThenLoop
<1>22. CASE ReclaimRefused
  <2>1. /\ EndOp /\ UNCHANGED <<available, delayed, leased>> /\ InFlight = {}
        /\ cur.reply # "ok"
    BY <1>22 DEF ReclaimRefused, Reclaiming, InFlight
  <2>2. QED
    BY <1>4, <1>5, <1>6, <2>1
<1>23. QED
  BY <1>10, <1>11, <1>12, <1>13, <1>14, <1>16, <1>18, <1>20, <1>21, <1>22
  DEF Finishes

\* A call that the store answers is about a row that no collection but the
\* leases holds.
LEMMA CallAlone ==
  ASSUME RowsFit, cur # Idle, CallFitsOperation
  PROVE  cur.id \notin SeqIds(available) \cup HeapIds(delayed)
<1>1. /\ chain \in Seq(AnyOp) /\ RowParts
      /\ Placed(available, delayed, DOMAIN leased, InFlight)
      /\ PlacedIds = Everything(available, delayed, DOMAIN leased, InFlight)
  BY ShapeTypes, Placement DEF RowsFit, RowParts
<1>2. CASE Running("enqueue")
  BY <1>1, <1>2 DEF RowParts, NewRow, Everything
<1>3. CASE Running("claim") /\ cur.pc = "main"
  BY <1>1, <1>3 DEF InFlight, Placed
<1>4. CASE Holds(cur.id, cur.gen)
  BY <1>1, <1>4 DEF Holds, Placed
<1>5. QED
  BY <1>2, <1>3, <1>4 DEF CallFitsOperation

\* The answered call is as before, but for the answer.
LEMMA AnswerStore ==
  ASSUME RowsFit, StoreParts, CoreAtHead, StoreApplies \/ StoreRefuses
  PROVE  /\ cur # Idle /\ cur \in Call /\ cur.reply = "wait"
         /\ cur' # Idle /\ cur' = [cur EXCEPT !.reply = cur'.reply]
         /\ cur'.pc = cur.pc /\ cur'.id = cur.id /\ cur'.gen = cur.gen
         /\ cur'.rec = cur.rec /\ cur'.del = cur.del
         /\ cur'.reply = IF StoreApplies THEN "ok" ELSE "err"
         /\ InFlight' = InFlight /\ Ahead = {} /\ PlacedIds' = PlacedIds
         /\ CallRecord' /\ (cur.del <=> Running("ack"))
         /\ \A kind : Running(kind)' <=> Running(kind)
         /\ UNCHANGED <<available, delayed, leased, hydVars, chain, now,
                        leaseGenSeq, tokens, leaseTimer>>
<1>1. /\ cur # Idle /\ cur.reply = "wait" /\ ~(StoreApplies /\ StoreRefuses)
      /\ UNCHANGED <<available, delayed, leased, hydVars, chain, now,
                     leaseGenSeq, tokens, leaseTimer>>
  <2>1. cur # Idle /\ cur.reply = "wait"
    BY DEF StoreApplies, StoreRefuses, Idle
  <2>2. cur \in Call
    BY <2>1, StoreTypes
  <2>3. ~(StoreApplies /\ StoreRefuses)
    BY <2>2 DEF StoreApplies, StoreRefuses, Call
  <2>4. QED
    BY <2>1, <2>3 DEF StoreApplies, StoreRefuses, memVars, idVars, callerVars
<1>2. cur \in Call
  BY <1>1, StoreTypes
<1>3. cur' = [cur EXCEPT !.reply = IF StoreApplies THEN "ok" ELSE "err"]
  BY <1>1 DEF StoreApplies, StoreRefuses
<1>4. /\ cur' # Idle /\ cur'.pc = cur.pc /\ cur'.id = cur.id /\ cur'.gen = cur.gen
      /\ cur'.rec = cur.rec /\ cur'.del = cur.del
      /\ cur'.reply = IF StoreApplies THEN "ok" ELSE "err"
  BY <1>2, <1>3 DEF Call, Idle
<1>5. \A kind : Running(kind)' <=> Running(kind)
  BY <1>1 DEF Running
<1>6. CallRecord /\ (cur.del <=> Running("ack"))
  BY <1>1, CoreWrites DEF StoreParts, CallWrites
<1>7. CallRecord'
  BY <1>1, <1>4, <1>5, <1>6 DEF CallRecord
<1>8. InFlight' = InFlight /\ Ahead = {}
  BY <1>1, <1>4, <1>5 DEF InFlight, Ahead
<1>9. PlacedIds' = PlacedIds
  BY <1>1, <1>8 DEF PlacedIds, AvailableIds, AvailableRows, DelayedIds
<1>10. QED
  BY <1>1, <1>2, <1>3, <1>4, <1>5, <1>6, <1>7, <1>8, <1>9

\* The store takes a write of one of DurableQueue's operations, or refuses it:
\* memory learns of it later.
LEMMA StoreStore ==
  ASSUME RowsFit, StoreParts, CoreAtHead, RowsFit', StoreApplies \/ StoreRefuses
  PROVE  StoreParts'
<1>0. CoreAtHead'
  BY AnswerStore DEF CoreAtHead
<1>1. /\ cur # Idle /\ cur \in Call /\ cur.reply = "wait" /\ cur' # Idle
      /\ cur'.pc = cur.pc /\ cur'.id = cur.id /\ cur'.gen = cur.gen
      /\ cur'.rec = cur.rec /\ cur'.del = cur.del
      /\ InFlight' = InFlight /\ Ahead = {} /\ PlacedIds' = PlacedIds
      /\ CallRecord' /\ (cur.del <=> Running("ack"))
      /\ \A kind : Running(kind)' <=> Running(kind)
      /\ UNCHANGED <<available, delayed, leased, hydVars, chain, now,
                     leaseGenSeq, tokens, leaseTimer>>
      /\ cur'.reply = IF StoreApplies THEN "ok" ELSE "err"
  BY AnswerStore
<1>2. ColdStart'
  BY <1>1 DEF StoreParts, ColdStart, hydVars
<1>3. LoadFits'
  <2>1. hyd'.pc # "clear"
    BY <1>1 DEF RowsFit, ShapeFit, ShapeParts, QuietLoad, hydVars
  <2>2. QED
    BY <2>1 DEF LoadFits
<1>4. CASE StoreApplies
  <2>1. Ahead' = {cur.id}
    BY <1>1, <1>4 DEF Ahead
  <2>2. /\ DOMAIN store' \subseteq DOMAIN store \cup {cur.id}
        /\ DOMAIN store \ {cur.id} \subseteq DOMAIN store'
        /\ \A i \in DOMAIN store \ {cur.id} : store'[i] = store[i]
        /\ cur.del => cur.id \notin DOMAIN store'
        /\ ~cur.del => cur.id \in DOMAIN store' /\ store'[cur.id] = cur.rec
    BY <1>4 DEF StoreApplies, Put, Without, Restrict
  <2>3. CallWrites'
    <3>1. cur'.reply = "ok"
      BY <1>1, <1>4
    <3>2. QED
      BY <1>1, <2>2, <3>1 DEF CallWrites
  <2>4. MemoryBacked'
    <3> SUFFICES ASSUME hydrated' PROVE MemoryBacked'
      BY DEF MemoryBacked
    <3>1. /\ Backed(available, delayed, leased, {})
          /\ DOMAIN store \subseteq PlacedIds
      BY <1>1, CoreWrites DEF StoreParts, RowsBacked, hydVars
    <3>2. /\ \A k \in DOMAIN available : available[k].id # cur.id
          /\ \A d \in delayed : d.id # cur.id
      BY <1>1, CallAlone, StoreTypes DEF SeqIds, HeapIds
    <3>3. \A k \in DOMAIN available : Waiting(available[k])'
      BY <1>1, <2>2, <3>1, <3>2 DEF Backed, Waiting, Same
    <3>4. \A d \in delayed : Delaying(d)'
      BY <1>1, <2>2, <3>1, <3>2 DEF Backed, Delaying, Same
    <3>5. \A i \in DOMAIN leased \ {cur.id} : Leasing(i, leased[i])'
      BY <1>1, <2>2, <3>1 DEF Backed, Leasing
    <3>6. Backed(available, delayed, leased, Ahead)'
      BY <1>1, <2>1, <3>3, <3>4, <3>5 DEF Backed
    <3>7. QED
      BY <1>0, <1>1, <2>1, <2>2, <3>1, <3>6, CoreWrites DEF RowsBacked
  <2>5. LeasesNumbered'
    <3>1. ~cur.del /\ cur.rec.gen = None => cur.rec.exp = None
      <4>1. CASE cur.pc = "reclaim" \/ Running("release")
        BY <1>1, <4>1 DEF CallRecord, Cleared
      <4>2. CASE Running("reschedule") \/ Running("enqueue")
        BY <1>1, <4>2 DEF CallRecord
      <4>3. CASE Running("claim") /\ cur.pc = "main"
        BY <1>1, <4>3 DEF CallRecord
      <4>4. CASE Running("extend") /\ Holds(cur.id, cur.gen)
        BY <1>1, <4>4 DEF CallRecord, Holds, StoreParts, LeasesNumbered
      <4>5. QED
        BY <1>1, <4>1, <4>2, <4>3, <4>4, StoreTypes DEF CallFitsOperation
    <3>2. QED
      BY <1>1, <2>2, <3>1 DEF StoreParts, LeasesNumbered
  <2>6. QED
    BY <1>0, <1>2, <1>3, <2>3, <2>4, <2>5, CoreWrites DEF StoreParts
<1>5. CASE StoreRefuses /\ ~StoreApplies
  <2>1. store' = store /\ Ahead' = {} /\ cur'.reply # "ok"
    BY <1>1, <1>5 DEF StoreRefuses, storeVars, Ahead
  <2>2. CallWrites'
    BY <1>1, <2>1, CoreWrites DEF StoreParts, CallWrites
  <2>3. (hydrated' => RowsBacked') /\ LeasesNumbered'
    BY <1>1, <2>1, CoreWrites DEF StoreParts, RowsBacked, LeasesNumbered, Backed,
       Waiting, Delaying, Leasing, Same, hydVars
  <2>4. QED
    BY <1>0, <1>2, <1>3, <2>2, <2>3, CoreWrites DEF StoreParts
<1>6. QED
  BY <1>4, <1>5

\* Timers and readers: due rows move as they are stored.
LEMMA TimersStore ==
  ASSUME RowsFit, StoreParts, RowsFit', JobRuns => found' = found,
         ReaderPromotes \/ DelayTimerFires \/ LeaseTimerFires
  PROVE  StoreParts'
<1>1. MemTypeOK /\ now \in Nat
  BY StoreTypes
<1>2. CASE ReaderPromotes \/ DelayTimerFires
  <2>1. PICK av \in Drained : Promotes(av) /\ available' = av
    BY <1>2 DEF ReaderPromotes, DelayTimerFires
  <2>2. /\ UNCHANGED <<leased, hydrated, hyd, chain, cur, store, tokens, now,
                       leaseGenSeq, leaseTimer>>
        /\ delayed' = delayed \ Due
    BY <1>2, <2>1 DEF ReaderPromotes, DelayTimerFires, Promotes, hydVars,
       chainVars, idVars, storeVars, callerVars
  <2>3. InFlight' = InFlight /\ Ahead' = Ahead
    BY <2>2 DEF InFlight, Running, Ahead
  <2>8. /\ JobRuns' <=> JobRuns
        /\ DequeueRuns' <=> DequeueRuns
        /\ BulkRuns' <=> BulkRuns
        /\ BulkApplied' <=> BulkApplied
        /\ JobApplied' <=> JobApplied
    BY <2>2 DEF JobRuns, DequeueRuns, BulkRuns, BulkApplied, Running, JobApplied
  <2>9. ASSUME hydrated', ~BulkApplied, JobApplied PROVE JobBacked'
    <3>1. JobBacked
      BY <2>2, <2>9 DEF StoreParts, MemoryBacked
    <3>2. \A d \in Due : RowOf(d.id, d).id = d.id
      BY DEF RowOf
    <3>3. \A k \in DOMAIN available' :
            available'[k].id # cur.id => Waiting(available'[k])
      <4> SUFFICES ASSUME NEW k \in DOMAIN av, av[k].id # cur.id PROVE Waiting(av[k])
        BY <2>1
      <4>1. CASE \E m \in DOMAIN available : av[k] = available[m]
        BY <3>1, <4>1 DEF JobBacked
      <4>2. ASSUME NEW d \in Due, av[k] = RowOf(d.id, d) PROVE Waiting(av[k])
        BY <3>1, <3>2, <4>2, DueWaits DEF JobBacked, Due
      <4>3. QED
        BY <1>1, <4>1, <4>2, DrainRows
    <3>4. DOMAIN store \subseteq PlacedIds'
      <4>1. /\ SeqIds(available) \subseteq SeqIds(av)
            /\ HeapIds(delayed) \subseteq HeapIds(delayed \ Due) \cup SeqIds(av)
        BY <1>1, <3>2, DrainRows DEF SeqIds, HeapIds
      <4>2. QED
        BY <2>1, <2>2, <2>3, <3>1, <4>1, PlacesAre DEF JobBacked, Everything
    <3>5. QED
      BY <2>2, <3>1, <3>3, <3>4 DEF JobBacked, Waiting, Delaying, Leasing, Same
  <2>4. MemoryBacked'
    <3> SUFFICES ASSUME hydrated', ~BulkApplied, ~JobApplied PROVE MemoryBacked'
      BY <2>8, <2>9 DEF MemoryBacked
    <3>1. /\ Backed(available, delayed, leased, Ahead)
          /\ DOMAIN store \subseteq
               Everything(available, delayed, DOMAIN leased, InFlight) \cup Ahead
      BY <2>2, Placement DEF StoreParts, MemoryBacked, RowsBacked
    <3>2. /\ Backed(available', delayed', leased, Ahead)
          /\ Everything(available, delayed, DOMAIN leased, InFlight)
               \subseteq Everything(available', delayed', DOMAIN leased, InFlight)
      BY <1>1, <2>1, <2>2, <3>1, DrainBacked
    <3>3. DOMAIN store' \subseteq PlacedIds' \cup Ahead'
      BY <2>2, <2>3, <3>1, <3>2, Placement
    <3>4. Backed(available, delayed, leased, Ahead)'
      BY <2>2, <2>3, <3>2 DEF Backed, Waiting, Delaying, Leasing, Same
    <3>5. QED
      BY <2>8, <3>3, <3>4 DEF MemoryBacked, RowsBacked
  <2>5. ColdStart' /\ LeasesNumbered' /\ LoadFits'
    BY <2>2 DEF StoreParts, ColdStart, LeasesNumbered, LoadFits
  <2>6. AdminCallWrites'
    <3>1. CallWrites => CallWrites'
      BY <2>2 DEF CallWrites, CallRecord, Running
    <3>2. DequeueWrites => DequeueWrites'
      BY <2>2 DEF DequeueWrites
    <3>3. BulkWrites => BulkWrites'
      BY <2>2 DEF BulkWrites, BulkDone, BulkItems, PlannedStore, Planned
    <3>4. JobRuns /\ JobWrites => JobWrites'
      BY <2>2 DEF JobWrites, Running
    <3>5. QED
      BY <2>8, <3>1, <3>2, <3>3, <3>4 DEF StoreParts, AdminCallWrites
  <2>7. QED
    BY <2>4, <2>5, <2>6 DEF StoreParts
<1>3. CASE LeaseTimerFires
  <2>1. /\ UNCHANGED <<available, delayed, leased, cur, store, hydVars, leaseGenSeq,
                       now, tokens>>
        /\ leaseTimer' = None /\ hydrated
    BY <1>3 DEF LeaseTimerFires, idVars, storeVars, callerVars, StoreParts, ColdStart
  <2>2. CASE Push([kind |-> "expire"])
    <3>1. PICK op : op = [kind |-> "expire"]
      OBVIOUS
    <3>2. Push(op)
      BY <2>2, <3>1
    <3>3. QED
      BY <2>1, <3>2, PushStore
  <2>3. CASE UNCHANGED chain
    <3>1. ColdStart' /\ LoadFits' /\ now \in Nat
      BY <1>1, <2>1, <2>3 DEF StoreParts, ColdStart, LoadFits, hydVars
    <3>2. QED
      BY <2>1, <2>3, <3>1, StoreStays DEF hydVars
  <2>4. QED
    BY <1>3, <2>2, <2>3 DEF LeaseTimerFires
<1>4. QED
  BY <1>2, <1>3

\* hydrate clears the leases that the store still has, then installs its rows.
LEMMA HydratesStore ==
  ASSUME RowsFit, StoreParts, RowsFit', Hydrates, JobRuns => found' = found
  PROVE  StoreParts'
<1>1. /\ HydTypeOK /\ now \in Nat /\ \A i \in DOMAIN store : store[i] \in Stored
      /\ ColdStart /\ LeasesNumbered /\ LoadFits /\ QuietLoad
  BY StoreTypes DEF StoreParts, ShapeParts
<1>2. ASSUME UNCHANGED <<memVars, idVars, hydrated, chainVars, storeVars, now, callerVars>>,
             LoadFits'
      PROVE  StoreParts'
  <2>1. ColdStart' /\ now \in Nat
    BY <1>1, <1>2 DEF ColdStart, memVars, chainVars, callerVars
  <2>2. QED
    BY <1>2, <2>1, StoreStays DEF memVars, idVars, chainVars, storeVars
<1>3. CASE HydrateStart \/ HydrateRejects \/ HydrateRefused
  <2>1. hyd'.pc # "clear"
    BY <1>3 DEF HydrateStart, HydrateRejects, HydrateRefused, NoHydrate
  <2>2. LoadFits'
    BY <2>1 DEF LoadFits
  <2>3. QED
    BY <1>2, <1>3, <2>2 DEF HydrateStart, HydrateRejects, HydrateRefused
<1>4. CASE HydrateLoad
  <2>1. /\ hyd'.rows = store /\ hyd'.now = now /\ store' = store /\ now' = now
        /\ hyd'.left = {i \in DOMAIN store : store[i].gen # None}
    BY <1>4 DEF HydrateLoad, storeVars
  <2>2. LoadFits'
    BY <1>1, <2>1 DEF LoadFits
  <2>3. QED
    BY <1>2, <1>4, <2>2 DEF HydrateLoad
<1>5. ASSUME NEW i \in DOMAIN store, HydrateClear(i)
      PROVE  StoreParts'
  <2>1. /\ hyd.pc = "clear" /\ i \in hyd.left
        /\ DOMAIN leased = {} /\ cur = Idle /\ hyd = Loading
        /\ UNCHANGED <<available, delayed, leased, leaseTimer, chain, cur, tokens, hydrated, now>>
    BY <1>1, <1>5 DEF HydrateClear, QuietLoad, HydTypeOK, NoHydrate, memVars,
       chainVars, callerVars
  <2>2. /\ DOMAIN store' = DOMAIN store
        /\ store'[i] = Cleared(hyd.rows[i])
        /\ \A k \in DOMAIN store : k # i => store'[k] = store[k]
    BY <1>5 DEF HydrateClear, Put
  <2>3. hyd'.pc = "clear" /\ hyd'.rows = hyd.rows /\ hyd'.now = hyd.now
        /\ hyd'.left = hyd.left \ {i}
    BY <1>5, <2>1 DEF HydrateClear, Loading
  <2>4. hyd.rows[i].gen # None /\ store[i].gen # None
    BY <1>1, <2>1 DEF LoadFits
  <2>5. ~hydrated
    <3> SUFFICES ASSUME hydrated PROVE FALSE
      OBVIOUS
    <3>1. InFlight = {} /\ Ahead = {}
      BY <2>1 DEF InFlight, Ahead
    <3>0. RowsBacked
      BY <2>1, CoreWrites DEF StoreParts, CoreAtHead
    <3>2. i \in SeqIds(available) \cup HeapIds(delayed)
      BY <2>1, <3>1, <3>0, Placement DEF RowsBacked, Everything
    <3>3. store[i].gen = None
      BY <3>0, <3>2 DEF RowsBacked, Backed, Waiting, Delaying, Same,
         SeqIds, HeapIds
    <3>4. QED
      BY <2>4, <3>3
  <2>6. MemoryBacked' /\ ColdStart' /\ AdminCallWrites'
    BY <1>1, <2>1, <2>5, CoreWrites DEF MemoryBacked, ColdStart, CallWrites,
       CoreAtHead
  <2>7. LeasesNumbered'
    BY <1>1, <2>1, <2>2 DEF LeasesNumbered, Cleared
  <2>8. LoadFits'
    BY <1>1, <2>1, <2>2, <2>3, <2>4 DEF LoadFits
  <2>9. QED
    BY <2>6, <2>7, <2>8 DEF StoreParts
<1>6. CASE HydrateInstall
  <2>1. /\ hyd.pc = "clear" /\ hyd.left = {} /\ cur' = Idle
        /\ leased' = EmptyMap /\ hydrated' = TRUE /\ hyd' = NoHydrate
        /\ store' = store /\ now' = now /\ hyd = Loading
        /\ hyd.now \in Nat /\ MapsIdsTo(hyd.rows, Stored)
    BY <1>1, <1>6 DEF HydrateInstall, QuietLoad, HydTypeOK, NoHydrate,
       chainVars, storeVars
  <2>2. ColdStart' /\ LeasesNumbered' /\ CallWrites' /\ LoadFits' /\ CoreAtHead'
    BY <1>1, <2>1 DEF ColdStart, LeasesNumbered, CallWrites, LoadFits, EmptyMap,
       NoHydrate, CoreAtHead
  <2>3. /\ DOMAIN hyd.rows = DOMAIN store /\ hyd.now <= now
        /\ \A i \in DOMAIN store :
             /\ store[i].gen = None /\ store[i].exp = None
             /\ store[i].job = hyd.rows[i].job
             /\ store[i].attempt = hyd.rows[i].attempt
             /\ store[i].at = IF hyd.rows[i].gen = None THEN hyd.rows[i].at ELSE 0
    BY <1>1, <2>1 DEF LoadFits, LeasesNumbered, Cleared
  <2>4. PICK q \in IdOrders(LoadedReady) :
          available' = [k \in DOMAIN q |-> RowOf(q[k], hyd.rows[q[k]])]
    BY <1>6 DEF HydrateInstall
  <2>5. /\ \A k \in DOMAIN q : q[k] \in LoadedReady
        /\ \A i \in LoadedReady : \E k \in DOMAIN q : q[k] = i
    BY <2>4 DEF IdOrders, Bijection, Surjection
  <2>6. /\ DOMAIN available' = DOMAIN q
        /\ \A k \in DOMAIN q : available'[k] = RowOf(q[k], hyd.rows[q[k]])
    BY <2>4
  <2>7. \A k \in DOMAIN q : Waiting(RowOf(q[k], hyd.rows[q[k]]))
    <3> SUFFICES ASSUME NEW i \in LoadedReady
                 PROVE  Waiting(RowOf(i, hyd.rows[i]))
      BY <2>5
    <3>1. i \in DOMAIN store /\ (hyd.rows[i].gen = None => hyd.rows[i].at <= hyd.now)
      BY <2>3 DEF LoadedReady
    <3>2. hyd.rows[i].at \in Nat
      BY <2>1, <2>3, <3>1 DEF MapsIdsTo, Stored
    <3>3. store[i].at <= now
      BY <1>1, <2>1, <2>3, <3>1, <3>2
    <3>4. QED
      BY <2>3, <3>1, <3>3 DEF Waiting, Same, RowOf
  <2>8. delayed' = {DelayedRow(i, hyd.rows[i]) : i \in DOMAIN hyd.rows \ LoadedReady}
    BY <1>6 DEF HydrateInstall
  <2>9. \A i \in DOMAIN hyd.rows \ LoadedReady : Delaying(DelayedRow(i, hyd.rows[i]))
    BY <2>3 DEF Delaying, Same, DelayedRow, LoadedReady
  <2>10. Backed(available', delayed', leased', {})
    BY <2>1, <2>6, <2>7, <2>8, <2>9 DEF Backed, EmptyMap
  <2>11. DOMAIN store \subseteq SeqIds(available') \cup HeapIds(delayed')
    <3> SUFFICES ASSUME NEW i \in DOMAIN store
                 PROVE  i \in SeqIds(available') \cup HeapIds(delayed')
      OBVIOUS
    <3>1. CASE i \in LoadedReady
      BY <2>5, <2>6, <3>1 DEF SeqIds, RowOf
    <3>2. CASE i \notin LoadedReady
      <4>1. DelayedRow(i, hyd.rows[i]) \in delayed' /\ DelayedRow(i, hyd.rows[i]).id = i
        BY <2>3, <2>8, <3>2 DEF DelayedRow
      <4>2. QED
        BY <4>1 DEF HeapIds
    <3>3. QED
      BY <3>1, <3>2
  <2>12. DOMAIN store' \subseteq PlacedIds'
    BY <2>1, <2>11, Placement DEF Everything
  <2>13. Ahead' = {}
    BY <2>1 DEF Ahead
  <2>14. Backed(available, delayed, leased, Ahead)'
    BY <2>1, <2>10, <2>13 DEF Backed, Waiting, Delaying, Leasing, Same
  <2>15. QED
    BY <2>2, <2>12, <2>14, CoreWrites DEF StoreParts, RowsBacked
<1>7. QED
  BY <1>3, <1>4, <1>5, <1>6 DEF Hydrates

\* A crash leaves nothing that memory could get wrong; time only passes.
LEMMA EnvironmentStore ==
  ASSUME RowsFit, StoreParts, RowsFit', Crash \/ Tick, Tick /\ JobRuns => found' = found
  PROVE  StoreParts'
<1>1. CASE Crash
  BY <1>1, CoreWrites DEF Crash, StoreParts, MemoryBacked, ColdStart,
     LeasesNumbered, CallWrites, LoadFits, EmptyMap, NoHydrate, storeVars,
     CoreAtHead
<1>2. CASE Tick
  <2>1. /\ UNCHANGED <<memVars, hydVars, chainVars, storeVars, idVars, tokens>>
        /\ now \in Nat /\ now' = now + 1
    BY <1>2, StoreTypes DEF Tick, callerVars
  <2>2. ColdStart'
    BY <2>1 DEF StoreParts, ColdStart, memVars, hydVars, chainVars
  <2>3. LoadFits'
    <3>1. hyd.pc = "clear" => hyd.now \in Nat
      BY StoreTypes DEF HydTypeOK, NoHydrate
    <3>2. QED
      BY <2>1, <3>1 DEF StoreParts, LoadFits, hydVars, storeVars
  <2>4. QED
    BY <1>2, <2>1, <2>2, <2>3, StoreStays DEF memVars, hydVars, chainVars,
       storeVars, idVars
<1>3. QED
  BY <1>1, <1>2
-----------------------------------------------------------------------------
\* Each step keeps the parts, given that the rows stay in one place.
LEMMA StoreStep ==
  ASSUME CoreRows, StoreParts, CoreRows', [Next]_vars
  PROVE  StoreParts'
<1>0. RowsFit /\ RowsFit' /\ CoreAtHead /\ ~JobRuns
  BY CoreHead, CoreWrites DEF CoreRows
<1>1. CASE Next
  BY <1>0, <1>1, CallsStore, BeginsStore, FinishesStore, StoreStore, TimersStore,
     HydratesStore, EnvironmentStore DEF Next
<1>2. CASE UNCHANGED vars
  <2>1. /\ UNCHANGED <<memVars, hydVars, chainVars, storeVars, idVars, tokens, now>>
        /\ now \in Nat
    BY <1>0, <1>2, StoreTypes DEF vars, callerVars
  <2>2. ColdStart' /\ LoadFits'
    BY <2>1 DEF StoreParts, ColdStart, LoadFits, memVars, hydVars, chainVars,
       storeVars
  <2>3. QED
    BY <1>0, <2>1, <2>2, StoreStays DEF memVars, hydVars, chainVars, storeVars, idVars
<1>3. QED
  BY <1>1, <1>2

\* Nothing is stored, leased or awaited at the start.
LEMMA InitStore == Init => StoreParts
BY CoreWrites DEF Init, StoreParts, MemoryBacked, ColdStart, LeasesNumbered,
   CallWrites, LoadFits, EmptyMap, NoHydrate, CoreAtHead

\* StoreInvariant as the lemmas take it.
LEMMA StorePartsHold == Spec => [](CoreRows /\ StoreParts)
<1>1. Init => StoreParts
  BY InitStore
<1>2. CoreRows /\ CoreRows' /\ StoreParts /\ [Next]_vars => StoreParts'
  BY StoreStep
<1>3. QED
  BY <1>1, <1>2, CoreRowsHold, PTL DEF Spec

\* What is in memory is what the store would give back after a crash, and what
\* each store call in progress writes is known: StoreInvariant holds in every
\* reachable state, through every refused call, crash and hydrate.
THEOREM StoreHolds == Spec => []StoreInvariant
<1>1. CoreRows /\ StoreParts => StoreInvariant
  <2> SUFFICES ASSUME CoreRows, StoreParts PROVE StoreInvariant
    OBVIOUS
  <2>1. CallWrites /\ (hydrated => RowsBacked)
    BY CoreHead, CoreWrites DEF StoreParts
  <2>2. MemoryMatchesStore
    BY <2>1, MatchIsBacked DEF CoreRows, RowsFit, ShapeFit, AdminTypeOK
  <2>3. QED
    BY <2>1, <2>2, CoreIsRowInvariant DEF StoreParts, StoreInvariant
<1>2. QED
  BY <1>1, StorePartsHold, PTL

\* After a crash, hydrate gives back what memory had, but for the row of the
\* store call in progress; and no stored row is stranded.
THEOREM MemoryIsStored == Spec => []MemoryMatchesStore
<1>1. StoreInvariant => MemoryMatchesStore
  BY DEF StoreInvariant
<1>2. QED
  BY <1>1, StoreHolds, PTL
-----------------------------------------------------------------------------
(* What most steps do: leases end but none is given, rows keep their jobs,  *)
(* the chain loses its head or gains an operation that needs no lease.      *)

LeasesKept ==
  \A i \in DOMAIN leased' :
    /\ i \in DOMAIN leased /\ leased'[i].gen = leased[i].gen
    /\ leased'[i].job = leased[i].job /\ leased'[i].attempt = leased[i].attempt

RowsKept ==
  /\ DOMAIN store' = DOMAIN store
  /\ \A i \in DOMAIN store :
       store'[i].job = store[i].job /\ store'[i].attempt = store[i].attempt

ChainKept == chain' = chain \/ (chain # <<>> /\ chain' = Tail(chain))

\* The call of a running reschedule is about the lease it was given.
CallToken ==
  cur # Idle /\ Running("reschedule") =>
    cur.id = Head(chain).tok.id /\ cur.gen = Head(chain).tok.gen

JobParts == JobsApart /\ (MidReplace \/ AcceptedNotLost)

LedgerParts == TokensFit /\ OwnLease /\ JobParts

\* What is shown of a step: it keeps what is known of the lease objects, and
\* what is known of the jobs unless a lease is mistaken for another.
LedgerPartsStay == TokensFit' /\ (OwnLease /\ JobParts => JobParts')

\* Either the leases are numbered on, or they start again and every Lease object
\* is outdated.
Numbering ==
  \/ outdated' = tokens
  \/ /\ outdated' = outdated /\ LeasesKept
     /\ leaseGenSeq' \in Nat /\ leaseGenSeq' >= leaseGenSeq
     /\ Claiming' => Claiming \/ leaseGenSeq' > leaseGenSeq

\* What the steps below use of the types.
LEMMA LedgerTypes ==
  ASSUME RowsFit, StoreParts
  PROVE  /\ chain \in Seq(AnyOp) /\ leaseGenSeq \in Nat /\ RowParts
         /\ \A t \in tokens : t \in Lease
         /\ \A i \in DOMAIN store : store[i] \in Stored
         /\ \A i \in DOMAIN leased : leased[i] \in Leased
         /\ cur # Idle => chain # <<>> /\ hydrated
         /\ AdminTypeOK /\ StoreTypeOK /\ HydTypeOK
BY StoreTypes DEF RowsFit, ShapeFit, AdminTypeOK, CallerTypeOK

\* And of the call of one of DurableQueue's operations.
LEMMA LedgerCall ==
  ASSUME RowsFit, StoreParts, CoreAtHead
  PROVE  /\ CallWrites /\ CallFitsOperation /\ ~MidReplace
         /\ hydrated => RowsBacked
         /\ cur # Idle => cur \in Call /\ cur.id \in Ids /\ cur.rec \in Stored
<1>1. CallWrites /\ (hydrated => RowsBacked)
  BY CoreWrites DEF StoreParts
<1>2. cur = Idle => CallFitsOperation
  BY DEF CallFitsOperation
<1>3. ~MidReplace
  BY DEF MidReplace, CoreAtHead, Running, CoreKinds
<1>4. QED
  BY <1>1, <1>2, <1>3, StoreTypes

\* Only a claim that ends with the store's consent gives a lease.
LEMMA LeasesStep ==
  ASSUME RowsFit, Next
  PROVE  LeasesKept \/ FinishClaim
<1>1. MemTypeOK /\ \A i \in DOMAIN leased : leased[i] \in Leased
  BY ShapeTypes DEF RowsFit, MemTypeOK, MapsIdsTo
<1>2. ASSUME leased' = leased PROVE LeasesKept
  BY <1>2 DEF LeasesKept
<1>3. ASSUME NEW i, leased' = Without(leased, i) PROVE LeasesKept
  BY <1>3 DEF LeasesKept, Without, Restrict
<1>4. CASE Calls
  BY <1>2, <1>4 DEF Calls, Enqueue, Claim, Ack, Release, Reschedule, ExtendLease,
     LeaseOp, memVars
<1>5. CASE Begins
  BY <1>2, <1>5 DEF Begins, BeginEnqueue, BeginLeaseOp, BeginClaim, BeginExpire,
     ClaimFrom, memVars
<1>6. CASE Finishes
  <2>1. CASE FinishAck \/ FinishReturn
    BY <1>3, <2>1 DEF FinishAck, FinishReturn
  <2>2. CASE ReclaimThenClaim \/ ReclaimThenLoop
    BY <1>3, <2>2 DEF ReclaimThenClaim, ReclaimThenLoop, ClaimFrom, ReclaimedLeases
  <2>3. CASE FinishExtend
    <3>1. leased' = [leased EXCEPT ![cur.id].exp = cur.rec.exp]
      BY <2>3 DEF FinishExtend
    <3>2. QED
      BY <1>1, <3>1 DEF LeasesKept, Leased
  <2>4. CASE FinishEnqueue \/ FinishRefused \/ ClaimRefused \/ ReclaimRefused
    BY <1>2, <2>4 DEF FinishEnqueue, FinishRefused, ClaimRefused, ReclaimRefused,
       memVars
  <2>5. QED
    BY <1>6, <2>1, <2>2, <2>3, <2>4 DEF Finishes
<1>7. CASE StoreApplies \/ StoreRefuses
  BY <1>2, <1>7 DEF StoreApplies, StoreRefuses, memVars
<1>8. CASE ReaderPromotes \/ DelayTimerFires \/ LeaseTimerFires
  BY <1>2, <1>8 DEF ReaderPromotes, DelayTimerFires, LeaseTimerFires
<1>9. CASE Hydrates
  BY <1>2, <1>9 DEF Hydrates, HydrateStart, HydrateRejects, HydrateLoad,
     HydrateClear, HydrateRefused, HydrateInstall, memVars, LeasesKept, EmptyMap
<1>10. CASE Crash \/ Tick
  BY <1>2, <1>10 DEF Crash, Tick, memVars, LeasesKept, EmptyMap
<1>11. QED
  BY <1>4, <1>5, <1>6, <1>7, <1>8, <1>9, <1>10 DEF Next
-----------------------------------------------------------------------------
(* The parts, when a step does no more than that.                           *)

\* Operations that were queued are queued still, at the same place or one ahead.
LEMMA ChainShift ==
  ASSUME chain \in Seq(AnyOp), ChainKept
  PROVE  \E s \in {0, 1} :
           /\ s = 1 <=> chain' # chain
           /\ \A i \in DOMAIN chain' :
                i \in Int /\ i >= 1 /\ i + s \in DOMAIN chain /\ chain'[i] = chain[i + s]
<1>1. CASE chain' = chain
  BY <1>1
<1>2. CASE chain # <<>> /\ chain' = Tail(chain)
  <2>1. Len(chain') # Len(chain)
    BY <1>2
  <2>2. QED
    BY <1>2, <2>1
<1>3. QED
  BY <1>1, <1>2 DEF ChainKept

\* What is known of the lease objects.
LEMMA TokensKept ==
  ASSUME TokensFit, chain \in Seq(AnyOp), leaseGenSeq \in Nat,
         \A t \in tokens : t \in Lease,
         ChainKept, tokens' = tokens, Numbering, CallToken'
  PROVE  TokensFit'
<1>1. \A t \in tokens' \ outdated' :
        /\ t.gen <= leaseGenSeq' /\ (Claiming' => t.gen < leaseGenSeq')
        /\ Holds(t.id, t.gen)' => /\ t.job = leased'[t.id].job
                                  /\ t.attempt = leased'[t.id].attempt
  <2> SUFFICES ASSUME NEW t \in tokens \ outdated, outdated' = outdated
               PROVE  /\ t.gen <= leaseGenSeq'
                      /\ (Claiming' => t.gen < leaseGenSeq')
                      /\ Holds(t.id, t.gen)' =>
                           /\ t.job = leased'[t.id].job
                           /\ t.attempt = leased'[t.id].attempt
    BY DEF Numbering
  <2>1. /\ t.gen \in Nat /\ t.gen <= leaseGenSeq
        /\ Claiming => t.gen < leaseGenSeq
    BY DEF TokensFit, Lease
  <2>2. t.gen <= leaseGenSeq' /\ (Claiming' => t.gen < leaseGenSeq') /\ LeasesKept
    BY <2>1 DEF Numbering
  <2>3. Holds(t.id, t.gen)' => Holds(t.id, t.gen)
    BY <2>2 DEF Holds, LeasesKept
  <2>4. QED
    BY <2>2, <2>3 DEF TokensFit, LeasesKept, Holds
<1>2. PICK s \in {0, 1} : \A i \in DOMAIN chain' :
        i + s \in DOMAIN chain /\ chain'[i] = chain[i + s]
  BY ChainShift
<1>3. \A i \in DOMAIN chain' :
       /\ chain'[i].kind \in {"ack", "release", "reschedule", "extend"} =>
            chain'[i].tok \in tokens'
       /\ chain'[i].kind = "reschedule" =>
            chain'[i].attempt \in chain'[i].tok.attempt..MaxAttempt
  BY <1>2 DEF TokensFit
<1>4. QED
  BY <1>1, <1>3 DEF TokensFit, CallToken

\* What is known of the stored jobs.
LEMMA JobsKept ==
  ASSUME JobsApart, chain \in Seq(AnyOp), ChainKept, RowsKept,
         UNCHANGED <<submitted, settled>>,
         chain' = chain => Ahead' = Ahead \/ Ahead = {} \/ ~Running("enqueue")
  PROVE  JobsApart'
<1>1. PICK s \in {0, 1} :
        /\ s = 1 <=> chain' # chain
        /\ \A i \in DOMAIN chain' :
             i \in Int /\ i >= 1 /\ i + s \in DOMAIN chain /\ chain'[i] = chain[i + s]
  BY ChainShift
<1>2. \A i \in QueuedEnqueues' :
        /\ i \in Int /\ i >= 1 /\ i + s \in QueuedEnqueues /\ chain'[i] = chain[i + s]
  BY <1>1 DEF QueuedEnqueues
<1>3. \A i \in QueuedEnqueues' :
        /\ chain'[i].job \in submitted' \ settled'
        /\ \A k \in QueuedEnqueues' : chain'[i].job = chain'[k].job => i = k
  <2> SUFFICES ASSUME NEW i \in QueuedEnqueues'
               PROVE  /\ chain'[i].job \in submitted \ settled
                      /\ \A k \in QueuedEnqueues' :
                           chain'[i].job = chain'[k].job => i = k
    OBVIOUS
  <2>1. chain[i + s].job \in submitted \ settled
    BY <1>2 DEF JobsApart
  <2>2. ASSUME NEW k \in QueuedEnqueues', chain'[i].job = chain'[k].job
        PROVE  i = k
    <3>1. i + s = k + s
      BY <1>2, <2>2 DEF JobsApart
    <3>2. QED
      BY <1>2, <3>1
  <2>3. QED
    BY <1>2, <2>1, <2>2
<1>4. \A i \in QueuedEnqueues' : \A k \in DOMAIN store' :
        store'[k].job = chain'[i].job => i = 1 /\ k \in Ahead'
  <2> SUFFICES ASSUME NEW i \in QueuedEnqueues', NEW k \in DOMAIN store',
                      store'[k].job = chain'[i].job
               PROVE  i = 1 /\ k \in Ahead'
    OBVIOUS
  <2>1. i + s = 1 /\ k \in Ahead
    BY <1>2 DEF RowsKept, JobsApart
  <2>2. s = 0 /\ i = 1 /\ chain' = chain
    BY <1>1, <1>2, <2>1
  <2>3. Running("enqueue")
    BY <1>2, <2>2 DEF QueuedEnqueues, Running
  <2>4. QED
    BY <2>1, <2>2, <2>3
<1>5. /\ \A i, k \in DOMAIN store' : store'[i].job = store'[k].job => i = k
      /\ \A i \in DOMAIN store' :
           store'[i].job \in submitted' \ settled' /\ store'[i].attempt <= MaxAttempt
      /\ settled' \subseteq submitted'
  BY DEF JobsApart, RowsKept
<1>6. QED
  BY <1>3, <1>4, <1>5 DEF JobsApart

\* Both together.
LEMMA LedgerKept ==
  ASSUME RowsFit, StoreParts, TokensFit, RowsFit',
         ChainKept, RowsKept, tokens' = tokens, Numbering, CallToken',
         UNCHANGED <<submitted, settled>>, MidReplace => MidReplace',
         chain' = chain => Ahead' = Ahead \/ Ahead = {} \/ ~Running("enqueue"),
         accepted' \subseteq accepted \cup {store[i].job : i \in DOMAIN store}
  PROVE  LedgerPartsStay
<1>1. /\ chain \in Seq(AnyOp) /\ leaseGenSeq \in Nat
      /\ \A t \in tokens : t \in Lease
  BY LedgerTypes
<1>2. TokensFit' /\ (JobsApart => JobsApart')
  BY <1>1, TokensKept, JobsKept
<1>3. MidReplace \/ AcceptedNotLost => MidReplace' \/ AcceptedNotLost'
  BY DEF AcceptedNotLost, RowsKept
<1>4. QED
  BY <1>2, <1>3 DEF LedgerPartsStay, JobParts
-----------------------------------------------------------------------------
(* The steps.                                                               *)

\* An operation joins the chain.
LEMMA PushLedger ==
  ASSUME RowsFit, StoreParts, TokensFit, NEW op, Push(op), op \in AnyOp,
         UNCHANGED <<leased, cur, store, settled, hydVars, leaseGenSeq, tokens,
                     outdated, accepted>>,
         op.kind \in {"ack", "release", "reschedule", "extend"} => op.tok \in tokens,
         op.kind = "reschedule" => op.attempt \in op.tok.attempt..MaxAttempt,
         submitted \subseteq submitted',
         op.kind = "enqueue" => op.job \in submitted' \ submitted
  PROVE  LedgerPartsStay
<1>1. chain \in Seq(AnyOp) /\ (cur # Idle => chain # <<>>)
  BY LedgerTypes
<1>2. /\ Len(chain) \in Nat /\ DOMAIN chain = 1..Len(chain)
      /\ DOMAIN chain' = 1..(Len(chain) + 1)
      /\ \A i \in DOMAIN chain : chain'[i] = chain[i]
      /\ chain'[Len(chain) + 1] = op
      /\ chain # <<>> => chain' # <<>> /\ Head(chain') = Head(chain)
  BY <1>1 DEF Push
<1>3. \A i \in DOMAIN chain' :
        \/ i \in DOMAIN chain /\ chain'[i] = chain[i]
        \/ i = Len(chain) + 1 /\ i \notin DOMAIN chain /\ chain'[i] = op
  BY <1>2
<1>4. /\ cur # Idle => \A kind : Running(kind)' <=> Running(kind)
      /\ (Claiming' <=> Claiming) /\ Ahead' = Ahead /\ (MidReplace' <=> MidReplace)
  <2>1. cur # Idle => \A kind : Running(kind)' <=> Running(kind)
    BY <1>1, <1>2 DEF Running
  <2>2. QED
    BY <2>1 DEF Claiming, Ahead, MidReplace
<1>5. TokensFit'
  <2>1. \A t \in tokens' \ outdated' :
          /\ t.gen <= leaseGenSeq' /\ (Claiming' => t.gen < leaseGenSeq')
          /\ Holds(t.id, t.gen)' => /\ t.job = leased'[t.id].job
                                    /\ t.attempt = leased'[t.id].attempt
    BY <1>4 DEF TokensFit, Holds
  <2>2. \A i \in DOMAIN chain' :
         /\ chain'[i].kind \in {"ack", "release", "reschedule", "extend"} =>
              chain'[i].tok \in tokens'
         /\ chain'[i].kind = "reschedule" =>
              chain'[i].attempt \in chain'[i].tok.attempt..MaxAttempt
    BY <1>3 DEF TokensFit
  <2>3. CallToken'
    BY <1>1, <1>2, <1>4 DEF TokensFit, CallToken
  <2>4. QED
    BY <2>1, <2>2, <2>3 DEF TokensFit, CallToken
<1>6. \A i \in QueuedEnqueues' :
        \/ i \in QueuedEnqueues /\ chain'[i] = chain[i]
        \/ /\ i = Len(chain) + 1 /\ chain'[i] = op
           /\ op.job \in submitted' \ submitted
  BY <1>3 DEF QueuedEnqueues
<1>7. JobsApart => JobsApart'
  <2> HAVE JobsApart
  <2>1. \A i \in QueuedEnqueues' :
          /\ chain'[i].job \in submitted' \ settled'
          /\ \A k \in QueuedEnqueues' : chain'[i].job = chain'[k].job => i = k
          /\ \A k \in DOMAIN store' :
               store'[k].job = chain'[i].job => i = 1 /\ k \in Ahead'
    BY <1>4, <1>6 DEF JobsApart
  <2>2. QED
    BY <2>1 DEF JobsApart
<1>8. MidReplace \/ AcceptedNotLost => MidReplace' \/ AcceptedNotLost'
  BY <1>4 DEF AcceptedNotLost
<1>9. QED
  BY <1>5, <1>7, <1>8 DEF LedgerPartsStay, JobParts

\* Callers queue operations on leases they were given, and new jobs.
LEMMA CallsLedger ==
  ASSUME QueueAssumption, RowsFit, StoreParts, TokensFit, Calls
  PROVE  LedgerPartsStay
<1>1. /\ now \in Nat /\ idCounter \in Nat /\ \A t \in tokens : t \in Lease
  BY LedgerTypes DEF AdminTypeOK
<1>2. ASSUME NEW j \in Jobs, NEW d \in Delays, Enqueue(j, d)
      PROVE  LedgerPartsStay
  <2>1. PICK op : op = [kind |-> "enqueue", id |-> idCounter + 1, job |-> j,
                        at |-> IF d > 0 THEN now + d ELSE 0]
    OBVIOUS
  <2>2. d \in Nat
    BY DEF QueueAssumption
  <2>3. /\ op \in AnyOp /\ op.kind = "enqueue" /\ op.job = j
    BY <1>1, <2>1, <2>2 DEF AnyOp, Op, EnqueueOp
  <2>4. /\ Push(op) /\ submitted' = submitted \cup {j} /\ j \notin submitted
        /\ UNCHANGED <<leased, cur, store, settled, hydVars, leaseGenSeq, tokens,
                       outdated, accepted>>
    BY <1>2, <2>1 DEF Enqueue, memVars, storeVars
  <2>5. QED
    BY <2>3, <2>4, PushLedger
<1>3. ASSUME NEW op \in AnyOp, LeaseOp(op),
             op.kind \in {"ack", "release", "reschedule", "extend"},
             op.tok \in tokens,
             op.kind = "reschedule" => op.attempt \in op.tok.attempt..MaxAttempt
      PROVE  LedgerPartsStay
  BY <1>3, PushLedger DEF LeaseOp, memVars, idVars, storeVars, callerVars
<1>4. CASE Claim
  <2>1. PICK op : op = [kind |-> "claim"]
    OBVIOUS
  <2>2. op \in AnyOp /\ op.kind = "claim"
    BY <2>1 DEF AnyOp, Op, PlainOp
  <2>3. /\ Push(op)
        /\ UNCHANGED <<leased, cur, store, settled, hydVars, leaseGenSeq, tokens,
                       outdated, accepted, submitted>>
    BY <1>4, <2>1 DEF Claim, memVars, idVars, storeVars, callerVars
  <2>4. QED
    BY <2>2, <2>3, PushLedger
<1>5. ASSUME NEW t \in tokens, NEW kind \in {"ack", "release"},
             LeaseOp([kind |-> kind, tok |-> t])
      PROVE  LedgerPartsStay
  <2>1. PICK op : op = [kind |-> kind, tok |-> t]
    OBVIOUS
  <2>2. op \in AnyOp /\ op.kind = kind /\ op.tok = t
    BY <1>1, <2>1 DEF AnyOp, Op, SettleOp
  <2>3. QED
    BY <1>3, <1>5, <2>1, <2>2
<1>6. ASSUME NEW t \in tokens, NEW d \in Delays,
             NEW a \in t.attempt..MaxAttempt, Reschedule(t, d, a)
      PROVE  LedgerPartsStay
  <2>1. PICK at : at = IF d > 0 THEN now + d ELSE 0
    OBVIOUS
  <2>2. PICK op : op = [kind |-> "reschedule", tok |-> t, attempt |-> a, at |-> at]
    OBVIOUS
  <2>3. t \in Lease /\ a \in Ids /\ at \in Nat
    BY <1>1, <2>1 DEF QueueAssumption, Lease
  <2>4. op \in AnyOp /\ op.kind = "reschedule" /\ op.tok = t /\ op.attempt = a
    BY <2>2, <2>3 DEF AnyOp, Op, RetryOp
  <2>5. LeaseOp(op)
    BY <1>6, <2>1, <2>2 DEF Reschedule
  <2>6. QED
    BY <1>3, <2>4, <2>5
<1>7. ASSUME NEW t \in tokens, NEW ttl \in ExtendTtls, ExtendLease(t, ttl)
      PROVE  LedgerPartsStay
  <2>1. PICK op : op = [kind |-> "extend", tok |-> t, ttl |-> ttl]
    OBVIOUS
  <2>2. op \in AnyOp /\ op.kind = "extend" /\ op.tok = t
    BY <1>1, <2>1 DEF AnyOp, Op, ExtendOp, QueueAssumption
  <2>3. LeaseOp(op)
    BY <1>7, <2>1 DEF ExtendLease
  <2>4. QED
    BY <1>3, <2>2, <2>3
<1>8. QED
  BY <1>2, <1>4, <1>5, <1>6, <1>7 DEF Calls, Ack, Release

\* A claim's step takes the next lease number with the row it pops.
LEMMA ClaimLedger ==
  ASSUME NEW av, NEW l, NEW h, NEW t, ClaimFrom(av, l, h, t) \/ TakeHead(av),
         Running("claim"), leaseGenSeq \in Nat
  PROVE  /\ ChainKept /\ leaseGenSeq' >= leaseGenSeq /\ CallToken' /\ Ahead' = {}
         /\ Claiming' => leaseGenSeq' > leaseGenSeq
<1>1. ASSUME UNCHANGED chain PROVE ~Running("reschedule")'
  BY <1>1 DEF Running
<1>2. CASE TakeHead(av) /\ av = <<>>
  <2>1. cur' = Idle /\ chain' = Tail(chain) /\ leaseGenSeq' = leaseGenSeq
    BY <1>2 DEF TakeHead, EndOp
  <2>2. QED
    BY <2>1 DEF ChainKept, Running, CallToken, Ahead, Claiming
<1>3. CASE TakeHead(av) /\ av # <<>>
  <2>1. /\ cur'.reply = "wait" /\ chain' = chain
        /\ leaseGenSeq' = leaseGenSeq + 1
    BY <1>3 DEF TakeHead, CallStore
  <2>2. QED
    BY <1>1, <2>1 DEF ChainKept, CallToken, Ahead
<1>4. CASE StartReclaim(l, h, t) /\ UNCHANGED <<chain, leaseGenSeq>>
  <2>1. cur'.reply = "wait" /\ cur'.pc = "reclaim"
    BY <1>4 DEF StartReclaim
  <2>2. QED
    BY <1>1, <1>4, <2>1 DEF ChainKept, CallToken, Ahead, Claiming
<1>5. QED
  BY <1>2, <1>3, <1>4 DEF ClaimFrom

\* An operation begins.
LEMMA BeginsLedger ==
  ASSUME RowsFit, StoreParts, TokensFit, RowsFit', Begins
  PROVE  LedgerPartsStay
<1>1. /\ cur = Idle /\ chain # <<>> /\ chain \in Seq(AnyOp) /\ leaseGenSeq \in Nat
      /\ UNCHANGED <<store, tokens, outdated, submitted, accepted, settled, hydrated, hyd>>
      /\ Ahead = {} /\ LeasesKept /\ ~MidReplace
  <2>1. /\ cur = Idle /\ chain # <<>>
        /\ UNCHANGED <<store, tokens, outdated, submitted, accepted, settled, hydrated, hyd>>
    BY DEF Begins, BeginEnqueue, BeginLeaseOp, BeginClaim, BeginExpire, Starting,
       Running, storeVars, callerVars, hydVars
  <2>2. LeasesKept
    BY <2>1, LeasesStep DEF Next, FinishClaim, Replied
  <2>3. QED
    BY <2>1, <2>2, LedgerTypes DEF Ahead, MidReplace
<1>2. RowsKept /\ leaseGenSeq' \in Nat
  BY <1>1 DEF RowsKept, RowsFit, ShapeFit, AdminTypeOK
<1>3. ASSUME ChainKept, CallToken', leaseGenSeq' >= leaseGenSeq,
             Claiming' => leaseGenSeq' > leaseGenSeq
      PROVE  LedgerPartsStay
  BY <1>1, <1>2, <1>3, LedgerKept DEF Numbering
<1>4. ASSUME EndOp, leaseGenSeq' = leaseGenSeq PROVE LedgerPartsStay
  <2>1. ChainKept /\ CallToken' /\ ~Claiming'
    BY <1>1, <1>4 DEF EndOp, ChainKept, CallToken, Claiming
  <2>2. QED
    BY <1>1, <1>3, <1>4, <2>1
<1>5. CASE BeginEnqueue
  <2>1. leaseGenSeq' = leaseGenSeq /\ Running("enqueue")
    BY <1>5 DEF BeginEnqueue, idVars, Starting
  <2>2. CASE UNCHANGED chain
    <3>1. ChainKept /\ CallToken' /\ ~Claiming'
      BY <2>1, <2>2 DEF ChainKept, CallToken, Claiming, Running
    <3>2. QED
      BY <1>1, <1>3, <2>1, <3>1
  <2>3. QED
    BY <1>4, <1>5, <2>1, <2>2 DEF BeginEnqueue
<1>6. CASE BeginLeaseOp
  <2>1. PICK kind \in {"ack", "release", "reschedule", "extend"} : Running(kind)
    BY <1>6 DEF BeginLeaseOp, Starting
  <2>2. leaseGenSeq' = leaseGenSeq
    BY <1>6 DEF BeginLeaseOp, idVars
  <2>3. ASSUME UNCHANGED chain, NEW del, NEW rec,
               CallStore(del, Head(chain).tok.id, Head(chain).tok.gen, rec)
        PROVE  LedgerPartsStay
    <3>1. cur'.id = Head(chain').tok.id /\ cur'.gen = Head(chain').tok.gen
      BY <2>3 DEF CallStore
    <3>2. ChainKept /\ CallToken' /\ ~Claiming'
      BY <2>1, <2>3, <3>1 DEF ChainKept, CallToken, Claiming, Running
    <3>3. QED
      BY <1>1, <1>3, <2>2, <3>2
  <2>4. QED
    BY <1>4, <1>6, <2>2, <2>3 DEF BeginLeaseOp
<1>7. CASE BeginClaim
  <2>1. Running("claim")
    BY <1>7 DEF BeginClaim, Starting
  <2>2. PICK av : ClaimFrom(av, leased, expiries, now) \/ TakeHead(av)
    BY <1>7 DEF BeginClaim
  <2>3. QED
    BY <1>1, <1>3, <2>1, <2>2, ClaimLedger
<1>8. CASE BeginExpire
  <2>1. Running("expire") /\ leaseGenSeq' = leaseGenSeq
    BY <1>8 DEF BeginExpire, Starting, idVars
  <2>2. CASE UNCHANGED chain
    <3>1. ChainKept /\ CallToken' /\ ~Claiming'
      BY <2>1, <2>2 DEF ChainKept, CallToken, Claiming, Running
    <3>2. QED
      BY <1>1, <1>3, <2>1, <3>1
  <2>3. QED
    BY <1>4, <1>8, <2>1, <2>2 DEF BeginExpire
<1>9. QED
  BY <1>5, <1>6, <1>7, <1>8 DEF Begins

\* A claim gives its caller the lease that no earlier Lease object names.
LEMMA ClaimGives ==
  ASSUME RowsFit, StoreParts, TokensFit, FinishClaim
  PROVE  /\ LedgerPartsStay
         /\ \A t \in tokens \ outdated : Holds(t.id, t.gen)' => Holds(t.id, t.gen)
<1>1. /\ chain \in Seq(AnyOp) /\ leaseGenSeq \in Nat /\ \A t \in tokens : t \in Lease
      /\ ~MidReplace /\ CallWrites
  <2>1. CoreAtHead
    BY DEF FinishClaim, Replied, Running, CoreAtHead, CoreKinds
  <2>2. QED
    BY <2>1, LedgerTypes, LedgerCall
<1> DEFINE lease == [id |-> cur.id, gen |-> cur.rec.gen,
                     job |-> cur.rec.job, attempt |-> cur.rec.attempt]
<1>2. /\ Running("claim") /\ cur # Idle /\ cur.pc = "main" /\ EndOp
      /\ tokens' = tokens \cup {lease} /\ outdated' = outdated \ {lease}
      /\ leased' = Put(leased, cur.id,
                       [job |-> cur.rec.job, gen |-> cur.rec.gen,
                        exp |-> cur.rec.exp, attempt |-> cur.rec.attempt])
      /\ UNCHANGED <<store, submitted, accepted, settled, hydrated, hyd, leaseGenSeq>>
  BY DEF FinishClaim, Replied, storeVars, hydVars, idVars
<1>3. Claiming /\ cur.rec.gen = leaseGenSeq
  BY <1>1, <1>2 DEF Claiming, CallWrites, CallRecord
<1>4. /\ \A i \in DOMAIN leased' : i # cur.id => i \in DOMAIN leased /\ leased'[i] = leased[i]
      /\ leased'[cur.id].gen = cur.rec.gen
      /\ leased'[cur.id].job = cur.rec.job
      /\ leased'[cur.id].attempt = cur.rec.attempt
  BY <1>2 DEF Put
<1>5. \A t \in tokens \ outdated :
        /\ t.gen \in Nat /\ t.gen < leaseGenSeq
        /\ Holds(t.id, t.gen)' => /\ Holds(t.id, t.gen)
                                  /\ leased'[t.id] = leased[t.id]
  <2> SUFFICES ASSUME NEW t \in tokens \ outdated
               PROVE  /\ t.gen \in Nat /\ t.gen < leaseGenSeq
                      /\ Holds(t.id, t.gen)' => /\ Holds(t.id, t.gen)
                                                /\ leased'[t.id] = leased[t.id]
    OBVIOUS
  <2>1. t.gen \in Nat /\ t.gen < leaseGenSeq
    BY <1>1, <1>3 DEF TokensFit, Lease
  <2>2. Holds(t.id, t.gen)' => t.id # cur.id
    BY <1>1, <1>3, <1>4, <2>1 DEF Holds
  <2>3. QED
    BY <1>4, <2>1, <2>2 DEF Holds
<1>6. cur' = Idle /\ ~Claiming' /\ ChainKept /\ CallToken' /\ RowsKept
  BY <1>2 DEF EndOp, Claiming, ChainKept, CallToken, RowsKept, Running
<1>7. \A t \in tokens' \ outdated' :
        /\ t.gen <= leaseGenSeq' /\ (Claiming' => t.gen < leaseGenSeq')
        /\ Holds(t.id, t.gen)' => /\ t.job = leased'[t.id].job
                                  /\ t.attempt = leased'[t.id].attempt
  <2> SUFFICES ASSUME NEW t \in tokens' \ outdated'
               PROVE  /\ t.gen <= leaseGenSeq
                      /\ Holds(t.id, t.gen)' => /\ t.job = leased'[t.id].job
                                                /\ t.attempt = leased'[t.id].attempt
    BY <1>2, <1>6
  <2>1. CASE t \in tokens \ outdated
    BY <1>1, <1>5, <2>1 DEF TokensFit
  <2>2. CASE t = lease
    BY <1>1, <1>3, <1>4, <2>2
  <2>3. QED
    BY <1>2, <2>1, <2>2
<1>8. PICK s \in {0, 1} : \A i \in DOMAIN chain' :
        i + s \in DOMAIN chain /\ chain'[i] = chain[i + s]
  BY <1>1, <1>6, ChainShift
<1>9. \A i \in DOMAIN chain' :
       /\ chain'[i].kind \in {"ack", "release", "reschedule", "extend"} =>
            chain'[i].tok \in tokens'
       /\ chain'[i].kind = "reschedule" =>
            chain'[i].attempt \in chain'[i].tok.attempt..MaxAttempt
  BY <1>1, <1>2, <1>8 DEF TokensFit
<1>10. TokensFit'
  BY <1>6, <1>7, <1>9 DEF TokensFit, CallToken
<1>11. JobsApart => JobsApart'
  <2>1. ~Running("enqueue")
    BY <1>2 DEF Running
  <2>2. QED
    BY <1>1, <1>2, <1>6, <2>1, JobsKept
<1>12. AcceptedNotLost => AcceptedNotLost'
  BY <1>2 DEF AcceptedNotLost
<1>13. QED
  BY <1>1, <1>5, <1>10, <1>11, <1>12 DEF LedgerPartsStay, JobParts

\* An operation ends, or a reclaim goes on.
LEMMA FinishesLedger ==
  ASSUME RowsFit, StoreParts, TokensFit, RowsFit', Finishes, ~FinishClaim
  PROVE  LedgerPartsStay
<1>1. /\ cur # Idle /\ chain # <<>> /\ leaseGenSeq \in Nat /\ CallWrites /\ ~MidReplace
      /\ UNCHANGED <<store, tokens, outdated, submitted, settled, hydrated, hyd>>
      /\ FinishEnqueue \/ accepted' = accepted
  <2>1. /\ UNCHANGED <<store, tokens, outdated, submitted, settled, hydrated, hyd>>
        /\ FinishEnqueue \/ accepted' = accepted
    BY DEF Finishes, FinishEnqueue, FinishRefused, FinishAck, FinishReturn,
       FinishExtend, ClaimRefused, ReclaimThenClaim, ReclaimThenLoop,
       ReclaimRefused, storeVars, callerVars, hydVars
  <2>2. cur # Idle /\ CoreAtHead
    BY FinishAnswer DEF AnswerComes, CoreAtHead
  <2>3. QED
    BY <2>1, <2>2, LedgerTypes, LedgerCall
<1>2. LeasesKept /\ RowsKept /\ leaseGenSeq' \in Nat
  BY <1>1, LeasesStep DEF Next, RowsKept, RowsFit, ShapeFit, AdminTypeOK
<1>3. accepted' \subseteq accepted \cup {store[i].job : i \in DOMAIN store}
  <2>1. CASE FinishEnqueue
    <3>1. /\ accepted' = accepted \cup {cur.rec.job}
          /\ cur.reply = "ok" /\ ~Running("ack")
      BY <2>1 DEF FinishEnqueue, Replied, Running
    <3>2. cur.id \in DOMAIN store /\ store[cur.id] = cur.rec
      BY <1>1, <3>1 DEF CallWrites
    <3>3. QED
      BY <3>1, <3>2
  <2>2. QED
    BY <1>1, <2>1
<1>4. ASSUME ChainKept, CallToken', leaseGenSeq' >= leaseGenSeq,
             Claiming' => leaseGenSeq' > leaseGenSeq,
             chain' = chain => ~Running("enqueue")
      PROVE  LedgerPartsStay
  BY <1>1, <1>2, <1>3, <1>4, LedgerKept DEF Numbering
<1>5. ASSUME EndOp, leaseGenSeq' = leaseGenSeq PROVE LedgerPartsStay
  <2>1. ChainKept /\ CallToken' /\ ~Claiming'
    BY <1>1, <1>5 DEF EndOp, ChainKept, CallToken, Claiming
  <2>2. chain' # chain
    <3>1. chain \in Seq(AnyOp) /\ Len(Tail(chain)) # Len(chain)
      BY <1>1, LedgerTypes
    <3>2. QED
      BY <1>5, <3>1 DEF EndOp
  <2>3. QED
    BY <1>1, <1>4, <1>5, <2>1, <2>2
<1>6. CASE FinishEnqueue \/ FinishRefused \/ FinishAck \/ FinishReturn
           \/ FinishExtend \/ ClaimRefused \/ ReclaimRefused
  <2>1. EndOp /\ leaseGenSeq' = leaseGenSeq
    BY <1>6 DEF FinishEnqueue, FinishRefused, FinishAck, FinishReturn,
       FinishExtend, ClaimRefused, ReclaimRefused, idVars
  <2>2. QED
    BY <1>5, <2>1
<1>7. CASE ReclaimThenClaim
  <2>1. Running("claim") /\ ~Running("enqueue")
        /\ ClaimFrom(ReclaimedFifo, ReclaimedLeases, expiries, cur.now)
    BY <1>7 DEF ReclaimThenClaim, Reclaiming, Running
  <2>2. /\ ChainKept /\ leaseGenSeq' >= leaseGenSeq /\ CallToken'
        /\ Claiming' => leaseGenSeq' > leaseGenSeq
    BY <1>1, <2>1, ClaimLedger
  <2>3. QED
    BY <1>4, <2>1, <2>2
<1>8. CASE ReclaimThenLoop
  <2>1. Running("expire") /\ leaseGenSeq' = leaseGenSeq
    BY <1>8 DEF ReclaimThenLoop, Reclaiming, idVars
  <2>2. CASE UNCHANGED chain
    <3>1. /\ ChainKept /\ CallToken' /\ ~Claiming' /\ ~Running("enqueue")
      BY <2>1, <2>2 DEF ChainKept, CallToken, Claiming, Running
    <3>2. QED
      BY <1>1, <1>4, <2>1, <3>1
  <2>3. QED
    BY <1>5, <1>8, <2>1, <2>2 DEF ReclaimThenLoop
<1>9. QED
  BY <1>6, <1>7, <1>8 DEF Finishes

\* What the store takes: a new job, another record of a job it has, or a job's
\* removal.
Accepting ==
  /\ Running("enqueue") /\ cur.id \notin DOMAIN store
  /\ store' = Put(store, cur.id, cur.rec) /\ settled' = settled
  /\ cur.rec.gen = None /\ cur.rec.attempt = 1
  /\ cur.rec.job \in submitted \ settled
  /\ \A k \in DOMAIN store : store[k].job # cur.rec.job
  /\ 1 \in QueuedEnqueues /\ chain[1].job = cur.rec.job

Rewriting ==
  /\ ~Running("enqueue") /\ cur.id \in DOMAIN store
  /\ store' = Put(store, cur.id, cur.rec) /\ settled' = settled
  /\ cur.rec.job = store[cur.id].job
  /\ cur.rec.attempt \in store[cur.id].attempt..MaxAttempt
  /\ cur.rec.gen = None \/ cur.rec.attempt = store[cur.id].attempt
  /\ store[cur.id].gen = None => cur.rec.gen # None

Removing ==
  /\ ~Running("enqueue") /\ cur.id \in DOMAIN store /\ store[cur.id].gen # None
  /\ store' = Without(store, cur.id)
  /\ settled' = settled \cup {store[cur.id].job}

\* Nothing else: a write is for the job whose row it is about, and a lease's
\* holder writes a row that the store has as leased.
LEMMA Written ==
  ASSUME QueueAssumption, RowsFit, StoreParts, LedgerParts, CoreAtHead, StoreApplies
  PROVE  Accepting \/ Rewriting \/ Removing
<1>1. /\ cur # Idle /\ cur \in Call /\ cur.reply = "wait" /\ Ahead = {}
      /\ (cur.del <=> Running("ack")) /\ hydrated /\ chain \in Seq(AnyOp)
  BY AnswerStore, LedgerTypes, LedgerCall
<1>2. /\ IF cur.del
         THEN /\ store' = Without(store, cur.id)
              /\ settled' = settled \cup
                   {store[i].job : i \in DOMAIN store \cap {cur.id}}
         ELSE store' = Put(store, cur.id, cur.rec) /\ settled' = settled
  BY DEF StoreApplies
<1>3. /\ CallWrites /\ CallRecord /\ LeasesNumbered /\ TokensFit /\ JobsApart
      /\ OwnLease /\ NewRow
      /\ Backed(available, delayed, leased, {})
      /\ DOMAIN store \subseteq PlacedIds
  BY <1>1, LedgerCall, LedgerTypes DEF StoreParts, LedgerParts, JobParts, RowParts,
     CallWrites, RowsBacked
<1>4. \A i \in DOMAIN store : store[i].attempt \in Nat /\ store[i].attempt <= MaxAttempt
  BY <1>3, LedgerTypes DEF JobsApart, Stored
<1>5. CASE Running("enqueue") /\ cur.id = Head(chain).id
  <2>1. 1 \in QueuedEnqueues /\ Head(chain) = chain[1]
    BY <1>1, <1>5 DEF Running, QueuedEnqueues
  <2>2. cur.rec = [job |-> Head(chain).job, at |-> Head(chain).at, gen |-> None,
                   exp |-> None, attempt |-> 1]
    BY <1>3, <1>5 DEF CallRecord
  <2>3. cur.id \notin DOMAIN store
    BY <1>1, <1>3, <1>5 DEF NewRow
  <2>4. ~cur.del
    BY <1>1, <1>5 DEF Running
  <2>5. /\ chain[1].job \in submitted \ settled
        /\ \A k \in DOMAIN store : store[k].job # chain[1].job
    BY <1>1, <1>3, <2>1 DEF JobsApart
  <2>6. QED
    BY <1>2, <1>5, <2>1, <2>2, <2>3, <2>4, <2>5 DEF Accepting
<1>6. CASE Running("claim") /\ cur.pc = "main"
  <2>1. /\ cur.id \in DOMAIN store
        /\ [store[cur.id] EXCEPT !.at = 0] = Cleared(cur.rec)
        /\ cur.rec.gen # None
    BY <1>1, <1>3, <1>6 DEF CallWrites, CallRecord
  <2>2. Same(store[cur.id], cur.rec)
    BY <2>1, LedgerTypes, RecordFields
  <2>3. ~cur.del /\ ~Running("enqueue")
    BY <1>1, <1>6 DEF Running
  <2>4. cur.rec.attempt \in store[cur.id].attempt..MaxAttempt
    BY <1>4, <2>1, <2>2 DEF Same
  <2>5. QED
    BY <1>2, <2>1, <2>2, <2>3, <2>4 DEF Rewriting, Same
<1>7. CASE Holds(cur.id, cur.gen) /\ ~Running("enqueue")
           /\ ~(Running("claim") /\ cur.pc = "main")
  <2>1. /\ cur.id \in DOMAIN leased /\ leased[cur.id].gen = cur.gen
        /\ Leasing(cur.id, leased[cur.id]) /\ leased[cur.id].gen # None
    BY <1>3, <1>7 DEF Holds, Backed, LeasesNumbered
  <2>2. /\ cur.id \in DOMAIN store /\ store[cur.id].gen # None
        /\ store[cur.id].job = leased[cur.id].job
        /\ store[cur.id].attempt = leased[cur.id].attempt
    BY <2>1 DEF Leasing
  <2>3. CASE Running("ack")
    <3>1. cur.del
      BY <1>1, <2>3
    <3>2. {store[i].job : i \in DOMAIN store \cap {cur.id}} = {store[cur.id].job}
      BY <2>2
    <3>3. QED
      BY <1>2, <1>7, <2>2, <3>1, <3>2 DEF Removing
  <2>4. CASE cur.pc = "reclaim" \/ Running("release")
    <3>1. cur.rec = Cleared(leased[cur.id])
      BY <1>3, <2>4 DEF CallRecord
    <3>2. ~cur.del
      BY <1>1, <1>7, <2>4, LedgerCall DEF CallFitsOperation, Running
    <3>3. /\ cur.rec.gen = None /\ cur.rec.job = store[cur.id].job
          /\ cur.rec.attempt = store[cur.id].attempt
      BY <2>2, <3>1 DEF Cleared
    <3>4. cur.rec.attempt \in store[cur.id].attempt..MaxAttempt
      BY <1>4, <2>2, <3>3
    <3>5. QED
      BY <1>2, <1>7, <2>2, <3>2, <3>3, <3>4 DEF Rewriting
  <2>5. CASE Running("reschedule")
    <3>1. /\ cur.rec.job = Head(chain).tok.job /\ cur.rec.gen = None
          /\ cur.rec.attempt = Head(chain).attempt
      BY <1>3, <2>5 DEF CallRecord
    <3>2. 1 \in DOMAIN chain /\ Head(chain) = chain[1] /\ chain[1].kind = "reschedule"
      BY <1>1, <2>5 DEF Running
    <3>3. /\ Head(chain).tok \in tokens
          /\ Head(chain).attempt \in Head(chain).tok.attempt..MaxAttempt
          /\ cur.id = Head(chain).tok.id /\ cur.gen = Head(chain).tok.gen
      BY <1>1, <1>3, <2>5, <3>2 DEF TokensFit
    <3>4. /\ Head(chain).tok.job = leased[cur.id].job
          /\ Head(chain).tok.attempt = leased[cur.id].attempt
      BY <1>1, <1>3, <1>7, <2>5, <3>3 DEF TokensFit, OwnLease
    <3>5. ~cur.del
      BY <1>1, <2>5 DEF Running
    <3>6. QED
      BY <1>2, <1>7, <2>2, <3>1, <3>3, <3>4, <3>5 DEF Rewriting
  <2>6. CASE Running("extend")
    <3>1. /\ cur.rec.gen = cur.gen /\ cur.rec.job = leased[cur.id].job
          /\ cur.rec.attempt = leased[cur.id].attempt
      BY <1>3, <2>6 DEF CallRecord
    <3>2. ~cur.del
      BY <1>1, <2>6 DEF Running
    <3>3. cur.rec.attempt \in store[cur.id].attempt..MaxAttempt
      BY <1>4, <2>2, <3>1
    <3>4. QED
      BY <1>2, <1>7, <2>1, <2>2, <3>1, <3>2, <3>3 DEF Rewriting
  <2>7. QED
    BY <1>1, <1>7, <2>3, <2>4, <2>5, <2>6, LedgerCall DEF CallFitsOperation
<1>8. QED
  BY <1>1, <1>5, <1>6, <1>7, LedgerCall DEF CallFitsOperation, Running

\* A write of whatever operation: a new job, a job under its own id, or none left.
NewJob ==
  /\ cur.id \notin DOMAIN store
  /\ store' = Put(store, cur.id, cur.rec) /\ settled' = settled
  /\ cur.rec.attempt <= MaxAttempt /\ cur.rec.job \in submitted \ settled
  /\ \A k \in DOMAIN store : store[k].job # cur.rec.job
  /\ \A i \in QueuedEnqueues : chain[i].job = cur.rec.job => i = 1

SameJob ==
  /\ cur.id \in DOMAIN store
  /\ store' = Put(store, cur.id, cur.rec) /\ settled' = settled
  /\ cur.rec.job = store[cur.id].job /\ cur.rec.attempt <= MaxAttempt

JobGone ==
  /\ cur.id \in DOMAIN store
  /\ store' = Without(store, cur.id)
  /\ settled' = settled \cup {store[cur.id].job}

Changed == NewJob \/ SameJob \/ JobGone

\* The jobs that the store has after a write.
LEMMA WrittenJobs ==
  ASSUME JobsApart, Ahead = {}, Ahead' = {cur.id}, UNCHANGED <<chain, submitted, accepted>>,
         Changed
  PROVE  JobsApart' /\ (AcceptedNotLost => AcceptedNotLost')
<1>1. /\ QueuedEnqueues' = QueuedEnqueues
      /\ \A i \in QueuedEnqueues :
           /\ chain[i].job \in submitted \ settled
           /\ \A k \in QueuedEnqueues : chain[i].job = chain[k].job => i = k
           /\ \A k \in DOMAIN store : store[k].job # chain[i].job
  BY DEF QueuedEnqueues, JobsApart
<1>2. CASE NewJob \/ SameJob
  <2>1. /\ DOMAIN store' = DOMAIN store \cup {cur.id} /\ store'[cur.id] = cur.rec
        /\ \A i \in DOMAIN store : i # cur.id => store'[i] = store[i]
        /\ settled' = settled
    BY <1>2 DEF NewJob, SameJob, Put
  <2>2. /\ cur.rec.job \in submitted \ settled /\ cur.rec.attempt <= MaxAttempt
        /\ \A i \in DOMAIN store : store[i].job = cur.rec.job => i = cur.id
        /\ \A i \in QueuedEnqueues : chain[i].job = cur.rec.job => i = 1
    BY <1>1, <1>2 DEF NewJob, SameJob, JobsApart
  <2>3. /\ \A i, k \in DOMAIN store' : store'[i].job = store'[k].job => i = k
        /\ \A i \in DOMAIN store' :
             store'[i].job \in submitted \ settled /\ store'[i].attempt <= MaxAttempt
    BY <2>1, <2>2 DEF JobsApart
  <2>4. \A i \in QueuedEnqueues : \A k \in DOMAIN store' :
          store'[k].job = chain[i].job => i = 1 /\ k \in Ahead'
    BY <1>1, <2>1, <2>2
  <2>5. JobsApart'
    BY <1>1, <2>1, <2>3, <2>4 DEF JobsApart
  <2>6. ASSUME NEW i \in DOMAIN store
        PROVE  i \in DOMAIN store' /\ store'[i].job = store[i].job
    BY <1>2, <2>1 DEF NewJob, SameJob
  <2>7. AcceptedNotLost => AcceptedNotLost'
    BY <2>1, <2>6 DEF AcceptedNotLost
  <2>8. QED
    BY <2>5, <2>7
<1>3. CASE JobGone
  <2>1. /\ DOMAIN store' = DOMAIN store \ {cur.id}
        /\ \A i \in DOMAIN store' : store'[i] = store[i]
        /\ settled' = settled \cup {store[cur.id].job} /\ cur.id \in DOMAIN store
    BY <1>3 DEF JobGone, Without, Restrict
  <2>2. JobsApart'
    BY <1>1, <2>1 DEF JobsApart
  <2>3. AcceptedNotLost => AcceptedNotLost'
    BY <2>1 DEF AcceptedNotLost
  <2>4. QED
    BY <2>2, <2>3
<1>4. QED
  BY <1>2, <1>3 DEF Changed

\* What the operations of DurableQueue write is of that kind.
LEMMA WrittenChanges ==
  ASSUME QueueAssumption, RowsFit, StoreParts, LedgerParts, CoreAtHead, StoreApplies
  PROVE  Changed
<1>1. CASE Accepting
  <2>1. \A i \in QueuedEnqueues : chain[i].job = cur.rec.job => i = 1
    BY <1>1 DEF Accepting, LedgerParts, JobParts, JobsApart
  <2>2. QED
    BY <1>1, <2>1 DEF Accepting, NewJob, QueueAssumption, Changed
<1>2. CASE Rewriting
  <2>1. cur.rec.attempt <= MaxAttempt
    BY <1>2, LedgerTypes DEF Rewriting, Stored
  <2>2. QED
    BY <1>2, <2>1 DEF Rewriting, SameJob, Changed
<1>3. CASE Removing
  BY <1>3 DEF Removing, JobGone, Changed
<1>4. QED
  BY <1>1, <1>2, <1>3, Written

\* The store answers.
LEMMA StoreLedger ==
  ASSUME QueueAssumption, RowsFit, StoreParts, TokensFit, RowsFit', CoreAtHead,
         StoreApplies \/ StoreRefuses
  PROVE  LedgerPartsStay
<1>1. /\ cur # Idle /\ cur' # Idle /\ cur'.id = cur.id /\ cur'.gen = cur.gen
      /\ (Claiming' <=> Claiming) /\ Ahead = {} /\ ~MidReplace
      /\ \A kind : Running(kind)' <=> Running(kind)
      /\ UNCHANGED <<leased, hydVars, chain, leaseGenSeq, tokens, outdated>>
      /\ cur'.reply = IF StoreApplies THEN "ok" ELSE "err"
  BY AnswerStore, LedgerCall DEF Claiming, StoreApplies, StoreRefuses, callerVars
<1>2. /\ ChainKept /\ Numbering /\ CallToken'
      /\ chain \in Seq(AnyOp) /\ leaseGenSeq \in Nat /\ \A t \in tokens : t \in Lease
  BY <1>1, LedgerTypes DEF ChainKept, LeasesKept, Numbering, CallToken, TokensFit
<1>3. CASE StoreApplies
  <2>1. TokensFit'
    BY <1>1, <1>2, TokensKept
  <2>2. UNCHANGED <<chain, submitted, accepted>> /\ Ahead' = {cur.id}
    BY <1>1, <1>3 DEF StoreApplies, callerVars, Ahead
  <2>3. OwnLease /\ JobParts => JobParts'
    BY <1>1, <1>3, <2>2, WrittenChanges, WrittenJobs DEF LedgerParts, JobParts
  <2>4. QED
    BY <2>1, <2>3 DEF LedgerPartsStay
<1>4. CASE StoreRefuses /\ ~StoreApplies
  <2>1. /\ UNCHANGED <<store, submitted, settled, accepted>> /\ Ahead' = {}
    BY <1>1, <1>4 DEF StoreRefuses, storeVars, callerVars, Ahead
  <2>2. RowsKept
    BY <2>1 DEF RowsKept
  <2>3. QED
    BY <1>1, <1>2, <2>1, <2>2, LedgerKept
<1>5. QED
  BY <1>3, <1>4

\* Timers and readers move rows, and queue a reclaim.
LEMMA TimersLedger ==
  ASSUME RowsFit, StoreParts, TokensFit, RowsFit',
         ReaderPromotes \/ DelayTimerFires \/ LeaseTimerFires
  PROVE  LedgerPartsStay
<1>1. /\ UNCHANGED <<leased, cur, store, settled, hydVars, leaseGenSeq, tokens,
                     outdated, accepted, submitted>>
      /\ leaseGenSeq \in Nat
  <2>1. UNCHANGED <<leased, cur, store, settled, hydVars, leaseGenSeq, tokens,
                    outdated, accepted, submitted>>
    BY DEF ReaderPromotes, DelayTimerFires, LeaseTimerFires, chainVars, idVars,
       storeVars, callerVars
  <2>2. QED
    BY <2>1, LedgerTypes
<1>2. CASE UNCHANGED chain
  <2>1. /\ ChainKept /\ Numbering /\ RowsKept /\ CallToken'
        /\ Ahead' = Ahead /\ (MidReplace' <=> MidReplace)
    BY <1>1, <1>2 DEF ChainKept, LeasesKept, Numbering, RowsKept, CallToken, Claiming,
       Ahead, MidReplace, Running, TokensFit
  <2>2. QED
    BY <1>1, <1>2, <2>1, LedgerKept
<1>3. CASE Push([kind |-> "expire"])
  <2>1. PICK op : op = [kind |-> "expire"]
    OBVIOUS
  <2>2. op \in AnyOp /\ op.kind = "expire" /\ Push(op)
    BY <1>3, <2>1 DEF AnyOp, Op, PlainOp
  <2>3. QED
    BY <1>1, <2>2, PushLedger
<1>4. QED
  BY <1>2, <1>3 DEF ReaderPromotes, DelayTimerFires, LeaseTimerFires, chainVars

\* hydrate finds no operation running; what it stores keeps each row's job.
LEMMA HydratesLedger ==
  ASSUME RowsFit, StoreParts, TokensFit, RowsFit', Hydrates
  PROVE  LedgerPartsStay
<1>1. /\ UNCHANGED <<chain, cur, tokens, submitted, accepted, settled>>
      /\ leaseGenSeq \in Nat /\ chain \in Seq(AnyOp)
  <2>1. UNCHANGED <<chain, cur, tokens, submitted, accepted, settled>>
    BY DEF Hydrates, HydrateStart, HydrateRejects, HydrateLoad, HydrateClear,
       HydrateRefused, HydrateInstall, chainVars, callerVars, storeVars
  <2>2. QED
    BY <2>1, LedgerTypes
<1>2. Numbering
  <2>1. CASE HydrateInstall
    BY <2>1 DEF HydrateInstall, Numbering
  <2>2. CASE ~HydrateInstall
    <3>1. UNCHANGED <<leased, leaseGenSeq, outdated>>
      BY <2>2 DEF Hydrates, HydrateStart, HydrateRejects, HydrateLoad, HydrateClear,
         HydrateRefused, memVars, idVars, callerVars
    <3>2. Claiming' => Claiming
      BY <1>1 DEF Claiming, Running
    <3>3. QED
      BY <1>1, <3>1, <3>2 DEF Numbering, LeasesKept
  <2>3. QED
    BY <2>1, <2>2
<1>3. RowsKept
  <2>1. ASSUME NEW i \in DOMAIN store, HydrateClear(i) PROVE RowsKept
    <3>1. i \in hyd.left /\ hyd.pc = "clear" /\ store' = Put(store, i, Cleared(hyd.rows[i]))
      BY <2>1 DEF HydrateClear
    <3>2. store[i] = hyd.rows[i]
      BY <3>1 DEF StoreParts, LoadFits
    <3>3. QED
      BY <3>1, <3>2 DEF RowsKept, Put, Cleared
  <2>2. QED
    BY <2>1 DEF Hydrates, HydrateStart, HydrateRejects, HydrateLoad,
       HydrateRefused, HydrateInstall, storeVars, RowsKept
<1>4. /\ ChainKept /\ CallToken' /\ Ahead' = Ahead /\ (MidReplace' <=> MidReplace)
  BY <1>1 DEF ChainKept, CallToken, TokensFit, Ahead, MidReplace, Running
<1>5. QED
  BY <1>1, <1>2, <1>3, <1>4, LedgerKept

\* A crash takes the Lease objects with it; time passes.
LEMMA EnvironmentLedger ==
  ASSUME RowsFit, StoreParts, TokensFit, RowsFit',
         Crash \/ Tick \/ UNCHANGED vars, Crash => ~MidReplace
  PROVE  LedgerPartsStay
<1>1. CASE Crash
  <2>1. /\ chain' = <<>> /\ tokens' = {} /\ cur' = Idle
        /\ UNCHANGED <<store, settled, submitted, accepted>>
    BY <1>1 DEF Crash, storeVars
  <2>2. TokensFit'
    BY <2>1 DEF TokensFit, Running
  <2>3. QueuedEnqueues' = {}
    BY <2>1 DEF QueuedEnqueues
  <2>4. JobsApart => JobsApart'
    BY <2>1, <2>3 DEF JobsApart
  <2>5. AcceptedNotLost => AcceptedNotLost'
    BY <2>1 DEF AcceptedNotLost
  <2>6. QED
    BY <1>1, <2>2, <2>4, <2>5 DEF LedgerPartsStay, JobParts
<1>2. CASE Tick \/ UNCHANGED vars
  <2>1. UNCHANGED <<leased, cur, store, settled, hydVars, leaseGenSeq, tokens,
                    outdated, accepted, submitted, chain>>
    BY <1>2 DEF Tick, vars, memVars, idVars, chainVars, storeVars, callerVars
  <2>2. /\ ChainKept /\ Numbering /\ RowsKept /\ CallToken' /\ leaseGenSeq \in Nat
        /\ Ahead' = Ahead /\ (MidReplace' <=> MidReplace)
    BY <2>1, LedgerTypes DEF ChainKept, LeasesKept, Numbering, RowsKept, CallToken,
       Claiming, Ahead, MidReplace, Running, TokensFit
  <2>3. QED
    BY <2>1, <2>2, LedgerKept
<1>3. QED
  BY <1>1, <1>2

\* Each step keeps the parts, given that memory agrees with the store.
LEMMA LedgerStep ==
  ASSUME QueueAssumption, CoreRows, StoreParts, TokensFit, CoreRows', [Next]_vars
  PROVE  LedgerPartsStay
<1>1. RowsFit /\ RowsFit' /\ CoreAtHead /\ ~MidReplace
  BY CoreHead, LedgerCall DEF CoreRows
<1>2. QED
  BY <1>1, CallsLedger, BeginsLedger, FinishesLedger, ClaimGives, StoreLedger,
     TimersLedger, HydratesLedger, EnvironmentLedger DEF Next

\* Nobody has asked for anything at the start.
LEMMA InitLedger == Init => TokensFit /\ JobsApart /\ AcceptedNotLost
BY DEF Init, TokensFit, JobsApart, AcceptedNotLost, EmptyMap, QueuedEnqueues, Running

\* What is known of the lease objects holds in every reachable state.
LEMMA TokensHold == Spec => []TokensFit
<1>1. Init => TokensFit
  BY InitLedger
<1>2. CoreRows /\ StoreParts /\ (CoreRows /\ StoreParts)' /\ TokensFit /\ [Next]_vars
      => TokensFit'
  BY LedgerStep, QueueAssumption DEF LedgerPartsStay
<1>3. QED
  BY <1>1, <1>2, StorePartsHold, PTL DEF Spec

\* LeaseInvariant holds in every reachable state, also of a queue on which hydrate
\* is called again and again.
THEOREM LeasesHold == Spec => []LeaseInvariant
<1>1. StoreInvariant /\ TokensFit => LeaseInvariant
  BY DEF LeaseInvariant
<1>2. QED
  BY <1>1, StoreHolds, TokensHold, PTL

\* A Lease that was settled, released, reclaimed or lost never holds again,
\* whichever step comes next, as long as the generations are those it was
\* numbered with; hydrate on a serving queue outdates it by numbering them anew.
THEOREM LeasesStayEnded == Spec => NoTokenRevival
<1>1. CoreRows /\ StoreParts /\ TokensFit /\ [Next]_vars
      => [\A t \in tokens \ outdated :
            ~Holds(t.id, t.gen) => ~Holds(t.id, t.gen)']_vars
  <2> SUFFICES ASSUME CoreRows, StoreParts, TokensFit, [Next]_vars,
                      NEW t \in tokens \ outdated, Holds(t.id, t.gen)'
               PROVE  Holds(t.id, t.gen)
    OBVIOUS
  <2> RowsFit
    BY CoreHead
  <2>1. CASE FinishClaim
    BY <2>1, ClaimGives
  <2>2. CASE LeasesKept
    BY <2>2 DEF LeasesKept, Holds
  <2>3. CASE UNCHANGED vars
    BY <2>3 DEF vars, memVars, Holds
  <2>4. QED
    BY <2>1, <2>2, <2>3, LeasesStep
<1>2. QED
  BY <1>1, TokensHold, StorePartsHold, PTL DEF Spec, NoTokenRevival

\* A queue whose hydrate runs once per process outdates no Lease: the only time
\* the generations start again, nobody has been given one.
LEMMA NumbersOnce ==
  ASSUME ~LiveHydrate, ColdStart, OneNumbering, [Next]_vars
  PROVE  OneNumbering'
<1>1. CASE HydrateInstall
  <2>1. hyd.pc # "off" /\ outdated' = tokens /\ hyd' = NoHydrate
    BY <1>1 DEF HydrateInstall
  <2>2. tokens = {}
    BY <2>1 DEF OneNumbering, ColdStart
  <2>3. QED
    BY <2>1, <2>2 DEF OneNumbering, NoHydrate
<1>2. CASE ~HydrateInstall
  <2>1. outdated' \subseteq outdated
    <3>1. CASE Calls
      BY <3>1 DEF Calls, Enqueue, Claim, Ack, Release, Reschedule, ExtendLease,
         LeaseOp, callerVars
    <3>2. CASE Begins
      BY <3>2 DEF Begins, BeginEnqueue, BeginLeaseOp, BeginClaim, BeginExpire, callerVars
    <3>3. CASE Finishes
      BY <3>3 DEF Finishes, FinishEnqueue, FinishRefused, FinishAck, FinishReturn,
         FinishExtend, FinishClaim, ClaimRefused, ReclaimThenClaim, ReclaimThenLoop,
         ReclaimRefused, callerVars
    <3>4. CASE StoreApplies \/ StoreRefuses \/ ReaderPromotes \/ DelayTimerFires
               \/ LeaseTimerFires \/ Crash \/ Tick \/ UNCHANGED vars
      BY <3>4 DEF StoreApplies, StoreRefuses, ReaderPromotes, DelayTimerFires,
         LeaseTimerFires, Crash, Tick, vars, callerVars
    <3>5. CASE Hydrates
      BY <1>2, <3>5 DEF Hydrates, HydrateStart, HydrateRejects, HydrateLoad,
         HydrateClear, HydrateRefused, callerVars
    <3>6. QED
      BY <3>1, <3>2, <3>3, <3>4, <3>5 DEF Next
  <2>2. hyd'.pc # "off" => ~hydrated'
    <3>1. CASE Hydrates \/ Crash
      BY <1>2, <3>1 DEF OneNumbering, Hydrates, HydrateStart, HydrateRejects,
         HydrateLoad, HydrateClear, HydrateRefused, Crash, NoHydrate
    <3>2. CASE UNCHANGED <<hyd, hydrated>>
      BY <3>2 DEF OneNumbering
    <3>3. CASE Calls
      BY <3>2, <3>3 DEF Calls, Enqueue, Claim, Ack, Release, Reschedule, ExtendLease,
         LeaseOp, hydVars
    <3>4. CASE Begins
      BY <3>2, <3>4 DEF Begins, BeginEnqueue, BeginLeaseOp, BeginClaim, BeginExpire,
         hydVars
    <3>5. CASE Finishes
      BY <3>2, <3>5 DEF Finishes, FinishEnqueue, FinishRefused, FinishAck,
         FinishReturn, FinishExtend, FinishClaim, ClaimRefused, ReclaimThenClaim,
         ReclaimThenLoop, ReclaimRefused, hydVars
    <3>6. CASE StoreApplies \/ StoreRefuses \/ ReaderPromotes \/ DelayTimerFires
               \/ LeaseTimerFires \/ Tick \/ UNCHANGED vars
      BY <3>2, <3>6 DEF StoreApplies, StoreRefuses, ReaderPromotes, DelayTimerFires,
         LeaseTimerFires, Tick, vars, hydVars
    <3>7. QED
      BY <3>1, <3>3, <3>4, <3>5, <3>6 DEF Next
  <2>3. QED
    BY <2>1, <2>2 DEF OneNumbering
<1>3. QED
  BY <1>1, <1>2

\* LedgerInvariant holds in every reachable state of a queue that is hydrated
\* once per process: a second hydrate numbers ids and leases from the start
\* again, and a Lease from before it may fit by chance.
THEOREM LedgerHolds ==
  ASSUME ~LiveHydrate
  PROVE  Spec => []LedgerInvariant
<1>1. Init => JobParts /\ OneNumbering
  BY InitLedger DEF JobParts, Init, OneNumbering, NoHydrate
<1>2. StoreParts /\ OneNumbering /\ [Next]_vars => OneNumbering'
  BY NumbersOnce DEF StoreParts
<1>3. CoreRows /\ StoreParts /\ TokensFit /\ (CoreRows /\ StoreParts)'
      /\ OneNumbering /\ JobParts /\ [Next]_vars
      => JobParts'
  BY LedgerStep, QueueAssumption DEF LedgerPartsStay, OneNumbering, OwnLease
<1>4. Spec => [](JobParts /\ OneNumbering)
  BY <1>1, <1>2, <1>3, StorePartsHold, TokensHold, PTL DEF Spec
<1>5. CoreRows /\ StoreParts /\ LeaseInvariant /\ JobParts /\ OneNumbering
      => LedgerInvariant
  BY CoreHead, LedgerCall DEF JobParts, LedgerInvariant
<1>6. QED
  BY <1>4, <1>5, LeasesHold, StorePartsHold, PTL

\* A job whose enqueue resolved is stored until an ack removes it, through any
\* crash, refused write or late timer, if the queue is hydrated once per process.
THEOREM NoJobLost ==
  ASSUME ~LiveHydrate
  PROVE  Spec => []AcceptedNotLost
<1>1. LedgerInvariant => AcceptedNotLost
  BY DEF LedgerInvariant
<1>2. QED
  BY <1>1, LedgerHolds, PTL
-----------------------------------------------------------------------------
(* The ledger as read off a store s whose settled jobs are d.               *)

StatusAt(s, d, j) ==
  IF \E i \in DOMAIN s : s[i].job = j
  THEN IF \E i \in DOMAIN s : s[i].job = j /\ s[i].gen # None
       THEN "held" ELSE "waiting"
  ELSE IF j \in d THEN "settled" ELSE "new"

AttemptAt(s, j) ==
  IF \E i \in DOMAIN s : s[i].job = j
  THEN s[CHOOSE i \in DOMAIN s : s[i].job = j].attempt ELSE 0

Apart(s) == \A i, k \in DOMAIN s : s[i].job = s[k].job => i = k

\* s2 is s but perhaps for the row i, which is the job j's, and d2 is d but
\* perhaps for j.
OnlyJob(s, d, s2, d2, i, j) ==
  /\ \A k : k # i => /\ k \in DOMAIN s2 <=> k \in DOMAIN s
                     /\ k \in DOMAIN s => s2[k] = s[k]
  /\ i \in DOMAIN s => s[i].job = j
  /\ i \in DOMAIN s2 => s2[i].job = j
  /\ \A m : m # j => (m \in d2 <=> m \in d)

\* JobStatus and JobAttempt in these terms, before and after a step.
LEMMA LedgerView ==
  /\ JobStatus = [j \in Jobs |-> StatusAt(store, settled, j)]
  /\ JobStatus' = [j \in Jobs |-> StatusAt(store', settled', j)]
  /\ JobAttempt = [j \in Jobs |-> AttemptAt(store, j)]
  /\ JobAttempt' = [j \in Jobs |-> AttemptAt(store', j)]
<1>1. \A j \in Jobs : JobStatus[j] = StatusAt(store, settled, j)
  BY DEF JobStatus, StatusAt, HeldJobs, StoredJobs
<1>2. \A j \in Jobs : JobStatus'[j] = StatusAt(store', settled', j)
  BY DEF JobStatus, StatusAt, HeldJobs, StoredJobs
<1>3. \A j \in Jobs : JobAttempt[j] = AttemptAt(store, j)
  BY DEF JobAttempt, AttemptAt, StoredJobs
<1>4. \A j \in Jobs : JobAttempt'[j] = AttemptAt(store', j)
  BY DEF JobAttempt, AttemptAt, StoredJobs
<1>5. QED
  BY <1>1, <1>2, <1>3, <1>4 DEF JobStatus, JobAttempt

\* A stored job's status and attempt are those of its one row.
LEMMA StoredView ==
  ASSUME NEW s, NEW d, Apart(s), NEW i \in DOMAIN s
  PROVE  /\ StatusAt(s, d, s[i].job) = IF s[i].gen # None THEN "held" ELSE "waiting"
         /\ AttemptAt(s, s[i].job) = s[i].attempt
<1>1. (CHOOSE k \in DOMAIN s : s[k].job = s[i].job) = i
  BY DEF Apart
<1>2. QED
  BY <1>1 DEF StatusAt, AttemptAt, Apart

\* A write changes what the ledger says of its own job only.
LEMMA OthersAsBefore ==
  ASSUME NEW s, NEW d, NEW s2, NEW d2, NEW i, NEW j, Apart(s), Apart(s2),
         OnlyJob(s, d, s2, d2, i, j), NEW m, m # j
  PROVE  StatusAt(s2, d2, m) = StatusAt(s, d, m) /\ AttemptAt(s2, m) = AttemptAt(s, m)
<1>1. CASE \E k \in DOMAIN s : s[k].job = m
  <2>1. PICK k \in DOMAIN s : s[k].job = m
    BY <1>1
  <2>2. k \in DOMAIN s2 /\ s2[k] = s[k]
    BY <2>1 DEF OnlyJob
  <2>3. /\ StatusAt(s, d, m) = IF s[k].gen # None THEN "held" ELSE "waiting"
        /\ AttemptAt(s, m) = s[k].attempt
    BY <2>1, StoredView
  <2>4. /\ StatusAt(s2, d2, m) = IF s2[k].gen # None THEN "held" ELSE "waiting"
        /\ AttemptAt(s2, m) = s2[k].attempt
    BY <2>1, <2>2, StoredView
  <2>5. QED
    BY <2>2, <2>3, <2>4
<1>2. CASE ~\E k \in DOMAIN s : s[k].job = m
  <2>1. (~\E k \in DOMAIN s2 : s2[k].job = m) /\ (m \in d2 <=> m \in d)
    BY <1>2 DEF OnlyJob
  <2>2. QED
    BY <1>2, <2>1 DEF StatusAt, AttemptAt
<1>3. QED
  BY <1>1, <1>2

\* When one job's entry changes, the ledger moves that job.
LEMMA OneMoves ==
  ASSUME NEW j \in Jobs, NEW to, NEW a,
         \A m \in Jobs \ {j} : /\ StatusAt(store', settled', m) = StatusAt(store, settled, m)
                               /\ AttemptAt(store', m) = AttemptAt(store, m),
         StatusAt(store', settled', j) = to, AttemptAt(store', j) = a
  PROVE  /\ JobStatus' = [JobStatus EXCEPT ![j] = to]
         /\ JobAttempt' = [JobAttempt EXCEPT ![j] = a]
         /\ JobStatus[j] = StatusAt(store, settled, j)
         /\ JobAttempt[j] = AttemptAt(store, j)
BY LedgerView

LedgerStays == UNCHANGED <<JobStatus, JobAttempt>>

\* A step that writes no record's job, lease or attempt anew is none of the
\* ledger's.
LEMMA StoreKeepsLedger ==
  ASSUME UNCHANGED <<store, settled>>
  PROVE  LedgerStays
BY LedgerView DEF LedgerStays

\* A row with the record v: the ledger moves its job.
LEMMA PutMoves ==
  ASSUME JobsApart, JobsApart', StoreTypeOK, NEW i, NEW v \in Stored,
         store' = Put(store, i, v), settled' = settled,
         i \in DOMAIN store => store[i].job = v.job
  PROVE  /\ v.job \in Jobs
         /\ JobStatus' = [JobStatus EXCEPT ![v.job] =
                            IF v.gen # None THEN "held" ELSE "waiting"]
         /\ JobAttempt' = [JobAttempt EXCEPT ![v.job] = v.attempt]
         /\ JobStatus[v.job] = StatusAt(store, settled, v.job)
         /\ JobAttempt[v.job] = AttemptAt(store, v.job)
<1>1. /\ Apart(store) /\ Apart(store') /\ v.job \in Jobs
      /\ \A k : k # i => /\ k \in DOMAIN store' <=> k \in DOMAIN store
                         /\ k \in DOMAIN store => store'[k] = store[k]
      /\ i \in DOMAIN store' /\ store'[i] = v
  BY DEF JobsApart, Apart, Put, Stored
<1>2. /\ StatusAt(store', settled', v.job) = IF v.gen # None THEN "held" ELSE "waiting"
      /\ AttemptAt(store', v.job) = v.attempt
  BY <1>1, StoredView
<1>3. \A m \in Jobs \ {v.job} :
        /\ StatusAt(store', settled', m) = StatusAt(store, settled, m)
        /\ AttemptAt(store', m) = AttemptAt(store, m)
  <2>1. OnlyJob(store, settled, store', settled', i, v.job)
    BY <1>1 DEF OnlyJob
  <2>2. QED
    BY <1>1, <2>1, OthersAsBefore
<1>4. QED
  BY <1>1, <1>2, <1>3, OneMoves

\* A write is a step of the ledger, or none: a renewed lease changes nothing.
LEMMA WriteMoves ==
  ASSUME RowsFit, StoreParts, LedgerParts, LedgerParts', CoreAtHead,
         Accepting \/ Rewriting \/ Removing, cur # Idle
  PROVE  Ledger!LedgerNext \/ LedgerStays
<1>1. /\ JobsApart /\ JobsApart' /\ StoreTypeOK /\ cur.rec \in Stored
      /\ Apart(store) /\ \A i \in DOMAIN store : store[i] \in Stored
  BY LedgerTypes, LedgerCall DEF LedgerParts, JobParts, JobsApart, Apart
<1>2. CASE Accepting
  <2>1. /\ cur.id \notin DOMAIN store /\ store' = Put(store, cur.id, cur.rec)
        /\ settled' = settled /\ cur.rec.gen = None /\ cur.rec.attempt = 1
        /\ cur.rec.job \notin settled
        /\ \A k \in DOMAIN store : store[k].job # cur.rec.job
    BY <1>2 DEF Accepting
  <2>2. StatusAt(store, settled, cur.rec.job) = "new"
    BY <2>1 DEF StatusAt
  <2>3. Ledger!Accept(cur.rec.job) /\ cur.rec.job \in Jobs
    BY <1>1, <2>1, <2>2, PutMoves DEF Ledger!Accept, Ledger!Move
  <2>4. QED
    BY <2>3 DEF Ledger!LedgerNext
<1>3. CASE Rewriting
  <2>1. /\ cur.id \in DOMAIN store /\ store' = Put(store, cur.id, cur.rec)
        /\ settled' = settled /\ cur.rec.job = store[cur.id].job
        /\ cur.rec.attempt \in store[cur.id].attempt..MaxAttempt
        /\ cur.rec.gen = None \/ cur.rec.attempt = store[cur.id].attempt
        /\ store[cur.id].gen = None => cur.rec.gen # None
    BY <1>3 DEF Rewriting
  <2>2. /\ cur.rec.job \in Jobs
        /\ JobStatus' = [JobStatus EXCEPT ![cur.rec.job] =
                           IF cur.rec.gen # None THEN "held" ELSE "waiting"]
        /\ JobAttempt' = [JobAttempt EXCEPT ![cur.rec.job] = cur.rec.attempt]
        /\ JobStatus[cur.rec.job] = IF store[cur.id].gen # None
                                    THEN "held" ELSE "waiting"
        /\ JobAttempt[cur.rec.job] = store[cur.id].attempt
    <3>1. PICK v \in Stored : v = cur.rec
      BY <1>1
    <3>2. /\ v.job \in Jobs
          /\ JobStatus' = [JobStatus EXCEPT ![v.job] =
                             IF v.gen # None THEN "held" ELSE "waiting"]
          /\ JobAttempt' = [JobAttempt EXCEPT ![v.job] = v.attempt]
          /\ JobStatus[v.job] = StatusAt(store, settled, v.job)
          /\ JobAttempt[v.job] = AttemptAt(store, v.job)
      BY <1>1, <2>1, <3>1, PutMoves
    <3>3. /\ StatusAt(store, settled, v.job) =
               IF store[cur.id].gen # None THEN "held" ELSE "waiting"
          /\ AttemptAt(store, v.job) = store[cur.id].attempt
      <4>1. cur.id \in DOMAIN store /\ v.job = store[cur.id].job /\ Apart(store)
        BY <1>1, <2>1, <3>1
      <4>2. /\ StatusAt(store, settled, store[cur.id].job) =
                 IF store[cur.id].gen # None THEN "held" ELSE "waiting"
            /\ AttemptAt(store, store[cur.id].job) = store[cur.id].attempt
        BY <4>1, StoredView
      <4>3. QED
        BY <4>1, <4>2
    <3>4. QED
      BY <3>1, <3>2, <3>3
  <2>3. CASE store[cur.id].gen = None
    <3>1. Ledger!Take(cur.rec.job)
      BY <2>1, <2>2, <2>3 DEF Ledger!Take, Ledger!Move
    <3>2. QED
      BY <2>2, <3>1 DEF Ledger!LedgerNext
  <2>4. CASE store[cur.id].gen # None /\ cur.rec.gen = None
    <3>1. Ledger!GiveBack(cur.rec.job)
      BY <2>1, <2>2, <2>4 DEF Ledger!GiveBack, Ledger!Move
    <3>2. QED
      BY <2>2, <3>1 DEF Ledger!LedgerNext
  <2>5. CASE store[cur.id].gen # None /\ cur.rec.gen # None
    <3>1. /\ JobStatus' = [JobStatus EXCEPT ![cur.rec.job] = JobStatus[cur.rec.job]]
          /\ JobAttempt' = [JobAttempt EXCEPT ![cur.rec.job] = JobAttempt[cur.rec.job]]
      BY <2>1, <2>2, <2>5
    <3>2. LedgerStays
      BY <3>1, LedgerView DEF LedgerStays
    <3>3. QED
      BY <3>2
  <2>6. QED
    BY <2>3, <2>4, <2>5
<1>4. CASE Removing
  <2>1. PICK j : j = store[cur.id].job
    OBVIOUS
  <2>2. /\ cur.id \in DOMAIN store /\ store[cur.id].gen # None /\ j \in Jobs
        /\ store' = Without(store, cur.id) /\ settled' = settled \cup {j}
    BY <1>1, <1>4, <2>1 DEF Removing, Stored
  <2>3. /\ Apart(store') /\ DOMAIN store' = DOMAIN store \ {cur.id}
        /\ \A k \in DOMAIN store' : store'[k] = store[k]
    BY <1>1, <2>2 DEF JobsApart, Apart, Without, Restrict
  <2>4. ~\E k \in DOMAIN store' : store'[k].job = j
    BY <1>1, <2>1, <2>2, <2>3 DEF Apart
  <2>5. StatusAt(store', settled', j) = "settled" /\ AttemptAt(store', j) = 0
    BY <2>2, <2>4 DEF StatusAt, AttemptAt
  <2>6. \A m \in Jobs \ {j} :
          /\ StatusAt(store', settled', m) = StatusAt(store, settled, m)
          /\ AttemptAt(store', m) = AttemptAt(store, m)
    <3>1. OnlyJob(store, settled, store', settled', cur.id, j)
      BY <2>1, <2>2, <2>3 DEF OnlyJob
    <3>2. QED
      BY <1>1, <2>3, <3>1, OthersAsBefore
  <2>7. StatusAt(store, settled, j) = "held"
    <3>1. /\ cur.id \in DOMAIN store /\ j = store[cur.id].job /\ Apart(store)
          /\ store[cur.id].gen # None
      BY <1>1, <2>1, <2>2
    <3>2. QED
      BY <3>1, StoredView
  <2>8. Ledger!Settle(j)
    <3>1. /\ JobStatus' = [JobStatus EXCEPT ![j] = "settled"]
          /\ JobAttempt' = [JobAttempt EXCEPT ![j] = 0]
          /\ JobStatus[j] = StatusAt(store, settled, j)
      BY <2>2, <2>5, <2>6, OneMoves
    <3>2. QED
      BY <2>7, <3>1 DEF Ledger!Settle, Ledger!Move
  <2>9. QED
    BY <2>2, <2>8 DEF Ledger!LedgerNext
<1>5. QED
  BY <1>2, <1>3, <1>4

\* hydrate takes a lost lease back: the job waits again.
LEMMA ClearMoves ==
  ASSUME RowsFit, StoreParts, LedgerParts, LedgerParts',
         NEW i \in DOMAIN store, HydrateClear(i)
  PROVE  Ledger!LedgerNext
<1>1. /\ JobsApart /\ JobsApart' /\ StoreTypeOK /\ Apart(store)
      /\ store[i] \in Stored
  BY LedgerTypes DEF LedgerParts, JobParts, JobsApart, Apart
<1>2. /\ store[i] = hyd.rows[i] /\ store[i].gen # None
      /\ store' = Put(store, i, Cleared(hyd.rows[i])) /\ settled' = settled
  BY DEF HydrateClear, StoreParts, LoadFits
<1>3. PICK v : v = Cleared(store[i])
  OBVIOUS
<1>4. /\ v \in Stored /\ v.gen = None /\ v.job = store[i].job
      /\ v.attempt = store[i].attempt /\ store' = Put(store, i, v)
  BY <1>1, <1>2, <1>3 DEF Cleared, Stored
<1>5. /\ v.job \in Jobs
      /\ JobStatus' = [JobStatus EXCEPT ![v.job] = "waiting"]
      /\ JobAttempt' = [JobAttempt EXCEPT ![v.job] = v.attempt]
      /\ JobStatus[v.job] = "held" /\ JobAttempt[v.job] = v.attempt
  <2>1. /\ v.job \in Jobs
        /\ JobStatus' = [JobStatus EXCEPT ![v.job] = "waiting"]
        /\ JobAttempt' = [JobAttempt EXCEPT ![v.job] = v.attempt]
        /\ JobStatus[v.job] = StatusAt(store, settled, v.job)
        /\ JobAttempt[v.job] = AttemptAt(store, v.job)
    BY <1>1, <1>2, <1>4, PutMoves
  <2>2. /\ StatusAt(store, settled, v.job) = "held"
        /\ AttemptAt(store, v.job) = v.attempt
    BY <1>1, <1>2, <1>4, StoredView
  <2>3. QED
    BY <2>1, <2>2
<1>6. v.attempt \in JobAttempt[v.job]..MaxAttempt
  BY <1>1, <1>4, <1>5 DEF JobsApart, Stored
<1>7. Ledger!GiveBack(v.job)
  BY <1>5, <1>6 DEF Ledger!GiveBack, Ledger!Move
<1>8. QED
  BY <1>5, <1>7 DEF Ledger!LedgerNext

\* No other step touches the store.
LEMMA OnlyWritesStore ==
  ASSUME Next, ~StoreApplies, \A i \in DOMAIN store : ~HydrateClear(i)
  PROVE  UNCHANGED <<store, settled>>
<1>1. CASE Calls
  BY <1>1 DEF Calls, Enqueue, Claim, Ack, Release, Reschedule, ExtendLease,
     LeaseOp, storeVars
<1>2. CASE Begins
  BY <1>2 DEF Begins, BeginEnqueue, BeginLeaseOp, BeginClaim, BeginExpire, storeVars
<1>3. CASE Finishes
  BY <1>3 DEF Finishes, FinishEnqueue, FinishRefused, FinishAck, FinishReturn,
     FinishExtend, FinishClaim, ClaimRefused, ReclaimThenClaim, ReclaimThenLoop,
     ReclaimRefused, storeVars
<1>4. CASE StoreRefuses \/ ReaderPromotes \/ DelayTimerFires \/ LeaseTimerFires
           \/ Crash \/ Tick
  BY <1>4 DEF StoreRefuses, ReaderPromotes, DelayTimerFires, LeaseTimerFires,
     Crash, Tick, storeVars
<1>5. CASE Hydrates
  BY <1>5 DEF Hydrates, HydrateStart, HydrateRejects, HydrateLoad,
     HydrateRefused, HydrateInstall, storeVars
<1>6. QED
  BY <1>1, <1>2, <1>3, <1>4, <1>5 DEF Next

\* The queue keeps the promise of JobLedger: each of its steps, the crashes and
\* the recoveries too, is a step of the ledger read off the store, or none.
THEOREM ImplementsLedger ==
  ASSUME ~LiveHydrate
  PROVE  Spec => KeepsLedger
<1>1. Init => Ledger!LedgerInit
  <2> SUFFICES ASSUME Init PROVE Ledger!LedgerInit
    OBVIOUS
  <2>1. DOMAIN store = {} /\ settled = {}
    BY DEF Init, EmptyMap
  <2>2. \A j \in Jobs : StatusAt(store, settled, j) = "new" /\ AttemptAt(store, j) = 0
    BY <2>1 DEF StatusAt, AttemptAt
  <2>3. QED
    BY <2>2, LedgerView DEF Ledger!LedgerInit
<1>2. /\ CoreRows /\ StoreParts /\ LedgerParts /\ LedgerParts' /\ [Next]_vars
      => [Ledger!LedgerNext]_(Ledger!ledger)
  <2> SUFFICES ASSUME CoreRows, StoreParts, LedgerParts, LedgerParts',
                      [Next]_vars
               PROVE  Ledger!LedgerNext \/ LedgerStays
    BY DEF Ledger!ledger, LedgerStays
  <2> RowsFit /\ CoreAtHead
    BY CoreHead
  <2>1. CASE StoreApplies
    <3>1. cur # Idle
      BY <2>1 DEF StoreApplies, Idle
    <3>2. QED
      BY <2>1, <3>1, Written, WriteMoves, QueueAssumption
  <2>2. ASSUME NEW i \in DOMAIN store, HydrateClear(i)
        PROVE  Ledger!LedgerNext
    BY <2>2, ClearMoves
  <2>3. CASE UNCHANGED vars
    BY <2>3, StoreKeepsLedger DEF vars, storeVars
  <2>4. QED
    BY <2>1, <2>2, <2>3, OnlyWritesStore, StoreKeepsLedger
<1>3. LedgerInvariant => LedgerParts
  BY DEF LedgerInvariant, LeaseInvariant, LedgerParts, JobParts, OneNumbering, OwnLease
<1>4. QED
  BY <1>1, <1>2, <1>3, LedgerHolds, StorePartsHold, PTL
  DEF Spec, KeepsLedger, Ledger!LedgerSpec
=============================================================================
