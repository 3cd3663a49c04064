-------------------------- MODULE WorkerPump_proofs --------------------------
(***************************************************************************)
(* Safety of WorkerPump for any rows, concurrency and environment: no row  *)
(* is stranded by a lost wakeup, slots are counted, no lease is forgotten. *)
(***************************************************************************)
EXTENDS WorkerPump, FiniteSetTheorems, TLAPS

PumpStates == {"off", "claim", "leased", "empty", "refused"}

\* The claims on chain c fit the pump's state p.
OneClaim(c, p) ==
  /\ \A i \in DOMAIN c : c[i].kind = "claim" => p = "claim"
  /\ \A i, k \in DOMAIN c : c[i].kind = "claim" /\ c[k].kind = "claim" => i = k

ClaimOp == [kind |-> "claim"]

\* What Kick and Announce do with chain c.
Kicked(run, act, c) ==
  /\ \/ pump' = pump /\ chain' = c
     \/ pump = "off" /\ pump' = "claim" /\ chain' = Append(c, ClaimOp)
        /\ run /\ act < Concurrency
  /\ run /\ act < Concurrency => pump' # "off" /\ (pump # "off" => pumpAgain')
  /\ pumpAgain' \in BOOLEAN

LEMMA OpKinds ==
  ASSUME NEW x \in Op
  PROVE  x.kind \in {"enqueue", "claim", "flush"} \cup Settlements
BY DEF Op, Settlements

LEMMA ClaimIsOp == ClaimOp \in Op
BY DEF ClaimOp, Op

\* A call that is not a claim joins the chain.
LEMMA OneClaimAppend ==
  ASSUME NEW c \in Seq(Op), NEW x, x.kind # "claim", NEW p, OneClaim(c, p)
  PROVE  OneClaim(Append(c, x), p)
<1>1. /\ DOMAIN Append(c, x) = DOMAIN c \cup {Len(c) + 1}
      /\ Append(c, x)[Len(c) + 1] = x
      /\ \A i \in DOMAIN c : Append(c, x)[i] = c[i]
  OBVIOUS
<1>2. QED
  BY <1>1 DEF OneClaim

\* The pump's claim joins the chain.
LEMMA OneClaimNew ==
  ASSUME NEW c \in Seq(Op), NEW p, p # "claim", OneClaim(c, p)
  PROVE  OneClaim(Append(c, ClaimOp), "claim")
<1>1. /\ DOMAIN Append(c, ClaimOp) = DOMAIN c \cup {Len(c) + 1}
      /\ \A i \in DOMAIN c : Append(c, ClaimOp)[i] = c[i]
  OBVIOUS
<1>2. \A i \in DOMAIN c : c[i].kind # "claim"
  BY DEF OneClaim
<1>3. QED
  BY <1>1, <1>2 DEF OneClaim

\* The first operation leaves the chain; no claim is left when it was one.
LEMMA OneClaimTail ==
  ASSUME NEW c \in Seq(Op), c # <<>>, NEW p, OneClaim(c, p)
  PROVE  /\ Tail(c) \in Seq(Op)
         /\ OneClaim(Tail(c), p)
         /\ Head(c).kind = "claim" => \A q : OneClaim(Tail(c), q)
<1>1. /\ Tail(c) \in Seq(Op) /\ Head(c) = c[1] /\ 1 \in DOMAIN c
      /\ \A i \in DOMAIN Tail(c) : i + 1 \in DOMAIN c /\ Tail(c)[i] = c[i + 1]
                                   /\ i \in Nat \ {0}
  OBVIOUS
<1>2. ASSUME NEW i \in DOMAIN Tail(c), NEW k \in DOMAIN Tail(c),
             Tail(c)[i].kind = "claim", Tail(c)[k].kind = "claim"
      PROVE  i = k
  <2>1. i + 1 = k + 1
    BY <1>1, <1>2 DEF OneClaim
  <2>2. QED
    BY <1>1, <2>1
<1>3. ASSUME Head(c).kind = "claim", NEW i \in DOMAIN Tail(c)
      PROVE  Tail(c)[i].kind # "claim"
  <2>1. c[i + 1].kind = "claim" => i + 1 = 1
    BY <1>1, <1>3 DEF OneClaim
  <2>2. QED
    BY <1>1, <2>1
<1>4. \A i \in DOMAIN Tail(c) : Tail(c)[i].kind = "claim" => p = "claim"
  BY <1>1 DEF OneClaim
<1>5. QED
  BY <1>1, <1>2, <1>3, <1>4 DEF OneClaim

\* pump() asks for a claim, or leaves a note for the one in progress.
LEMMA KickFacts ==
  ASSUME NEW run \in BOOLEAN, NEW act, NEW c, Kick(run, act, c)
  PROVE  Kicked(run, act, c)
BY DEF Kick, Kicked, MayClaim, ClaimNext, ClaimOp

LEMMA AnnounceFacts ==
  ASSUME NEW c, Announce(c), running \in BOOLEAN, pumpAgain \in BOOLEAN
  PROVE  Kicked(running, active, c)
<1>1. CASE running
  BY <1>1, KickFacts DEF Announce
<1>2. CASE ~running
  BY <1>2 DEF Announce, Kicked, pumpVars
<1>3. QED
  BY <1>1, <1>2

\* The chain and the pump after a step that kicks the pump.
LEMMA KickedClaims ==
  ASSUME NEW run, NEW act, NEW c \in Seq(Op), Kicked(run, act, c),
         pump \in PumpStates, OneClaim(c, pump)
  PROVE  chain' \in Seq(Op) /\ pump' \in PumpStates /\ OneClaim(chain', pump')
<1>1. CASE pump' = pump /\ chain' = c
  BY <1>1
<1>2. CASE pump = "off" /\ pump' = "claim" /\ chain' = Append(c, ClaimOp)
  BY <1>2, OneClaimNew, ClaimIsOp DEF PumpStates
<1>3. QED
  BY <1>1, <1>2 DEF Kicked
-----------------------------------------------------------------------------
\* No delivery appears, goes or starts.
SameDeliveries ==
  /\ genSeq' = genSeq /\ DOMAIN work' = DOMAIN work
  /\ \A g \in DOMAIN work : (work'[g].pc = "claimed") = (work[g].pc = "claimed")

LEMMA SameStays ==
  UNCHANGED <<genSeq, work>> => SameDeliveries
BY DEF SameDeliveries

LEMMA SlotsStay ==
  ASSUME SlotsCounted, SameDeliveries, active' = active
  PROVE  SlotsCounted'
<1>1. Started' = Started
  BY DEF Started, SameDeliveries
<1>2. QED
  BY <1>1 DEF SlotsCounted

\* After a step that kicks the pump, whatever rows became ready are seen.
LEMMA ClaimsKicked ==
  ASSUME pump \in PumpStates, ClaimInProgress, NEW c \in Seq(Op), OneClaim(c, pump),
         Kicked(running', active, c), SameDeliveries, active' = active
  PROVE  /\ chain' \in Seq(Op) /\ pump' \in PumpStates /\ pumpAgain' \in BOOLEAN
         /\ ClaimInProgress' /\ NoStrandedRow'
<1>1. chain' \in Seq(Op) /\ pump' \in PumpStates /\ OneClaim(chain', pump')
  BY KickedClaims
<1>2. pumpAgain' \in BOOLEAN
  BY DEF Kicked
<1>3. NoStrandedRow'
  BY DEF Kicked, NoStrandedRow
<1>4. pump' # "off" => active' < Concurrency
  BY DEF Kicked, ClaimInProgress
<1>5. running' /\ pump' = "empty" => pumpAgain'
  BY DEF Kicked, ClaimInProgress
<1>6. pump' = "leased" <=> pump = "leased"
  BY DEF Kicked
<1>7. QED
  BY <1>1, <1>2, <1>3, <1>4, <1>5, <1>6
  DEF ClaimInProgress, OneClaim, SameDeliveries

\* After a step that leaves the pump alone and makes no row ready.
LEMMA ClaimsStay ==
  ASSUME pump \in PumpStates, pumpAgain \in BOOLEAN, ClaimInProgress, NoStrandedRow,
         chain' \in Seq(Op), OneClaim(chain', pump), UNCHANGED pumpVars,
         running' => running, active' = active, SameDeliveries,
         In("ready")' \subseteq In("ready")
  PROVE  /\ pump' \in PumpStates /\ pumpAgain' \in BOOLEAN
         /\ ClaimInProgress' /\ NoStrandedRow'
<1>1. pump' = pump /\ pumpAgain' = pumpAgain
  BY DEF pumpVars
<1>2. NoStrandedRow'
  BY <1>1 DEF NoStrandedRow
<1>3. QED
  BY <1>1, <1>2 DEF ClaimInProgress, OneClaim, SameDeliveries

\* Leases are only given back, and the deliveries that hold the others go on
\* or are noted as leaked.
LEMMA OwnersStay ==
  ASSUME LeaseOwners,
         \A r \in Rows : place'[r] = "leased" => place[r] = "leased" /\ holder'[r] = holder[r],
         \A r \in Rows : holder'[r] \in {0, holder[r]},
         leaked \subseteq leaked',
         \A r \in Rows : holder'[r] # 0 /\ holder[r] \in DOMAIN work =>
           \/ holder[r] \in leaked'
           \/ /\ holder[r] \in DOMAIN work'
              /\ work'[holder[r]].row = work[holder[r]].row
              /\ work[holder[r]].reply \in {"none", "refused"}
                    => work'[holder[r]].reply \in {"none", "refused"}
  PROVE  LeaseOwners'
<1>1. \A r \in Rows : place'[r] = "leased" => holder'[r] # 0
  BY DEF LeaseOwners, In
<1>2. ASSUME NEW r \in Rows, holder'[r] # 0
      PROVE  \/ holder'[r] \in leaked'
             \/ /\ holder'[r] \in DOMAIN work' /\ work'[holder'[r]].row = r
                /\ work'[holder'[r]].reply \in {"none", "refused"}
  <2>1. holder'[r] = holder[r] /\ holder[r] # 0
    BY <1>2
  <2>2. QED
    BY <1>2, <2>1 DEF LeaseOwners
<1>3. QED
  BY <1>1, <1>2 DEF LeaseOwners, In

LEMMA OwnersUntouched ==
  ASSUME LeaseOwners, UNCHANGED <<holder, work, leaked>>,
         \A r \in Rows : place'[r] = "leased" => place[r] = "leased"
  PROVE  LeaseOwners'
BY OwnersStay

LEMMA LateStays ==
  ASSUME LateHandlers, late' = late, running' => running, pump = "off" => pump' = "off"
  PROVE  LateHandlers'
BY DEF LateHandlers

\* A kick of a worker that runs, or that does not claim.
LEMMA LateKicked ==
  ASSUME LateHandlers, late' = late, running' = running, NEW act, NEW c,
         Kicked(running, act, c)
  PROVE  LateHandlers'
BY DEF LateHandlers, Kicked
-----------------------------------------------------------------------------
(* The parts of TypeOK and the other conjuncts, as the steps use them.      *)

WorldTypes ==
  /\ place \in [Rows -> Places] /\ holder \in [Rows -> Nat] /\ genSeq \in Nat
  /\ failures \in Nat /\ expiries \in Nat /\ requeues \in Nat /\ stops \in Nat
  /\ late \in Nat /\ silent \in BOOLEAN /\ leaked \subseteq Nat

WorkTypes ==
  DOMAIN work \subseteq 1..genSeq /\ work \in [DOMAIN work -> Delivery]

CallerTypes ==
  /\ stopper \in [pc : {"none", "waiting", "checking", "flushing", "resolved",
                       "rejected"}, flush : BOOLEAN]
  /\ idler \in {"none", "waiting", "resolved", "rejected"}

PumpTypes ==
  /\ chain \in Seq(Op) /\ pump \in PumpStates /\ pumpAgain \in BOOLEAN
  /\ running \in BOOLEAN /\ active \in Nat

LEMMA TypesSplit ==
  TypeOK <=> WorldTypes /\ WorkTypes /\ CallerTypes /\ PumpTypes
BY DEF TypeOK, WorldTypes, WorkTypes, CallerTypes, PumpTypes, PumpStates

LEMMA TypesSplitNext ==
  TypeOK' <=> WorldTypes' /\ WorkTypes' /\ CallerTypes' /\ PumpTypes'
BY DEF TypeOK, WorldTypes, WorkTypes, CallerTypes, PumpTypes, PumpStates

LEMMA Parts ==
  ASSUME PumpInvariant
  PROVE  /\ WorldTypes /\ WorkTypes /\ CallerTypes /\ PumpTypes
         /\ NoStrandedRow /\ SlotsCounted /\ ClaimInProgress /\ LeaseOwners
         /\ LateHandlers /\ OneClaim(chain, pump)
BY TypesSplit DEF PumpInvariant, ClaimInProgress, OneClaim

LEMMA WorldStays ==
  WorldTypes /\ UNCHANGED <<queueVars, envVars, histVars>> => WorldTypes'
BY DEF WorldTypes, queueVars, envVars, histVars

LEMMA WorkStays == WorkTypes /\ UNCHANGED <<genSeq, work>> => WorkTypes'
BY DEF WorkTypes

LEMMA CallersStay == CallerTypes /\ UNCHANGED <<stopper, idler>> => CallerTypes'
BY DEF CallerTypes
-----------------------------------------------------------------------------
(* The callers' steps.                                                     *)

\* gracefulStop, whenIdle, stop and their continuations make no row ready.
LEMMA CallersKeep ==
  ASSUME PumpInvariant,
         \/ Stop \/ WhenIdle \/ StopperChecks \/ StopTimesOut \/ IdleTimesOut
         \/ FlushDone
         \/ \E flush \in BOOLEAN : GracefulStop(flush)
  PROVE  PumpInvariant'
<1> USE Parts
<1> DEFINE mark == [kind |-> "flush"]
           Frame ==
             /\ UNCHANGED <<queueVars, pumpVars, active, work, leaked, silent>>
             /\ running' = running \/ running' = FALSE
             /\ late' = late \/ late' = 0
             /\ failures' = failures /\ expiries' = expiries /\ requeues' = requeues
             /\ stops' \in Nat
             /\ \/ chain' = chain \/ chain' = Append(chain, mark)
                \/ chain # <<>> /\ chain' = Tail(chain)
             /\ CallerTypes'
<1>0. stops \in Nat /\ CallerTypes /\ stopper.flush \in BOOLEAN
  BY DEF CallerTypes, WorldTypes
<1>1. Frame
  <2>1. CASE Stop
    <3>1. CallerTypes' /\ running' = FALSE /\ stops' \in Nat
      BY <1>0, <2>1 DEF Stop, CallsStop, CallerTypes
    <3>2. QED
      BY <2>1, <3>1 DEF Stop, histVars
  <2>2. CASE WhenIdle
    BY <1>0, <2>2 DEF WhenIdle, CallsStop, CallerTypes, histVars
  <2>3. CASE StopperChecks
    <3>1. CallerTypes'
      BY <1>0, <2>3 DEF StopperChecks, Settle, CallerTypes
    <3>2. chain' = chain \/ chain' = Append(chain, mark)
      BY <2>3 DEF StopperChecks, Settle
    <3>3. QED
      BY <1>0, <2>3, <3>1, <3>2 DEF StopperChecks, envVars, histVars
  <2>4. CASE StopTimesOut
    BY <1>0, <2>4 DEF StopTimesOut, CallerTypes, envVars, histVars
  <2>5. CASE IdleTimesOut
    BY <1>0, <2>5 DEF IdleTimesOut, CallerTypes, envVars, histVars
  <2>6. CASE FlushDone
    BY <1>0, <2>6 DEF FlushDone, Starting, CallerTypes, envVars, histVars
  <2>7. ASSUME NEW flush \in BOOLEAN, GracefulStop(flush)
        PROVE  Frame
    <3>1. CallerTypes'
      BY <1>0, <2>7 DEF GracefulStop, Settle, CallerTypes
    <3>2. chain' = chain \/ chain' = Append(chain, mark)
      BY <2>7 DEF GracefulStop, Settle
    <3>3. QED
      BY <1>0, <2>7, <3>1, <3>2 DEF GracefulStop, CallsStop
  <2>8. QED
    BY <2>1, <2>2, <2>3, <2>4, <2>5, <2>6, <2>7
<1>2. /\ mark \in Op /\ mark.kind # "claim"
      /\ chain \in Seq(Op) /\ OneClaim(chain, pump)
  BY DEF Op, PumpTypes
<1> HIDE DEF mark
<1>3. chain' \in Seq(Op) /\ OneClaim(chain', pump)
  <2>1. CASE chain' = chain
    BY <1>2, <2>1
  <2>2. CASE chain' = Append(chain, mark)
    BY <1>2, <2>2, OneClaimAppend
  <2>3. CASE chain # <<>> /\ chain' = Tail(chain)
    BY <1>2, <2>3, OneClaimTail
  <2>4. QED
    BY <1>1, <2>1, <2>2, <2>3
<1>4. CallerTypes' /\ running' \in BOOLEAN /\ (running' => running)
  <2>1. running \in BOOLEAN /\ CallerTypes' /\ (running' = running \/ running' = FALSE)
    BY <1>1 DEF PumpTypes
  <2>2. CASE running' = running
    BY <2>1, <2>2
  <2>3. CASE running' = FALSE
    BY <2>1, <2>3
  <2>4. QED
    BY <2>1, <2>2, <2>3
<1>5. WorldTypes' /\ WorkTypes'
  BY <1>1, WorkStays DEF WorldTypes, queueVars
<1>6. SameDeliveries /\ In("ready")' \subseteq In("ready")
  BY <1>1, SameStays DEF queueVars, In
<1>7. ClaimInProgress' /\ NoStrandedRow' /\ PumpTypes'
  BY <1>1, <1>3, <1>4, <1>6, ClaimsStay DEF PumpTypes
<1>8. SlotsCounted'
  BY <1>1, <1>6, SlotsStay
<1>9. LeaseOwners'
  BY <1>1, OwnersUntouched DEF queueVars
<1>10. LateHandlers'
  BY <1>1, <1>4 DEF LateHandlers, pumpVars
<1>11. QED
  BY <1>4, <1>5, <1>7, <1>8, <1>9, <1>10, TypesSplitNext DEF PumpInvariant

LEMMA StartKeeps ==
  ASSUME PumpInvariant, Start
  PROVE  PumpInvariant'
<1> USE Parts
<1>1. /\ running' = TRUE /\ late' = 0 /\ active' = active
      /\ UNCHANGED <<queueVars, work, stopper, idler, envVars, leaked, silent>>
      /\ Kicked(running', active, chain)
  BY KickFacts DEF Start
<1>2. WorldTypes' /\ WorkTypes' /\ CallerTypes'
  BY <1>1, WorkStays, CallersStay DEF WorldTypes, queueVars, envVars
<1>3. SameDeliveries
  BY <1>1, SameStays DEF queueVars
<1>4. /\ chain' \in Seq(Op) /\ pump' \in PumpStates /\ pumpAgain' \in BOOLEAN
      /\ ClaimInProgress' /\ NoStrandedRow'
  BY <1>1, <1>3, ClaimsKicked DEF PumpTypes
<1>5. PumpTypes'
  BY <1>1, <1>4 DEF PumpTypes
<1>6. SlotsCounted' /\ LeaseOwners' /\ LateHandlers'
  BY <1>1, <1>3, SlotsStay, OwnersUntouched DEF queueVars, LateHandlers
<1>7. QED
  BY <1>2, <1>4, <1>5, <1>6, TypesSplitNext DEF PumpInvariant

LEMMA EnqueueKeeps ==
  ASSUME PumpInvariant, NEW r \in Rows, NEW later \in BOOLEAN, Enqueue(r, later)
  PROVE  PumpInvariant'
<1> USE Parts
<1> DEFINE op == [kind |-> "enqueue", row |-> r, later |-> later]
<1>1. /\ place' = [place EXCEPT ![r] = "enqueuing"] /\ chain' = Append(chain, op)
      /\ UNCHANGED <<holder, genSeq, running, active, pumpVars, work, stopper,
                     idler, envVars, histVars>>
  BY DEF Enqueue
<1>2. op \in Op /\ op.kind # "claim"
  BY DEF Op
<1> HIDE DEF op
<1>3. chain' \in Seq(Op) /\ OneClaim(chain', pump)
  BY <1>1, <1>2, OneClaimAppend DEF PumpTypes
<1>4. WorldTypes' /\ WorkTypes' /\ CallerTypes'
  BY <1>1, WorkStays, CallersStay DEF WorldTypes, envVars, histVars, Places
<1>5. SameDeliveries /\ In("ready")' \subseteq In("ready")
  BY <1>1, SameStays DEF In, WorldTypes
<1>6. ClaimInProgress' /\ NoStrandedRow' /\ PumpTypes'
  BY <1>1, <1>3, <1>5, ClaimsStay DEF PumpTypes
<1>7. SlotsCounted' /\ LateHandlers'
  BY <1>1, <1>5, SlotsStay, LateStays DEF histVars, pumpVars
<1>8. LeaseOwners'
  BY <1>1, OwnersUntouched DEF histVars, WorldTypes
<1>9. QED
  BY <1>4, <1>6, <1>7, <1>8, TypesSplitNext DEF PumpInvariant
-----------------------------------------------------------------------------
(* The queue's steps.                                                      *)

\* The operation at the head of the chain, and the chain without it.
LEMMA HeadOp ==
  ASSUME PumpInvariant, chain # <<>>
  PROVE  /\ Head(chain) \in Op
         /\ Tail(chain) \in Seq(Op) /\ OneClaim(Tail(chain), pump)
         /\ Head(chain).kind = "claim" =>
              pump = "claim" /\ \A q : OneClaim(Tail(chain), q)
<1>1. chain \in Seq(Op) /\ OneClaim(chain, pump)
  BY Parts DEF PumpTypes
<1>2. Head(chain) \in Op /\ 1 \in DOMAIN chain /\ Head(chain) = chain[1]
  BY <1>1
<1>3. QED
  BY <1>1, <1>2, OneClaimTail DEF OneClaim

\* Rows that become ready are announced to a running worker.
LEMMA AnnouncedKeeps ==
  ASSUME PumpInvariant, NEW c \in Seq(Op), OneClaim(c, pump), Announce(c),
         UNCHANGED <<genSeq, running, active, work, stopper, idler, leaked, late, silent>>,
         place' \in [Rows -> Places], holder' \in [Rows -> Nat],
         \A r \in Rows : place'[r] = "leased" => place[r] = "leased" /\ holder'[r] = holder[r],
         \A r \in Rows : holder'[r] \in {0, holder[r]},
         {failures', expiries', requeues', stops'} \subseteq Nat
  PROVE  PumpInvariant'
<1> USE Parts
<1>1. Kicked(running, active, c)
  BY AnnounceFacts DEF PumpTypes
<1>2. WorldTypes' /\ WorkTypes' /\ CallerTypes'
  BY WorkStays, CallersStay DEF WorldTypes
<1>3. SameDeliveries
  BY SameStays
<1>4. /\ chain' \in Seq(Op) /\ pump' \in PumpStates /\ pumpAgain' \in BOOLEAN
      /\ ClaimInProgress' /\ NoStrandedRow'
  BY <1>1, <1>3, ClaimsKicked DEF PumpTypes
<1>5. PumpTypes'
  BY <1>4 DEF PumpTypes
<1>6. SlotsCounted' /\ LateHandlers'
  BY <1>1, <1>3, SlotsStay, LateKicked
<1>7. LeaseOwners'
  BY OwnersStay
<1>8. QED
  BY <1>2, <1>4, <1>5, <1>6, <1>7, TypesSplitNext DEF PumpInvariant

LEMMA EnqueueStoredKeeps ==
  ASSUME PumpInvariant, EnqueueStored
  PROVE  PumpInvariant'
<1> USE Parts
<1>1. /\ chain # <<>> /\ Head(chain).kind = "enqueue" /\ Announce(Tail(chain))
      /\ place' = [place EXCEPT ![Head(chain).row] =
                    IF Head(chain).later THEN "delayed" ELSE "ready"]
      /\ UNCHANGED <<holder, genSeq, running, active, work, stopper, idler,
                     envVars, histVars>>
  BY DEF EnqueueStored, Starting
<1>2. Tail(chain) \in Seq(Op) /\ OneClaim(Tail(chain), pump)
  BY <1>1, HeadOp
<1>3. /\ place' \in [Rows -> Places]
      /\ \A r \in Rows : place'[r] = "leased" => place[r] = "leased"
  BY <1>1 DEF WorldTypes, Places
<1>4. {failures', expiries', requeues', stops'} \subseteq Nat
  BY <1>1 DEF WorldTypes, envVars
<1>5. /\ UNCHANGED <<leaked, late, silent>> /\ holder' \in [Rows -> Nat]
      /\ \A r \in Rows : holder'[r] = holder[r]
  BY <1>1 DEF WorldTypes, histVars
<1>6. QED
  BY <1>1, <1>2, <1>3, <1>4, <1>5, AnnouncedKeeps

LEMMA TimersKeep ==
  ASSUME PumpInvariant, Timers
  PROVE  PumpInvariant'
<1> USE Parts
<1>1. chain \in Seq(Op) /\ OneClaim(chain, pump)
  BY DEF PumpTypes
<1>2. ASSUME NEW r \in Rows, LeaseExpires(r)
      PROVE  PumpInvariant'
  <2>1. /\ place' = [place EXCEPT ![r] = "ready"] /\ holder' = [holder EXCEPT ![r] = 0]
        /\ expiries' = expiries + 1 /\ Announce(chain)
        /\ UNCHANGED <<genSeq, running, active, work, stopper, idler, failures,
                       requeues, stops, leaked, late, silent>>
    BY <1>2 DEF LeaseExpires, histVars
  <2>2. /\ place' \in [Rows -> Places] /\ holder' \in [Rows -> Nat]
        /\ {failures', expiries', requeues', stops'} \subseteq Nat
    BY <2>1 DEF WorldTypes, Places
  <2>3. /\ \A q \in Rows : place'[q] = "leased" => place[q] = "leased" /\ holder'[q] = holder[q]
        /\ \A q \in Rows : holder'[q] \in {0, holder[q]}
    BY <2>1 DEF WorldTypes
  <2>4. QED
    BY <1>1, <2>1, <2>2, <2>3, AnnouncedKeeps
<1>3. CASE DelayFires
  <2>1. PICK due \in SUBSET In("delayed") \ {{}} :
          place' = [r \in Rows |-> IF r \in due THEN "ready" ELSE place[r]]
    BY <1>3 DEF DelayFires
  <2>2. /\ Announce(chain)
        /\ UNCHANGED <<holder, genSeq, running, active, work, stopper, idler,
                       failures, expiries, requeues, stops, leaked, late, silent>>
    BY <1>3 DEF DelayFires, envVars, histVars
  <2>3. /\ place' \in [Rows -> Places] /\ holder' \in [Rows -> Nat]
        /\ {failures', expiries', requeues', stops'} \subseteq Nat
    BY <2>1, <2>2 DEF WorldTypes, Places
  <2>4. /\ \A q \in Rows : place'[q] = "leased" => place[q] = "leased" /\ holder'[q] = holder[q]
        /\ \A q \in Rows : holder'[q] \in {0, holder[q]}
    BY <2>1, <2>2 DEF WorldTypes
  <2>5. QED
    BY <1>1, <2>2, <2>3, <2>4, AnnouncedKeeps
<1>4. QED
  BY <1>2, <1>3 DEF Timers

\* An operation leaves the chain and makes no row ready.
LEMMA EnqueueRefusedKeeps ==
  ASSUME PumpInvariant, EnqueueRefused
  PROVE  PumpInvariant'
<1> USE Parts
<1>1. /\ chain # <<>> /\ chain' = Tail(chain) /\ failures' = failures + 1
      /\ place' = [place EXCEPT ![Head(chain).row] = "new"]
      /\ UNCHANGED <<holder, genSeq, running, active, pumpVars, work, stopper,
                     idler, expiries, requeues, stops, histVars>>
  BY DEF EnqueueRefused, Starting, Refusal, EndOp
<1>2. chain' \in Seq(Op) /\ OneClaim(chain', pump)
  BY <1>1, HeadOp
<1>3. WorldTypes' /\ WorkTypes' /\ CallerTypes'
  <2>1. place' \in [Rows -> Places]
    BY <1>1 DEF WorldTypes, Places
  <2>2. QED
    BY <1>1, <2>1, WorkStays, CallersStay DEF WorldTypes, histVars
<1>4. SameDeliveries /\ In("ready")' \subseteq In("ready")
  BY <1>1, SameStays DEF In, WorldTypes
<1>5. ClaimInProgress' /\ NoStrandedRow' /\ PumpTypes'
  BY <1>1, <1>2, <1>4, ClaimsStay DEF PumpTypes
<1>6. SlotsCounted' /\ LateHandlers'
  BY <1>1, <1>4, SlotsStay, LateStays DEF histVars, pumpVars
<1>7. LeaseOwners'
  BY <1>1, OwnersUntouched DEF histVars, WorldTypes
<1>8. QED
  BY <1>3, <1>5, <1>6, <1>7, TypesSplitNext DEF PumpInvariant

LEMMA BeginClaimKeeps ==
  ASSUME PumpInvariant, BeginClaim
  PROVE  PumpInvariant'
<1> USE Parts
<1>1. /\ chain # <<>> /\ Head(chain).kind = "claim"
      /\ UNCHANGED <<holder, genSeq, running, active, pumpAgain, work, stopper,
                     idler, envVars, histVars>>
  BY DEF BeginClaim, Starting
<1>2. pump = "claim" /\ \A q : OneClaim(Tail(chain), q)
  BY <1>1, HeadOp
<1>3. /\ place' \in [Rows -> Places] /\ In("ready")' \subseteq In("ready")
      /\ \A r \in Rows : place'[r] = "leased" => place[r] = "leased"
  BY DEF BeginClaim, WorldTypes, In, Places
<1>4. WorldTypes' /\ WorkTypes' /\ CallerTypes'
  BY <1>1, <1>3, WorkStays, CallersStay DEF WorldTypes, envVars, histVars
<1>5. SameDeliveries
  BY <1>1, SameStays
<1>6. SlotsCounted' /\ LeaseOwners'
  BY <1>1, <1>3, <1>5, SlotsStay, OwnersUntouched DEF histVars
<1>7. LateHandlers'
  BY <1>1, <1>2, LateStays DEF histVars
<1>8. CASE In("ready") = {}
  <2>1. pump' = "empty" /\ chain' = Tail(chain) /\ In("ready")' = {}
    BY <1>3, <1>8 DEF BeginClaim, EndOp
  <2>2. PumpTypes' /\ OneClaim(chain', pump')
    BY <1>1, <1>2, <2>1, HeadOp DEF PumpTypes, PumpStates
  <2>3. NoStrandedRow'
    BY <2>1 DEF NoStrandedRow
  <2>4. ClaimInProgress'
    BY <1>1, <1>2, <2>1, <2>2 DEF ClaimInProgress, OneClaim
  <2>5. QED
    BY <1>4, <1>6, <1>7, <2>2, <2>3, <2>4, TypesSplitNext DEF PumpInvariant
<1>9. CASE In("ready") # {}
  <2>1. chain' = chain /\ UNCHANGED pumpVars
    BY <1>1, <1>9 DEF BeginClaim, pumpVars
  <2>2. ClaimInProgress' /\ NoStrandedRow' /\ PumpTypes'
    BY <1>1, <1>3, <1>5, <2>1, ClaimsStay DEF PumpTypes
  <2>3. QED
    BY <1>4, <1>6, <1>7, <2>2, TypesSplitNext DEF PumpInvariant
<1>10. QED
  BY <1>8, <1>9

LEMMA ClaimRefusedKeeps ==
  ASSUME PumpInvariant, ClaimRefused
  PROVE  PumpInvariant'
<1> USE Parts
<1>1. /\ chain # <<>> /\ Head(chain).kind = "claim" /\ chain' = Tail(chain)
      /\ pump' = "refused" /\ failures' = failures + 1
      /\ UNCHANGED <<holder, genSeq, running, active, pumpAgain, work, stopper,
                     idler, expiries, requeues, stops, histVars>>
  BY DEF ClaimRefused, Starting, Refusal, EndOp
<1>2. pump = "claim" /\ chain' \in Seq(Op) /\ OneClaim(chain', pump')
  BY <1>1, HeadOp
<1>3. /\ place' \in [Rows -> Places]
      /\ \A r \in Rows : place'[r] = "leased" => place[r] = "leased"
  BY DEF ClaimRefused, WorldTypes, Places
<1>4. WorldTypes' /\ WorkTypes' /\ CallerTypes' /\ PumpTypes'
  BY <1>1, <1>2, <1>3, WorkStays, CallersStay
  DEF WorldTypes, histVars, PumpTypes, PumpStates
<1>5. NoStrandedRow' /\ ClaimInProgress'
  BY <1>1, <1>2 DEF NoStrandedRow, ClaimInProgress, OneClaim
<1>6. SlotsCounted' /\ LeaseOwners'
  BY <1>1, <1>3, SameStays, SlotsStay, OwnersUntouched DEF histVars
<1>7. LateHandlers'
  BY <1>1, <1>2, LateStays DEF histVars
<1>8. QED
  BY <1>4, <1>5, <1>6, <1>7, TypesSplitNext DEF PumpInvariant

LEMMA ClaimStoredKeeps ==
  ASSUME PumpInvariant, ClaimStored
  PROVE  PumpInvariant'
<1> USE Parts
<1>1. PICK r \in In("popped") :
        /\ place' = [place EXCEPT ![r] = "leased"]
        /\ holder' = [holder EXCEPT ![r] = genSeq']
        /\ work' = [g \in DOMAIN work \cup {genSeq'} |->
                     IF g = genSeq' THEN [row |-> r, pc |-> "claimed", reply |-> "none"]
                     ELSE work[g]]
  BY DEF ClaimStored
<1>2. /\ chain # <<>> /\ Head(chain).kind = "claim" /\ chain' = Tail(chain)
      /\ genSeq' = genSeq + 1 /\ pump' = "leased"
      /\ UNCHANGED <<running, active, pumpAgain, stopper, idler, envVars, histVars>>
  BY DEF ClaimStored, Starting, EndOp
<1>3. pump = "claim" /\ chain' \in Seq(Op) /\ OneClaim(chain', pump')
  BY <1>2, HeadOp
<1>4. genSeq' \in Nat \ {0} /\ genSeq' \notin DOMAIN work /\ r \in Rows
  BY <1>2 DEF WorkTypes, WorldTypes, In
<1>5. WorldTypes' /\ CallerTypes' /\ PumpTypes'
  BY <1>1, <1>2, <1>3, <1>4, CallersStay
  DEF WorldTypes, PumpTypes, PumpStates, envVars, histVars, Places
<1>6. WorkTypes'
  <2>1. DOMAIN work' \subseteq 1..genSeq'
    BY <1>1, <1>2, <1>4 DEF WorkTypes, WorldTypes
  <2>2. [row |-> r, pc |-> "claimed", reply |-> "none"] \in Delivery
    BY <1>4 DEF Delivery
  <2>3. \A g \in DOMAIN work' : work'[g] \in Delivery
    BY <1>1, <2>2 DEF WorkTypes
  <2>4. work' \in [DOMAIN work' -> Delivery]
    BY <1>1, <2>3
  <2>5. QED
    BY <2>1, <2>4 DEF WorkTypes
<1>7. /\ DOMAIN work' = DOMAIN work \cup {genSeq'} /\ work'[genSeq'].row = r
      /\ work'[genSeq'].pc = "claimed" /\ work'[genSeq'].reply = "none"
      /\ \A g \in DOMAIN work : work'[g] = work[g]
  BY <1>1, <1>4
<1>8. \A g \in DOMAIN work : work[g].pc # "claimed"
  BY <1>3 DEF ClaimInProgress
<1>9. NoStrandedRow' /\ ClaimInProgress'
  BY <1>2, <1>3, <1>7, <1>8 DEF NoStrandedRow, ClaimInProgress, OneClaim
<1>10. SlotsCounted'
  <2>1. Started' = Started
    BY <1>7 DEF Started
  <2>2. QED
    BY <1>2, <2>1 DEF SlotsCounted
<1>11. LeaseOwners'
  <2>1. holder'[r] = genSeq' /\ \A q \in Rows \ {r} : holder'[q] = holder[q]
    BY <1>1, <1>4 DEF WorldTypes
  <2>2. \A q \in In("leased")' : q = r \/ q \in In("leased")
    BY <1>1 DEF In, WorldTypes
  <2>3. leaked' = leaked
    BY <1>2 DEF histVars
  <2>4. \A q \in In("leased")' : holder'[q] # 0
    BY <1>4, <2>1, <2>2 DEF LeaseOwners, In
  <2>5. \A q \in Rows : holder'[q] # 0 =>
          \/ holder'[q] \in leaked'
          \/ /\ holder'[q] \in DOMAIN work' /\ work'[holder'[q]].row = q
             /\ work'[holder'[q]].reply \in {"none", "refused"}
    BY <1>7, <2>1, <2>3 DEF LeaseOwners
  <2>6. QED
    BY <2>4, <2>5 DEF LeaseOwners
<1>12. LateHandlers'
  BY <1>2, <1>3, LateStays DEF histVars
<1>13. QED
  BY <1>5, <1>6, <1>9, <1>10, <1>11, <1>12, TypesSplitNext DEF PumpInvariant

\* A settlement is answered: the delivery keeps its place, and a lease that
\* outlives the answer was not settled by it.
LEMMA SettlingFacts ==
  ASSUME PumpInvariant, NEW reply \in {"ok", "refused", "mismatch"}, Settling(reply)
  PROVE  /\ chain # <<>> /\ Tail(chain) \in Seq(Op) /\ OneClaim(Tail(chain), pump)
         /\ DOMAIN work' = DOMAIN work /\ WorkTypes' /\ SameDeliveries
         /\ \A g \in DOMAIN work : /\ work'[g].row = work[g].row
                                   /\ g # Head(chain).gen => work'[g] = work[g]
                                   /\ g = Head(chain).gen => work'[g].reply = reply
         /\ UNCHANGED <<genSeq, running, active, stopper, idler, expiries,
                        requeues, stops, leaked, late, silent>>
<1> USE Parts
<1>1. /\ chain # <<>> /\ work' = [work EXCEPT ![Head(chain).gen].reply = reply]
      /\ UNCHANGED <<genSeq, running, active, stopper, idler, expiries,
                     requeues, stops, leaked, late, silent>>
  BY DEF Settling, Starting, histVars
<1>2. Tail(chain) \in Seq(Op) /\ OneClaim(Tail(chain), pump)
  BY <1>1, HeadOp
<1>3. \A g \in DOMAIN work : work[g] \in Delivery
  BY DEF WorkTypes
<1>4. /\ DOMAIN work' = DOMAIN work
      /\ \A g \in DOMAIN work :
           work'[g] = IF g = Head(chain).gen THEN [work[g] EXCEPT !.reply = reply]
                      ELSE work[g]
  BY <1>1
<1>5. \A g \in DOMAIN work : work'[g] \in Delivery /\ work'[g].pc = work[g].pc
                             /\ work'[g].row = work[g].row
                             /\ (g = Head(chain).gen => work'[g].reply = reply)
  BY <1>3, <1>4 DEF Delivery
<1>6. work' = [g \in DOMAIN work' |-> work'[g]]
  BY <1>1
<1>7. WorkTypes'
  BY <1>1, <1>4, <1>5, <1>6 DEF WorkTypes
<1>8. SameDeliveries
  BY <1>1, <1>4, <1>5 DEF SameDeliveries
<1>9. QED
  BY <1>1, <1>2, <1>4, <1>5, <1>7, <1>8

\* The operation leaves the chain without making a row ready.
LEMMA SettledKeeps ==
  ASSUME PumpInvariant, NEW reply \in {"ok", "refused", "mismatch"}, Settling(reply),
         EndOp, UNCHANGED pumpVars, LeaseOwners',
         place' \in [Rows -> Places], holder' \in [Rows -> Nat], failures' \in Nat,
         In("ready")' \subseteq In("ready")
  PROVE  PumpInvariant'
<1> USE Parts, SettlingFacts
<1>1. WorldTypes' /\ WorkTypes' /\ CallerTypes' /\ SameDeliveries
  BY CallersStay DEF WorldTypes
<1>2. chain' \in Seq(Op) /\ OneClaim(chain', pump)
  BY DEF EndOp
<1>3. ClaimInProgress' /\ NoStrandedRow' /\ PumpTypes'
  BY <1>1, <1>2, ClaimsStay DEF PumpTypes
<1>4. SlotsCounted' /\ LateHandlers'
  BY <1>1, SlotsStay, LateStays DEF pumpVars
<1>5. QED
  BY <1>1, <1>3, <1>4, TypesSplitNext DEF PumpInvariant

LEMMA SettleMismatchKeeps ==
  ASSUME PumpInvariant, SettleMismatch
  PROVE  PumpInvariant'
<1> USE Parts
<1>1. Settling("mismatch") /\ ~Holds(Head(chain).gen) /\ EndOp
      /\ UNCHANGED <<place, holder, pumpVars, failures>>
  BY DEF SettleMismatch
<1>2. \A r \in Rows : holder[r] # 0 /\ holder[r] = Head(chain).gen => holder[r] \in leaked
  BY <1>1 DEF LeaseOwners, Holds
<1>3. LeaseOwners'
  BY <1>1, <1>2, SettlingFacts, OwnersStay DEF WorldTypes
<1>4. In("ready")' = In("ready")
  BY <1>1 DEF In
<1>5. QED
  BY <1>1, <1>3, <1>4, SettledKeeps DEF WorldTypes

LEMMA SettleRefusedKeeps ==
  ASSUME PumpInvariant, SettleRefused
  PROVE  PumpInvariant'
<1> USE Parts
<1>1. Settling("refused") /\ EndOp /\ failures' = failures + 1
      /\ UNCHANGED <<place, holder, pumpVars>>
  BY DEF SettleRefused, Refusal
<1>2. LeaseOwners'
  BY <1>1, SettlingFacts, OwnersStay DEF WorldTypes
<1>3. In("ready")' = In("ready")
  BY <1>1 DEF In
<1>4. QED
  BY <1>1, <1>2, <1>3, SettledKeeps DEF WorldTypes

LEMMA SettleStoredKeeps ==
  ASSUME PumpInvariant, SettleStored
  PROVE  PumpInvariant'
<1> USE Parts
<1> DEFINE g == Head(chain).gen
           r == work[g].row
           kind == Head(chain).kind
<1>1. /\ Settling("ok") /\ holder[r] = g /\ failures' = failures
      /\ place' = [place EXCEPT ![r] = CASE kind = "ack" -> "gone"
                                         [] kind = "later" -> "delayed"
                                         [] OTHER -> "ready"]
      /\ holder' = [holder EXCEPT ![r] = 0]
      /\ IF kind \in {"requeue", "release"} THEN Announce(Tail(chain))
         ELSE EndOp /\ UNCHANGED pumpVars
  BY DEF SettleStored, Holds
<1>2. \E p \in {"gone", "delayed", "ready"} :
        /\ place' = [place EXCEPT ![r] = p]
        /\ kind \notin {"requeue", "release"} => p # "ready"
  <2>1. kind \in Settlements
    BY <1>1 DEF Settling, Starting
  <2>2. CASE kind = "ack"
    BY <1>1, <2>2
  <2>3. CASE kind = "later"
    BY <1>1, <2>3
  <2>4. CASE kind \in {"requeue", "release"}
    BY <1>1, <2>4
  <2>5. QED
    BY <2>1, <2>2, <2>3, <2>4 DEF Settlements
<1> HIDE DEF g, r, kind
<1>3. /\ place' \in [Rows -> Places] /\ holder' \in [Rows -> Nat]
      /\ \A q \in Rows : place'[q] = "leased" => place[q] = "leased" /\ holder'[q] = holder[q]
      /\ \A q \in Rows : holder'[q] \in {0, holder[q]}
      /\ \A q \in Rows : holder'[q] # 0 => q # r
  BY <1>1, <1>2 DEF WorldTypes, Places
<1>4. \A q \in Rows \ {r} : holder[q] # 0 /\ holder[q] = g => g \in leaked
  BY DEF LeaseOwners, r
<1>5. /\ DOMAIN work' = DOMAIN work /\ leaked' = leaked
      /\ \A h \in DOMAIN work : /\ work'[h].row = work[h].row
                                /\ h # g => work'[h] = work[h]
  BY <1>1, SettlingFacts DEF g
<1>6. LeaseOwners'
  BY <1>3, <1>4, <1>5, OwnersStay
<1>7. CASE kind \in {"requeue", "release"}
  <2>1. Kicked(running, active, Tail(chain))
    BY <1>1, <1>7, AnnounceFacts DEF PumpTypes
  <2>2. /\ Tail(chain) \in Seq(Op) /\ OneClaim(Tail(chain), pump) /\ SameDeliveries
        /\ UNCHANGED <<running, active, late>> /\ WorldTypes' /\ WorkTypes' /\ CallerTypes'
    BY <1>1, <1>3, SettlingFacts, CallersStay DEF WorldTypes
  <2>3. /\ chain' \in Seq(Op) /\ pump' \in PumpStates /\ pumpAgain' \in BOOLEAN
        /\ ClaimInProgress' /\ NoStrandedRow'
    BY <2>1, <2>2, ClaimsKicked DEF PumpTypes
  <2>4. PumpTypes' /\ SlotsCounted' /\ LateHandlers'
    BY <2>1, <2>2, <2>3, SlotsStay, LateKicked DEF PumpTypes
  <2>5. QED
    BY <1>6, <2>2, <2>3, <2>4, TypesSplitNext DEF PumpInvariant
<1>8. CASE kind \notin {"requeue", "release"}
  <2>1. In("ready")' \subseteq In("ready")
    BY <1>2, <1>8 DEF In, WorldTypes
  <2>2. QED
    BY <1>1, <1>3, <1>6, <1>8, <2>1, SettledKeeps DEF WorldTypes
<1>9. QED
  BY <1>7, <1>8
-----------------------------------------------------------------------------
(* The pump's steps.                                                       *)

\* The pump's state goes on to p with chain c, and no row becomes ready.
LEMMA PumpGoesOn ==
  ASSUME PumpInvariant, pump \in {"leased", "empty", "refused"},
         NEW c \in Seq(Op), OneClaim(c, pump),
         \/ pump' = "claim" /\ chain' = Append(c, ClaimOp)
         \/ pump' = "off" /\ chain' = c
  PROVE  /\ chain' \in Seq(Op) /\ pump' \in PumpStates /\ OneClaim(chain', pump')
<1> USE Parts
<1>1. c \in Seq(Op) /\ OneClaim(c, pump) /\ pump # "claim"
  BY DEF PumpTypes
<1>2. CASE pump' = "claim" /\ chain' = Append(c, ClaimOp)
  BY <1>1, <1>2, OneClaimNew, ClaimIsOp DEF PumpStates
<1>3. CASE pump' = "off" /\ chain' = c
  BY <1>1, <1>3 DEF OneClaim, PumpStates
<1>4. QED
  BY <1>2, <1>3

LEMMA PumpGotNothingKeeps ==
  ASSUME PumpInvariant, PumpGotNothing
  PROVE  PumpInvariant'
<1> USE Parts
<1>1. /\ pump = "empty" /\ LoopEnds
      /\ UNCHANGED <<queueVars, running, active, work, stopper, idler, envVars,
                     histVars>>
  BY DEF PumpGotNothing
<1>2. /\ \/ pump' = "claim" /\ chain' = Append(chain, ClaimOp) /\ running
         \/ pump' = "off" /\ chain' = chain /\ (running => In("ready") = {})
      /\ pumpAgain' \in BOOLEAN /\ active < Concurrency
  BY <1>1 DEF LoopEnds, MayClaim, ClaimNext, ClaimOp, ClaimInProgress, PumpTypes
<1>3. chain' \in Seq(Op) /\ pump' \in PumpStates /\ OneClaim(chain', pump')
  BY <1>1, <1>2, PumpGoesOn DEF PumpTypes
<1>4. WorldTypes' /\ WorkTypes' /\ CallerTypes' /\ PumpTypes'
  BY <1>1, <1>2, <1>3, WorldStays, WorkStays, CallersStay DEF PumpTypes, queueVars
<1>5. SameDeliveries /\ In("ready")' = In("ready")
  BY <1>1, SameStays DEF queueVars, In
<1>6. NoStrandedRow' /\ ClaimInProgress'
  BY <1>1, <1>2, <1>3, <1>5
  DEF NoStrandedRow, ClaimInProgress, OneClaim, SameDeliveries
<1>7. SlotsCounted' /\ LeaseOwners'
  BY <1>1, <1>5, SlotsStay, OwnersUntouched DEF queueVars, histVars
<1>8. LateHandlers'
  BY <1>1, <1>2 DEF LateHandlers, histVars
<1>9. QED
  BY <1>4, <1>6, <1>7, <1>8, TypesSplitNext DEF PumpInvariant

LEMMA PumpFailedKeeps ==
  ASSUME PumpInvariant, PumpFailed
  PROVE  PumpInvariant'
<1> USE Parts
<1>1. /\ pump = "refused" /\ running' = FALSE /\ pump' = "off" /\ chain' = chain
      /\ UNCHANGED <<queueVars, active, pumpAgain, work, stopper, idler, envVars,
                     histVars>>
  BY DEF PumpFailed
<1>2. chain' \in Seq(Op) /\ pump' \in PumpStates /\ OneClaim(chain', pump')
  BY <1>1, PumpGoesOn DEF PumpTypes
<1>3. WorldTypes' /\ WorkTypes' /\ CallerTypes' /\ PumpTypes'
  BY <1>1, <1>2, WorldStays, WorkStays, CallersStay DEF PumpTypes, queueVars
<1>4. SameDeliveries
  BY <1>1, SameStays DEF queueVars
<1>5. NoStrandedRow' /\ ClaimInProgress'
  BY <1>1, <1>2, <1>4 DEF NoStrandedRow, ClaimInProgress, OneClaim, SameDeliveries
<1>6. SlotsCounted' /\ LeaseOwners'
  BY <1>1, <1>4, SlotsStay, OwnersUntouched DEF queueVars, histVars
<1>7. LateHandlers'
  BY <1>1 DEF LateHandlers, histVars
<1>8. QED
  BY <1>3, <1>5, <1>6, <1>7, TypesSplitNext DEF PumpInvariant

\* The deliveries that hold a slot are finitely many.
LEMMA StartedFinite ==
  ASSUME PumpInvariant
  PROVE  IsFiniteSet(Started)
<1>1. Started \subseteq 1..genSeq /\ genSeq \in Nat
  BY Parts DEF Started, WorkTypes, WorldTypes
<1>2. IsFiniteSet(1..genSeq)
  BY <1>1, FS_Interval
<1>3. QED
  BY <1>1, <1>2, FS_Subset

LEMMA PumpGotLeaseKeeps ==
  ASSUME PumpInvariant, PumpGotLease
  PROVE  PumpInvariant'
<1> USE Parts
<1>0. PICK o \in AtOnce :
        /\ work' = [work EXCEPT ![genSeq].pc = o.pc]
        /\ Requeues(o.calls)
        /\ IF MayClaim(running, active + 1)
           THEN ClaimNext(chain \o o.calls) /\ UNCHANGED pumpAgain
           ELSE /\ pump' = "off" /\ pumpAgain' = (pumpAgain /\ ~running)
                /\ chain' = chain \o o.calls
  BY DEF PumpGotLease
<1> DEFINE c == chain \o o.calls
<1>01. /\ o.pc \in {"handler", "acking", "recovering"}
       /\ \/ o.calls = <<>>
          \/ \E kind \in Settlements : o.calls = <<[kind |-> kind, gen |-> genSeq]>>
  BY DEF AtOnce, Settlements
<1>02. c \in Seq(Op) /\ OneClaim(c, pump)
  <2>1. CASE o.calls = <<>>
    <3>1. c = chain
      BY <2>1 DEF PumpTypes
    <3>2. QED
      BY <3>1 DEF PumpTypes
  <2>2. CASE \E kind \in Settlements : o.calls = <<[kind |-> kind, gen |-> genSeq]>>
    <3>1. PICK x : o.calls = <<x>> /\ x \in Op /\ x.kind # "claim"
      <4>1. PICK kind \in Settlements : o.calls = <<[kind |-> kind, gen |-> genSeq]>>
        BY <2>2
      <4>2. [kind |-> kind, gen |-> genSeq] \in Op /\ kind # "claim"
        BY DEF Op, Settlements, WorldTypes
      <4>3. QED
        BY <4>1, <4>2
    <3>2. c = Append(chain, x)
      BY <3>1 DEF PumpTypes
    <3>3. Append(chain, x) \in Seq(Op) /\ OneClaim(Append(chain, x), pump)
      BY <3>1, OneClaimAppend DEF PumpTypes
    <3>4. QED
      BY <3>2, <3>3
  <2>3. QED
    BY <1>01, <2>1, <2>2
<1> HIDE DEF c
<1>1. /\ pump = "leased" /\ active' = active + 1
      /\ work' = [work EXCEPT ![genSeq].pc = o.pc]
      /\ UNCHANGED <<queueVars, running, stopper, idler, failures, expiries, stops,
                     leaked, silent>>
      /\ requeues' \in Nat
      /\ \/ /\ pump' = "claim" /\ chain' = Append(c, ClaimOp)
            /\ running /\ active' < Concurrency
         \/ /\ pump' = "off" /\ chain' = c
            /\ ~(running /\ active' < Concurrency)
      /\ pumpAgain' \in BOOLEAN
      /\ late' \in {late, late + 1} /\ (running => late' = late)
  <2>1. requeues' \in Nat
    BY <1>0 DEF Requeues, WorldTypes
  <2>2. \/ /\ pump' = "claim" /\ chain' = Append(c, ClaimOp)
           /\ running /\ active + 1 < Concurrency
        \/ /\ pump' = "off" /\ chain' = c
           /\ ~(running /\ active + 1 < Concurrency)
    BY <1>0 DEF MayClaim, ClaimNext, ClaimOp, c
  <2>3. pumpAgain' \in BOOLEAN
    BY <1>0 DEF PumpTypes
  <2>4. QED
    BY <1>0, <2>1, <2>2, <2>3 DEF PumpGotLease
<1>2. chain' \in Seq(Op) /\ pump' \in PumpStates /\ OneClaim(chain', pump')
  BY <1>1, <1>02, PumpGoesOn
<1>3. /\ genSeq \in DOMAIN work /\ work[genSeq].pc = "claimed" /\ genSeq' = genSeq
      /\ \A g \in DOMAIN work : work[g] \in Delivery
      /\ \A g \in DOMAIN work : work[g].pc = "claimed" => g = genSeq
      /\ active < Concurrency
  BY <1>1 DEF ClaimInProgress, WorkTypes, queueVars
<1>4. /\ DOMAIN work' = DOMAIN work
      /\ \A g \in DOMAIN work :
           work'[g] = IF g = genSeq THEN [work[g] EXCEPT !.pc = o.pc] ELSE work[g]
  BY <1>1
<1>5. \A g \in DOMAIN work :
        /\ work'[g] \in Delivery /\ work'[g].row = work[g].row
        /\ work'[g].reply = work[g].reply
        /\ g # genSeq => work'[g] = work[g]
        /\ work'[g].pc # "claimed"
  BY <1>01, <1>3, <1>4 DEF Delivery
<1>6. late = 0 /\ late' \in Nat /\ late' <= 1 /\ (running => late' = 0)
  BY <1>1 DEF LateHandlers
<1>7. WorldTypes' /\ CallerTypes' /\ PumpTypes'
  BY <1>1, <1>2, <1>6, CallersStay DEF WorldTypes, PumpTypes, queueVars, envVars
<1>8. WorkTypes'
  <2>1. work' = [g \in DOMAIN work' |-> work'[g]]
    BY <1>1
  <2>2. QED
    BY <1>3, <1>4, <1>5, <2>1 DEF WorkTypes
<1>9. NoStrandedRow' /\ ClaimInProgress'
  <2>1. pump' # "off" => active' < Concurrency
    BY <1>1
  <2>2. running' /\ pump' = "off" => ~(active' < Concurrency)
    BY <1>1
  <2>3. pump' \notin {"empty", "leased"}
    BY <1>1
  <2>4. QED
    BY <1>2, <1>4, <1>5, <2>1, <2>2, <2>3 DEF NoStrandedRow, ClaimInProgress, OneClaim
<1>10. SlotsCounted'
  <2>1. Started' = Started \cup {genSeq} /\ genSeq \notin Started
    BY <1>3, <1>4, <1>5 DEF Started
  <2>2. Cardinality(Started') = Cardinality(Started) + 1
    BY <2>1, StartedFinite, FS_AddElement
  <2>3. active' <= Concurrency
    BY <1>1, <1>3, WorkerAssumption DEF PumpTypes
  <2>4. QED
    BY <1>1, <2>2, <2>3 DEF SlotsCounted
<1>11. LeaseOwners'
  BY <1>1, <1>4, <1>5, OwnersStay DEF queueVars, WorldTypes
<1>12. LateHandlers'
  BY <1>1, <1>6 DEF LateHandlers
<1>13. QED
  BY <1>7, <1>8, <1>9, <1>10, <1>11, <1>12, TypesSplitNext DEF PumpInvariant

LEMMA PumpsKeep ==
  ASSUME PumpInvariant, Pumps
  PROVE  PumpInvariant'
BY PumpGotLeaseKeeps, PumpGotNothingKeeps, PumpFailedKeeps DEF Pumps
-----------------------------------------------------------------------------
(* The deliveries' steps.                                                  *)

LEMMA CallsForKeeps ==
  ASSUME PumpInvariant, NEW g \in DOMAIN work, work[g].pc # "claimed",
         NEW kind \in Settlements,
         NEW pc \in Recovering \cup {"acking", "releasing"},
         CallsFor(g, kind, pc)
  PROVE  PumpInvariant'
<1> USE Parts
<1> DEFINE op == [kind |-> kind, gen |-> g]
<1>1. /\ chain' = Append(chain, op)
      /\ work' = [work EXCEPT ![g].pc = pc, ![g].reply = "none"]
      /\ requeues' \in {requeues, requeues + 1}
      /\ UNCHANGED <<queueVars, running, active, pumpVars, stopper, idler,
                     failures, expiries, stops, histVars>>
  BY DEF CallsFor, Requeues
<1>2. op \in Op /\ op.kind # "claim"
  BY DEF Op, Settlements, WorkTypes
<1> HIDE DEF op
<1>3. chain' \in Seq(Op) /\ OneClaim(chain', pump)
  BY <1>1, <1>2, OneClaimAppend DEF PumpTypes
<1>4. \A h \in DOMAIN work : work[h] \in Delivery
  BY DEF WorkTypes
<1>5. /\ DOMAIN work' = DOMAIN work
      /\ \A h \in DOMAIN work :
           work'[h] = IF h = g THEN [work[h] EXCEPT !.pc = pc, !.reply = "none"]
                      ELSE work[h]
  BY <1>1
<1>6. \A h \in DOMAIN work :
        /\ work'[h] \in Delivery /\ work'[h].row = work[h].row
        /\ h # g => work'[h] = work[h]
        /\ h = g => work'[h].pc # "claimed" /\ work'[h].reply = "none"
  BY <1>4, <1>5 DEF Delivery, Recovering
<1>7. WorkTypes'
  <2>1. work' = [h \in DOMAIN work' |-> work'[h]]
    BY <1>1
  <2>2. QED
    BY <1>1, <1>5, <1>6, <2>1 DEF WorkTypes, queueVars
<1>8. WorldTypes' /\ CallerTypes'
  BY <1>1, CallersStay DEF WorldTypes, queueVars, histVars
<1>9. SameDeliveries /\ In("ready")' \subseteq In("ready")
  BY <1>1, <1>5, <1>6 DEF SameDeliveries, queueVars, In
<1>10. ClaimInProgress' /\ NoStrandedRow' /\ PumpTypes'
  BY <1>1, <1>3, <1>9, ClaimsStay DEF PumpTypes
<1>11. SlotsCounted' /\ LateHandlers'
  BY <1>1, <1>9, SlotsStay, LateStays DEF histVars, pumpVars
<1>12. LeaseOwners'
  BY <1>1, <1>5, <1>6, OwnersStay DEF queueVars, histVars, WorldTypes
<1>13. QED
  BY <1>7, <1>8, <1>10, <1>11, <1>12, TypesSplitNext DEF PumpInvariant

\* A delivery that ends frees the slot it held, and a lease it still holds is
\* one whose last settlement the store refused.
LEMMA FinishItemKeeps ==
  ASSUME PumpInvariant, NEW g \in DOMAIN work, NEW event \in BOOLEAN,
         work[g].pc # "claimed", work[g].reply # "none",
         work[g].reply = "refused" => work[g].pc \in {"acking", "releasing"},
         FinishItem(g, event)
  PROVE  PumpInvariant'
<1> USE Parts
<1>1. /\ active' = active - 1 /\ work' = [h \in DOMAIN work \ {g} |-> work[h]]
      /\ IF pump = "off" THEN Kick(running, active - 1, chain)
         ELSE UNCHANGED <<pumpVars, chain>>
      /\ leaked' = IF work[g].reply = "refused" THEN leaked \cup {g} ELSE leaked
      /\ UNCHANGED <<queueVars, running, envVars, late>>
  BY DEF FinishItem
<1>2. /\ CallerTypes' /\ silent' \in BOOLEAN
  BY DEF FinishItem, CallerTypes, WorldTypes
<1>3. /\ DOMAIN work' = DOMAIN work \ {g}
      /\ \A h \in DOMAIN work \ {g} : work'[h] = work[h]
  BY <1>1
<1>4. WorldTypes' /\ WorkTypes'
  <2>1. g \in Nat
    BY DEF WorkTypes
  <2>2. work' \in [DOMAIN work' -> Delivery]
    BY <1>1 DEF WorkTypes
  <2>3. QED
    BY <1>1, <1>2, <1>3, <2>1, <2>2 DEF WorldTypes, WorkTypes, queueVars, envVars
<1>5. Cardinality(Started') = Cardinality(Started) - 1 /\ Cardinality(Started) >= 1
  <2>1. Started' = Started \ {g} /\ g \in Started
    BY <1>3 DEF Started
  <2>2. /\ IsFiniteSet(Started) /\ IsFiniteSet(Started') /\ Started = Started' \cup {g}
    BY <2>1, StartedFinite, FS_RemoveElement
  <2>3. Cardinality(Started) = Cardinality(Started') + 1 /\ Cardinality(Started') \in Nat
    BY <2>1, <2>2, FS_AddElement, FS_CardinalityType
  <2>4. QED
    BY <2>3
<1>6. active' \in Nat /\ active' < active /\ active' < Concurrency /\ SlotsCounted'
  BY <1>1, <1>5, WorkerAssumption DEF SlotsCounted, PumpTypes
<1>7. /\ \A h \in DOMAIN work' : (work'[h].pc = "claimed") => h = genSeq /\ pump = "leased"
      /\ pump = "leased" => genSeq \in DOMAIN work' /\ work'[genSeq].pc = "claimed"
  BY <1>3 DEF ClaimInProgress
<1>8. In("ready")' = In("ready") /\ genSeq' = genSeq
  BY <1>1 DEF In, queueVars
<1>9. LeaseOwners'
  <2>1. UNCHANGED <<place, holder>>
    BY <1>1 DEF queueVars
  <2>2. ASSUME NEW r \in Rows, holder[r] = g, g # 0
        PROVE  g \in leaked'
    BY <1>1, <2>2 DEF LeaseOwners
  <2>3. g # 0
    BY DEF WorkTypes, WorldTypes
  <2>4. QED
    BY <1>1, <1>3, <2>1, <2>2, <2>3, OwnersStay DEF WorldTypes
<1>10. CASE pump = "off"
  <2>1. Kicked(running, active', chain)
    BY <1>1, <1>10, KickFacts DEF PumpTypes
  <2>2. chain' \in Seq(Op) /\ pump' \in PumpStates /\ OneClaim(chain', pump')
    BY <2>1, KickedClaims DEF PumpTypes
  <2>3. PumpTypes'
    BY <1>1, <1>6, <2>1, <2>2 DEF PumpTypes, Kicked
  <2>4. NoStrandedRow'
    BY <1>1, <2>1 DEF NoStrandedRow, Kicked
  <2>5. ClaimInProgress'
    BY <1>6, <1>7, <1>8, <1>10, <2>1, <2>2 DEF ClaimInProgress, OneClaim, Kicked
  <2>6. LateHandlers'
    BY <1>1, <2>1, LateKicked
  <2>7. QED
    BY <1>2, <1>4, <1>6, <1>9, <2>3, <2>4, <2>5, <2>6, TypesSplitNext DEF PumpInvariant
<1>11. CASE pump # "off"
  <2>1. UNCHANGED <<pump, pumpAgain, chain, running>>
    BY <1>1, <1>11 DEF pumpVars
  <2>2. PumpTypes' /\ NoStrandedRow'
    BY <1>6, <1>11, <2>1 DEF PumpTypes, NoStrandedRow
  <2>3. ClaimInProgress'
    BY <1>6, <1>7, <1>8, <2>1 DEF ClaimInProgress
  <2>4. LateHandlers'
    BY <1>1, <2>1, LateStays
  <2>5. QED
    BY <1>2, <1>4, <1>6, <1>9, <2>2, <2>3, <2>4, TypesSplitNext DEF PumpInvariant
<1>12. QED
  BY <1>10, <1>11

LEMMA DeliveriesKeep ==
  ASSUME PumpInvariant, Deliveries
  PROVE  PumpInvariant'
<1>1. PICK g \in DOMAIN work : \/ HandlerSucceeds(g) \/ HandlerFails(g)
                               \/ RecoveryRefused(g) \/ Acked(g) \/ Recovered(g)
  BY DEF Deliveries
<1>2. CASE HandlerSucceeds(g) \/ HandlerFails(g) \/ RecoveryRefused(g)
  <2>1. /\ work[g].pc # "claimed"
        /\ \E kind \in Settlements,
              pc \in Recovering \cup {"acking", "releasing"} :
             CallsFor(g, kind, pc)
    BY <1>2 DEF HandlerSucceeds, HandlerFails, RecoveryRefused, Recovering, Settlements
  <2>2. QED
    BY <2>1, CallsForKeeps
<1>3. CASE Acked(g)
  BY <1>3, FinishItemKeeps DEF Acked
<1>4. CASE Recovered(g)
  BY <1>4, FinishItemKeeps DEF Recovered, Recovering
<1>5. QED
  BY <1>1, <1>2, <1>3, <1>4
-----------------------------------------------------------------------------
(* The specification.                                                      *)

LEMMA InitHolds == Init => PumpInvariant
<1> SUFFICES ASSUME Init PROVE PumpInvariant
  OBVIOUS
<1>1. /\ place = [r \in Rows |-> "new"] /\ holder = [r \in Rows |-> 0] /\ genSeq = 0
      /\ chain = <<>> /\ running = FALSE /\ active = 0 /\ pumpAgain = FALSE
      /\ pump = "off" /\ work = <<>>
      /\ stopper = [pc |-> "none", flush |-> FALSE] /\ idler = "none"
      /\ failures = 0 /\ expiries = 0 /\ requeues = 0 /\ stops = 0
      /\ leaked = {} /\ late = 0 /\ silent = FALSE
  BY DEF Init
<1>2. DOMAIN work = {} /\ DOMAIN chain = {} /\ chain \in Seq(Op)
  BY <1>1
<1>3. WorldTypes /\ CallerTypes /\ PumpTypes
  BY <1>1, <1>2 DEF WorldTypes, CallerTypes, PumpTypes, PumpStates, Places
<1>4. WorkTypes
  <2>1. work = [g \in {} |-> g]
    BY <1>1
  <2>2. work \in [{} -> Delivery]
    BY <2>1
  <2>3. QED
    BY <1>2, <2>2 DEF WorkTypes
<1>5. SlotsCounted
  <2>1. Started = {}
    BY <1>2 DEF Started
  <2>2. QED
    BY <1>1, <2>1, FS_EmptySet, WorkerAssumption DEF SlotsCounted
<1>6. NoStrandedRow /\ ClaimInProgress /\ LeaseOwners /\ LateHandlers
  BY <1>1, <1>2 DEF NoStrandedRow, ClaimInProgress, LeaseOwners, LateHandlers, In
<1>7. QED
  BY <1>3, <1>4, <1>5, <1>6, TypesSplit DEF PumpInvariant

LEMMA UnchangedKeeps == PumpInvariant /\ UNCHANGED vars => PumpInvariant'
BY DEF PumpInvariant, TypeOK, NoStrandedRow, SlotsCounted, ClaimInProgress,
   LeaseOwners, LateHandlers, Started, In, vars, queueVars, pumpVars, envVars,
   histVars

LEMMA StepKeeps == PumpInvariant /\ [Next]_vars => PumpInvariant'
<1> SUFFICES ASSUME PumpInvariant, [Next]_vars PROVE PumpInvariant'
  OBVIOUS
<1>1. CASE Pumps
  BY <1>1, PumpsKeep
<1>2. CASE Callers \/ StopperChecks \/ Timeouts
  BY <1>2, EnqueueKeeps, StartKeeps, CallersKeep DEF Callers, Timeouts
<1>3. CASE Deliveries
  BY <1>3, DeliveriesKeep
<1>4. CASE QueueSteps
  BY <1>4, EnqueueStoredKeeps, EnqueueRefusedKeeps, BeginClaimKeeps,
     ClaimStoredKeeps, ClaimRefusedKeeps, SettleMismatchKeeps,
     SettleRefusedKeeps, SettleStoredKeeps, CallersKeep DEF QueueSteps
<1>5. CASE Timers
  BY <1>5, TimersKeep
<1>6. QED
  BY <1>1, <1>2, <1>3, <1>4, <1>5, UnchangedKeeps DEF Next

\* The inductive invariant of the worker holds for any rows and concurrency.
THEOREM PumpSafe == Spec => []PumpInvariant
BY InitHolds, StepKeeps, PTL DEF Spec

\* Every variable keeps its type; activeCount() is never negative.
THEOREM WorkerTypeCorrect == Spec => []TypeOK
<1>1. PumpInvariant => TypeOK
  BY DEF PumpInvariant
<1>2. QED
  BY <1>1, PumpSafe, PTL

\* No wakeup is lost: a row that becomes ready while pumpAsync awaits a claim, or
\* while its last claim finds nothing, is seen before the pump rests.
THEOREM NoLostWakeup == Spec => []NoStrandedRow
<1>1. PumpInvariant => NoStrandedRow
  BY DEF PumpInvariant
<1>2. QED
  BY <1>1, PumpSafe, PTL

\* activeCount() is the number of deliveries in progress and stays within
\* options.concurrency, however deliveries end.
THEOREM SlotsAreCounted == Spec => []SlotsCounted
<1>1. PumpInvariant => SlotsCounted
  BY DEF PumpInvariant
<1>2. QED
  BY <1>1, PumpSafe, PTL

\* No lease is forgotten: a leased row is worked on, unless the store refused
\* the last settlement of its delivery.
THEOREM NoLeaseForgotten == Spec => []LeasesAreWorked
<1>1. PumpInvariant => LeasesAreWorked
  BY DEF PumpInvariant, LeaseOwners, LeasesAreWorked, In
<1>2. QED
  BY <1>1, PumpSafe, PTL

\* At most one handler, that of the claim in progress, starts after a
\* gracefulStop has resolved.
THEOREM OneLateHandler == Spec => []AtMostOneLate
<1>1. PumpInvariant => AtMostOneLate
  BY DEF PumpInvariant, LateHandlers, AtMostOneLate
<1>2. QED
  BY <1>1, PumpSafe, PTL
=============================================================================
