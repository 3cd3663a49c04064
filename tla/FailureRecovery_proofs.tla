------------------------ MODULE FailureRecovery_proofs ------------------------
(* For any caps, slots, retries and faults: no two layers answer a failure, *)
(* a drop is earned, a job ends once, and it is worked on a bounded number  *)
(* of times.                                                               *)
EXTENDS FailureRecovery, SharedLemmas, FiniteSetTheorems, TLAPS

-----------------------------------------------------------------------------
(* The inductive invariant.                                                *)

PathPcs == {"choosing", "looping", "dropping", "filtered", "handing", "handed", "releasing"}
Pcs == PathPcs \cup {"handling", "completing", "classifying", "retrying"}
Run == [pc : Pcs, gen : Nat, attempt : Nat, handoff : Nat, hops : Nat, next : Nat,
        inLoop : BOOLEAN, inCustom : BOOLEAN]
RowAts == {"none", "ready", "leased", "delayed", "gone"}
Rows == [at : RowAts, gen : Nat, attempt : Nat, handoff : Nat, hops : Nat]

TypeOK ==
    /\ config \in Configs
    /\ row \in Rows
    /\ runs \in [Slots -> Run \cup {Idle}]
    /\ fate \in {"none", "completed", "dropped", "filtered", "deadLettered"}
    /\ work \in [deliveries : Nat, calls : Nat, givenBack : Nat]
    /\ handoffs \in [tried : Nat, accepted : Nat, failed : Nat]
    /\ faults \in [refused : Nat, throws : Nat, slips : Nat]

\* Layers are composed in an order that keeps them apart.
Layered ==
    /\ config.retry => config.explicit /\ config.policy = "fail"
    /\ config.loop # "off" => config.explicit /\ config.policy = "loop"

\* Nothing happens before the item is enqueued.
Fresh ==
    row.at = "none" =>
        /\ \A s \in Slots : runs[s] = Idle
        /\ fate = "none" /\ row.attempt = 1 /\ row.handoff = 0
        /\ work.deliveries = 0 /\ work.calls = 0

\* A delivery works with the counts of the row it holds; no count runs ahead
\* of the handoffs that failed, and only the cap sends it to the drop.
Earned(r, failed) ==
    /\ r.handoff <= failed /\ r.next <= failed
    /\ r.pc = "dropping" => config.dlq = "off" \/ failed >= MaxHandoffs
    /\ r.pc \in {"handing", "handed", "filtered"} => config.dlq # "off"
Matches(r) ==
    /\ r.gen <= row.gen
    /\ Holds(r) => r.attempt = row.attempt /\ r.handoff = row.handoff
\* Under withRetry a delivery counts up the attempt or the handoff count.
Counting(r) ==
    /\ r.pc # "choosing" /\ ~r.inCustom
    /\ r.pc \in {"handling", "classifying", "retrying"} => r.next = r.handoff
    /\ r.pc = "retrying" => r.attempt < MaxAttempts
    /\ r.pc = "looping" => r.next = r.handoff + 1 /\ r.next < MaxHandoffs /\ config.dlq # "off"

EarnedAll ==
    /\ \A s \in Slots : runs[s] # Idle => Earned(runs[s], handoffs.failed)
    /\ row.handoff <= handoffs.failed
    /\ DropIsEarned
MatchesAll == \A s \in Slots : runs[s] # Idle => Matches(runs[s])
CountingAll == config.retry => \A s \in Slots : runs[s] # Idle => Counting(runs[s])

\* The row's counts record every delivery that was settled.
Taken == IF row.at \in {"leased", "gone"} THEN 1 ELSE 0
Counted ==
    config.retry =>
        /\ row.attempt \in 1 .. MaxAttempts
        /\ row.handoff <= IF config.dlq = "off" THEN 0 ELSE MaxHandoffs - 1
        /\ work.deliveries <= (row.attempt - 1) + row.handoff + work.givenBack + Taken

\* A delivery whose handler runs has its calls still to come.
Handling == {s \in Slots : runs[s].pc = "handling"}
CallsCounted ==
    work.calls + (Retries + 1) * Cardinality(Handling) <= (Retries + 1) * work.deliveries

\* Without refusals and slips one delivery at a time works on the job.
Clean == faults.refused = 0 /\ faults.slips = 0
Handed == \E s \in Slots : runs[s].pc = "handed"
CleanRun ==
    Clean =>
        /\ \A s \in Slots : runs[s] # Idle => Holds(runs[s])
        /\ \A s, t \in Slots : runs[s] # Idle /\ runs[t] # Idle => s = t
        /\ fate # "none" => row.at = "gone"
        /\ handoffs.accepted = IF Handed \/ fate = "deadLettered" THEN 1 ELSE 0

-----------------------------------------------------------------------------
(* Where recovery sends a delivery.                                        *)

LEMMA IdleIsNoRun == Idle \notin Run /\ Idle.pc = "idle"
  /\ \A r \in Run \cup {Idle} : r # Idle <=> r \in Run
<1>1. Idle.pc = "idle"
  BY DEF Idle
<1>2. \A r \in Run : r.pc # "idle"
  BY DEF Run, Pcs, PathPcs
<1> HIDE DEF Idle
<1> QED
  BY <1>1, <1>2

\* q is r further along a path of recovery.
Further(r, q) ==
    /\ q \in Run /\ q.pc \in PathPcs
    /\ q.gen = r.gen /\ q.attempt = r.attempt /\ q.handoff = r.handoff

LEMMA FailPathGoes ==
    ASSUME NEW r \in Run
    PROVE  /\ Further(r, FailPath(r))
           /\ FailPath(r).inCustom = r.inCustom /\ FailPath(r).next = r.next
           /\ FailPath(r).pc \in {"dropping", "filtered", "handing"}
           /\ FailPath(r).pc = "dropping" <=> config.dlq = "off"
BY DEF FailPath, Further, Run, Pcs, PathPcs

LEMMA LoopPathGoes ==
    ASSUME NEW r \in Run, NEW h \in Nat
    PROVE  /\ Further(r, LoopPath(r, h))
           /\ LoopPath(r, h).inCustom = r.inCustom
           /\ LoopPath(r, h).next = r.next \/ LoopPath(r, h).next = h
           /\ LoopPath(r, h).pc \in {"looping", "dropping", "filtered", "handing"}
           /\ LoopPath(r, h).pc = "looping" => LoopPath(r, h).next = h
           /\ LoopPath(r, h).pc = "dropping" => config.dlq = "off"
           /\ LoopPath(r, h).pc \in {"filtered", "handing"} => config.dlq # "off"
           /\ config.loop = "off" => LoopPath(r, h).pc = "looping"
<1> DEFINE q == [r EXCEPT !.inLoop = TRUE]
<1>1. CASE config.loop = "capped" /\ r.hops >= HopCap
  <2>1. LoopPath(r, h) = FailPath(q)
    BY <1>1 DEF LoopPath
  <2>2. q \in Run /\ q.gen = r.gen /\ q.attempt = r.attempt /\ q.handoff = r.handoff
        /\ q.next = r.next /\ q.inCustom = r.inCustom
    BY DEF Run
  <2> HIDE DEF q
  <2> QED
    BY <1>1, <2>1, <2>2, FailPathGoes DEF Further
<1>2. CASE ~(config.loop = "capped" /\ r.hops >= HopCap)
  BY <1>2 DEF LoopPath, Further, Run, Pcs, PathPcs
<1> QED
  BY <1>1, <1>2

LEMMA HandoffFailedGoes ==
    ASSUME NEW r \in Run, MaxHandoffs \in Nat
    PROVE  LET q == HandoffFailed(r) IN
           /\ Further(r, q) /\ q.inCustom = r.inCustom
           /\ q.next = r.next \/ q.next = r.handoff + 1
           /\ q.pc \in {"looping", "dropping", "filtered", "handing"}
           /\ q.pc = "looping" => q.next = r.handoff + 1 /\ q.next < MaxHandoffs
           /\ q.pc = "dropping" => config.dlq = "off" \/ r.handoff + 1 >= MaxHandoffs
           /\ q.pc \in {"filtered", "handing"} => config.dlq # "off"
           /\ config.loop = "off" => q.pc \in {"looping", "dropping"}
<1>1. r.handoff + 1 \in Nat
  BY DEF Run
<1>2. CASE r.handoff + 1 >= MaxHandoffs
  BY <1>2 DEF HandoffFailed, Further, Run, Pcs, PathPcs
<1>3. CASE ~(r.handoff + 1 >= MaxHandoffs)
  BY <1>1, <1>3, LoopPathGoes DEF HandoffFailed
<1> QED
  BY <1>2, <1>3

LEMMA EscapeGoes ==
    ASSUME NEW r \in Run, NEW err
    PROVE  LET q == Escape(r, err) IN
           q # Idle =>
           /\ Further(r, q)
           /\ q.next = r.next \/ q.next = r.handoff
           /\ q.pc \in {"looping", "dropping", "filtered", "handing", "releasing"}
           /\ ~r.inCustom => q.pc = "releasing" /\ ~q.inCustom
           /\ q.pc = "dropping" => config.dlq = "off"
           /\ q.pc \in {"filtered", "handing"} => config.dlq # "off"
<1>1. CASE r.inCustom
  <2> DEFINE b == [r EXCEPT !.inCustom = FALSE]
  <2>1. Escape(r, err) = LoopPath(b, r.handoff)
    BY <1>1 DEF Escape
  <2>2. b \in Run /\ b.gen = r.gen /\ b.attempt = r.attempt /\ b.handoff = r.handoff
        /\ b.next = r.next /\ r.handoff \in Nat
    BY DEF Run
  <2> HIDE DEF b
  <2> QED
    BY <1>1, <2>1, <2>2, LoopPathGoes DEF Further
<1>2. CASE ~r.inCustom
  BY <1>2 DEF Escape, Further, Run, Pcs, PathPcs
<1> QED
  BY <1>1, <1>2

LEMMA ByPolicyGoes ==
    ASSUME NEW r \in Run, config \in Configs
    PROVE  LET q == ByPolicy(r) IN
           /\ Further(r, q)
           /\ q.next = r.next \/ q.next = r.handoff
           /\ q.pc \in {"looping", "dropping", "filtered", "handing", "choosing"}
           /\ q.pc = "dropping" => config.dlq = "off"
           /\ q.pc \in {"filtered", "handing"} => config.dlq # "off"
<1>1. r.handoff \in Nat
  BY DEF Run
<1>2. config.policy \in {"loop", "fail", "custom"}
  BY DEF Configs, Policies
<1>3. CASE config.policy = "loop"
  BY <1>1, <1>3, LoopPathGoes DEF ByPolicy
<1>4. CASE config.policy = "fail"
  BY <1>4, FailPathGoes DEF ByPolicy
<1>5. CASE config.policy = "custom"
  BY <1>5 DEF ByPolicy, Further, Run, Pcs, PathPcs
<1> QED
  BY <1>2, <1>3, <1>4, <1>5

-----------------------------------------------------------------------------
(* One step of a delivery.                                                 *)

\* What a delivery may become, its counts kept.
Becomes(r, q) ==
    \/ q = Idle
    \/ Further(r, q)
    \/ r.pc = "handling" /\ q = [r EXCEPT !.pc = "completing"]
    \/ r.pc = "handling" /\ q = [r EXCEPT !.pc = "classifying"]
    \/ r.pc = "classifying" /\ q = [r EXCEPT !.pc = "retrying"]

\* A settlement: the row leaves the lease the delivery holds.
Settles(r) ==
    /\ Holds(r) /\ row' \in Rows
    /\ row'.gen = row.gen /\ row'.at \in {"ready", "delayed", "gone"}

\* The steps of a delivery after its claim.
Recovers(s) ==
    \/ Handle(s) \/ Complete(s) \/ Classify(s) \/ RetryLater(s) \/ Choose(s) \/ Loop(s)
    \/ Drop(s) \/ DropFiltered(s) \/ HandOver(s) \/ AckHandedOver(s) \/ Release(s)

LEMMA InSlot ==
    ASSUME TypeOK, NEW s \in Slots, runs[s].pc # "idle"
    PROVE  runs[s] \in Run
BY IdleIsNoRun DEF TypeOK

LEMMA BecomesTyped ==
    ASSUME NEW r \in Run, NEW q, Becomes(r, q)
    PROVE  q \in Run \cup {Idle}
BY DEF Becomes, Further, Run, Pcs, PathPcs

LEMMA RowsMade ==
    ASSUME TypeOK, NEW r \in Run, NEW at \in {"ready", "delayed"}, NEW n \in Nat, NEW h \in Nat
    PROVE  /\ Acked \in Rows /\ Acked.gen = row.gen /\ Acked.at = "gone"
           /\ Acked.attempt = row.attempt /\ Acked.handoff = row.handoff
           /\ Returned \in Rows /\ Returned.gen = row.gen /\ Returned.at = "ready"
           /\ Returned.attempt = row.attempt /\ Returned.handoff = row.handoff
           /\ Rescheduled(r, at, n, h) \in Rows /\ Rescheduled(r, at, n, h).gen = row.gen
           /\ Rescheduled(r, at, n, h).at = at /\ Rescheduled(r, at, n, h).attempt = n
           /\ Rescheduled(r, at, n, h).handoff = r.next
<1> row \in Rows
  BY DEF TypeOK
<1> QED
  BY DEF Acked, Returned, Rescheduled, Rows, RowAts, Run

LEMMA FaultsTyped ==
    ASSUME TypeOK, Refuse \/ Slip \/ Throw \/ UNCHANGED faults
    PROVE  faults' \in [refused : Nat, throws : Nat, slips : Nat]
BY DEF TypeOK, Refuse, Slip, Throw

\* A refusal changes nothing but the faults; without a fault the lease is gone.
LEMMA RefusalKeeps ==
    ASSUME TypeOK, NEW r, NEW err, Refusal(r, err)
    PROVE  /\ row' = row /\ (Refuse \/ UNCHANGED faults)
           /\ Holds(r) => Refuse
BY DEF Refusal

\* What every step of a delivery keeps.
LEMMA RecoveryStep ==
    ASSUME RecoveryAssumption, TypeOK, NEW s \in Slots, Recovers(s)
    PROVE  /\ config' = config
           /\ runs[s] \in Run
           /\ runs' = [runs EXCEPT ![s] = runs'[s]]
           /\ Becomes(runs[s], runs'[s])
           /\ row' = row \/ (Settles(runs[s]) /\ runs'[s] = Idle)
           /\ faults' \in [refused : Nat, throws : Nat, slips : Nat]
<1> DEFINE r == runs[s]
<1>0. config \in Configs /\ runs \in [Slots -> Run \cup {Idle}] /\ row \in Rows
      /\ MaxHandoffs \in Nat
  BY DEF TypeOK, RecoveryAssumption
<1>1. r \in Run
  BY InSlot DEF Recovers, Handle, Complete, Classify, RetryLater, Choose, Loop, Drop,
                DropFiltered, HandOver, AckHandedOver, Release
<1>2. r.next \in Nat /\ r.attempt \in Nat /\ r.attempt + 1 \in Nat /\ r.hops \in Nat
      /\ r.handoff \in Nat /\ NextHops(r) \in Nat
  BY <1>1 DEF Run, NextHops
<1> HIDE DEF r
<1>3. \A q : To(s, q) => runs' = [runs EXCEPT ![s] = runs'[s]] /\ runs'[s] = q
  BY <1>0 DEF To
<1>4. Becomes(r, FailPath(r)) /\ Becomes(r, LoopPath(r, r.handoff)) /\ Becomes(r, ByPolicy(r))
      /\ Becomes(r, HandoffFailed(r)) /\ Becomes(r, Idle)
      /\ Becomes(r, [r EXCEPT !.pc = "handed"])
  <2>1. Further(r, [r EXCEPT !.pc = "handed"])
    BY <1>1 DEF Further, Run, Pcs, PathPcs
  <2> QED
    BY <1>0, <1>1, <1>2, <2>1, FailPathGoes, LoopPathGoes, ByPolicyGoes, HandoffFailedGoes DEF Becomes
<1>5. \A err : Becomes(r, Escape(r, err))
  BY <1>1, EscapeGoes DEF Becomes
<1>6. Holds(r) /\ (row' = Acked \/ row' = Returned
                   \/ row' = Rescheduled(r, "delayed", r.attempt, NextHops(r))
                   \/ row' = Rescheduled(r, "delayed", r.attempt + 1, r.hops)) => Settles(r)
  <2>1. \A n, h \in Nat : LET w == Rescheduled(r, "delayed", n, h) IN
            w \in Rows /\ w.gen = row.gen /\ w.at = "delayed"
    BY <1>1, RowsMade
  <2> QED
    BY <1>1, <1>2, <2>1, RowsMade DEF Settles
<1>7. \A err : Refusal(r, err) => row' = row /\ (Refuse \/ UNCHANGED faults)
  BY RefusalKeeps
<1>8. Refuse \/ Slip \/ Throw \/ UNCHANGED faults => faults' \in [refused : Nat, throws : Nat, slips : Nat]
  BY FaultsTyped
<1>9. CASE Handle(s)
  <2>1. PICK q : To(s, q) /\ Becomes(r, q)
    BY <1>1, <1>4, <1>9 DEF Handle, r, Becomes
  <2>2. UNCHANGED <<config, row, faults>>
    BY <1>9 DEF Handle
  <2>3. runs' = [runs EXCEPT ![s] = runs'[s]] /\ runs'[s] = q
    BY <1>3, <2>1
  <2> QED
    BY <1>1, <1>8, <2>1, <2>2, <2>3 DEF r
<1>10. CASE Complete(s)
  BY <1>1, <1>3, <1>4, <1>6, <1>7, <1>8, <1>10 DEF Complete, r
<1>11. CASE Classify(s)
  <2>1. PICK q : To(s, q) /\ Becomes(r, q)
    BY <1>1, <1>4, <1>5, <1>11 DEF Classify, r, Becomes
  <2>2. (Throw \/ UNCHANGED faults) /\ UNCHANGED <<config, row>>
    BY <1>11 DEF Classify
  <2>3. runs' = [runs EXCEPT ![s] = runs'[s]] /\ runs'[s] = q
    BY <1>3, <2>1
  <2> QED
    BY <1>1, <1>8, <2>1, <2>2, <2>3 DEF r
<1>12. CASE RetryLater(s)
  BY <1>1, <1>3, <1>4, <1>5, <1>6, <1>7, <1>8, <1>12 DEF RetryLater, r
<1>13. CASE Choose(s)
  BY <1>1, <1>3, <1>4, <1>5, <1>8, <1>13 DEF Choose, r
<1>14. CASE Loop(s)
  BY <1>1, <1>3, <1>4, <1>5, <1>6, <1>7, <1>8, <1>14 DEF Loop, r
<1>15. CASE Drop(s)
  BY <1>1, <1>3, <1>4, <1>5, <1>6, <1>7, <1>8, <1>15 DEF Drop, r
<1>16. CASE DropFiltered(s)
  BY <1>1, <1>3, <1>4, <1>6, <1>7, <1>8, <1>16 DEF DropFiltered, r
<1>17. CASE HandOver(s)
  BY <1>1, <1>3, <1>4, <1>8, <1>17 DEF HandOver, r
<1>18. CASE AckHandedOver(s)
  BY <1>1, <1>3, <1>4, <1>6, <1>7, <1>8, <1>18 DEF AckHandedOver, r
<1>19. CASE Release(s)
  BY <1>1, <1>3, <1>4, <1>6, <1>7, <1>8, <1>19 DEF Release, r
<1> QED
  BY <1>1, <1>9, <1>10, <1>11, <1>12, <1>13, <1>14, <1>15, <1>16, <1>17, <1>18, <1>19
  DEF Recovers, r

-----------------------------------------------------------------------------
(* Types.                                                                  *)

\* A delivery makes at least one call and at most Retries + 1.
LEMMA CallsBounded ==
    ASSUME InCallAssumption, NEW d \in Deliveries
    PROVE  d.calls \in Nat /\ d.calls <= Retries + 1
<1>1. PICK ends \in [Calls -> [1..Steps -> StepEnds]], again \in [Calls -> BOOLEAN] :
        d = Delivery(ends, again)
  BY DEF Deliveries
<1> DEFINE S == {c \in Calls : IsLast(c, ends, again)}
           last == CHOOSE c \in Calls :
                       /\ IsLast(c, ends, again)
                       /\ \A b \in Calls : b < c => ~IsLast(b, ends, again)
<1>2. Retries \in Nat /\ Calls \subseteq Nat
  BY DEF InCallAssumption, Calls
<1>3. Retries + 1 \in S
  BY <1>2 DEF Calls, IsLast
<1>4. PICK c \in S : \A b \in S : c <= b
  <2>1. S \subseteq Nat /\ S # {}
    BY <1>2, <1>3
  <2> HIDE DEF S
  <2> QED
    BY <2>1, Least
<1>5. \E k \in Calls : /\ IsLast(k, ends, again)
                       /\ \A b \in Calls : b < k => ~IsLast(b, ends, again)
  BY <1>2, <1>4
<1>6. last \in Calls
  BY <1>5
<1>7. d.calls = last
  BY <1>1 DEF Delivery
<1> HIDE DEF last
<1> QED
  BY <1>2, <1>6, <1>7 DEF Calls

LEMMA TypesStart == Init => TypeOK
<1> SUFFICES ASSUME Init PROVE TypeOK
  OBVIOUS
<1>1. config \in Configs
  BY DEF Init, WorkerLayer, Configs, Policies
<1>2. row \in Rows
  BY DEF Init, Rows, RowAts
<1>3. runs \in [Slots -> Run \cup {Idle}]
  BY DEF Init
<1>4. /\ work \in [deliveries : Nat, calls : Nat, givenBack : Nat]
      /\ handoffs \in [tried : Nat, accepted : Nat, failed : Nat]
      /\ faults \in [refused : Nat, throws : Nat, slips : Nat]
  BY DEF Init
<1> QED
  BY <1>1, <1>2, <1>3, <1>4 DEF Init, TypeOK

\* Composing, enqueueing, and what timers and a crash do.
LEMMA TypesAround ==
    ASSUME RecoveryAssumption, TypeOK,
           \/ Compose \/ DelayElapses \/ LeaseExpires \/ Crash
    PROVE  TypeOK'
<1>1. CASE WithRetry
  BY <1>1 DEF WithRetry, TypeOK, Configs, Policies
<1>2. CASE Enqueue
  BY <1>2 DEF Enqueue, TypeOK, Rows, RowAts
<1>3. ASSUME NEW filter \in {"always", "capped"}, WithLoop(filter) PROVE TypeOK'
  BY <1>3 DEF WithLoop, TypeOK, Configs, Policies
<1>4. ASSUME NEW filter \in {"always", "capped"}, WithDeadLetter(filter) PROVE TypeOK'
  BY <1>4 DEF WithDeadLetter, TypeOK, Configs
<1>5. CASE DelayElapses
  BY <1>5 DEF DelayElapses, TypeOK, Rows, RowAts
<1>6. Returned \in Rows
  BY DEF TypeOK, Returned, Rows, RowAts
<1>7. CASE LeaseExpires
  <2>1. faults' \in [refused : Nat, throws : Nat, slips : Nat]
    BY <1>7, FaultsTyped DEF LeaseExpires
  <2> QED
    BY <1>6, <1>7, <2>1 DEF LeaseExpires, TypeOK
<1>8. CASE Crash
  <2>1. faults' \in [refused : Nat, throws : Nat, slips : Nat]
    BY <1>8, FaultsTyped DEF Crash
  <2> QED
    BY <1>6, <1>8, <2>1 DEF Crash, TypeOK
<1> QED
  BY <1>1, <1>2, <1>3, <1>4, <1>5, <1>7, <1>8 DEF Compose

\* A claim hands the row's counts to an idle slot.
LEMMA ClaimTakes ==
    ASSUME TypeOK, NEW s \in Slots, Claim(s)
    PROVE  /\ row' \in Rows /\ row'.at = "leased" /\ row'.gen = row.gen + 1
           /\ row'.attempt = row.attempt /\ row'.handoff = row.handoff
           /\ runs' = [runs EXCEPT ![s] = runs'[s]]
           /\ runs'[s] \in Run /\ runs'[s].pc = "handling" /\ runs'[s].gen = row.gen + 1
           /\ runs'[s].attempt = row.attempt /\ runs'[s].handoff = row.handoff
           /\ runs'[s].next = row.handoff /\ ~runs'[s].inCustom
<1> DEFINE r == [pc |-> "handling", gen |-> row.gen + 1, attempt |-> row.attempt,
                 handoff |-> row.handoff, hops |-> row.hops, next |-> row.handoff,
                 inLoop |-> FALSE, inCustom |-> FALSE]
<1>1. row \in Rows /\ runs \in [Slots -> Run \cup {Idle}]
  BY DEF TypeOK
<1>2. row' = [row EXCEPT !.at = "leased", !.gen = row.gen + 1]
  BY DEF Claim
<1>3. row' \in Rows /\ row'.at = "leased" /\ row'.gen = row.gen + 1
      /\ row'.attempt = row.attempt /\ row'.handoff = row.handoff
  <2>1. row.gen + 1 \in Nat /\ "leased" \in RowAts
    BY <1>1 DEF Rows, RowAts
  <2> QED
    BY <1>1, <1>2, <2>1 DEF Rows
<1>4. r \in Run
  BY <1>1 DEF Rows, Run, Pcs
<1>5. runs' = [runs EXCEPT ![s] = r]
  BY DEF Claim, To
<1>6. runs'[s] = r
  BY <1>1, <1>5
<1>7. /\ r.pc = "handling" /\ r.gen = row.gen + 1 /\ r.attempt = row.attempt
      /\ r.handoff = row.handoff /\ r.next = row.handoff /\ ~r.inCustom
  OBVIOUS
<1> HIDE DEF r
<1> QED
  BY <1>3, <1>4, <1>5, <1>6, <1>7

LEMMA TypesInDelivery ==
    ASSUME RecoveryAssumption, InCallAssumption, TypeOK, NEW s \in Slots, Deliver(s)
    PROVE  TypeOK'
<1>1. CASE Claim(s)
  <2>1. work' \in [deliveries : Nat, calls : Nat, givenBack : Nat]
    BY <1>1 DEF Claim, TypeOK
  <2>2. UNCHANGED <<config, fate, handoffs, faults>>
    BY <1>1 DEF Claim
  <2> QED
    BY <1>1, <2>1, <2>2, ClaimTakes DEF TypeOK
<1>2. CASE Recovers(s)
  <2>1. config' \in Configs /\ row' \in Rows /\ runs' \in [Slots -> Run \cup {Idle}]
        /\ faults' \in [refused : Nat, throws : Nat, slips : Nat]
    BY <1>2, RecoveryStep, BecomesTyped DEF TypeOK, Settles
  <2>2. fate' \in {"none", "completed", "dropped", "filtered", "deadLettered"}
    BY <1>2 DEF TypeOK, Recovers, Handle, Complete, Classify, RetryLater, Choose, Loop, Drop,
                DropFiltered, HandOver, AckHandedOver, Release
  <2>4. handoffs' \in [tried : Nat, accepted : Nat, failed : Nat]
    <3>1. \/ UNCHANGED handoffs \/ Failure
          \/ handoffs' = [handoffs EXCEPT !.tried = @ + 1, !.accepted = @ + 1]
          \/ handoffs' = [handoffs EXCEPT !.tried = @ + 1, !.failed = @ + 1]
      BY <1>2 DEF Recovers, Handle, Complete, Classify, RetryLater, Choose, Loop, Drop,
                  DropFiltered, HandOver, AckHandedOver, Release
    <3>2. /\ handoffs \in [tried : Nat, accepted : Nat, failed : Nat]
          /\ handoffs.tried + 1 \in Nat /\ handoffs.accepted + 1 \in Nat
          /\ handoffs.failed + 1 \in Nat
      BY DEF TypeOK
    <3> QED
      BY <3>1, <3>2 DEF Failure
  <2>3. work' \in [deliveries : Nat, calls : Nat, givenBack : Nat]
    <3>1. CASE Handle(s)
      <4>1. PICK d \in Deliveries : work' = [work EXCEPT !.calls = @ + d.calls]
        BY <3>1 DEF Handle
      <4> QED
        BY <4>1, CallsBounded DEF TypeOK
    <3>2. CASE ~Handle(s)
      BY <1>2, <3>2 DEF TypeOK, Recovers, Complete, Classify, RetryLater, Choose, Loop, Drop,
                        DropFiltered, HandOver, AckHandedOver, Release
    <3> QED
      BY <3>1, <3>2
  <2> QED
    BY <2>1, <2>2, <2>3, <2>4 DEF TypeOK
<1> QED
  BY <1>1, <1>2 DEF Deliver, Recovers

LEMMA TypesKept ==
    ASSUME RecoveryAssumption, InCallAssumption, TypeOK, [Next]_vars
    PROVE  TypeOK'
<1>1. CASE UNCHANGED vars
  BY <1>1 DEF vars, TypeOK
<1> QED
  BY <1>1, TypesAround, TypesInDelivery DEF Next

-----------------------------------------------------------------------------
(* Layers, and nothing before the enqueue.                                 *)

LEMMA LayeredKept ==
    ASSUME RecoveryAssumption, TypeOK, Layered, [Next]_vars
    PROVE  Layered'
<1>1. CASE Compose
  BY <1>1 DEF Compose, WithRetry, WithLoop, WithDeadLetter, Enqueue, Layered, TypeOK, Configs, Policies
<1>2. CASE DelayElapses \/ LeaseExpires \/ Crash \/ UNCHANGED vars
  BY <1>2 DEF DelayElapses, LeaseExpires, Crash, vars, Layered
<1>3. ASSUME NEW s \in Slots, Claim(s) PROVE Layered'
  BY <1>3 DEF Claim, Layered
<1>4. ASSUME NEW s \in Slots, Recovers(s) PROVE Layered'
  BY <1>4, RecoveryStep DEF Layered
<1> QED
  BY <1>1, <1>2, <1>3, <1>4 DEF Next, Deliver, Recovers

LEMMA FreshKept ==
    ASSUME RecoveryAssumption, TypeOK, Fresh, [Next]_vars
    PROVE  Fresh'
<1>1. CASE Compose
  BY <1>1 DEF Compose, WithRetry, WithLoop, WithDeadLetter, Enqueue, Composing, Fresh
<1>2. CASE DelayElapses \/ LeaseExpires \/ Crash \/ UNCHANGED vars
  <2>1. CASE Crash
    BY <2>1 DEF Crash, Fresh, Returned, TypeOK, Rows
  <2>2. CASE DelayElapses \/ LeaseExpires
    BY <2>2 DEF DelayElapses, LeaseExpires, Fresh, Returned, TypeOK, Rows
  <2>3. CASE UNCHANGED vars
    BY <2>3 DEF vars, Fresh
  <2> QED
    BY <1>2, <2>1, <2>2, <2>3
<1>3. ASSUME NEW s \in Slots, Claim(s) PROVE Fresh'
  BY <1>3, ClaimTakes DEF Fresh
<1>4. ASSUME NEW s \in Slots, Recovers(s) PROVE Fresh'
  <2>1. runs[s] # Idle
    BY <1>4, RecoveryStep, IdleIsNoRun
  <2>2. row.at # "none"
    BY <2>1 DEF Fresh
  <2>3. row'.at # "none"
    BY <1>4, <2>2, RecoveryStep DEF Settles
  <2> QED
    BY <2>3 DEF Fresh
<1> QED
  BY <1>1, <1>2, <1>3, <1>4 DEF Next, Deliver, Recovers

-----------------------------------------------------------------------------
(* A drop is earned.                                                       *)

\* A delivery stays earned along every path; a failed handoff counts one up.
LEMMA PathsEarned ==
    ASSUME RecoveryAssumption, TypeOK, NEW r \in Run, NEW f \in Nat, Earned(r, f)
    PROVE  /\ Earned(FailPath(r), f) /\ Earned(LoopPath(r, r.handoff), f)
           /\ Earned(ByPolicy(r), f) /\ Earned(HandoffFailed(r), f + 1)
           /\ \A err : Escape(r, err) # Idle => Earned(Escape(r, err), f)
           /\ \A pc \in Pcs \ {"dropping", "handing", "handed", "filtered"} :
                  Earned([r EXCEPT !.pc = pc], f)
           /\ r.pc = "handing" => Earned([r EXCEPT !.pc = "handed"], f)
<1>1. r.handoff \in Nat /\ r.next \in Nat /\ MaxHandoffs \in Nat /\ config \in Configs
  BY DEF Run, RecoveryAssumption, TypeOK
<1>2. Earned(FailPath(r), f)
  BY FailPathGoes DEF Earned, Further
<1>3. Earned(LoopPath(r, r.handoff), f)
  BY <1>1, LoopPathGoes DEF Earned, Further
<1>4. Earned(ByPolicy(r), f)
  BY <1>1, ByPolicyGoes DEF Earned, Further
<1>5. Earned(HandoffFailed(r), f + 1)
  <2> DEFINE q == HandoffFailed(r)
  <2>1. /\ q.handoff = r.handoff
        /\ q.next = r.next \/ q.next = r.handoff + 1
        /\ q.pc = "dropping" => config.dlq = "off" \/ r.handoff + 1 >= MaxHandoffs
        /\ q.pc \in {"filtered", "handing"} => config.dlq # "off"
        /\ q.pc # "handed"
    BY <1>1, HandoffFailedGoes DEF Further
  <2> HIDE DEF q
  <2>2. Earned(q, f + 1)
    BY <1>1, <2>1 DEF Earned
  <2> QED
    BY <2>2 DEF q
<1>6. ASSUME NEW err, Escape(r, err) # Idle PROVE Earned(Escape(r, err), f)
  BY <1>1, <1>6, EscapeGoes DEF Earned, Further
<1>7. ASSUME NEW pc \in Pcs \ {"dropping", "handing", "handed", "filtered"}
      PROVE  Earned([r EXCEPT !.pc = pc], f)
  BY DEF Earned, Run
<1>8. ASSUME r.pc = "handing" PROVE Earned([r EXCEPT !.pc = "handed"], f)
  BY <1>8 DEF Earned, Run
<1> QED
  BY <1>2, <1>3, <1>4, <1>5, <1>6, <1>7, <1>8

\* The slot that moves stays earned, and gives the row a count that is.
LEMMA SlotEarned ==
    ASSUME RecoveryAssumption, TypeOK, EarnedAll, NEW s \in Slots, Recovers(s)
    PROVE  /\ handoffs'.failed \in Nat /\ handoffs.failed <= handoffs'.failed
           /\ runs'[s] # Idle => Earned(runs'[s], handoffs'.failed)
           /\ row'.handoff = row.handoff \/ row'.handoff = runs[s].next
           /\ fate' = fate \/ fate' # "dropped" \/ runs[s].pc = "dropping"
<1> DEFINE r == runs[s]
<1>1. r \in Run /\ runs \in [Slots -> Run \cup {Idle}] /\ row \in Rows
      /\ handoffs \in [tried : Nat, accepted : Nat, failed : Nat] /\ handoffs.failed \in Nat
  BY RecoveryStep DEF TypeOK
<1>2. Earned(r, handoffs.failed)
  BY <1>1, IdleIsNoRun DEF EarnedAll
<1> HIDE DEF r
<1>3. /\ Earned(FailPath(r), handoffs.failed) /\ Earned(LoopPath(r, r.handoff), handoffs.failed)
      /\ Earned(ByPolicy(r), handoffs.failed) /\ Earned(HandoffFailed(r), handoffs.failed + 1)
      /\ \A err : Escape(r, err) # Idle => Earned(Escape(r, err), handoffs.failed)
      /\ Earned([r EXCEPT !.pc = "completing"], handoffs.failed)
      /\ Earned([r EXCEPT !.pc = "classifying"], handoffs.failed)
      /\ Earned([r EXCEPT !.pc = "retrying"], handoffs.failed)
      /\ r.pc = "handing" => Earned([r EXCEPT !.pc = "handed"], handoffs.failed)
  BY <1>1, <1>2, PathsEarned DEF Pcs
<1>4. \A q : To(s, q) => runs'[s] = q
  BY <1>1 DEF To
<1>5. /\ handoffs' = handoffs => handoffs'.failed = handoffs.failed
      /\ Failure => handoffs'.failed = handoffs.failed + 1
  BY <1>1 DEF Failure
<1>6. row'.handoff = row.handoff \/ row'.handoff = r.next
  <2>1. \/ row' = row \/ row' = Acked \/ row' = Returned
        \/ \E n, h : row' = Rescheduled(r, "delayed", n, h)
    BY DEF Recovers, Handle, Complete, Classify, RetryLater, Choose, Loop, Drop, DropFiltered,
           HandOver, AckHandedOver, Release, Refusal, r
  <2> QED
    BY <1>1, <2>1 DEF Acked, Returned, Rescheduled, Rows
<1>7. fate' = fate \/ fate' # "dropped" \/ r.pc = "dropping"
  BY DEF Recovers, Handle, Complete, Classify, RetryLater, Choose, Loop, Drop, DropFiltered,
         HandOver, AckHandedOver, Release, r
<1>8. CASE Handle(s)
  BY <1>1, <1>3, <1>4, <1>5, <1>6, <1>7, <1>8 DEF Handle, r
<1>9. CASE Complete(s) \/ Release(s)
  BY <1>1, <1>4, <1>5, <1>6, <1>7, <1>9 DEF Complete, Release, r
<1>10. CASE Classify(s)
  BY <1>1, <1>3, <1>4, <1>5, <1>6, <1>7, <1>10 DEF Classify, r
<1>11. CASE RetryLater(s)
  BY <1>1, <1>3, <1>4, <1>5, <1>6, <1>7, <1>11 DEF RetryLater, r
<1>12. CASE Choose(s)
  BY <1>1, <1>3, <1>4, <1>5, <1>6, <1>7, <1>12 DEF Choose, r
<1>13. CASE Loop(s)
  BY <1>1, <1>3, <1>4, <1>5, <1>6, <1>7, <1>13 DEF Loop, r
<1>14. CASE Drop(s)
  BY <1>1, <1>3, <1>4, <1>5, <1>6, <1>7, <1>14 DEF Drop, r
<1>15. CASE DropFiltered(s)
  BY <1>1, <1>3, <1>4, <1>5, <1>6, <1>7, <1>15 DEF DropFiltered, r
<1>16. CASE HandOver(s)
  <2>1. \/ /\ handoffs'.failed = handoffs.failed /\ r.pc = "handing"
           /\ runs'[s] = [r EXCEPT !.pc = "handed"]
        \/ handoffs'.failed = handoffs.failed + 1 /\ runs'[s] = HandoffFailed(r)
    BY <1>1, <1>4, <1>16 DEF HandOver, r
  <2> QED
    BY <1>1, <1>3, <1>6, <1>7, <2>1 DEF r
<1>17. CASE AckHandedOver(s)
  BY <1>1, <1>3, <1>4, <1>5, <1>6, <1>7, <1>17 DEF AckHandedOver, r
<1> QED
  BY <1>8, <1>9, <1>10, <1>11, <1>12, <1>13, <1>14, <1>15, <1>16, <1>17 DEF Recovers

LEMMA EarnedKept ==
    ASSUME RecoveryAssumption, TypeOK, Fresh, EarnedAll, [Next]_vars
    PROVE  EarnedAll'
<1>0. /\ runs \in [Slots -> Run \cup {Idle}] /\ row \in Rows /\ handoffs.failed \in Nat
      /\ row.handoff \in Nat
  BY DEF TypeOK, Rows
<1>1. CASE Compose
  <2>1. row.at = "none" /\ UNCHANGED <<runs, fate, handoffs>> /\ row'.handoff = row.handoff
    BY <1>1 DEF Compose, WithRetry, WithLoop, WithDeadLetter, Enqueue, Composing, Fresh
  <2> QED
    BY <2>1 DEF Fresh, EarnedAll, DropIsEarned
<1>2. CASE DelayElapses \/ LeaseExpires \/ Crash \/ UNCHANGED vars
  <2>1. UNCHANGED <<config, fate, handoffs>> /\ row'.handoff = row.handoff
    BY <1>0, <1>2 DEF DelayElapses, LeaseExpires, Crash, vars, Returned, Rows
  <2>2. \A s \in Slots : runs'[s] = runs[s] \/ runs'[s] = Idle
    BY <1>2 DEF DelayElapses, LeaseExpires, Crash, vars
  <2> QED
    BY <2>1, <2>2 DEF EarnedAll, DropIsEarned, Earned
<1>3. ASSUME NEW s \in Slots, Claim(s) PROVE EarnedAll'
  <2>1. UNCHANGED <<config, fate, handoffs>>
    BY <1>3 DEF Claim
  <2>2. \A t \in Slots : t # s => runs'[t] = runs[t]
    BY <1>0, <1>3, ClaimTakes
  <2>3. Earned(runs'[s], handoffs.failed)
    BY <1>0, <1>3, ClaimTakes DEF EarnedAll, Earned
  <2> QED
    BY <1>3, <2>1, <2>2, <2>3, ClaimTakes DEF EarnedAll, DropIsEarned, Earned
<1>4. ASSUME NEW s \in Slots, Recovers(s) PROVE EarnedAll'
  <2>1. config' = config /\ \A t \in Slots : t # s => runs'[t] = runs[t]
    BY <1>0, <1>4, RecoveryStep
  <2>2. runs[s] \in Run /\ runs[s] # Idle
    BY <1>4, RecoveryStep, IdleIsNoRun
  <2>3. MaxHandoffs \in Nat /\ handoffs'.failed \in Nat /\ handoffs.failed <= handoffs'.failed
    BY <1>4, SlotEarned DEF RecoveryAssumption
  <2>4. \A t \in Slots : runs'[t] # Idle => Earned(runs'[t], handoffs'.failed)
    <3> SUFFICES ASSUME NEW t \in Slots, runs'[t] # Idle
                 PROVE  Earned(runs'[t], handoffs'.failed)
      OBVIOUS
    <3>1. CASE t = s
      BY <1>4, <3>1, SlotEarned
    <3>2. CASE t # s
      <4>1. runs'[t] = runs[t] /\ runs[t] \in Run
        BY <1>0, <2>1, <3>2, IdleIsNoRun
      <4>2. runs[t].handoff \in Nat /\ runs[t].next \in Nat /\ Earned(runs[t], handoffs.failed)
        BY <4>1, IdleIsNoRun DEF Run, EarnedAll
      <4> QED
        BY <1>0, <2>3, <4>1, <4>2 DEF Earned
    <3> QED
      BY <3>1, <3>2
  <2>5. row'.handoff <= handoffs'.failed
    <3>1. runs[s].next \in Nat /\ runs[s].next <= handoffs.failed /\ row.handoff <= handoffs.failed
      BY <2>2 DEF EarnedAll, Earned, Run
    <3> QED
      BY <1>0, <1>4, <2>3, <3>1, SlotEarned
  <2>6. DropIsEarned'
    <3>1. runs[s].pc = "dropping" => config.dlq = "off" \/ handoffs.failed >= MaxHandoffs
      BY <2>2 DEF EarnedAll, Earned
    <3>2. fate = "dropped" => config.dlq = "off" \/ handoffs.failed >= MaxHandoffs
      BY DEF EarnedAll, DropIsEarned
    <3>3. fate' = "dropped" => config.dlq = "off" \/ handoffs.failed >= MaxHandoffs
      BY <1>4, <3>1, <3>2, SlotEarned
    <3> QED
      BY <1>0, <2>1, <2>3, <3>3 DEF DropIsEarned
  <2> QED
    BY <2>1, <2>4, <2>5, <2>6 DEF EarnedAll, Earned
<1> QED
  BY <1>1, <1>2, <1>3, <1>4 DEF Next, Deliver, Recovers

-----------------------------------------------------------------------------
(* Counts of deliveries.                                                   *)

\* A delivery that has moved has the counts it was claimed with.
LEMMA BecomesKeeps ==
    ASSUME NEW r \in Run, NEW q, Becomes(r, q), q # Idle
    PROVE  q \in Run /\ q.gen = r.gen /\ q.attempt = r.attempt /\ q.handoff = r.handoff
BY DEF Becomes, Further, Run, Pcs

LEMMA MatchesKept ==
    ASSUME RecoveryAssumption, TypeOK, Fresh, MatchesAll, [Next]_vars
    PROVE  MatchesAll'
<1>0. runs \in [Slots -> Run \cup {Idle}] /\ row \in Rows /\ row.gen \in Nat
  BY DEF TypeOK, Rows
<1>1. CASE Compose
  <2>1. row.at = "none" /\ UNCHANGED runs
    BY <1>1 DEF Compose, WithRetry, WithLoop, WithDeadLetter, Enqueue, Composing
  <2> QED
    BY <2>1 DEF Fresh, MatchesAll
<1>2. CASE DelayElapses \/ LeaseExpires
  <2>1. row'.at = "ready" /\ row'.gen = row.gen /\ UNCHANGED runs
    BY <1>0, <1>2 DEF DelayElapses, LeaseExpires, Returned, Rows
  <2> QED
    BY <2>1 DEF MatchesAll, Matches, Holds
<1>3. CASE Crash \/ UNCHANGED vars
  BY <1>3 DEF Crash, vars, MatchesAll, Matches, Holds
<1>4. ASSUME NEW s \in Slots, Claim(s) PROVE MatchesAll'
  <2> SUFFICES ASSUME NEW t \in Slots, runs'[t] # Idle PROVE Matches(runs[t])'
    BY DEF MatchesAll
  <2>1. CASE t = s
    BY <1>0, <1>4, <2>1, ClaimTakes DEF Matches
  <2>2. CASE t # s
    <3>1. runs'[t] = runs[t] /\ runs[t].gen <= row.gen /\ runs[t].gen \in Nat
      BY <1>0, <1>4, <2>2, ClaimTakes, IdleIsNoRun DEF MatchesAll, Matches, Run
    <3>2. row'.gen = row.gen + 1
      BY <1>4, ClaimTakes
    <3> QED
      BY <1>0, <3>1, <3>2 DEF Matches, Holds
  <2> QED
    BY <2>1, <2>2
<1>5. ASSUME NEW s \in Slots, Recovers(s) PROVE MatchesAll'
  <2> SUFFICES ASSUME NEW t \in Slots, runs'[t] # Idle PROVE Matches(runs[t])'
    BY DEF MatchesAll
  <2>1. runs[s] \in Run /\ runs[s] # Idle
    BY <1>5, RecoveryStep, IdleIsNoRun
  <2>2. /\ runs[t] # Idle /\ runs'[t].gen = runs[t].gen
        /\ runs'[t].attempt = runs[t].attempt /\ runs'[t].handoff = runs[t].handoff
    BY <1>0, <1>5, <2>1, RecoveryStep, BecomesKeeps
  <2>3. Matches(runs[t])
    BY <2>2 DEF MatchesAll
  <2>4. row' = row \/ (row'.gen = row.gen /\ row'.at # "leased")
    BY <1>5, RecoveryStep DEF Settles
  <2> QED
    BY <2>2, <2>3, <2>4 DEF Matches, Holds
<1> QED
  BY <1>1, <1>2, <1>3, <1>4, <1>5 DEF Next, Deliver, Recovers

\* Under withRetry a delivery that recovers keeps counting.
LEMMA SlotCounts ==
    ASSUME RecoveryAssumption, TypeOK, Layered, EarnedAll, config.retry,
           NEW s \in Slots, Recovers(s), Counting(runs[s]), runs'[s] # Idle
    PROVE  Counting(runs'[s])
<1> DEFINE r == runs[s]
<1>1. /\ r \in Run /\ runs \in [Slots -> Run \cup {Idle}] /\ config \in Configs
      /\ MaxHandoffs \in Nat /\ r.handoff \in Nat
  BY RecoveryStep DEF TypeOK, RecoveryAssumption, Run
<1>2. config.policy = "fail" /\ config.loop = "off" /\ Counting(r)
  BY DEF Layered
<1>3. r.pc \in {"handing", "handed", "filtered"} => config.dlq # "off"
  BY <1>1, IdleIsNoRun DEF EarnedAll, Earned
<1> HIDE DEF r
<1>4. Counting(FailPath(r)) /\ ByPolicy(r) = FailPath(r)
  BY <1>1, <1>2, FailPathGoes DEF Counting, ByPolicy
<1>5. \A err : Escape(r, err) # Idle => Counting(Escape(r, err))
  BY <1>1, <1>2, EscapeGoes DEF Counting
<1>6. config.dlq # "off" => Counting(HandoffFailed(r))
  <2> DEFINE q == HandoffFailed(r)
  <2>1. /\ q.inCustom = r.inCustom /\ q.handoff = r.handoff
        /\ q.pc \in {"looping", "dropping"}
        /\ q.pc = "looping" => q.next = r.handoff + 1 /\ q.next < MaxHandoffs
    BY <1>1, <1>2, HandoffFailedGoes DEF Further
  <2> HIDE DEF q
  <2>2. config.dlq # "off" => Counting(q)
    BY <1>2, <2>1 DEF Counting
  <2> QED
    BY <2>2 DEF q
<1>7. /\ r.pc = "handling" => Counting([r EXCEPT !.pc = "completing"])
                             /\ Counting([r EXCEPT !.pc = "classifying"])
      /\ r.pc = "classifying" /\ r.attempt < MaxAttempts => Counting([r EXCEPT !.pc = "retrying"])
      /\ Counting([r EXCEPT !.pc = "handed"])
  BY <1>1, <1>2 DEF Counting, Run, Pcs
<1>8. \A q : To(s, q) => runs'[s] = q
  BY <1>1 DEF To
<1>9. CASE Handle(s)
  BY <1>4, <1>7, <1>8, <1>9 DEF Handle, r
<1>10. CASE Complete(s) \/ Release(s)
  BY <1>8, <1>10 DEF Complete, Release
<1>11. CASE Classify(s)
  BY <1>4, <1>5, <1>7, <1>8, <1>11 DEF Classify, r
<1>12. CASE RetryLater(s) \/ Loop(s) \/ Drop(s)
  BY <1>5, <1>8, <1>12 DEF RetryLater, Loop, Drop, r
<1>13. CASE Choose(s)
  BY <1>2, <1>13 DEF Choose, Counting, r
<1>14. CASE DropFiltered(s) \/ AckHandedOver(s)
  BY <1>3, <1>6, <1>8, <1>14 DEF DropFiltered, AckHandedOver, r
<1>15. CASE HandOver(s)
  BY <1>3, <1>6, <1>7, <1>8, <1>15 DEF HandOver, r
<1> QED
  BY <1>9, <1>10, <1>11, <1>12, <1>13, <1>14, <1>15 DEF Recovers

LEMMA CountingKept ==
    ASSUME RecoveryAssumption, TypeOK, Layered, Fresh, EarnedAll, CountingAll, [Next]_vars
    PROVE  CountingAll'
<1>0. runs \in [Slots -> Run \cup {Idle}] /\ row \in Rows /\ row.handoff \in Nat
  BY DEF TypeOK, Rows
<1>1. CASE Compose
  <2>1. row.at = "none" /\ UNCHANGED runs
    BY <1>1 DEF Compose, WithRetry, WithLoop, WithDeadLetter, Enqueue, Composing
  <2> QED
    BY <2>1 DEF Fresh, CountingAll
<1>2. CASE DelayElapses \/ LeaseExpires \/ Crash \/ UNCHANGED vars
  BY <1>2 DEF DelayElapses, LeaseExpires, Crash, vars, CountingAll, Counting
<1>3. ASSUME NEW s \in Slots, Claim(s) PROVE CountingAll'
  <2>1. config' = config
    BY <1>3 DEF Claim
  <2>2. \A t \in Slots : t # s => runs'[t] = runs[t]
    BY <1>0, <1>3, ClaimTakes
  <2>3. Counting(runs'[s])
    BY <1>0, <1>3, ClaimTakes DEF Counting
  <2> QED
    BY <2>1, <2>2, <2>3 DEF CountingAll, Counting
<1>4. ASSUME NEW s \in Slots, Recovers(s) PROVE CountingAll'
  <2>1. config' = config /\ \A t \in Slots : t # s => runs'[t] = runs[t]
    BY <1>0, <1>4, RecoveryStep
  <2>2. runs[s] # Idle
    BY <1>4, RecoveryStep, IdleIsNoRun
  <2>3. config.retry /\ runs'[s] # Idle => Counting(runs'[s])
    BY <1>4, <2>2, SlotCounts DEF CountingAll
  <2> QED
    BY <2>1, <2>3 DEF CountingAll, Counting
<1> QED
  BY <1>1, <1>2, <1>3, <1>4 DEF Next, Deliver, Recovers

\* What a recovering delivery does to the counts: nothing, or it uses up its
\* delivery for an attempt, a handoff, the end of the job or a giving back.
LEMMA SlotSpends ==
    ASSUME RecoveryAssumption, TypeOK, MatchesAll, config.retry, Layered,
           NEW s \in Slots, Recovers(s), Counting(runs[s])
    PROVE  /\ work'.deliveries = work.deliveries
           /\ \/ row' = row /\ work'.givenBack = work.givenBack
              \/ /\ row.at = "leased" /\ row'.at = "gone" /\ work'.givenBack = work.givenBack
                 /\ row'.attempt = row.attempt /\ row'.handoff = row.handoff
              \/ /\ row.at = "leased" /\ row'.at = "delayed" /\ work'.givenBack = work.givenBack
                 /\ row'.attempt = row.attempt + 1 /\ row.attempt < MaxAttempts
                 /\ row'.handoff = row.handoff
              \/ /\ row.at = "leased" /\ row'.at = "delayed" /\ work'.givenBack = work.givenBack
                 /\ row'.attempt = row.attempt /\ row'.handoff = row.handoff + 1
                 /\ row'.handoff < MaxHandoffs /\ config.dlq # "off"
              \/ /\ row.at = "leased" /\ row'.at = "ready"
                 /\ work'.givenBack = work.givenBack + 1
                 /\ row'.attempt = row.attempt /\ row'.handoff = row.handoff
<1> DEFINE r == runs[s]
<1>0. /\ r \in Run /\ row \in Rows /\ work \in [deliveries : Nat, calls : Nat, givenBack : Nat]
      /\ config.loop = "off"
  BY RecoveryStep DEF TypeOK, Layered
<1>1. Holds(r) => row.at = "leased" /\ r.attempt = row.attempt /\ r.handoff = row.handoff
  BY <1>0, IdleIsNoRun DEF MatchesAll, Matches, Holds
<1>2. /\ Acked.at = "gone" /\ Acked.attempt = row.attempt /\ Acked.handoff = row.handoff
      /\ Returned.at = "ready" /\ Returned.attempt = row.attempt /\ Returned.handoff = row.handoff
  BY <1>0 DEF Acked, Returned, Rows
<1>3. \A n, h : LET w == Rescheduled(r, "delayed", n, h) IN
          w.at = "delayed" /\ w.attempt = n /\ w.handoff = r.next
  BY <1>0 DEF Rescheduled, Rows
<1>4. \A err : Refusal(r, err) => row' = row
  BY DEF Refusal
<1>5. Counting(r)
  OBVIOUS
<1> HIDE DEF r
<1>6. CASE Handle(s)
  BY <1>0, <1>6 DEF Handle
<1>7. CASE Complete(s) \/ Drop(s) \/ DropFiltered(s) \/ AckHandedOver(s)
  BY <1>1, <1>2, <1>4, <1>7 DEF Complete, Drop, DropFiltered, AckHandedOver, r
<1>8. CASE Classify(s) \/ Choose(s) \/ HandOver(s)
  BY <1>8 DEF Classify, Choose, HandOver
<1>9. CASE RetryLater(s)
  <2>1. r.pc = "retrying" /\ UNCHANGED work
    BY <1>9 DEF RetryLater, r
  <2>2. r.attempt < MaxAttempts /\ r.next = r.handoff
    BY <1>5, <2>1 DEF Counting
  <2>3. row' = row \/ (Holds(r) /\ row' = Rescheduled(r, "delayed", r.attempt + 1, r.hops))
    BY <1>4, <1>9 DEF RetryLater, r
  <2> QED
    BY <1>1, <1>3, <2>1, <2>2, <2>3
<1>10. CASE Loop(s)
  <2>1. r.pc = "looping" /\ UNCHANGED work
    BY <1>10 DEF Loop, r
  <2>2. r.next = r.handoff + 1 /\ r.next < MaxHandoffs /\ config.dlq # "off"
    BY <1>5, <2>1 DEF Counting
  <2>3. row' = row \/ (Holds(r) /\ row' = Rescheduled(r, "delayed", r.attempt, NextHops(r)))
    BY <1>4, <1>10 DEF Loop, r
  <2> QED
    BY <1>1, <1>3, <2>1, <2>2, <2>3
<1>11. CASE Release(s)
  BY <1>0, <1>1, <1>2, <1>4, <1>11 DEF Release, r
<1> QED
  BY <1>6, <1>7, <1>8, <1>9, <1>10, <1>11 DEF Recovers

LEMMA CountedKept ==
    ASSUME RecoveryAssumption, TypeOK, Layered, Fresh, MatchesAll, CountingAll, Counted, [Next]_vars
    PROVE  Counted'
<1>0. /\ row \in Rows /\ row.attempt \in Nat /\ row.handoff \in Nat
      /\ work \in [deliveries : Nat, calls : Nat, givenBack : Nat]
      /\ work.deliveries \in Nat /\ work.givenBack \in Nat
      /\ MaxAttempts \in Nat \ {0} /\ MaxHandoffs \in Nat \ {0}
  BY DEF TypeOK, Rows, RecoveryAssumption
<1>1. CASE Compose
  <2>1. row.at = "none" /\ UNCHANGED work
    BY <1>1 DEF Compose, WithRetry, WithLoop, WithDeadLetter, Enqueue, Composing
  <2>2. row'.attempt = 1 /\ row'.handoff = 0
    BY <1>1, <2>1 DEF Fresh, Compose, WithRetry, WithLoop, WithDeadLetter, Enqueue
  <2>3. work'.deliveries = 0 /\ work'.givenBack \in Nat
    BY <1>0, <2>1 DEF Fresh
  <2> QED
    BY <1>0, <2>2, <2>3 DEF Counted, Taken
<1>2. CASE DelayElapses
  BY <1>0, <1>2 DEF DelayElapses, Counted, Taken, Rows
<1>3. ASSUME row.at = "leased", row' = Returned, work' = [work EXCEPT !.givenBack = @ + 1],
             config' = config
      PROVE  Counted'
  <2>1. row'.at = "ready" /\ row'.attempt = row.attempt /\ row'.handoff = row.handoff
    BY <1>0, <1>3 DEF Returned, Rows
  <2>2. work'.givenBack = work.givenBack + 1 /\ work'.deliveries = work.deliveries
    BY <1>0, <1>3
  <2> QED
    BY <1>0, <1>3, <2>1, <2>2 DEF Counted, Taken
<1>4. ASSUME UNCHANGED <<row, work, config>> PROVE Counted'
  BY <1>4 DEF Counted, Taken
<1>5. CASE LeaseExpires \/ Crash \/ UNCHANGED vars
  BY <1>3, <1>4, <1>5 DEF LeaseExpires, Crash, vars
<1>6. ASSUME NEW s \in Slots, Claim(s) PROVE Counted'
  <2>1. /\ row.at = "ready" /\ config' = config
        /\ work'.deliveries = work.deliveries + 1 /\ work'.givenBack = work.givenBack
    BY <1>0, <1>6 DEF Claim
  <2>2. row'.at = "leased" /\ row'.attempt = row.attempt /\ row'.handoff = row.handoff
    BY <1>6, ClaimTakes
  <2> QED
    BY <1>0, <2>1, <2>2 DEF Counted, Taken
<1>7. ASSUME NEW s \in Slots, Recovers(s), config.retry PROVE Counted'
  <2>1. config' = config
    BY <1>7, RecoveryStep
  <2>2. Counting(runs[s])
    BY <1>7, RecoveryStep, IdleIsNoRun DEF CountingAll
  <2> QED
    BY <1>0, <1>7, <2>1, <2>2, SlotSpends DEF Counted, Taken
<1>8. ASSUME NEW s \in Slots, Recovers(s), ~config.retry PROVE Counted'
  BY <1>8, RecoveryStep DEF Counted
<1> QED
  BY <1>1, <1>2, <1>5, <1>6, <1>7, <1>8 DEF Next, Deliver, Recovers

-----------------------------------------------------------------------------
(* Calls of the handler.                                                   *)

LEMMA Product ==
    ASSUME NEW k \in Nat, NEW n \in Nat
    PROVE  k * n \in Nat /\ k * (n + 1) = k * n + k
OBVIOUS

LEMMA Monotone ==
    ASSUME NEW k \in Nat, NEW m \in Nat, NEW n \in Nat, m <= n
    PROVE  k * m <= k * n
OBVIOUS

LEMMA HandlingFinite ==
    ASSUME RecoveryAssumption
    PROVE  IsFiniteSet(Handling) /\ Cardinality(Handling) \in Nat
<1>1. IsFiniteSet(Slots)
  BY FS_Interval DEF Slots, RecoveryAssumption
<1>2. Handling \subseteq Slots
  BY DEF Handling
<1> QED
  BY <1>1, <1>2, FS_Subset, FS_CardinalityType

LEMMA CallsKept ==
    ASSUME RecoveryAssumption, InCallAssumption, TypeOK, CallsCounted, [Next]_vars
    PROVE  CallsCounted'
<1> DEFINE k == Retries + 1
           n == Cardinality(Handling)
<1>0. /\ k \in Nat /\ n \in Nat /\ IsFiniteSet(Handling) /\ runs \in [Slots -> Run \cup {Idle}]
      /\ work \in [deliveries : Nat, calls : Nat, givenBack : Nat]
      /\ work.calls \in Nat /\ work.deliveries \in Nat
  BY HandlingFinite DEF InCallAssumption, TypeOK
<1>1. work.calls + k * n <= k * work.deliveries
  BY DEF CallsCounted
<1>2. ASSUME Handling' = Handling, work'.calls = work.calls, work'.deliveries = work.deliveries
      PROVE  CallsCounted'
  BY <1>2 DEF CallsCounted
<1>3. CASE Compose \/ DelayElapses \/ LeaseExpires \/ UNCHANGED vars
  <2>1. UNCHANGED runs /\ work'.calls = work.calls /\ work'.deliveries = work.deliveries
    BY <1>0, <1>3 DEF Compose, WithRetry, WithLoop, WithDeadLetter, Enqueue, DelayElapses,
                      LeaseExpires, vars
  <2> QED
    BY <1>2, <2>1 DEF Handling
<1>4. CASE Crash
  <2>1. Handling' = {}
    BY <1>4, IdleIsNoRun DEF Crash, Handling
  <2>2. work'.calls = work.calls /\ work'.deliveries = work.deliveries
    BY <1>0, <1>4 DEF Crash
  <2>3. Cardinality(Handling') = 0
    BY <2>1, FS_EmptySet
  <2>4. k * n \in Nat /\ k * work.deliveries \in Nat
    BY <1>0, Product
  <2>5. work.calls + k * 0 <= k * work.deliveries
    <3> HIDE DEF k, n
    <3> QED
      BY <1>0, <1>1, <2>4
  <2> QED
    BY <2>2, <2>3, <2>5 DEF CallsCounted
<1>5. ASSUME NEW s \in Slots, Claim(s) PROVE CallsCounted'
  <2>1. Handling' = Handling \cup {s} /\ s \notin Handling
    <3>1. runs[s].pc # "handling"
      BY <1>5, IdleIsNoRun DEF Claim
    <3>2. runs'[s].pc = "handling" /\ \A t \in Slots : t # s => runs'[t] = runs[t]
      BY <1>0, <1>5, ClaimTakes
    <3> QED
      BY <3>1, <3>2 DEF Handling
  <2>2. Cardinality(Handling') = n + 1
    BY <1>0, <2>1, FS_AddElement
  <2>3. work'.calls = work.calls /\ work'.deliveries = work.deliveries + 1
    BY <1>0, <1>5 DEF Claim
  <2>4. k * (n + 1) = k * n + k /\ k * (work.deliveries + 1) = k * work.deliveries + k
        /\ k * n \in Nat /\ k * work.deliveries \in Nat
    BY <1>0, Product
  <2>5. work.calls + k * (n + 1) <= k * (work.deliveries + 1)
    <3> HIDE DEF k, n
    <3> QED
      BY <1>0, <1>1, <2>4
  <2> QED
    BY <2>2, <2>3, <2>5 DEF CallsCounted
<1>6. ASSUME NEW s \in Slots, Handle(s) PROVE CallsCounted'
  <2>1. Recovers(s) /\ runs[s].pc = "handling"
    BY <1>6 DEF Recovers, Handle
  <2>2. runs'[s].pc # "handling" /\ \A t \in Slots : t # s => runs'[t] = runs[t]
    <3>1. \A q : Further(runs[s], q) => q.pc # "handling"
      BY DEF Further, PathPcs
    <3>2. /\ runs[s] \in Run /\ runs' = [runs EXCEPT ![s] = runs'[s]]
          /\ Becomes(runs[s], runs'[s])
      BY <2>1, RecoveryStep
    <3> QED
      BY <1>0, <3>1, <3>2, IdleIsNoRun DEF Becomes, Run
  <2>3. Handling' = Handling \ {s} /\ s \in Handling
    BY <2>1, <2>2 DEF Handling
  <2>4. Cardinality(Handling') = n - 1 /\ n # 0
    <3>1. Cardinality(Handling \ {s}) = n - 1 /\ IsFiniteSet(Handling \ {s})
      BY <1>0, <2>3, FS_RemoveElement
    <3> QED
      BY <1>0, <2>3, <3>1, FS_CardinalityType
  <2>5. PICK d \in Deliveries : work' = [work EXCEPT !.calls = @ + d.calls]
    BY <1>6 DEF Handle
  <2>6. d.calls \in Nat /\ d.calls <= k
    BY CallsBounded
  <2>7. work'.calls = work.calls + d.calls /\ work'.deliveries = work.deliveries
    BY <1>0, <2>5, <2>6
  <2>8. n - 1 \in Nat /\ k * n = k * (n - 1) + k /\ k * (n - 1) \in Nat /\ k * work.deliveries \in Nat
    <3>1. n - 1 \in Nat
      BY <1>0, <2>4
    <3> HIDE DEF k, n
    <3>2. k * ((n - 1) + 1) = k * (n - 1) + k /\ k * (n - 1) \in Nat
      BY <1>0, <3>1, Product
    <3> QED
      BY <1>0, <3>1, <3>2, Product
  <2>9. work.calls + d.calls + k * (n - 1) <= k * work.deliveries
    <3> HIDE DEF k, n
    <3> QED
      BY <1>0, <1>1, <2>6, <2>8
  <2> QED
    BY <2>4, <2>7, <2>9 DEF CallsCounted
<1>7. ASSUME NEW s \in Slots, Recovers(s), ~Handle(s) PROVE CallsCounted'
  <2>1. runs[s].pc # "handling" /\ work'.calls = work.calls /\ work'.deliveries = work.deliveries
    BY <1>0, <1>7 DEF Recovers, Complete, Classify, RetryLater, Choose, Loop, Drop, DropFiltered,
                      HandOver, AckHandedOver, Release
  <2>2. /\ runs[s] \in Run /\ runs' = [runs EXCEPT ![s] = runs'[s]]
        /\ Becomes(runs[s], runs'[s])
    BY <1>7, RecoveryStep
  <2>3. runs'[s].pc # "handling"
    BY <2>1, <2>2, IdleIsNoRun DEF Becomes, Further, PathPcs, Run
  <2>4. \A t \in Slots : t # s => runs'[t] = runs[t]
    BY <1>0, <2>2
  <2>5. Handling' = Handling
    BY <2>1, <2>3, <2>4 DEF Handling
  <2> QED
    BY <1>2, <2>1, <2>5
<1> QED
  BY <1>3, <1>4, <1>5, <1>6, <1>7 DEF Next, Deliver, Recovers

-----------------------------------------------------------------------------
(* One end.                                                                *)

\* A step that leaves no fault behind had none before it.
LEMMA CleanBefore ==
    ASSUME RecoveryAssumption, TypeOK, [Next]_vars, Clean'
    PROVE  Clean /\ ~Refuse /\ ~Slip
<1>1. /\ faults \in [refused : Nat, throws : Nat, slips : Nat]
      /\ faults.refused \in Nat /\ faults.slips \in Nat
  BY DEF TypeOK
<1>2. ~Refuse /\ ~Slip
  BY <1>1 DEF Refuse, Slip, Clean
<1>3. Throw \/ UNCHANGED faults
  <2>1. \A r, err : Refusal(r, err) => UNCHANGED faults
    BY <1>2 DEF Refusal
  <2>2. CASE Compose \/ DelayElapses \/ LeaseExpires \/ Crash \/ UNCHANGED vars
    BY <1>2, <2>2 DEF Compose, WithRetry, WithLoop, WithDeadLetter, Enqueue, DelayElapses,
                      LeaseExpires, Crash, vars
  <2>3. ASSUME NEW s \in Slots, Deliver(s) PROVE Throw \/ UNCHANGED faults
    BY <2>1, <2>3 DEF Deliver, Claim, Handle, Complete, Classify, RetryLater, Choose, Loop, Drop,
                      DropFiltered, HandOver, AckHandedOver, Release
  <2> QED
    BY <2>2, <2>3 DEF Next
<1> QED
  BY <1>1, <1>2, <1>3 DEF Throw, Clean

\* Without a fault a settlement succeeds, and what it says of the job's end,
\* of the dead letters and of a handoff in between agrees.
LEMMA SlotClean ==
    ASSUME RecoveryAssumption, TypeOK, NEW s \in Slots, Recovers(s), ~Refuse, Holds(runs[s])
    PROVE  /\ row' = row => runs'[s] # Idle
           /\ \/ /\ runs[s].pc # "handed" /\ fate' \in {fate, "completed", "dropped", "filtered"}
                 /\ runs'[s] # Idle => runs'[s].pc # "handed"
                 /\ handoffs'.accepted = handoffs.accepted
              \/ /\ runs[s].pc = "handing" /\ runs'[s].pc = "handed" /\ runs'[s] # Idle
                 /\ fate' = fate /\ handoffs'.accepted = handoffs.accepted + 1
              \/ /\ runs[s].pc = "handed" /\ fate' = "deadLettered" /\ runs'[s] = Idle
                 /\ handoffs'.accepted = handoffs.accepted
           /\ fate' # fate => row'.at = "gone"
<1> DEFINE r == runs[s]
<1>0. /\ r \in Run /\ runs \in [Slots -> Run \cup {Idle}] /\ row \in Rows /\ config \in Configs
      /\ handoffs \in [tried : Nat, accepted : Nat, failed : Nat]
      /\ r.handoff \in Nat /\ MaxHandoffs \in Nat
  BY RecoveryStep DEF TypeOK, Run, RecoveryAssumption
<1>1. \A err : ~Refusal(r, err)
  BY DEF Refusal
<1>2. \A q : To(s, q) => runs'[s] = q
  BY <1>0 DEF To
<1>3. row.at = "leased" /\ Acked.at = "gone" /\ Returned.at = "ready"
      /\ \A n, h : Rescheduled(r, "delayed", n, h).at = "delayed"
  BY <1>0 DEF Holds, Acked, Returned, Rescheduled, Rows
<1> HIDE DEF r
<1>4. /\ FailPath(r) \in Run /\ FailPath(r).pc # "handed"
      /\ LoopPath(r, r.handoff) \in Run /\ LoopPath(r, r.handoff).pc # "handed"
      /\ ByPolicy(r) \in Run /\ ByPolicy(r).pc # "handed"
      /\ HandoffFailed(r) \in Run /\ HandoffFailed(r).pc # "handed"
  BY <1>0, FailPathGoes, LoopPathGoes, ByPolicyGoes, HandoffFailedGoes DEF Further
<1>5. Escape(r, "other") # Idle /\ Escape(r, "other").pc # "handed"
  <2>1. Escape(r, "other") # Idle
    <3>1. CASE r.inCustom
      <4> DEFINE b == [r EXCEPT !.inCustom = FALSE]
      <4>1. b \in Run
        BY <1>0 DEF Run
      <4>2. Escape(r, "other") = LoopPath(b, r.handoff)
        BY <3>1 DEF Escape
      <4> HIDE DEF b
      <4> QED
        BY <1>0, <4>1, <4>2, LoopPathGoes, IdleIsNoRun DEF Further
    <3>2. CASE ~r.inCustom
      <4>1. Escape(r, "other") = [r EXCEPT !.pc = "releasing"]
        BY <3>2 DEF Escape
      <4>2. [r EXCEPT !.pc = "releasing"].pc = "releasing"
        BY <1>0 DEF Run
      <4> QED
        BY <4>1, <4>2, IdleIsNoRun
    <3> QED
      BY <3>1, <3>2
  <2> QED
    BY <1>0, <2>1, EscapeGoes
<1>6. /\ [r EXCEPT !.pc = "completing"].pc = "completing"
      /\ [r EXCEPT !.pc = "classifying"].pc = "classifying"
      /\ [r EXCEPT !.pc = "retrying"].pc = "retrying"
      /\ [r EXCEPT !.pc = "handed"].pc = "handed"
  BY <1>0 DEF Run
<1>7. CASE Handle(s)
  BY <1>2, <1>4, <1>6, <1>7, IdleIsNoRun DEF Handle, r
<1>8. CASE Complete(s)
  BY <1>0, <1>1, <1>2, <1>3, <1>8 DEF Complete, r
<1>9. CASE Classify(s)
  BY <1>2, <1>4, <1>5, <1>6, <1>9, IdleIsNoRun DEF Classify, r
<1>10. CASE RetryLater(s)
  BY <1>1, <1>2, <1>3, <1>10 DEF RetryLater, r
<1>11. CASE Choose(s)
  BY <1>2, <1>4, <1>5, <1>11, IdleIsNoRun DEF Choose, r
<1>12. CASE Loop(s)
  BY <1>1, <1>2, <1>3, <1>5, <1>12 DEF Loop, r
<1>13. CASE Drop(s)
  BY <1>1, <1>2, <1>3, <1>13 DEF Drop, r
<1>14. CASE DropFiltered(s)
  BY <1>1, <1>2, <1>3, <1>14 DEF DropFiltered, r
<1>15. CASE HandOver(s)
  <2>1. r.pc = "handing" /\ UNCHANGED <<fate, row>>
    BY <1>15 DEF HandOver, r
  <2>2. \/ runs'[s] = [r EXCEPT !.pc = "handed"] /\ handoffs'.accepted = handoffs.accepted + 1
        \/ runs'[s] = HandoffFailed(r) /\ handoffs'.accepted = handoffs.accepted
    BY <1>0, <1>2, <1>15 DEF HandOver, r
  <2> QED
    BY <1>4, <1>6, <2>1, <2>2, IdleIsNoRun DEF r
<1>16. CASE AckHandedOver(s)
  BY <1>1, <1>2, <1>3, <1>16 DEF AckHandedOver, r
<1>17. CASE Release(s)
  BY <1>1, <1>2, <1>3, <1>17 DEF Release, r
<1> QED
  BY <1>7, <1>8, <1>9, <1>10, <1>11, <1>12, <1>13, <1>14, <1>15, <1>16, <1>17 DEF Recovers

LEMMA CleanKept ==
    ASSUME RecoveryAssumption, TypeOK, Fresh, CleanRun, [Next]_vars
    PROVE  CleanRun'
<1> SUFFICES ASSUME Clean'
             PROVE  /\ \A t \in Slots : runs'[t] # Idle => Holds(runs[t])'
                    /\ \A t, u \in Slots : runs'[t] # Idle /\ runs'[u] # Idle => t = u
                    /\ fate' # "none" => row'.at = "gone"
                    /\ handoffs'.accepted = IF Handed' \/ fate' = "deadLettered" THEN 1 ELSE 0
  BY DEF CleanRun
<1>0. runs \in [Slots -> Run \cup {Idle}] /\ row \in Rows /\ ~Refuse /\ ~Slip /\ Clean
  BY CleanBefore DEF TypeOK
<1>1. /\ \A t \in Slots : runs[t] # Idle => Holds(runs[t])
      /\ \A t, u \in Slots : runs[t] # Idle /\ runs[u] # Idle => t = u
      /\ fate # "none" => row.at = "gone"
      /\ handoffs.accepted = IF Handed \/ fate = "deadLettered" THEN 1 ELSE 0
  BY <1>0 DEF CleanRun
<1>2. CASE UNCHANGED vars
  BY <1>1, <1>2 DEF vars, Holds, Handed
<1>3. CASE Compose
  <2>1. row.at = "none" /\ UNCHANGED <<runs, fate, handoffs>>
    BY <1>3 DEF Compose, WithRetry, WithLoop, WithDeadLetter, Enqueue, Composing
  <2> QED
    BY <1>1, <2>1 DEF Fresh, Handed
<1>4. CASE DelayElapses \/ LeaseExpires
  <2>1. \A t \in Slots : runs[t] = Idle
    BY <1>0, <1>1, <1>4 DEF DelayElapses, LeaseExpires, Holds
  <2>2. UNCHANGED <<runs, fate, handoffs>> /\ fate = "none"
    BY <1>1, <1>4 DEF DelayElapses, LeaseExpires
  <2> QED
    BY <1>1, <2>1, <2>2 DEF Handed
<1>5. CASE Crash
  BY <1>0, <1>5 DEF Crash
<1>6. ASSUME NEW s \in Slots, Claim(s)
      PROVE  /\ \A t \in Slots : runs'[t] # Idle => Holds(runs[t])'
             /\ \A t, u \in Slots : runs'[t] # Idle /\ runs'[u] # Idle => t = u
             /\ fate' # "none" => row'.at = "gone"
             /\ handoffs'.accepted = IF Handed' \/ fate' = "deadLettered" THEN 1 ELSE 0
  <2>1. row.at = "ready" /\ UNCHANGED <<fate, handoffs>>
    BY <1>6 DEF Claim
  <2>2. \A t \in Slots : runs[t] = Idle
    BY <1>1, <2>1 DEF Holds
  <2>3. \A t \in Slots : t # s => runs'[t] = Idle
    BY <1>0, <1>6, <2>2, ClaimTakes
  <2>4. Holds(runs[s])' /\ runs'[s].pc = "handling"
    BY <1>6, ClaimTakes DEF Holds
  <2>5. ~Handed' /\ ~Handed
    BY <2>2, <2>3, <2>4, IdleIsNoRun DEF Handed
  <2> QED
    BY <1>1, <2>1, <2>3, <2>4, <2>5
<1>7. ASSUME NEW s \in Slots, Recovers(s)
      PROVE  /\ \A t \in Slots : runs'[t] # Idle => Holds(runs[t])'
             /\ \A t, u \in Slots : runs'[t] # Idle /\ runs'[u] # Idle => t = u
             /\ fate' # "none" => row'.at = "gone"
             /\ handoffs'.accepted = IF Handed' \/ fate' = "deadLettered" THEN 1 ELSE 0
  <2>1. runs[s] \in Run /\ runs[s] # Idle /\ Holds(runs[s]) /\ row.at = "leased" /\ fate = "none"
    BY <1>1, <1>7, RecoveryStep, IdleIsNoRun DEF Holds
  <2>2. \A t \in Slots : t # s => runs[t] = Idle /\ runs'[t] = Idle
    BY <1>0, <1>1, <1>7, <2>1, RecoveryStep
  <2>3. runs'[s] # Idle => runs'[s].gen = runs[s].gen /\ row' = row
    BY <1>7, <2>1, RecoveryStep, BecomesKeeps
  <2>4. \A t \in Slots : runs'[t] # Idle => Holds(runs[t])'
    BY <2>1, <2>2, <2>3 DEF Holds
  <2>5. Handed <=> runs[s].pc = "handed"
    BY <2>2, IdleIsNoRun DEF Handed
  <2>6. Handed' <=> runs'[s].pc = "handed"
    BY <2>2, IdleIsNoRun DEF Handed
  <2>7. runs'[s] = Idle => runs'[s].pc # "handed"
    BY IdleIsNoRun
  <2>8. fate' # "none" => row'.at = "gone"
    BY <1>0, <1>7, <2>1, SlotClean
  <2>9. handoffs'.accepted = IF Handed' \/ fate' = "deadLettered" THEN 1 ELSE 0
    BY <1>0, <1>1, <1>7, <2>1, <2>5, <2>6, <2>7, SlotClean
  <2> QED
    BY <2>2, <2>4, <2>8, <2>9
<1> QED
  BY <1>2, <1>3, <1>4, <1>5, <1>6, <1>7 DEF Next, Deliver, Recovers

-----------------------------------------------------------------------------
RecoveryInvariant ==
    /\ TypeOK /\ Layered /\ Fresh /\ EarnedAll /\ MatchesAll
    /\ CountingAll /\ Counted /\ CallsCounted /\ CleanRun

LEMMA RecoveryStarts == Init => RecoveryInvariant
<1> SUFFICES ASSUME Init PROVE RecoveryInvariant
  OBVIOUS
<1>0. TypeOK /\ RecoveryAssumption
  BY TypesStart, RecoveryAssumption
<1>1. /\ \A s \in Slots : runs[s] = Idle
      /\ row.at = "none" /\ row.attempt = 1 /\ row.handoff = 0 /\ fate = "none"
      /\ work.deliveries = 0 /\ work.calls = 0 /\ work.givenBack = 0
      /\ handoffs.failed = 0 /\ handoffs.accepted = 0
      /\ config.retry = FALSE /\ config.loop = "off"
  BY DEF Init, WorkerLayer
<1>2. Handling = {} /\ ~Handed
  BY <1>1, IdleIsNoRun DEF Handling, Handed
<1>3. CallsCounted
  <2>1. Cardinality(Handling) = 0 /\ Retries + 1 \in Nat
    BY <1>2, FS_EmptySet, InCallAssumption DEF InCallAssumption
  <2> QED
    BY <1>1, <2>1 DEF CallsCounted
<1>4. Layered /\ Fresh /\ MatchesAll /\ CountingAll /\ Counted
  BY <1>1 DEF Layered, Fresh, MatchesAll, CountingAll, Counted
<1>5. EarnedAll /\ CleanRun
  BY <1>1, <1>2 DEF EarnedAll, DropIsEarned, CleanRun
<1> QED
  BY <1>0, <1>3, <1>4, <1>5 DEF RecoveryInvariant

LEMMA RecoveryStays == Spec => []RecoveryInvariant
<1>1. RecoveryInvariant /\ [Next]_vars => RecoveryInvariant'
  BY RecoveryAssumption, InCallAssumption, TypesKept, LayeredKept, FreshKept, EarnedKept,
     MatchesKept, CountingKept, CountedKept, CallsKept, CleanKept DEF RecoveryInvariant
<1> QED
  BY <1>1, RecoveryStarts, PTL DEF Spec

(* Whatever the order the layers are composed in, a retrying worker does   *)
(* not loop on its own account (configureRetryRecovery and                 *)
(* configureLoopRecovery refuse each other).                               *)
THEOREM LayersAgree == Spec => []OneAnswer
<1>1. RecoveryInvariant => OneAnswer
  BY DEF RecoveryInvariant, Layered, OneAnswer
<1> QED
  BY <1>1, RecoveryStays, PTL

(* For any cap, however many deliveries recover at once and whatever       *)
(* crashes: a job is dropped only without a dead-letter queue or after the *)
(* full number of failed handoffs (applyFail).                             *)
THEOREM DropsAreEarned == Spec => []DropIsEarned
<1>1. RecoveryInvariant => DropIsEarned
  BY DEF RecoveryInvariant, EarnedAll
<1> QED
  BY <1>1, RecoveryStays, PTL

(* While no call is refused and no lease lost, a job meets one end: its    *)
(* dead letter, or its completion or drop (completeLease, applyFail).      *)
THEOREM JobEndsOnce == Spec => []OneEnd
<1>1. RecoveryInvariant => OneEnd
  <2> SUFFICES ASSUME RecoveryInvariant, Clean
               PROVE  /\ handoffs.accepted <= 1
                      /\ fate \in {"completed", "dropped", "filtered"} => handoffs.accepted = 0
    BY DEF OneEnd, Clean
  <2>1. /\ \A s \in Slots : runs[s] # Idle => Holds(runs[s])
        /\ fate # "none" => row.at = "gone"
        /\ handoffs.accepted = IF Handed \/ fate = "deadLettered" THEN 1 ELSE 0
    BY DEF RecoveryInvariant, CleanRun
  <2>2. fate # "none" => ~Handed
    BY <2>1, IdleIsNoRun DEF Handed, Holds
  <2> QED
    BY <2>1, <2>2
<1> QED
  BY <1>1, RecoveryStays, PTL

(* For any retries, attempts and handoff caps: a job under withRetry is    *)
(* delivered, and its handler called, no more often than the caps allow    *)
(* together, not counting deliveries given back (applyRecovery,            *)
(* retryWorker).                                                           *)
THEOREM WorkIsBounded == Spec => []WorkBounded
<1>1. RecoveryInvariant => WorkBounded
  <2> SUFFICES ASSUME RecoveryInvariant, config.retry
               PROVE  /\ work.deliveries <= Budget + work.givenBack
                      /\ work.calls <= (Retries + 1) * (Budget + work.givenBack)
    BY DEF WorkBounded
  <2>1. /\ work \in [deliveries : Nat, calls : Nat, givenBack : Nat]
        /\ work.deliveries \in Nat /\ work.calls \in Nat /\ work.givenBack \in Nat
        /\ row.handoff \in Nat /\ MaxAttempts \in Nat \ {0} /\ MaxHandoffs \in Nat \ {0}
        /\ Retries + 1 \in Nat
    BY RecoveryAssumption, InCallAssumption
    DEF RecoveryInvariant, TypeOK, Rows, RecoveryAssumption, InCallAssumption
  <2>2. Budget \in Nat /\ work.deliveries <= Budget + work.givenBack
    BY <2>1 DEF RecoveryInvariant, Counted, Taken, Budget
  <2>3. Cardinality(Handling) \in Nat
    BY RecoveryAssumption, HandlingFinite
  <2> DEFINE k == Retries + 1
             m == work.deliveries
             n == Budget + work.givenBack
  <2>4. work.calls + k * Cardinality(Handling) <= k * m
    BY DEF RecoveryInvariant, CallsCounted
  <2>5. k \in Nat /\ m \in Nat /\ n \in Nat /\ m <= n
    BY <2>1, <2>2
  <2> HIDE DEF k, m, n
  <2>6. k * m <= k * n /\ k * Cardinality(Handling) \in Nat /\ k * m \in Nat /\ k * n \in Nat
    BY <2>3, <2>5, Monotone, Product
  <2>7. work.calls <= k * n
    BY <2>1, <2>4, <2>6
  <2> QED
    BY <2>2, <2>7 DEF k, n
<1> QED
  BY <1>1, RecoveryStays, PTL

=============================================================================
