--------------------------- MODULE FailureRecovery ---------------------------
(***************************************************************************)
(* What becomes of a failed delivery: the recovery policy that withWorker,  *)
(* withRetry, withLoop and withDeadLetter configure together, and           *)
(* applyRecovery, applyLoop, applyFail and failLease of                     *)
(* packages/queue/src/queue/worker/with-worker.ts that carry it out.        *)
(*                                                                         *)
(* One job is followed.  Its row is the source queue's, reduced to what     *)
(* recovery reads and writes; a call of the queue succeeds, is refused by   *)
(* the store, or finds the lease gone.  A lease may expire while its        *)
(* delivery goes on, so that two deliveries of the job recover at once.     *)
(***************************************************************************)
EXTENDS InCall

CONSTANTS
  Concurrency,    \* deliveries that can be in progress at once
  MaxAttempts,    \* withRetry's option
  MaxHandoffs,    \* withDeadLetter's maxHandoffAttempts
  HopCap,         \* the hop count from which "capped" filters dead-letter
  MaxDeliveries,  \* bound on claims
  MaxTries,       \* bound on enqueues into the dead-letter queue
  MaxFaults       \* bound on the faults together

ASSUME RecoveryAssumption ==
  /\ Concurrency \in Nat \ {0}
  /\ MaxAttempts \in Nat \ {0} /\ MaxHandoffs \in Nat \ {0}
  /\ HopCap \in Nat /\ MaxDeliveries \in Nat
  /\ MaxTries \in Nat /\ MaxFaults \in Nat

VARIABLES
  config,     \* RecoveryConfig: the layers composed over the worker
  row,        \* the job's row in the source queue
  runs,       \* the deliveries in progress
  fate,       \* how the job has left the source queue
  work,       \* history: deliveries, handler calls, deliveries given back
  handoffs,   \* history: dead-letter enqueues tried, accepted, and failures
  faults      \* so far: calls the source's store refused, functions of the
              \* caller that threw, leases that slipped away in a crash or
              \* under a delivery

Slots == 1..Concurrency
vars == <<config, row, runs, fate, work, handoffs, faults>>
-----------------------------------------------------------------------------
(* Composition: with-worker.ts, recovery.util.ts and the with* functions.   *)

Policies == {"loop", "fail", "custom"}

\* onFailure given or not; the default is "fail".
WorkerLayer ==
  [policy : Policies, explicit : {TRUE}, retry : {FALSE}, loop : {"off"}, dlq : {"off"}]
  \cup [policy : {"fail"}, explicit : {FALSE}, retry : {FALSE}, loop : {"off"}, dlq : {"off"}]

Configs == [policy : Policies, explicit : BOOLEAN, retry : BOOLEAN,
            loop : {"off", "always", "capped"}, dlq : {"off", "always", "capped"}]

Idle == [pc |-> "idle"]

\* Layers are composed before the first item is enqueued.
Composing == row.at = "none"

\* Mutation of WithRetry: the conflict with a loop is not seen.
WithRetry_OverLoop ==
  /\ Composing /\ ~config.retry
  /\ config' = [config EXCEPT !.retry = TRUE]
  /\ UNCHANGED <<row, runs, fate, work, handoffs, faults>>

WithRetry ==
  /\ Composing /\ ~config.retry
  /\ ~(config.explicit /\ config.policy # "fail")
  /\ config' = [config EXCEPT !.retry = TRUE, !.policy = "fail", !.explicit = TRUE]
  /\ UNCHANGED <<row, runs, fate, work, handoffs, faults>>

WithLoop(filter) ==
  /\ Composing /\ ~config.retry
  /\ ~(config.explicit /\ config.policy # "loop")
  /\ config' = [config EXCEPT !.loop = filter, !.policy = "loop", !.explicit = TRUE]
  /\ UNCHANGED <<row, runs, fate, work, handoffs, faults>>

WithDeadLetter(filter) ==
  /\ Composing /\ config.dlq = "off"
  /\ config' = [config EXCEPT !.dlq = filter]
  /\ UNCHANGED <<row, runs, fate, work, handoffs, faults>>

Enqueue ==
  /\ Composing
  /\ row' = [at |-> "ready", gen |-> 0, attempt |-> 1, handoff |-> 0, hops |-> 0]
  /\ UNCHANGED <<config, runs, fate, work, handoffs, faults>>
-----------------------------------------------------------------------------
(* The source queue's calls, by what they do to the row.                    *)

Holds(r) == row.at = "leased" /\ row.gen = r.gen

\* ack
Acked == [row EXCEPT !.at = "gone"]

\* reschedule: the caller's attempt and handoff count replace the row's.
Rescheduled(r, at, attempt, hops) ==
  [row EXCEPT !.at = at, !.attempt = attempt, !.handoff = r.next, !.hops = hops]

\* release, a reclaimed lease, and a restart keep what the row has.
Returned == [row EXCEPT !.at = "ready"]

MoreFaults == faults.refused + faults.throws + faults.slips < MaxFaults
Refuse == MoreFaults /\ faults' = [faults EXCEPT !.refused = @ + 1]
Slip == MoreFaults /\ faults' = [faults EXCEPT !.slips = @ + 1]
\* classify, onFailure, and the filter, map and delay of a loop may throw.
Throw == MoreFaults /\ faults' = [faults EXCEPT !.throws = @ + 1]

\* A settlement of r that does not happen, and the error it rejects with.
Refusal(r, err) ==
  /\ \/ ~Holds(r) /\ err = "mismatch" /\ UNCHANGED faults
     \/ Holds(r) /\ err = "store" /\ Refuse
  /\ UNCHANGED row

To(s, r) == runs' = [runs EXCEPT ![s] = r]
-----------------------------------------------------------------------------
(* Where recovery goes next, without an await in between.                   *)

\* The entry of applyFail: acknowledge and drop, or hand over.
FailPath(r) ==
  [r EXCEPT !.pc = IF config.dlq = "off" THEN "dropping"
                   ELSE IF config.dlq = "capped" /\ r.hops < HopCap THEN "filtered"
                   ELSE "handing"]

\* applyLoop, given the handoff count to store.  A filter that says no sends
\* the job down the fail path, from inside applyLoop's own try.
LoopPath(r, handoff) ==
  IF config.loop = "capped" /\ r.hops >= HopCap THEN FailPath([r EXCEPT !.inLoop = TRUE])
  ELSE [r EXCEPT !.pc = "looping", !.inLoop = TRUE, !.next = handoff]

\* Mutation of HandoffFailed: dropped one failure early.
HandoffFailed_Early(r) ==
  IF r.handoff + 2 >= MaxHandoffs THEN [r EXCEPT !.pc = "dropping"]
  ELSE LoopPath(r, r.handoff + 1)

\* The catch of applyFail: give up at the cap, or keep the job in the queue.
HandoffFailed(r) ==
  IF r.handoff + 1 >= MaxHandoffs THEN [r EXCEPT !.pc = "dropping"]
  ELSE LoopPath(r, r.handoff + 1)

\* An error leaves applyLoop or applyFail: a custom policy's catch loops the
\* job; otherwise failLease releases the lease, unless the error says, not
\* wrapped by applyLoop, that the lease is gone.
Escape(r, err) ==
  IF r.inCustom THEN LoopPath([r EXCEPT !.inCustom = FALSE], r.handoff)
  ELSE IF err = "mismatch" /\ ~r.inLoop THEN Idle
  ELSE [r EXCEPT !.pc = "releasing"]

ByPolicy(r) ==
  CASE config.policy = "loop" -> LoopPath(r, r.handoff)
    [] config.policy = "fail" -> FailPath(r)
    [] config.policy = "custom" -> [r EXCEPT !.pc = "choosing", !.inCustom = TRUE]
-----------------------------------------------------------------------------
(* One delivery.                                                           *)

\* Slots have no identity in the code: the first idle one is taken.
Claim(s) ==
  /\ row.at = "ready" /\ work.deliveries < MaxDeliveries
  /\ runs[s] = Idle /\ \A t \in 1..(s - 1) : runs[t] # Idle
  /\ row' = [row EXCEPT !.at = "leased", !.gen = @ + 1]
  /\ To(s, [pc |-> "handling", gen |-> row.gen + 1, attempt |-> row.attempt,
            handoff |-> row.handoff, hops |-> row.hops, next |-> row.handoff,
            inLoop |-> FALSE, inCustom |-> FALSE])
  /\ work' = [work EXCEPT !.deliveries = @ + 1]
  /\ UNCHANGED <<config, fate, handoffs, faults>>

\* The handler ends; completeLease or failLease.
Handle(s) ==
  LET r == runs[s] IN
  /\ r.pc = "handling"
  /\ \E d \in Deliveries :
       /\ To(s, IF d.state = "returned" THEN [r EXCEPT !.pc = "completing"]
                ELSE IF config.retry THEN [r EXCEPT !.pc = "classifying"] ELSE ByPolicy(r))
       /\ work' = [work EXCEPT !.calls = @ + d.calls]
  /\ UNCHANGED <<config, row, fate, handoffs, faults>>

\* completeLease: a refused ack leaves the lease to its deadline.
Complete(s) ==
  LET r == runs[s] IN
  /\ r.pc = "completing"
  /\ To(s, Idle)
  /\ \/ Holds(r) /\ row' = Acked /\ fate' = "completed" /\ UNCHANGED faults
     \/ (\E err \in {"mismatch", "store"} : Refusal(r, err)) /\ UNCHANGED fate
  /\ UNCHANGED <<config, work, handoffs>>

\* retry.classify answers, or throws.
Classify(s) ==
  LET r == runs[s] IN
  /\ r.pc = "classifying"
  /\ \/ r.attempt < MaxAttempts /\ To(s, [r EXCEPT !.pc = "retrying"]) /\ UNCHANGED faults
     \/ To(s, FailPath(r)) /\ UNCHANGED faults
     \/ To(s, Escape(r, "other")) /\ Throw
  /\ UNCHANGED <<config, row, fate, work, handoffs>>

\* Mutation of RetryLater: the attempt is not counted.
RetryLater_SameAttempt(s) ==
  LET r == runs[s] IN
  /\ r.pc = "retrying"
  /\ \/ Holds(r) /\ row' = Rescheduled(r, "delayed", r.attempt, r.hops)
        /\ To(s, Idle) /\ UNCHANGED faults
     \/ \E err \in {"mismatch", "store"} : Refusal(r, err) /\ To(s, Escape(r, err))
  /\ UNCHANGED <<config, fate, work, handoffs>>

RetryLater(s) ==
  LET r == runs[s] IN
  /\ r.pc = "retrying"
  /\ \/ Holds(r) /\ row' = Rescheduled(r, "delayed", r.attempt + 1, r.hops)
        /\ To(s, Idle) /\ UNCHANGED faults
     \/ \E err \in {"mismatch", "store"} : Refusal(r, err) /\ To(s, Escape(r, err))
  /\ UNCHANGED <<config, fate, work, handoffs>>

\* A custom onFailure answers "fail" (or nothing), "loop", or throws.
Choose(s) ==
  LET r == runs[s] IN
  /\ r.pc = "choosing"
  /\ \/ To(s, FailPath(r)) /\ UNCHANGED faults
     \/ To(s, LoopPath(r, r.handoff)) /\ UNCHANGED faults
     \/ To(s, Escape(r, "other")) /\ Throw
  /\ UNCHANGED <<config, row, fate, work, handoffs>>

\* stampLoopHops: withLoop counts the re-entry in the payload, whatever map
\* has made of it.
NextHops(r) == IF config.loop = "off" THEN r.hops ELSE r.hops + 1

\* Mutation of Loop: map's payload is taken with the hop count it has.
Loop_Unstamped(s) ==
  LET r == runs[s] IN
  /\ r.pc = "looping"
  /\ \/ Holds(r) /\ row' = Rescheduled(r, "delayed", r.attempt, r.hops)
        /\ To(s, Idle) /\ UNCHANGED faults
     \/ \E err \in {"mismatch", "store"} : Refusal(r, err) /\ To(s, Escape(r, err))
  /\ UNCHANGED <<config, fate, work, handoffs>>

\* The end of applyLoop: map, delay and the settlement.  A delay of zero is
\* DelayElapses taken at once.
Loop(s) ==
  LET r == runs[s] IN
  /\ r.pc = "looping"
  /\ \/ Holds(r) /\ row' = Rescheduled(r, "delayed", r.attempt, NextHops(r))
        /\ To(s, Idle) /\ UNCHANGED faults
     \/ \E err \in {"mismatch", "store"} : Refusal(r, err) /\ To(s, Escape(r, err))
     \/ config.loop # "off" /\ Throw /\ To(s, Escape(r, "other")) /\ UNCHANGED row
  /\ UNCHANGED <<config, fate, work, handoffs>>

\* worker:dropped, without a dead-letter queue or at the handoff cap.
Drop(s) ==
  LET r == runs[s] IN
  /\ r.pc = "dropping"
  /\ \/ Holds(r) /\ row' = Acked /\ fate' = "dropped"
        /\ To(s, Idle) /\ UNCHANGED faults
     \/ /\ \E err \in {"mismatch", "store"} : Refusal(r, err) /\ To(s, Escape(r, err))
        /\ UNCHANGED fate
  /\ UNCHANGED <<config, work, handoffs>>

Failure == handoffs' = [handoffs EXCEPT !.failed = @ + 1]

\* dlq.filter says no; its ack sits in the try of the handoff.
DropFiltered(s) ==
  LET r == runs[s] IN
  /\ r.pc = "filtered"
  /\ \/ Holds(r) /\ row' = Acked /\ fate' = "filtered"
        /\ To(s, Idle) /\ UNCHANGED <<faults, handoffs>>
     \/ /\ \E err \in {"mismatch", "store"} : Refusal(r, err)
        /\ To(s, HandoffFailed(r)) /\ Failure /\ UNCHANGED fate
  /\ UNCHANGED <<config, work>>

\* dlq.target.enqueue answers (or dlq.map throws).
HandOver(s) ==
  LET r == runs[s] IN
  /\ r.pc = "handing" /\ handoffs.tried < MaxTries
  /\ \/ /\ To(s, [r EXCEPT !.pc = "handed"])
        /\ handoffs' = [handoffs EXCEPT !.tried = @ + 1, !.accepted = @ + 1]
     \/ /\ To(s, HandoffFailed(r))
        /\ handoffs' = [handoffs EXCEPT !.tried = @ + 1, !.failed = @ + 1]
  /\ UNCHANGED <<config, row, fate, work, faults>>

\* Mutation of AckHandedOver: the row is given back after the handoff.
AckHandedOver_Kept(s) ==
  LET r == runs[s] IN
  /\ r.pc = "handed"
  /\ \/ Holds(r) /\ row' = Returned /\ fate' = fate
        /\ To(s, Idle) /\ UNCHANGED <<faults, handoffs>>
     \/ /\ \E err \in {"mismatch", "store"} : Refusal(r, err)
        /\ To(s, HandoffFailed(r)) /\ Failure /\ UNCHANGED fate
  /\ UNCHANGED <<config, work>>

\* The ack after the destination has accepted; refused, it is a failed handoff.
AckHandedOver(s) ==
  LET r == runs[s] IN
  /\ r.pc = "handed"
  /\ \/ Holds(r) /\ row' = Acked /\ fate' = "deadLettered"
        /\ To(s, Idle) /\ UNCHANGED <<faults, handoffs>>
     \/ /\ \E err \in {"mismatch", "store"} : Refusal(r, err)
        /\ To(s, HandoffFailed(r)) /\ Failure /\ UNCHANGED fate
  /\ UNCHANGED <<config, work>>

\* failLease's catch; its own errors are swallowed.
Release(s) ==
  LET r == runs[s] IN
  /\ r.pc = "releasing" /\ To(s, Idle)
  /\ \/ Holds(r) /\ row' = Returned /\ UNCHANGED faults
        /\ work' = [work EXCEPT !.givenBack = @ + 1]
     \/ (\E err \in {"mismatch", "store"} : Refusal(r, err)) /\ UNCHANGED work
  /\ UNCHANGED <<config, fate, handoffs>>
-----------------------------------------------------------------------------
(* The queue's timers, and the process.                                    *)

DelayElapses ==
  /\ row.at = "delayed" /\ row' = [row EXCEPT !.at = "ready"]
  /\ UNCHANGED <<config, runs, fate, work, handoffs, faults>>

\* A lease always expires when no delivery works under it any more.
LeaseExpires ==
  /\ row.at = "leased" /\ row' = Returned
  /\ work' = [work EXCEPT !.givenBack = @ + 1]
  /\ IF \E s \in Slots : runs[s] # Idle /\ runs[s].gen = row.gen
     THEN Slip ELSE UNCHANGED faults
  /\ UNCHANGED <<config, runs, fate, handoffs>>

\* A restart recovers the row with its counts; what was in progress is gone.
Crash ==
  /\ \E s \in Slots : runs[s] # Idle
  /\ Slip /\ runs' = [s \in Slots |-> Idle]
  /\ IF row.at = "leased"
     THEN row' = Returned /\ work' = [work EXCEPT !.givenBack = @ + 1]
     ELSE UNCHANGED <<row, work>>
  /\ UNCHANGED <<config, fate, handoffs>>
-----------------------------------------------------------------------------
Init ==
  /\ config \in WorkerLayer
  /\ row = [at |-> "none", gen |-> 0, attempt |-> 1, handoff |-> 0, hops |-> 0]
  /\ runs = [s \in Slots |-> Idle]
  /\ fate = "none"
  /\ work = [deliveries |-> 0, calls |-> 0, givenBack |-> 0]
  /\ handoffs = [tried |-> 0, accepted |-> 0, failed |-> 0]
  /\ faults = [refused |-> 0, throws |-> 0, slips |-> 0]

Deliver(s) ==
  \/ Claim(s) \/ Handle(s) \/ Complete(s) \/ Classify(s) \/ RetryLater(s)
  \/ Choose(s) \/ Loop(s) \/ Drop(s) \/ DropFiltered(s) \/ HandOver(s)
  \/ AckHandedOver(s) \/ Release(s)

Compose ==
  \/ WithRetry \/ Enqueue
  \/ \E filter \in {"always", "capped"} : WithLoop(filter) \/ WithDeadLetter(filter)

Next ==
  \/ Compose \/ DelayElapses \/ LeaseExpires \/ Crash
  \/ \E s \in Slots : Deliver(s)

\* The event loop runs what is due: handlers and calls end, timers fire.
Fairness ==
  /\ WF_vars(Enqueue) /\ WF_vars(DelayElapses) /\ WF_vars(LeaseExpires)
  /\ \A s \in Slots : WF_vars(Deliver(s))

Spec == Init /\ [][Next]_vars
FairSpec == Spec /\ Fairness
-----------------------------------------------------------------------------
(* Properties.                                                             *)

\* No two layers answer the same failure: a retrying worker never loops on
\* its own account, whatever the order of the layers (configureLoopRecovery,
\* configureRetryRecovery), and every filter set belongs to the policy in force.
OneAnswer ==
  /\ config.retry => config.policy = "fail" /\ config.loop = "off"
  /\ config.loop # "off" => config.policy = "loop"

\* What the retry options promise: every delivery that is settled uses up an
\* attempt or a handoff attempt, so a job is worked on no more often than the
\* two caps together, plus once for each delivery the queue was given back
\* without a verdict; inside a delivery the handler is called at most
\* Retries + 1 times (applyRecovery, retryWorker).
Budget == MaxAttempts + (IF config.dlq = "off" THEN 0 ELSE MaxHandoffs - 1)
WorkBounded ==
  config.retry =>
    /\ work.deliveries <= Budget + work.givenBack
    /\ work.calls <= (Retries + 1) * (Budget + work.givenBack)

\* A job is dropped only when there is no dead-letter queue, or after the
\* full number of failed handoffs (applyFail), crashes and restarts included.
DropIsEarned ==
  fate = "dropped" => config.dlq = "off" \/ handoffs.failed >= MaxHandoffs

\* Without a refused call, a crash and an expired lease a job meets one end:
\* one dead letter, or a completed or dropped job and no dead letter.
OneEnd ==
  faults.refused = 0 /\ faults.slips = 0 =>
    /\ handoffs.accepted <= 1
    /\ fate \in {"completed", "dropped", "filtered"} => handoffs.accepted = 0

\* A job whose policy has an end gets there, however its deliveries, the
\* store and the dead-letter queue fail in between.
Ends == config.policy = "fail" \/ (config.loop = "capped" /\ config.dlq = "off")
JobEnds == []((row.at # "none" /\ Ends) => <>(row.at = "gone"))

\* api.md: the total of the destination enqueues is capped.
HandoffsCapped == handoffs.tried <= MaxHandoffs
=============================================================================
