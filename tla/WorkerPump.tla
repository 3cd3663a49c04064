----------------------------- MODULE WorkerPump -----------------------------
(***************************************************************************)
(* withWorker (queue/worker/with-worker.ts), gracefulStop and whenIdle     *)
(* over a queue with a store. The pump claims rows while there are free    *)
(* slots and is woken by queue:enqueued; every delivery ends in one or     *)
(* more settlement calls and frees its slot; gracefulStop and whenIdle     *)
(* watch the events and counters of the worker.                            *)
(*                                                                         *)
(* The queue is what DurableQueue checks it to be, reduced to where each   *)
(* row is: a claim pops a row, awaits the store and leases it; any other   *)
(* operation on the chain is one step, since the lease it checks outlives  *)
(* its store call (DurableQueue!LeaseOutlivesItsCall).                     *)
(***************************************************************************)
EXTENDS Naturals, Sequences, FiniteSets

CONSTANTS
  Rows,         \* the rows that producers may enqueue
  Concurrency,  \* options.concurrency
  \* Bounds on the environment.
  MaxFailures,  \* store calls that are refused
  MaxExpiries,  \* leases whose deadline passes
  MaxRequeues,  \* deliveries that are put back by the recovery policy
  MaxStops      \* stop, gracefulStop and whenIdle calls

ASSUME WorkerAssumption ==
  /\ IsFiniteSet(Rows)
  /\ Concurrency \in Nat \ {0}
  /\ {MaxFailures, MaxExpiries, MaxRequeues, MaxStops} \subseteq Nat

VARIABLES
  \* The queue.
  place,      \* where each row is
  holder,     \* the generation of the lease of a leased row
  genSeq,     \* the last generation given
  chain,      \* the operations on the write chain
  \* The worker.
  running, active, pumpAgain,
  pump,       \* "off", or what the claim the pump awaits has come to
  work,       \* the deliveries in progress, by generation
  \* The callers.
  stopper,    \* the last gracefulStop
  idler,      \* the last whenIdle
  \* What the environment has done, and history.
  failures, expiries, requeues, stops,
  leaked,     \* generations whose last settlement the store refused
  late,       \* handlers started since a gracefulStop has resolved
  silent      \* has a delivery ended without completed or failed?

queueVars  == <<place, holder, genSeq>>
pumpVars   == <<pump, pumpAgain>>
envVars    == <<failures, expiries, requeues, stops>>
histVars   == <<leaked, late, silent>>
vars == <<queueVars, chain, running, active, pumpVars, work, stopper, idler,
          envVars, histVars>>

Places == {"new", "enqueuing", "ready", "delayed", "popped", "leased", "gone"}
In(p)  == {r \in Rows : place[r] = p}

\* size(): a row whose claim awaits the store is in none of the collections.
Size == Cardinality(In("ready") \cup In("delayed") \cup In("leased"))

Settlements == {"ack", "requeue", "later", "release"}
Op == [kind : {"enqueue"}, row : Rows, later : BOOLEAN]
        \cup [kind : {"claim", "flush"}] \cup [kind : Settlements, gen : Nat]
Delivery == [row : Rows,
             pc : {"claimed", "handler", "acking", "recovering", "retrying",
                   "rescuing", "releasing"},
             reply : {"none", "ok", "refused", "mismatch"}]

Starting(kind) == chain # <<>> /\ Head(chain).kind = kind
-----------------------------------------------------------------------------
(* The pump. c is what the chain holds otherwise after the step.           *)

\* Mutation of MayClaim: one slot too many.
MayClaim_OffByOne(run, act) == run /\ act <= Concurrency

MayClaim(run, act) == run /\ act < Concurrency

ClaimNext(c) == pump' = "claim" /\ chain' = Append(c, [kind |-> "claim"])

\* Mutation of Kick: a wakeup during a claim is ignored.
Kick_Ignored(run, act, c) ==
  IF pump = "off" /\ MayClaim(run, act)
  THEN ClaimNext(c) /\ pumpAgain' = FALSE
  ELSE chain' = c /\ UNCHANGED pumpVars

\* pump(): a wakeup during a claim is remembered, otherwise pumping starts.
Kick(run, act, c) ==
  \/ pump # "off" /\ pumpAgain' = TRUE /\ chain' = c /\ UNCHANGED pump
  \/ /\ pump = "off" /\ pumpAgain' = FALSE
     /\ IF MayClaim(run, act) THEN ClaimNext(c) ELSE chain' = c /\ UNCHANGED pump

\* queue:enqueued is emitted; the worker listens while it runs.
Announce(c) ==
  IF running THEN Kick(TRUE, active, c) ELSE chain' = c /\ UNCHANGED pumpVars

\* Mutation of LoopEnds: the loop is not repeated.
LoopEnds_Once == pump' = "off" /\ pumpAgain' = FALSE /\ UNCHANGED chain

\* The inner loop of pumpAsync ends; it is repeated after a wakeup.
LoopEnds ==
  IF pumpAgain /\ running
  THEN /\ pumpAgain' = FALSE
       /\ IF MayClaim(running, active) THEN ClaimNext(chain)
          ELSE pump' = "off" /\ UNCHANGED chain
  ELSE pump' = "off" /\ UNCHANGED <<pumpAgain, chain>>

\* A handler that returns a promise has settled nothing yet; one that returns or
\* throws at once has its first settlement call made before the loop goes on.
AtOnce ==
  {[pc |-> "handler", calls |-> <<>>]} \cup
  {[pc |-> o.pc, calls |-> <<[kind |-> o.kind, gen |-> genSeq]>>] :
     o \in [pc : {"acking"}, kind : {"ack"}]
             \cup [pc : {"recovering"}, kind : {"ack", "requeue", "later"}]}

\* Settlements that put a row back are bounded.
Requeues(calls) ==
  IF \E i \in DOMAIN calls : calls[i].kind \in {"requeue", "later"}
  THEN requeues < MaxRequeues /\ requeues' = requeues + 1
  ELSE UNCHANGED requeues

\* The claim has resolved with a lease: its handler starts, even if the worker
\* has been stopped meanwhile, and the loop goes on if slots are left.
PumpGotLease ==
  /\ pump = "leased"
  /\ active' = active + 1
  /\ late' = IF ~running /\ stopper.pc = "resolved" THEN late + 1 ELSE late
  /\ \E o \in AtOnce :
       /\ work' = [work EXCEPT ![genSeq].pc = o.pc]
       /\ Requeues(o.calls)
       /\ IF MayClaim(running, active + 1)
          THEN ClaimNext(chain \o o.calls) /\ UNCHANGED pumpAgain
          ELSE /\ pump' = "off" /\ pumpAgain' = (pumpAgain /\ ~running)
               /\ chain' = chain \o o.calls
  /\ UNCHANGED <<queueVars, running, stopper, idler, failures, expiries, stops,
                 leaked, silent>>

\* The claim has found nothing.
PumpGotNothing ==
  /\ pump = "empty"
  /\ LoopEnds
  /\ UNCHANGED <<queueVars, running, active, work, stopper, idler, envVars,
                 histVars>>

\* The claim has been refused: the worker stops itself.
PumpFailed ==
  /\ pump = "refused"
  /\ running' = FALSE /\ pump' = "off"
  /\ UNCHANGED <<queueVars, chain, active, pumpAgain, work, stopper, idler,
                 envVars, histVars>>
-----------------------------------------------------------------------------
(* Callers.                                                                *)

Enqueue(r, later) ==
  /\ place[r] = "new"
  /\ place' = [place EXCEPT ![r] = "enqueuing"]
  /\ chain' = Append(chain, [kind |-> "enqueue", row |-> r, later |-> later])
  /\ UNCHANGED <<holder, genSeq, running, active, pumpVars, work, stopper, idler,
                 envVars, histVars>>

Start ==
  /\ ~running /\ running' = TRUE
  /\ Kick(TRUE, active, chain)
  /\ late' = 0
  /\ UNCHANGED <<queueVars, active, work, stopper, idler, envVars, leaked, silent>>

CallsStop == stops < MaxStops /\ stops' = stops + 1

Stop ==
  /\ CallsStop /\ running /\ running' = FALSE
  /\ UNCHANGED <<queueVars, chain, active, pumpVars, work, stopper, idler,
                 failures, expiries, requeues, histVars>>

\* gracefulStop's settle() when nothing is processing: flush() is the promise
\* of what is on the chain, which a mark at its end stands for.
Settle(flush) ==
  /\ stopper' = [pc |-> IF flush THEN "flushing" ELSE "resolved", flush |-> flush]
  /\ chain' = IF flush THEN Append(chain, [kind |-> "flush"]) ELSE chain

NoFlush == \A i \in DOMAIN chain : chain[i].kind # "flush"

GracefulStop(flush) ==
  /\ CallsStop /\ running' = FALSE
  /\ stopper.pc \in {"none", "resolved", "rejected"} /\ NoFlush
  /\ IF active = 0 THEN Settle(flush)
     ELSE stopper' = [pc |-> "waiting", flush |-> flush] /\ UNCHANGED chain
  /\ late' = 0
  /\ UNCHANGED <<queueVars, active, pumpVars, work, idler, failures, expiries,
                 requeues, leaked, silent>>

\* Mutation of StopperChecks: the listeners go at the first event.
StopperChecks_Once ==
  /\ stopper.pc = "checking"
  /\ IF active = 0 THEN Settle(stopper.flush)
     ELSE stopper' = [stopper EXCEPT !.pc = "settling"] /\ UNCHANGED chain
  /\ UNCHANGED <<queueVars, running, active, pumpVars, work, idler, envVars,
                 histVars>>

\* The microtask after worker:completed or worker:failed.
StopperChecks ==
  /\ stopper.pc = "checking"
  /\ IF active = 0 THEN Settle(stopper.flush)
     ELSE stopper' = [stopper EXCEPT !.pc = "waiting"] /\ UNCHANGED chain
  /\ UNCHANGED <<queueVars, running, active, pumpVars, work, idler, envVars,
                 histVars>>

FlushDone ==
  /\ Starting("flush") /\ chain' = Tail(chain)
  /\ stopper' = IF stopper.pc = "flushing"
                THEN [stopper EXCEPT !.pc = "resolved"] ELSE stopper
  /\ UNCHANGED <<queueVars, running, active, pumpVars, work, idler, envVars,
                 histVars>>

StopTimesOut ==
  /\ stopper.pc \in {"waiting", "checking", "flushing"}
  /\ stopper' = [stopper EXCEPT !.pc = "rejected"]
  /\ UNCHANGED <<queueVars, chain, running, active, pumpVars, work, idler,
                 envVars, histVars>>

\* whenIdle resolves at once when the queue is empty and nothing is processing.
WhenIdle ==
  /\ CallsStop /\ idler # "waiting"
  /\ idler' = IF Size = 0 /\ active = 0 THEN "resolved" ELSE "waiting"
  /\ UNCHANGED <<queueVars, chain, running, active, pumpVars, work, stopper,
                 failures, expiries, requeues, histVars>>

IdleTimesOut ==
  /\ idler = "waiting" /\ idler' = "rejected"
  /\ UNCHANGED <<queueVars, chain, running, active, pumpVars, work, stopper,
                 envVars, histVars>>
-----------------------------------------------------------------------------
(* Deliveries.                                                             *)

\* A settlement call of delivery g.
CallsFor(g, kind, pc) ==
  /\ chain' = Append(chain, [kind |-> kind, gen |-> g])
  /\ work' = [work EXCEPT ![g].pc = pc, ![g].reply = "none"]
  /\ Requeues(<<[kind |-> kind, gen |-> g]>>)
  /\ UNCHANGED <<queueVars, running, active, pumpVars, stopper, idler, failures,
                 expiries, stops, histVars>>

HandlerSucceeds(g) == work[g].pc = "handler" /\ CallsFor(g, "ack", "acking")

\* applyRecovery drops the row (an ack, after a dead-letter queue has taken it
\* or without one), or puts it back for a retry or a loop.
HandlerFails(g) ==
  /\ work[g].pc = "handler"
  /\ \E kind \in {"ack", "requeue", "later"} : CallsFor(g, kind, "recovering")

Unsettled(g) == work[g].reply \in {"refused", "mismatch"}

\* A recovery that fails is replaced by another, applyFail's by applyLoop and
\* that of a custom policy once more by applyLoop, or failLease's catch releases
\* the lease.
Recovering == {"recovering", "retrying", "rescuing"}

RecoveryRefused(g) ==
  /\ Unsettled(g)
  /\ \/ work[g].pc \in Recovering /\ CallsFor(g, "release", "releasing")
     \/ \E kind \in {"ack", "requeue", "later"} :
          \/ work[g].pc = "recovering" /\ CallsFor(g, kind, "retrying")
          \/ work[g].pc = "retrying" /\ CallsFor(g, kind, "rescuing")

\* Mutation of IdleNow: the delivery that ends is still counted.
IdleNow_BeforeDecrement(act) == act + 1 = 0 /\ Size = 0

IdleNow(act) == act = 0 /\ Size = 0

\* finishItem, then worker:completed or worker:failed if there is an event.
FinishItem(g, event) ==
  /\ active' = active - 1
  /\ work' = [h \in DOMAIN work \ {g} |-> work[h]]
  /\ idler' = IF idler = "waiting" /\ IdleNow(active - 1) THEN "resolved" ELSE idler
  /\ IF pump = "off" THEN Kick(running, active - 1, chain)
     ELSE UNCHANGED <<pumpVars, chain>>
  /\ stopper' = IF event /\ stopper.pc = "waiting"
                THEN [stopper EXCEPT !.pc = "checking"] ELSE stopper
  /\ silent' = (silent \/ ~event)
  /\ leaked' = IF work[g].reply = "refused" /\ work[g].pc \in {"acking", "releasing"}
               THEN leaked \cup {g} ELSE leaked
  /\ UNCHANGED <<queueVars, running, envVars, late>>

\* completeLease: an ack that fails ends the delivery without worker:completed.
Acked(g) ==
  /\ work[g].pc = "acking" /\ work[g].reply # "none"
  /\ FinishItem(g, work[g].reply = "ok")

\* Mutation of Recovered: a recovery that was refused is not released.
Recovered_NoRelease(g) ==
  /\ work[g].pc \in Recovering \cup {"releasing"} /\ work[g].reply # "none"
  /\ FinishItem(g, TRUE)

\* failLease's finally: the row is settled, or somebody else's by now, or
\* the release has been tried.
Recovered(g) ==
  /\ \/ work[g].pc \in Recovering /\ work[g].reply \in {"ok", "mismatch"}
     \/ work[g].pc = "releasing" /\ work[g].reply # "none"
  /\ FinishItem(g, TRUE)
-----------------------------------------------------------------------------
(* The queue's operations.                                                 *)

EndOp == chain' = Tail(chain)

EnqueueStored ==
  /\ Starting("enqueue")
  /\ place' = [place EXCEPT ![Head(chain).row] =
                 IF Head(chain).later THEN "delayed" ELSE "ready"]
  /\ Announce(Tail(chain))
  /\ UNCHANGED <<holder, genSeq, running, active, work, stopper, idler, envVars,
                 histVars>>

Refusal == failures < MaxFailures /\ failures' = failures + 1

EnqueueRefused ==
  /\ Starting("enqueue") /\ Refusal
  /\ place' = [place EXCEPT ![Head(chain).row] = "new"]
  /\ EndOp
  /\ UNCHANGED <<holder, genSeq, running, active, pumpVars, work, stopper, idler,
                 expiries, requeues, stops, histVars>>

BeginClaim ==
  /\ Starting("claim") /\ In("popped") = {}
  /\ IF In("ready") = {}
     THEN pump' = "empty" /\ EndOp /\ UNCHANGED place
     ELSE /\ \E r \in In("ready") : place' = [place EXCEPT ![r] = "popped"]
          /\ UNCHANGED <<pump, chain>>
  /\ UNCHANGED <<holder, genSeq, running, active, pumpAgain, work, stopper, idler,
                 envVars, histVars>>

\* The claim resolves; the pump goes on in a later microtask.
ClaimStored ==
  /\ Starting("claim")
  /\ genSeq' = genSeq + 1
  /\ \E r \in In("popped") :
       /\ place' = [place EXCEPT ![r] = "leased"]
       /\ holder' = [holder EXCEPT ![r] = genSeq']
       /\ work' = [g \in DOMAIN work \cup {genSeq'} |->
                     IF g = genSeq' THEN [row |-> r, pc |-> "claimed", reply |-> "none"]
                     ELSE work[g]]
  /\ pump' = "leased" /\ EndOp
  /\ UNCHANGED <<running, active, pumpAgain, stopper, idler, envVars, histVars>>

\* The write of the claim is refused, or before it that of the reclaim of a lease
\* whose deadline has passed.
ClaimRefused ==
  /\ Starting("claim") /\ Refusal
  /\ \/ \E r \in In("popped") : place' = [place EXCEPT ![r] = "ready"]
     \/ /\ In("popped") = {} /\ In("leased") # {} /\ expiries < MaxExpiries
        /\ UNCHANGED place
  /\ pump' = "refused" /\ EndOp
  /\ UNCHANGED <<holder, genSeq, running, active, pumpAgain, work, stopper, idler,
                 expiries, requeues, stops, histVars>>

Settling(reply) ==
  /\ \E kind \in Settlements : Starting(kind)
  /\ work' = [work EXCEPT ![Head(chain).gen].reply = reply]
  /\ UNCHANGED <<genSeq, running, active, stopper, idler, expiries, requeues,
                 stops, histVars>>

Holds(g) == holder[work[g].row] = g

SettleMismatch ==
  /\ Settling("mismatch") /\ ~Holds(Head(chain).gen)
  /\ EndOp /\ UNCHANGED <<place, holder, pumpVars, failures>>

SettleRefused ==
  /\ Settling("refused") /\ Holds(Head(chain).gen) /\ Refusal
  /\ EndOp /\ UNCHANGED <<place, holder, pumpVars>>

SettleStored ==
  /\ Settling("ok") /\ Holds(Head(chain).gen)
  /\ LET kind == Head(chain).kind
         r == work[Head(chain).gen].row
     IN /\ place' = [place EXCEPT ![r] =
                       CASE kind = "ack" -> "gone"
                         [] kind = "later" -> "delayed"
                         [] OTHER -> "ready"]
        /\ holder' = [holder EXCEPT ![r] = 0]
        /\ IF kind \in {"requeue", "release"} THEN Announce(Tail(chain))
           ELSE EndOp /\ UNCHANGED pumpVars
  /\ UNCHANGED failures

\* The lease timer takes back a lease whose deadline has passed.
LeaseExpires(r) ==
  /\ place[r] = "leased" /\ In("popped") = {}
  /\ expiries < MaxExpiries /\ expiries' = expiries + 1
  /\ place' = [place EXCEPT ![r] = "ready"]
  /\ holder' = [holder EXCEPT ![r] = 0]
  /\ Announce(chain)
  /\ UNCHANGED <<genSeq, running, active, work, stopper, idler, failures, requeues,
                 stops, histVars>>

\* Delayed rows become due; the delay timer or a reader moves them.
DelayFires ==
  /\ \E due \in SUBSET In("delayed") \ {{}} :
       place' = [r \in Rows |-> IF r \in due THEN "ready" ELSE place[r]]
  /\ Announce(chain)
  /\ UNCHANGED <<holder, genSeq, running, active, work, stopper, idler, envVars,
                 histVars>>
-----------------------------------------------------------------------------
Init ==
  /\ place = [r \in Rows |-> "new"] /\ holder = [r \in Rows |-> 0] /\ genSeq = 0
  /\ chain = <<>>
  /\ running = FALSE /\ active = 0 /\ pumpAgain = FALSE /\ pump = "off"
  /\ work = <<>>
  /\ stopper = [pc |-> "none", flush |-> FALSE] /\ idler = "none"
  /\ failures = 0 /\ expiries = 0 /\ requeues = 0 /\ stops = 0
  /\ leaked = {} /\ late = 0 /\ silent = FALSE

Pumps == PumpGotLease \/ PumpGotNothing \/ PumpFailed

Callers ==
  \/ \E r \in Rows, later \in BOOLEAN : Enqueue(r, later)
  \/ Start \/ Stop \/ WhenIdle
  \/ \E flush \in BOOLEAN : GracefulStop(flush)

Timeouts == StopTimesOut \/ IdleTimesOut

Deliveries ==
  \E g \in DOMAIN work : \/ HandlerSucceeds(g) \/ HandlerFails(g)
                         \/ RecoveryRefused(g) \/ Acked(g) \/ Recovered(g)

QueueSteps ==
  \/ EnqueueStored \/ EnqueueRefused \/ BeginClaim \/ ClaimStored \/ ClaimRefused
  \/ SettleMismatch \/ SettleRefused \/ SettleStored \/ FlushDone

Timers == (\E r \in Rows : LeaseExpires(r)) \/ DelayFires

Next == Pumps \/ Callers \/ StopperChecks \/ Timeouts \/ Deliveries \/ QueueSteps
          \/ Timers

Spec == Init /\ [][Next]_vars

\* Continuations run, handlers end, the store answers, due rows are moved.
FairSpec ==
  /\ Spec
  /\ WF_vars(Pumps) /\ WF_vars(StopperChecks) /\ WF_vars(Deliveries)
  /\ WF_vars(QueueSteps) /\ WF_vars(DelayFires)
-----------------------------------------------------------------------------
TypeOK ==
  /\ place \in [Rows -> Places] /\ holder \in [Rows -> Nat] /\ genSeq \in Nat
  /\ chain \in Seq(Op)
  /\ {running, pumpAgain, silent} \subseteq BOOLEAN
  /\ {active, failures, expiries, requeues, stops, late} \subseteq Nat
  /\ pump \in {"off", "claim", "leased", "empty", "refused"}
  /\ DOMAIN work \subseteq 1..genSeq /\ work \in [DOMAIN work -> Delivery]
  /\ stopper \in [pc : {"none", "waiting", "checking", "flushing", "resolved",
                       "rejected"}, flush : BOOLEAN]
  /\ idler \in {"none", "waiting", "resolved", "rejected"}
  /\ leaked \subseteq Nat

\* No wakeup is lost: a running worker that is not pumping and has a free slot
\* has no row to take, whatever became ready during its claims.
NoStrandedRow == running /\ pump = "off" /\ active < Concurrency => In("ready") = {}

Started == {g \in DOMAIN work : work[g].pc # "claimed"}

\* activeCount() is the number of deliveries in progress and never exceeds
\* options.concurrency.
SlotsCounted ==
  /\ active = Cardinality(Started)
  /\ active <= Concurrency

\* A leased row is being worked on; it is left leased, for its deadline to
\* take it back, only when the store refused the delivery's last settlement.
LeasesAreWorked ==
  \A r \in In("leased") : holder[r] \in DOMAIN work \cup leaked

\* A gracefulStop that has resolved is followed by at most one handler, that of
\* the claim the pump was awaiting.
AtMostOneLate == late <= 1

\* The pump awaits at most one claim, for which a slot is free, and a claim that
\* found nothing is repeated if a row has become ready since.
ClaimInProgress ==
  /\ \A i \in DOMAIN chain : chain[i].kind = "claim" => pump = "claim"
  /\ \A i, k \in DOMAIN chain :
       chain[i].kind = "claim" /\ chain[k].kind = "claim" => i = k
  /\ pump # "off" => active < Concurrency
  /\ running /\ pump = "empty" => pumpAgain \/ In("ready") = {}
  /\ \A g \in DOMAIN work : work[g].pc = "claimed" => g = genSeq /\ pump = "leased"
  /\ pump = "leased" => genSeq \in DOMAIN work /\ work[genSeq].pc = "claimed"

\* A lease belongs to one delivery, which has not been told that it is settled.
LeaseOwners ==
  /\ \A r \in In("leased") : holder[r] # 0
  /\ \A r \in Rows : holder[r] # 0 =>
       \/ holder[r] \in leaked
       \/ /\ holder[r] \in DOMAIN work /\ work[holder[r]].row = r
          /\ work[holder[r]].reply \in {"none", "refused"}

\* A stopped worker starts the handler of the claim it awaits and no other.
LateHandlers == /\ late <= 1 /\ (running => late = 0) /\ (late # 0 => pump = "off")

\* The safety properties, strengthened until every step preserves them.
PumpInvariant ==
  /\ TypeOK /\ NoStrandedRow /\ SlotsCounted
  /\ ClaimInProgress /\ LeaseOwners /\ LateHandlers

\* Every ready row is taken while the worker runs.
ReadyIsTaken == \A r \in Rows : place[r] = "ready" ~> (place[r] # "ready" \/ ~running)

\* gracefulStop settles unless a delivery ended without an event.
StopSettlesUnlessSilent ==
  stopper.pc = "waiting" ~> (stopper.pc \in {"resolved", "rejected"} \/ silent)

\* whenIdle settles while the worker runs and no row is left leased.
IdleSettles == idler = "waiting" ~> (idler # "waiting" \/ ~running \/ leaked # {})

=============================================================================
