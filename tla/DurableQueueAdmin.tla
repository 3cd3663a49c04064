-------------------------- MODULE DurableQueueAdmin --------------------------
(***************************************************************************)
(* The rest of the queue of queue/core/queue.ts over DurableQueue: the     *)
(* lease-free tryDequeue, the bulk operations clear and replaceAll, and    *)
(* the job administration calls cancelJob, rescheduleJob and promoteJob.   *)
(* They take their turn on the same write chain; the administration calls  *)
(* locate a pending row, await the store and then act on what they located.*)
(*                                                                         *)
(* Four things that the code lets happen break what the queue otherwise    *)
(* promises.  They are part of the model, and the history variable mishaps *)
(* notes each at the step where it happens, so that the invariants can say *)
(* what holds until it does, and after which of them.                      *)
(***************************************************************************)
EXTENDS DurableQueue

SX == INSTANCE SequencesExt

CONSTANT
  AdminOps  \* the operations of this module that callers use

ASSUME AdminAssumption ==
  AdminOps \subseteq {"dequeue", "clear", "replace", "cancel", "defer", "promote"}

VARIABLES
  hasReplaceAll, \* does the store have replaceAll?
  found,         \* what the running administration call has located
  cancelled,     \* history: jobs for which cancelJob resolved true
  overtaken,     \* history: did a clear or a replaceAll renumber the rows while
                 \* enqueues that had taken their ids waited behind it?
  mishaps        \* history: which of Mishaps have happened

adminVars == <<vars, hasReplaceAll, found, cancelled, overtaken, mishaps>>

Mishaps == {
  "torn",      \* a replaceAll put by put was cut short by a refusal or a crash
  "stale",     \* a timer or reader moved the delayed row that a cancelJob,
               \* rescheduleJob or promoteJob had located, while it awaited
               \* the store
  "collided",  \* an enqueue has the id of another row, since one that was
               \* called before a clear or replaceAll ran was stored after it
  "mistaken"}  \* a Lease from before a restart of the generations was taken
               \* for the one that has its row id and generation now

Note(what, happens) ==
  mishaps' = IF happens THEN mishaps \cup {what} ELSE mishaps

Nothing == [state |-> "none"]

Bulk == {"clear", "replace"}
-----------------------------------------------------------------------------
(* Calls.                                                                  *)

TryDequeue == "dequeue" \in AdminOps /\ Serving /\ LeaseOp([kind |-> "dequeue"])

Clear == "clear" \in AdminOps /\ Serving /\ LeaseOp([kind |-> "clear"])

\* replaceAll checks the length and plans its records at once.
ReplaceAll(items) ==
  /\ "replace" \in AdminOps /\ Serving
  /\ Len(items) <= MaxSize /\ Range(items) \cap submitted = {}
  /\ Len(chain) < MaxChain
  /\ Push([kind |-> "replace", items |-> items])
  /\ submitted' = submitted \cup Range(items)
  /\ UNCHANGED <<now, memVars, idVars, hydVars, cur, storeVars, tokens, outdated,
                 accepted, faultVars>>

\* cancelJob, rescheduleJob (after d) and promoteJob of a payload.
JobCall(kind, j, d) ==
  kind \in AdminOps /\ Serving /\ LeaseOp([kind |-> kind, job |-> j, delay |-> d])
-----------------------------------------------------------------------------
(* enqueue and the operations on a lease, where they can go wrong because of *)
(* the operations of this module.                                          *)

BeginEnqueueNoting ==
  /\ BeginEnqueue
  /\ Note("collided", overtaken /\ cur' # Idle /\ Head(chain).id \in PlacedIds)
  /\ UNCHANGED <<hasReplaceAll, found, cancelled, overtaken>>

BeginLeaseOpNoting ==
  /\ BeginLeaseOp
  /\ Note("mistaken", cur' # Idle /\ Head(chain).tok \in outdated)
  /\ UNCHANGED <<hasReplaceAll, found, cancelled, overtaken>>
-----------------------------------------------------------------------------
(* tryDequeue.                                                             *)

BeginDequeue ==
  /\ Starting("dequeue")
  /\ \E av \in Drained :
       /\ Promotes(av)
       /\ IF av = <<>>
          THEN available' = av /\ EndOp
          ELSE /\ available' = Tail(av)
               /\ CallStore(TRUE, Head(av).id, None, Cleared(Head(av)))
               /\ UNCHANGED chain
  /\ UNCHANGED <<now, leased, expiries, leaseTimer, idVars, hydVars, storeVars,
                 callerVars, faultVars>>

\* Mutation of DequeueRefused: the popped row is forgotten.
DequeueRefused_Dropped ==
  /\ Replied("dequeue", "err")
  /\ EndOp
  /\ UNCHANGED <<now, memVars, idVars, hydVars, storeVars, callerVars, faultVars>>

\* The popped row goes back to the FIFO, at its tail.
DequeueRefused ==
  /\ Replied("dequeue", "err")
  /\ available' = Append(available, RowOf(cur.id, cur.rec))
  /\ EndOp
  /\ UNCHANGED <<now, delayed, leased, expiries, delayTimer, leaseTimer, idVars,
                 hydVars, storeVars, callerVars, faultVars>>

\* The row is gone from the store and was already gone from memory.
FinishDequeue ==
  /\ Replied("dequeue", "ok")
  /\ EndOp
  /\ UNCHANGED <<now, memVars, idVars, hydVars, storeVars, callerVars, faultVars>>
-----------------------------------------------------------------------------
(* clear and replaceAll.                                                   *)

Planned(items) == [i \in DOMAIN items |-> [id |-> i, job |-> items[i], attempt |-> 1]]

PlannedStore(items) == [i \in DOMAIN items |-> Cleared(Planned(items)[i])]

\* The store call that replaces everything at once ("batch") or empties the
\* store ("clear"): it is about no row.
BulkCall(pc) == cur' = [pc |-> pc, reply |-> "wait", id |-> 0, gen |-> None]

BeginBulk ==
  /\ \E kind \in Bulk : Starting(kind)
  /\ IF Head(chain).kind = "replace" /\ DOMAIN leased # {}
     THEN EndOp                                    \* HydrateWhileActiveError
     ELSE /\ BulkCall(IF Head(chain).kind = "replace" /\ hasReplaceAll
                      THEN "batch" ELSE "clear")
          /\ UNCHANGED chain
  /\ UNCHANGED <<now, memVars, idVars, hydVars, storeVars, callerVars, faultVars>>

BulkStoreApplies ==
  /\ cur.pc \in {"batch", "clear"} /\ cur.reply = "wait"
  /\ cur' = [cur EXCEPT !.reply = "ok"]
  /\ store' = IF cur.pc = "batch" THEN PlannedStore(Head(chain).items) ELSE EmptyMap
  /\ settled' = IF cur.pc = "batch" \/ Head(chain).kind = "clear"
                THEN settled \cup StoredJobs ELSE settled
  /\ UNCHANGED <<now, memVars, idVars, hydVars, chain, callerVars, faultVars>>

BulkItems == IF Head(chain).kind = "replace" THEN Head(chain).items ELSE <<>>

BulkReplied(reply) ==
  (\E kind \in Bulk : Running(kind)) /\ cur # Idle /\ cur.reply = reply

\* The number of the planned record to write next.
Upcoming == cur.id + 1

\* Mutation of BulkLeft: the last planned record is not written.
BulkLeft_OffByOne == cur.pc # "batch" /\ Upcoming < Len(BulkItems)

\* A store without replaceAll is given the planned records one by one.
BulkLeft == cur.pc # "batch" /\ Upcoming <= Len(BulkItems)

NextPut ==
  /\ BulkReplied("ok") /\ BulkLeft
  /\ CallStore(FALSE, Upcoming, None, PlannedStore(BulkItems)[Upcoming])
  /\ UNCHANGED <<now, memVars, idVars, hydVars, chain, storeVars, callerVars,
                 faultVars>>

MemoryJobs == {r.job : r \in AvailableRows} \cup {d.job : d \in delayed}
                \cup {leased[i].job : i \in DOMAIN leased}

\* Mutation of FinishBulk: the delay heap survives.
FinishBulk_KeepDelayed ==
  /\ BulkReplied("ok") /\ ~BulkLeft
  /\ available' = Planned(BulkItems)
  /\ leased' = EmptyMap /\ expiries' = {} /\ leaseTimer' = None
  /\ idCounter' = Len(BulkItems) /\ leaseGenSeq' = 0
  /\ accepted' = accepted \cup Range(BulkItems)
  /\ settled' = settled \cup MemoryJobs
  /\ outdated' = tokens /\ overtaken' = (overtaken \/ QueuedEnqueues # {})
  /\ EndOp
  /\ UNCHANGED <<now, delayed, delayTimer, hydVars, store, tokens, submitted,
                 faultVars>>


\* applyMemory: the collections, the timers and both counters start again.
FinishBulk ==
  /\ BulkReplied("ok") /\ ~BulkLeft
  /\ available' = Planned(BulkItems)
  /\ delayed' = {} /\ leased' = EmptyMap /\ expiries' = {}
  /\ delayTimer' = None /\ leaseTimer' = None
  /\ idCounter' = Len(BulkItems) /\ leaseGenSeq' = 0
  /\ accepted' = accepted \cup Range(BulkItems)
  /\ settled' = settled \cup MemoryJobs
  /\ outdated' = tokens /\ overtaken' = (overtaken \/ QueuedEnqueues # {})
  /\ EndOp
  /\ UNCHANGED <<now, hydVars, store, tokens, submitted, faultVars>>

\* The old rows are gone from the store and the new ones not all there yet.
MidReplace ==
  /\ Running("replace") /\ cur # Idle
  /\ cur.pc = "main" \/ (cur.pc = "clear" /\ cur.reply = "ok")

\* A refused clear or replaceAll rejects and leaves memory as it was, whatever
\* part of it the store has applied.
BulkRefused ==
  /\ BulkReplied("err")
  /\ Note("torn", MidReplace)
  /\ EndOp
  /\ UNCHANGED <<now, memVars, idVars, hydVars, storeVars, callerVars, faultVars,
                 hasReplaceAll, found, cancelled, overtaken>>

CrashMidway == /\ Crash /\ found' = Nothing /\ Note("torn", MidReplace)
               /\ overtaken' = FALSE /\ UNCHANGED <<hasReplaceAll, cancelled>>
-----------------------------------------------------------------------------
(* cancelJob, rescheduleJob, promoteJob.                                   *)

\* locatePendingJob: the first ready row of the job, else a delayed one.
Located(j) ==
  LET ready == {i \in DOMAIN available : available[i].job = j}
  IN IF ready # {}
     THEN {[state |-> "ready", index |-> i, row |-> available[i]] :
             i \in {k \in ready : \A m \in ready : k <= m}}
     ELSE {[state |-> "delayed", index |-> 0, row |-> d] :
             d \in {e \in delayed : e.job = j}}

JobKinds == {"cancel", "defer", "promote"}

\* What rescheduleJob and promoteJob write; cancelJob removes the row instead.
AdminRecord(op, f) ==
  [Cleared(f.row) EXCEPT !.at =
     IF op.kind = "defer" /\ op.delay > 0 THEN now + op.delay ELSE 0]

BeginJobCall ==
  /\ \E kind \in JobKinds : Starting(kind)
  /\ LET op == Head(chain)
         hits == {f \in Located(op.job) : op.kind = "promote" => f.state = "delayed"}
     IN IF hits = {}
        THEN EndOp /\ UNCHANGED found              \* resolves false
        ELSE /\ \E f \in hits :
                  /\ found' = f
                  /\ CallStore(op.kind = "cancel", f.row.id, None, AdminRecord(op, f))
             /\ UNCHANGED chain
  /\ UNCHANGED <<now, memVars, idVars, hydVars, storeVars, callerVars, faultVars,
                 hasReplaceAll, cancelled, overtaken, mishaps>>

\* Mutation of FifoWithoutFound: the head goes, whatever was located.
FifoWithoutFound_Head ==
  IF found.state = "ready" THEN Tail(available) ELSE available

\* removePendingJob(found): the located slot leaves the FIFO, or the located
\* entry leaves the delay heap if it is still there.
FifoWithoutFound ==
  IF found.state = "ready" THEN SX!RemoveAt(available, found.index)
  ELSE available

HeapWithoutFound ==
  IF found.state = "delayed" THEN delayed \ {found.row} ELSE delayed

\* Mutation of DelayTimerStands: rescheduleJob adds an entry and leaves the timer.
DelayTimerStands_OnlyLost(D) == found.state = "ready"

\* The delay timer stays as it is unless removePendingJob took a delayed entry
\* (it re-arms) or rescheduleJob added one (it re-arms too).
DelayTimerStands(D) == found.state = "ready" /\ D = delayed

FinishJobCall ==
  /\ \E kind \in JobKinds : Replied(kind, "ok")
  /\ LET op == Head(chain)
         later == op.kind = "defer" /\ cur.rec.at # 0
     IN /\ available' = IF op.kind = "cancel" \/ later THEN FifoWithoutFound
                        ELSE Append(FifoWithoutFound, RowOf(cur.id, cur.rec))
        /\ delayed' = IF later
                      THEN HeapWithoutFound \cup {DelayedRow(cur.id, cur.rec)}
                      ELSE HeapWithoutFound
        /\ IF DelayTimerStands(delayed') THEN UNCHANGED delayTimer
           ELSE ArmDelayTimer(delayed')
        /\ cancelled' = IF op.kind = "cancel" THEN cancelled \cup {op.job}
                        ELSE cancelled
  /\ Note("stale", found.state = "delayed" /\ found.row \notin delayed)
  /\ EndOp /\ found' = Nothing
  /\ UNCHANGED <<now, leased, expiries, leaseTimer, idVars, hydVars, storeVars,
                 callerVars, faultVars, hasReplaceAll, overtaken>>

JobCallRefused ==
  /\ \E kind \in JobKinds : Replied(kind, "err")
  /\ EndOp /\ found' = Nothing
  /\ UNCHANGED <<now, memVars, idVars, hydVars, storeVars, callerVars, faultVars,
                 hasReplaceAll, cancelled, overtaken, mishaps>>
-----------------------------------------------------------------------------
AdminInit ==
  /\ Init /\ found = Nothing /\ cancelled = {} /\ overtaken = FALSE /\ mishaps = {}
  /\ hasReplaceAll \in IF "replace" \in AdminOps THEN BOOLEAN ELSE {TRUE}

ItemLists == {q \in UNION {[1..n -> Jobs] : n \in 0..Cardinality(Jobs)} :
                IsInjective(q)}

AdminCalls ==
  \/ TryDequeue \/ Clear
  \/ \E items \in ItemLists : ReplaceAll(items)
  \/ \E j \in submitted : \/ JobCall("cancel", j, 0) \/ JobCall("promote", j, 0)
                          \/ \E d \in Delays : JobCall("defer", j, d)

AdminQuiet ==
  \/ AdminCalls \/ BeginDequeue \/ DequeueRefused \/ FinishDequeue
  \/ BeginBulk \/ BulkStoreApplies \/ NextPut

\* The other steps of DurableQueue.
CoreSteps ==
  \/ Calls \/ BeginClaim \/ BeginExpire \/ Finishes
  \/ StoreApplies \/ StoreRefuses
  \/ ReaderPromotes \/ DelayTimerFires \/ LeaseTimerFires
  \/ Hydrates \/ Tick

AdminNext ==
  \/ /\ CoreSteps \/ AdminQuiet
     /\ UNCHANGED <<hasReplaceAll, found, cancelled, overtaken, mishaps>>
  \/ FinishBulk /\ UNCHANGED <<hasReplaceAll, found, cancelled, mishaps>>
  \/ BeginEnqueueNoting \/ BeginLeaseOpNoting
  \/ BeginJobCall \/ FinishJobCall \/ JobCallRefused
  \/ BulkRefused \/ CrashMidway

AdminSpec == AdminInit /\ [][AdminNext]_adminVars
-----------------------------------------------------------------------------
(* Types: more operations on the chain, and calls for a whole collection.  *)

BareOp    == [kind : {"dequeue", "clear"}]
ReplaceOp == [kind : {"replace"}, items : Seq(Jobs)]
JobOp     == [kind : JobKinds, job : Jobs, delay : Nat]
AnyOp     == Op \cup BareOp \cup ReplaceOp \cup JobOp

WholeCall == [pc : {"batch", "clear"}, reply : {"wait", "ok", "err"}, id : {0},
              gen : {None}]

AdminChainTypeOK ==
  chain \in Seq(AnyOp) /\ (cur = Idle \/ cur \in Call \/ cur \in WholeCall)

AdminTypeOK ==
  /\ now \in Nat /\ idCounter \in Nat /\ leaseGenSeq \in Nat
  /\ MemTypeOK /\ HydTypeOK /\ AdminChainTypeOK /\ StoreTypeOK /\ CallerTypeOK
  /\ failures \in Nat /\ crashes \in Nat
-----------------------------------------------------------------------------
(* Safety.                                                                 *)

\* Until an administration call misses its row or two rows get one id, a row is
\* in one place, whichever of the queue's operations run, are refused or crash.
AdminRowInOnePlace == mishaps \cap {"stale", "collided"} = {} => RowInOnePlace


\* Memory and store agree, unless the store has just applied one of this
\* module's calls whose continuation is still to come.  A mistaken Lease keeps
\* them in agreement.
AdminMemoryMatchesStore ==
  \/ cur # Idle /\ (\E k \in Bulk \cup JobKinds : Running(k))
  \/ mishaps \subseteq {"mistaken"} => MemoryMatchesStore

\* maxSize bounds what is stored, also by a replaceAll and the enqueues that wait
\* behind it, and whatever else goes wrong than a replaceAll cut short.
AdminDepthBound == "torn" \in mishaps \/ DepthBound

\* A job whose cancelJob resolved true is never run: it is not pending and no
\* worker holds it, unless a mishap has brought it back.
CancelledIsGone == mishaps = {} => MemoryJobs \cap cancelled = {}

\* "Remove a ready or delayed job" (docs/api.md, cancelJob): the same of every
\* cancelJob that resolved true.
CancelRemoves == MemoryJobs \cap cancelled = {}

\* "Use persistence when an accepted job must still exist after the process or
\* browser reloads" (docs/persistence.md): what enqueue accepted and nothing
\* removed is stored.
AcceptedSurvives == cur = Idle => AcceptedNotLost
-----------------------------------------------------------------------------
(* The inductive invariants.                                               *)

JobRuns  == cur # Idle /\ \E kind \in JobKinds : Running(kind)
BulkRuns == cur # Idle /\ \E kind \in Bulk : Running(kind)
DequeueRuns == cur # Idle /\ Running("dequeue")

\* The call of a clear or a replaceAll, for no row or for a planned record.
BulkFits ==
  \/ Running("clear") /\ cur.pc = "clear"
  \/ /\ Running("replace") /\ DOMAIN leased = {}
     /\ cur.pc \in {"batch", "clear"} \/
          (cur.pc = "main" /\ cur.id \in DOMAIN Head(chain).items)

\* CallFitsOperation, or what it says for this module's operations.
AdminCallFits ==
  \/ (JobRuns \/ DequeueRuns) /\ cur.pc = "main"
  \/ BulkRuns /\ BulkFits
  \/ CallFitsOperation

\* The operation, its store call and the running hydrate fit together.
Shaped == AdminTypeOK /\ AdminCallFits /\ QuietLoad /\ ColdStart

\* What an administration call has located is where it was, or a delayed row has
\* become ready meanwhile.
FoundFits ==
  /\ found # Nothing <=> JobRuns
  /\ JobRuns =>
       /\ found.row.id = cur.id /\ found.row.job = Head(chain).job
       /\ \/ /\ found.state = "ready" /\ found.index \in DOMAIN available
             /\ found.row = available[found.index]
          \/ /\ found.state = "delayed" /\ found.row \in Delayed
             /\ found.row \in delayed \/ RowOf(found.row.id, found.row) \in AvailableRows

\* What holds whatever happens.
AdminShape == Shaped /\ FoundFits

\* The row that an enqueue is writing has an id of its own.
NewRow == Running("enqueue") /\ cur # Idle => cur.id \notin PlacedIds

RowsTrusted == mishaps \cap {"stale", "collided"} = {}

\* RowInOnePlace, strengthened until every step preserves it.
AdminRowInvariant ==
  /\ AdminShape /\ mishaps \subseteq Mishaps /\ (overtaken \/ FreshIds)
  /\ RowsTrusted => RowInOnePlace /\ NewRow

\* Memory and store agree on every row but those of X.
MatchesBut(X) ==
  /\ \A r \in AvailableRows :
       r.id \notin X => /\ r.id \in DOMAIN store /\ store[r.id].at <= now
                        /\ [store[r.id] EXCEPT !.at = 0] = Cleared(r)
  /\ \A d \in delayed :
       d.id \notin X => /\ d.id \in DOMAIN store
                        /\ store[d.id] = [Cleared(d) EXCEPT !.at = d.at]
  /\ \A i \in DOMAIN leased \ X :
       /\ i \in DOMAIN store
       /\ store[i] = [job |-> leased[i].job, at |-> 0, gen |-> leased[i].gen,
                      exp |-> leased[i].exp, attempt |-> leased[i].attempt]
  /\ DOMAIN store \subseteq PlacedIds \cup X

\* The store is ahead of memory by what a clear or a replaceAll has done to it.
BulkApplied == BulkRuns /\ (cur.pc = "main" \/ cur.reply = "ok")

\* The records of a replaceAll that the store has by now.
BulkDone == IF cur.pc = "batch" THEN Len(BulkItems)
            ELSE IF cur.reply = "ok" THEN cur.id ELSE cur.id - 1

BulkWrites ==
  /\ DOMAIN store = 1..BulkDone
  /\ \A i \in 1..BulkDone : store[i] = PlannedStore(BulkItems)[i]
  /\ cur.pc = "main" => ~cur.del /\ cur.rec = PlannedStore(BulkItems)[cur.id]

\* Between its call and its continuation tryDequeue has the row it popped.
DequeueWrites ==
  /\ cur.del /\ cur.rec = Cleared(cur.rec)
  /\ IF cur.reply = "ok" THEN cur.id \notin DOMAIN store
     ELSE /\ cur.id \in DOMAIN store /\ store[cur.id].at <= now
          /\ [store[cur.id] EXCEPT !.at = 0] = cur.rec

\* What an administration call writes over the row it has located.
JobWrites ==
  /\ cur.del <=> Running("cancel")
  /\ cur.rec = [Cleared(found.row) EXCEPT !.at = cur.rec.at]
  /\ cur.rec.at = 0 \/ Running("defer")
  /\ cur.reply = "ok" => IF cur.del THEN cur.id \notin DOMAIN store
                         ELSE cur.id \in DOMAIN store /\ store[cur.id] = cur.rec

\* CallWrites, or what it says for this module's operations.
AdminCallWrites ==
  /\ DequeueRuns => DequeueWrites
  /\ JobRuns => JobWrites
  /\ BulkApplied => BulkWrites
  /\ DequeueRuns \/ JobRuns \/ BulkRuns \/ CallWrites

StoreTrusted == mishaps \subseteq {"mistaken"}

\* AdminMemoryMatchesStore, strengthened in the same way.
AdminStoreInvariant ==
  /\ AdminRowInvariant
  /\ StoreTrusted => /\ hydrated => BulkApplied \/ MatchesBut(Ahead)
                     /\ LeasesNumbered /\ LoadFits /\ AdminCallWrites

Removals == {"ack", "dequeue", "cancel"}

\* The row of an operation that removes it is gone once the store has answered.
Removes ==
  cur # Idle /\ cur.pc = "main" /\ (\E kind \in Removals : Running(kind)) =>
    cur.del /\ (cur.reply = "ok" => cur.id \notin DOMAIN store)

\* The rows of memory and the one being enqueued.
Rooms == PlacedIds \cup IF Running("enqueue") /\ cur # Idle THEN {cur.id} ELSE {}

\* What is stored is in memory, or is what a clear or a replaceAll has stored.
StoredFits ==
  /\ hydrated => IF BulkApplied THEN DOMAIN store = 1..BulkDone
                 ELSE DOMAIN store \subseteq PlacedIds \cup Ahead
  /\ hyd.pc = "clear" => DOMAIN hyd.rows = DOMAIN store

\* AdminDepthBound, strengthened: there is room for what is in memory.
AdminDepthInvariant ==
  /\ AdminShape
  /\ \A i \in DOMAIN chain : chain[i].kind = "replace" => Len(chain[i].items) <= MaxSize
  /\ "torn" \in mishaps \/ /\ DepthBound /\ StoredFits /\ Removes
                           /\ Cardinality(Rooms) <= MaxSize

QueuedReplaces == {i \in DOMAIN chain : chain[i].kind = "replace"}

\* The jobs of a queued replaceAll are not stored before it writes them, and are
\* asked for by nobody else.
ReplacesApart ==
  \A i \in QueuedReplaces :
    /\ IsInjective(chain[i].items) /\ Range(chain[i].items) \subseteq submitted \ settled
    /\ \A k \in QueuedReplaces :
         k # i => Range(chain[i].items) \cap Range(chain[k].items) = {}
    /\ \A k \in QueuedEnqueues : chain[k].job \notin Range(chain[i].items)
    /\ StoredJobs \cap Range(chain[i].items) # {} => i = 1 /\ BulkRuns

\* While memory is to be replaced, it has what the store has lost.
BulkJobs ==
  BulkRuns =>
    /\ MemoryJobs \subseteq submitted
    /\ \A i \in QueuedReplaces : MemoryJobs \cap Range(chain[i].items) = {}
    /\ \A i \in QueuedEnqueues : chain[i].job \notin MemoryJobs
    /\ accepted \ settled \subseteq MemoryJobs

\* NothingLostAtRest and CancelledIsGone, strengthened in the same way.
AdminLedgerInvariant ==
  /\ AdminStoreInvariant
  /\ mishaps = {} =>
       /\ TokensFit /\ OwnLease /\ JobsApart /\ ReplacesApart /\ BulkJobs
       /\ MidReplace \/ AcceptedNotLost
       /\ cancelled \subseteq settled /\ MemoryJobs \cap cancelled = {}
       /\ Running("cancel") /\ cur # Idle /\ cur.reply = "ok" =>
            found.row.job \in settled
=============================================================================
