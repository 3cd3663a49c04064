---------------------------- MODULE DurableQueue ----------------------------
(***************************************************************************)
(* The queue of packages/queue/src/queue/core/queue.ts with a RowStore     *)
(* behind it: the operations a worker and its producers use (enqueue,      *)
(* claim, ack, release, reschedule, extendLease, hydrate), the write chain *)
(* that runs durable operations one at a time, the delay timer and the     *)
(* lease timer, a store whose calls take time and may fail, and crashes.   *)
(*                                                                         *)
(* JavaScript runs one callback at a time, so an action is the code        *)
(* between two awaits.  An operation on the chain is a Begin action (up to *)
(* `await callStore`), a store action (the backend applies or refuses the  *)
(* call) and a Finish action (the continuation).                           *)
(***************************************************************************)
EXTENDS Integers, Sequences, FiniteSets, Functions

CONSTANTS
  Jobs,         \* payloads; each is enqueued at most once
  Delays,       \* the delayMs values callers pass
  LeaseTtl,     \* options.leaseTtlMs, None when it is not configured
  ExtendTtls,   \* the ttlMs values callers pass to extendLease
  MaxSize,      \* options.maxSize
  MaxAttempt,   \* largest attempt number a retry may store
  ExpirySlack,  \* stale expiries tolerated before a rebuild (64 in the code)
  LiveHydrate,  \* may hydrate() be called again on a serving queue?
  MaxTime,      \* bound on the clock
  MaxId,        \* bound on row ids handed out
  MaxGen,       \* bound on lease generations handed out
  MaxChain,     \* bound on callers' operations waiting on the chain
  MaxFailures,  \* bound on refused store calls
  MaxCrashes    \* bound on crashes

None == 0       \* null generation, null deadline, unset timer

ASSUME QueueAssumption ==
  /\ Delays \subseteq Nat
  /\ LeaseTtl \in Nat
  /\ ExtendTtls \subseteq Nat \ {0}
  /\ MaxSize \in Nat \ {0}
  /\ MaxAttempt \in Nat \ {0}
  /\ ExpirySlack \in Nat
  /\ LiveHydrate \in BOOLEAN
  /\ MaxTime \in Nat /\ MaxId \in Nat /\ MaxGen \in Nat /\ MaxChain \in Nat
  /\ MaxFailures \in Nat /\ MaxCrashes \in Nat

VARIABLES
  now,          \* the injected clock
  available,    \* FIFO of claimable rows
  delayed,      \* rows waiting for their availableAt (a min-heap)
  leased,       \* row id -> lease held by a worker (a Map)
  expiries,     \* the lease-expiry min-heap, stale entries included
  idCounter,    \* last row id handed out
  leaseGenSeq,  \* last lease generation handed out
  delayTimer,   \* when the delay timer fires, or None
  leaseTimer,   \* when the lease timer fires, or None
  hydrated,     \* has this process completed a hydrate?
  hyd,          \* the running hydrate
  chain,        \* the write chain, the running operation at its head
  cur,          \* the store call the running operation awaits
  store,        \* row id -> stored record: survives crashes
  tokens,       \* Lease objects held by callers, the stale ones too
  outdated,     \* history: tokens given out before leaseGenSeq last restarted
  submitted,    \* history: jobs passed to enqueue
  accepted,     \* history: jobs whose enqueue resolved
  settled,      \* history: jobs a store.remove has deleted
  failures,     \* refused store calls so far
  crashes       \* crashes so far

memVars    == <<available, delayed, leased, expiries, delayTimer, leaseTimer>>
idVars     == <<idCounter, leaseGenSeq>>
hydVars    == <<hydrated, hyd>>
chainVars  == <<chain, cur>>
storeVars  == <<store, settled>>
callerVars == <<tokens, outdated, submitted, accepted>>
faultVars  == <<failures, crashes>>
vars == <<now, memVars, idVars, hydVars, chainVars, storeVars, callerVars,
          faultVars>>

Ids == Nat \ {0}

Row     == [id : Ids, job : Jobs, attempt : Ids]
Delayed == [id : Ids, job : Jobs, attempt : Ids, at : Nat]
Leased  == [job : Jobs, gen : Nat, exp : Nat, attempt : Ids]
Expiry  == [id : Ids, gen : Nat, exp : Nat]
Stored  == [job : Jobs, at : Nat, gen : Nat, exp : Nat, attempt : Ids]
Lease   == [id : Ids, gen : Nat, job : Jobs, attempt : Ids]

Idle == [pc |-> "idle"]
NoHydrate == [pc |-> "off"]

MapsIdsTo(f, S) == DOMAIN f \subseteq Ids /\ \A i \in DOMAIN f : f[i] \in S

EmptyMap == [i \in {} |-> i]
Put(f, k, v)  == [x \in DOMAIN f \cup {k} |-> IF x = k THEN v ELSE f[x]]
Without(f, k) == Restrict(f, DOMAIN f \ {k})

\* Mutation of RowOf: a missing attempt defaults to 0.
RowOf_NoAttempt(i, r)  == [id |-> i, job |-> r.job, attempt |-> 0]

RowOf(i, r)  == [id |-> i, job |-> r.job, attempt |-> r.attempt]

DelayedRow(i, r) == [id |-> i, job |-> r.job, attempt |-> r.attempt,
                     at |-> r.at]

\* Mutation of Cleared: recovery forgets how often the job was delivered.
Cleared_AttemptLost(r) ==
  [job |-> r.job, at |-> 0, gen |-> None, exp |-> None, attempt |-> 1]

\* The record of a row nobody leases and that needs no waiting.
Cleared(r) == [job |-> r.job, at |-> 0, gen |-> None, exp |-> None,
               attempt |-> r.attempt]

AvailableRows == Range(available)

\* Mutation of TotalSize: leased rows take no room.
TotalSize_Unleased == Len(available) + Cardinality(delayed)

TotalSize == Len(available) + Cardinality(delayed) + Cardinality(DOMAIN leased)

Serving == hydrated /\ hyd.pc = "off"
-----------------------------------------------------------------------------
(* The delay heap and its timer.  Rows with equal deadlines may leave the  *)
(* heap in either order.                                                   *)

Due == {d \in delayed : d.at <= now}

DrainOrders(D) == {q \in Bijection(1..Cardinality(D), D) :
                     \A i, j \in DOMAIN q : i < j => q[i].at <= q[j].at}

ArmDelayTimer(D) ==
  \/ D = {} /\ delayTimer' = None
  \/ \E d \in D : (\A e \in D : d.at <= e.at) /\ delayTimer' = d.at

\* Mutation of AddPending: a delayed row is added without arming the timer.
AddPending_Unarmed(i, r) ==
  IF r.at = 0
  THEN /\ available' = Append(available, RowOf(i, r))
       /\ UNCHANGED <<delayed, delayTimer>>
  ELSE /\ delayed' = delayed \cup {DelayedRow(i, r)}
       /\ UNCHANGED <<available, delayTimer>>

\* A row becomes claimable now, or waits on the delay heap.
AddPending(i, r) ==
  IF r.at = 0
  THEN /\ available' = Append(available, RowOf(i, r))
       /\ UNCHANGED <<delayed, delayTimer>>
  ELSE /\ delayed' = delayed \cup {DelayedRow(i, r)}
       /\ ArmDelayTimer(delayed')
       /\ UNCHANGED available

\* The FIFO after the due rows have been drained into it in some heap order.
Drained == {available \o [i \in DOMAIN q |-> RowOf(q[i].id, q[i])] :
              q \in DrainOrders(Due)}

\* promoteDueDelayed(), as its callers see it: av is the new FIFO.
Promotes(av) ==
  /\ av \in Drained
  /\ delayed' = delayed \ Due
  /\ IF delayed = {} THEN UNCHANGED delayTimer ELSE ArmDelayTimer(delayed')
-----------------------------------------------------------------------------
(* The expiry heap and its timer.                                          *)

Live(l, e) == e.id \in DOMAIN l /\ l[e.id].gen = e.gen /\ l[e.id].exp = e.exp

LiveExpiries(l) == {[id |-> i, gen |-> l[i].gen, exp |-> l[i].exp] :
                      i \in {k \in DOMAIN l : l[k].exp # None}}

\* The heap once its head is e: stale entries ahead of e are gone, and those
\* that tie with e may be.
PoppedTo(l, h, e) ==
  {{f \in h : f.exp >= e.exp} \ T :
     T \in SUBSET {f \in h : f.exp = e.exp /\ ~Live(l, f)}}

Compacted(l, h) ==
  IF Cardinality(h) > 2 * Cardinality(DOMAIN l) + ExpirySlack
  THEN LiveExpiries(l) ELSE h

\* Mutation of ArmLeaseTimer: it gives up at a stale head.
ArmLeaseTimer_StopAtStale(l, h) ==
  \/ /\ h = {} /\ leaseTimer' = None /\ expiries' = {}
  \/ \E e \in h :
       /\ \A f \in h : e.exp <= f.exp
       /\ leaseTimer' = IF Live(l, e) THEN e.exp ELSE None
       /\ expiries' = h

\* armLeaseTimer() with the leases l and the heap h.
ArmLeaseTimer(l, h) ==
  LET kept == Compacted(l, h)
      live == {e \in kept : Live(l, e)}
  IN \/ /\ DOMAIN l = {} \/ live = {}
        /\ leaseTimer' = None /\ expiries' = {}
     \/ /\ DOMAIN l # {}
        /\ \E e \in live :
             /\ \A f \in live : e.exp <= f.exp
             /\ leaseTimer' = e.exp
             /\ expiries' \in PoppedTo(l, kept, e)

DueLive(l, h, t) == {e \in h : e.exp <= t /\ Live(l, e)}

\* One round of the loop in reclaimExpiredLeasesCore: the first live entry due
\* at t leaves the heap and its row is written back without a lease.
StartReclaim(l, h, t) ==
  \E e \in DueLive(l, h, t) :
    /\ \A f \in DueLive(l, h, t) : e.exp <= f.exp
    /\ \E rest \in PoppedTo(l, h, e) : expiries' = rest \ {e}
    /\ cur' = [pc |-> "reclaim", reply |-> "wait", del |-> FALSE, id |-> e.id,
               gen |-> e.gen, rec |-> Cleared(l[e.id]), due |-> e.exp,
               now |-> t]
    /\ UNCHANGED leaseTimer

\* The loop finds nothing left to reclaim and ends in armLeaseTimer().
EndReclaim(l, h, t) ==
  /\ DueLive(l, h, t) = {}
  /\ ArmLeaseTimer(l, {e \in h : e.exp > t})
-----------------------------------------------------------------------------
(* Callers.  Each call checks `hydrating` and appends its operation.       *)

Push(op) == chain' = Append(chain, op)

Enqueue(j, d) ==
  /\ Serving /\ j \notin submitted /\ idCounter < MaxId /\ Len(chain) < MaxChain
  /\ idCounter' = idCounter + 1
  /\ Push([kind |-> "enqueue", id |-> idCounter + 1, job |-> j,
           at |-> IF d > 0 THEN now + d ELSE 0])
  /\ submitted' = submitted \cup {j}
  /\ UNCHANGED <<now, memVars, leaseGenSeq, hydVars, cur, storeVars, tokens,
                 outdated, accepted, faultVars>>

QueuedClaims == {i \in DOMAIN chain : chain[i].kind = "claim"}

Claim ==
  /\ Serving /\ Len(chain) < MaxChain
  /\ leaseGenSeq + Cardinality(QueuedClaims) < MaxGen
  /\ Push([kind |-> "claim"])
  /\ UNCHANGED <<now, memVars, idVars, hydVars, cur, storeVars, callerVars,
                 faultVars>>

LeaseOp(op) ==
  /\ Len(chain) < MaxChain
  /\ Push(op)
  /\ UNCHANGED <<now, memVars, idVars, hydVars, cur, storeVars, callerVars,
                 faultVars>>

Ack(t)     == Serving /\ LeaseOp([kind |-> "ack", tok |-> t])
Release(t) == Serving /\ LeaseOp([kind |-> "release", tok |-> t])

\* A worker's retry: the same payload, the next attempt, an optional delay.
Reschedule(t, d, a) ==
  /\ Serving
  /\ LeaseOp([kind |-> "reschedule", tok |-> t, attempt |-> a,
              at |-> IF d > 0 THEN now + d ELSE 0])

\* extendLease alone does not look at `hydrating`.
ExtendLease(t, ttl) == LeaseOp([kind |-> "extend", tok |-> t, ttl |-> ttl])
-----------------------------------------------------------------------------
(* The operation at the head of the chain.                                 *)

Running(kind) == chain # <<>> /\ Head(chain).kind = kind
Starting(kind) == Running(kind) /\ cur = Idle
Replied(kind, reply) ==
  Running(kind) /\ cur # Idle /\ cur.pc = "main" /\ cur.reply = reply

\* The operation settles its promise; the next one may start.
EndOp == chain' = Tail(chain) /\ cur' = Idle

CallStore(del, i, g, rec) ==
  cur' = [pc |-> "main", reply |-> "wait", del |-> del, id |-> i, gen |-> g,
          rec |-> rec, due |-> 0, now |-> 0]

\* Mutation of Holds: the generation is not compared.
Holds_AnyGeneration(i, g) == i \in DOMAIN leased

\* requireLease(), and the check repeated after the store call.
Holds(i, g) == i \in DOMAIN leased /\ leased[i].gen = g

BeginEnqueue ==
  /\ Starting("enqueue")
  /\ LET op == Head(chain) IN
     IF TotalSize + 1 > MaxSize
     THEN EndOp                                    \* QueueFullError
     ELSE /\ CallStore(FALSE, op.id, None,
                       [job |-> op.job, at |-> op.at, gen |-> None,
                        exp |-> None, attempt |-> 1])
          /\ UNCHANGED chain
  /\ UNCHANGED <<now, memVars, idVars, hydVars, storeVars, callerVars,
                 faultVars>>

FinishEnqueue ==
  /\ Replied("enqueue", "ok")
  /\ AddPending(cur.id, cur.rec)
  /\ accepted' = accepted \cup {cur.rec.job}
  /\ EndOp
  /\ UNCHANGED <<now, leased, expiries, leaseTimer, idVars, hydVars, storeVars,
                 tokens, outdated, submitted, faultVars>>

\* Mutation of FinishRefused: a rejected operation blocks the chain.
FinishRefused_Stuck ==
  /\ \E kind \in {"enqueue", "ack", "release", "reschedule", "extend"} :
       Replied(kind, "err")
  /\ UNCHANGED vars

\* A refused call rejects the promise and changes no memory: enqueue and the
\* operations on a lease.
FinishRefused ==
  /\ \E kind \in {"enqueue", "ack", "release", "reschedule", "extend"} :
       Replied(kind, "err")
  /\ EndOp
  /\ UNCHANGED <<now, memVars, idVars, hydVars, storeVars, callerVars,
                 faultVars>>

\* The record an operation on a lease writes over the row's record.
LeaseWrite(op) ==
  LET l == leased[op.tok.id] IN
  IF op.kind = "reschedule"
  THEN [job |-> op.tok.job, at |-> op.at, gen |-> None, exp |-> None,
        attempt |-> op.attempt]
  ELSE IF op.kind = "extend"
  THEN [job |-> l.job, at |-> 0, gen |-> l.gen, exp |-> now + op.ttl,
        attempt |-> l.attempt]
  ELSE Cleared(l)

BeginLeaseOp ==
  /\ \E kind \in {"ack", "release", "reschedule", "extend"} : Starting(kind)
  /\ LET op == Head(chain) IN
     IF Holds(op.tok.id, op.tok.gen)
     THEN /\ CallStore(op.kind = "ack", op.tok.id, op.tok.gen, LeaseWrite(op))
          /\ UNCHANGED chain
     ELSE EndOp                                    \* LeaseMismatchError
  /\ UNCHANGED <<now, memVars, idVars, hydVars, storeVars, callerVars,
                 faultVars>>

\* Each continuation looks the lease up again before it touches memory.  The
\* check cannot fail (LeaseOutlivesItsCall), so it is a guard here.
FinishAck ==
  /\ Replied("ack", "ok") /\ Holds(cur.id, cur.gen)
  /\ leased' = Without(leased, cur.id)
  /\ ArmLeaseTimer(leased', expiries)
  /\ EndOp
  /\ UNCHANGED <<now, available, delayed, delayTimer, idVars, hydVars,
                 storeVars, callerVars, faultVars>>

\* release puts the row at the tail of the FIFO; reschedule there or on the
\* delay heap.
FinishReturn ==
  /\ Replied("release", "ok") \/ Replied("reschedule", "ok")
  /\ Holds(cur.id, cur.gen)
  /\ leased' = Without(leased, cur.id)
  /\ AddPending(cur.id, cur.rec)
  /\ ArmLeaseTimer(leased', expiries)
  /\ EndOp
  /\ UNCHANGED <<now, idVars, hydVars, storeVars, callerVars, faultVars>>

FinishExtend ==
  /\ Replied("extend", "ok") /\ Holds(cur.id, cur.gen)
  /\ leased' = [leased EXCEPT ![cur.id].exp = cur.rec.exp]
  /\ ArmLeaseTimer(leased', expiries \cup
       {[id |-> cur.id, gen |-> cur.gen, exp |-> cur.rec.exp]})
  /\ EndOp
  /\ UNCHANGED <<now, available, delayed, delayTimer, idVars, hydVars,
                 storeVars, callerVars, faultVars>>
-----------------------------------------------------------------------------
(* claim, and the reclaim of expired leases it shares with the timer.      *)

\* claimCore after the reclaim: pop the head and write its lease.
TakeHead(av) ==
  IF av = <<>>
  THEN /\ available' = av /\ EndOp                 \* resolves undefined
       /\ UNCHANGED leaseGenSeq
  ELSE /\ available' = Tail(av)
       /\ leaseGenSeq' = leaseGenSeq + 1
       /\ CallStore(FALSE, Head(av).id, leaseGenSeq',
            [job |-> Head(av).job, at |-> 0, gen |-> leaseGenSeq',
             exp |-> IF LeaseTtl = None THEN None ELSE now + LeaseTtl,
             attempt |-> Head(av).attempt])
       /\ UNCHANGED chain

\* claimCore from the reclaim loop on, with FIFO av, leases l and heap h.
ClaimFrom(av, l, h, t) ==
  /\ leased' = l
  /\ \/ /\ StartReclaim(l, h, t)
        /\ available' = av
        /\ UNCHANGED <<chain, leaseGenSeq>>
     \/ EndReclaim(l, h, t) /\ TakeHead(av)

BeginClaim ==
  /\ Starting("claim")
  /\ \E av \in Drained :
       /\ Promotes(av)
       /\ IF LeaseTtl # None \/ expiries # {}
          THEN ClaimFrom(av, leased, expiries, now)
          ELSE TakeHead(av) /\ UNCHANGED <<leased, expiries, leaseTimer>>
  /\ UNCHANGED <<now, idCounter, hydVars, storeVars, callerVars, faultVars>>

FinishClaim ==
  /\ Replied("claim", "ok")
  /\ LET r == cur.rec
         entry == [id |-> cur.id, gen |-> r.gen, exp |-> r.exp]
         lease == [id |-> cur.id, gen |-> r.gen, job |-> r.job,
                   attempt |-> r.attempt]
     IN /\ leased' = Put(leased, cur.id, [job |-> r.job, gen |-> r.gen,
                                          exp |-> r.exp, attempt |-> r.attempt])
        /\ ArmLeaseTimer(leased',
             IF r.exp = None THEN expiries ELSE expiries \cup {entry})
        /\ tokens' = tokens \cup {lease} /\ outdated' = outdated \ {lease}
  /\ EndOp
  /\ UNCHANGED <<now, available, delayed, delayTimer, idVars, hydVars,
                 storeVars, submitted, accepted, faultVars>>

\* Mutation of ClaimRefused: the popped row is forgotten.
ClaimRefused_Dropped ==
  /\ Replied("claim", "err")
  /\ EndOp
  /\ UNCHANGED <<now, memVars, idVars, hydVars, storeVars, callerVars,
                 faultVars>>

\* The popped row goes back to the FIFO, at its tail.
ClaimRefused ==
  /\ Replied("claim", "err")
  /\ available' = Append(available, RowOf(cur.id, cur.rec))
  /\ EndOp
  /\ UNCHANGED <<now, delayed, leased, expiries, delayTimer, leaseTimer, idVars,
                 hydVars, storeVars, callerVars, faultVars>>

\* The operation the lease timer queues.
BeginExpire ==
  /\ Starting("expire")
  /\ \/ StartReclaim(leased, expiries, now) /\ UNCHANGED chain
     \/ EndReclaim(leased, expiries, now) /\ EndOp
  /\ UNCHANGED <<now, available, delayed, leased, delayTimer, idVars, hydVars,
                 storeVars, callerVars, faultVars>>

Reclaiming(kind, reply) ==
  /\ Running(kind) /\ cur # Idle /\ cur.pc = "reclaim" /\ cur.reply = reply

\* reclaimOneExpired resumes: the row, still leased, moves to the FIFO's tail.
ReclaimedFifo == Append(available, RowOf(cur.id, cur.rec))
\* Mutation of ReclaimedLeases: the expired lease stays in the map.
ReclaimedLeases_Kept == leased

ReclaimedLeases == Without(leased, cur.id)

\* The loop goes on, with the clock value it read at its start.
ReclaimThenClaim ==
  /\ Reclaiming("claim", "ok") /\ Holds(cur.id, cur.gen)
  /\ ClaimFrom(ReclaimedFifo, ReclaimedLeases, expiries, cur.now)
  /\ UNCHANGED <<now, delayed, delayTimer, idCounter, hydVars, storeVars,
                 callerVars, faultVars>>

ReclaimThenLoop ==
  /\ Reclaiming("expire", "ok") /\ Holds(cur.id, cur.gen)
  /\ available' = ReclaimedFifo
  /\ leased' = ReclaimedLeases
  /\ \/ StartReclaim(leased', expiries, cur.now) /\ UNCHANGED chain
     \/ EndReclaim(leased', expiries, cur.now) /\ EndOp
  /\ UNCHANGED <<now, delayed, delayTimer, idVars, hydVars, storeVars,
                 callerVars, faultVars>>

\* A refused write puts the expiry back on the heap.
RestoredExpiries ==
  expiries \cup {[id |-> cur.id, gen |-> cur.gen, exp |-> cur.due]}

\* The timer's operation stops there and re-arms; a claim throws.
ReclaimRefused ==
  /\ \/ Reclaiming("claim", "err") /\ expiries' = RestoredExpiries
        /\ UNCHANGED leaseTimer
     \/ Reclaiming("expire", "err") /\ ArmLeaseTimer(leased, RestoredExpiries)
  /\ EndOp
  /\ UNCHANGED <<now, available, delayed, leased, delayTimer, idVars, hydVars,
                 storeVars, callerVars, faultVars>>
-----------------------------------------------------------------------------
(* Timers and synchronous readers: they run between the chain's steps.     *)

\* peek, readyCount and stats promote due rows before they answer.
ReaderPromotes ==
  /\ Due # {}
  /\ \E av \in Drained : Promotes(av) /\ available' = av
  /\ UNCHANGED <<now, leased, expiries, leaseTimer, idVars, hydVars, chainVars,
                 storeVars, callerVars, faultVars>>

DelayTimerFires ==
  /\ delayTimer # None /\ delayTimer <= now
  /\ \E av \in Drained : Promotes(av) /\ available' = av
  /\ UNCHANGED <<now, leased, expiries, leaseTimer, idVars, hydVars, chainVars,
                 storeVars, callerVars, faultVars>>

\* Mutation of LeaseTimerFires: the reclaim runs at once, off the chain.
LeaseTimerFires_OffChain ==
  /\ leaseTimer # None /\ leaseTimer <= now
  /\ leaseTimer' = None
  /\ \E i \in DOMAIN leased :
       /\ leased[i].exp \in 1..now
       /\ leased' = Without(leased, i)
       /\ available' = Append(available, RowOf(i, leased[i]))
  /\ UNCHANGED <<now, delayed, expiries, delayTimer, idVars, hydVars, chainVars,
                 storeVars, callerVars, faultVars>>

\* Mutation of LeaseTimerFires: a busy chain makes the callback skip its turn.
LeaseTimerFires_SkipBusy ==
  /\ leaseTimer # None /\ leaseTimer <= now
  /\ leaseTimer' = None
  /\ IF chain # <<>> THEN UNCHANGED chain ELSE Push([kind |-> "expire"])
  /\ UNCHANGED <<now, available, delayed, leased, expiries, delayTimer, idVars,
                 hydVars, cur, storeVars, callerVars, faultVars>>

\* The callback gives up when the heap is empty, else queues a reclaim.
LeaseTimerFires ==
  /\ leaseTimer # None /\ leaseTimer <= now
  /\ leaseTimer' = None
  /\ IF expiries = {} THEN UNCHANGED chain ELSE Push([kind |-> "expire"])
  /\ UNCHANGED <<now, available, delayed, leased, expiries, delayTimer, idVars,
                 hydVars, cur, storeVars, callerVars, faultVars>>
-----------------------------------------------------------------------------
(* The store: a pending call is applied or refused.                        *)

StoreApplies ==
  /\ cur.pc \in {"main", "reclaim"} /\ cur.reply = "wait"
  /\ cur' = [cur EXCEPT !.reply = "ok"]
  /\ IF cur.del
     THEN /\ store' = Without(store, cur.id)
          /\ settled' = settled \cup
               {store[i].job : i \in DOMAIN store \cap {cur.id}}
     ELSE /\ store' = Put(store, cur.id, cur.rec)
          /\ UNCHANGED settled
  /\ UNCHANGED <<now, memVars, idVars, hydVars, chain, callerVars, faultVars>>

StoreRefuses ==
  /\ cur # Idle /\ cur.reply = "wait" /\ failures < MaxFailures
  /\ cur' = [cur EXCEPT !.reply = "err"]
  /\ failures' = failures + 1
  /\ UNCHANGED <<now, memVars, idVars, hydVars, chain, storeVars, callerVars,
                 crashes>>
-----------------------------------------------------------------------------
(* hydrate().                                                              *)

HydrateStart ==
  /\ hyd.pc = "off" /\ (hydrated => LiveHydrate)
  /\ DOMAIN leased = {}
  /\ hyd' = [pc |-> "flush"]
  /\ UNCHANGED <<now, memVars, idVars, hydrated, chainVars, storeVars,
                 callerVars, faultVars>>

\* Mutation of Flushed: hydrate does not wait for queued operations.
Flushed_Never == TRUE

\* flush() resolves when the operations queued before it have settled.  Only
\* extendLease and the lease timer can have queued others since.
Flushed == \A i \in DOMAIN chain : chain[i].kind \in {"extend", "expire"}

\* A claim that was still queued has taken a lease: hydrate throws.
HydrateRejects ==
  /\ hyd.pc = "flush" /\ Flushed /\ DOMAIN leased # {}
  /\ hyd' = NoHydrate
  /\ UNCHANGED <<now, memVars, idVars, hydrated, chainVars, storeVars,
                 callerVars, faultVars>>

\* loadAll(): rows is the loaded snapshot, left the leased rows to clear.
HydrateLoad ==
  /\ hyd.pc = "flush" /\ Flushed /\ DOMAIN leased = {}
  /\ hyd' = [pc |-> "clear", rows |-> store, now |-> now,
             left |-> {i \in DOMAIN store : store[i].gen # None}]
  /\ UNCHANGED <<now, memVars, idVars, hydrated, chainVars, storeVars,
                 callerVars, faultVars>>

HydrateClear(i) ==
  /\ hyd.pc = "clear" /\ i \in hyd.left
  /\ store' = Put(store, i, Cleared(hyd.rows[i]))
  /\ hyd' = [hyd EXCEPT !.left = @ \ {i}]
  /\ UNCHANGED <<now, memVars, idVars, hydrated, chainVars, settled,
                 callerVars, faultVars>>

\* A refused load or put: hydrate throws with memory as it was.
HydrateRefused ==
  /\ \/ hyd.pc = "flush" /\ Flushed /\ DOMAIN leased = {}
     \/ hyd.pc = "clear" /\ hyd.left # {}
  /\ failures < MaxFailures
  /\ failures' = failures + 1
  /\ hyd' = NoHydrate
  /\ UNCHANGED <<now, memVars, idVars, hydrated, chainVars, storeVars,
                 callerVars, crashes>>

\* Ids of loaded rows that are claimable: leased before, or due at the load.
LoadedReady ==
  {i \in DOMAIN hyd.rows : hyd.rows[i].gen # None \/ hyd.rows[i].at <= hyd.now}

IdOrders(S) == {q \in Bijection(1..Cardinality(S), S) :
                  \A i, j \in DOMAIN q : i < j => q[i] < q[j]}

\* Mutation of RestoredCounter: the counter is reset but not fixed up.
RestoredCounter_Zero == {0}

\* ids.reset() and fixup(maxId).
RestoredCounter ==
  {m \in DOMAIN hyd.rows \cup {0} : \A i \in DOMAIN hyd.rows : i <= m}

HydrateInstall ==
  /\ hyd.pc = "clear" /\ hyd.left = {}
  /\ \E q \in IdOrders(LoadedReady) :
       available' = [k \in DOMAIN q |-> RowOf(q[k], hyd.rows[q[k]])]
  /\ delayed' = {DelayedRow(i, hyd.rows[i]) : i \in DOMAIN hyd.rows \ LoadedReady}
  /\ ArmDelayTimer(delayed')
  /\ leased' = EmptyMap /\ expiries' = {} /\ leaseTimer' = None
  /\ idCounter' \in RestoredCounter
  /\ leaseGenSeq' = 0
  /\ hydrated' = TRUE /\ hyd' = NoHydrate
  /\ outdated' = tokens
  /\ UNCHANGED <<now, chainVars, storeVars, tokens, submitted, accepted, faultVars>>
-----------------------------------------------------------------------------
(* The environment.                                                        *)

\* The process dies and starts again: only the store survives.
Crash ==
  /\ crashes < MaxCrashes
  /\ crashes' = crashes + 1
  /\ available' = <<>> /\ delayed' = {} /\ leased' = EmptyMap
  /\ expiries' = {} /\ delayTimer' = None /\ leaseTimer' = None
  /\ idCounter' = 0 /\ leaseGenSeq' = 0
  /\ hydrated' = FALSE /\ hyd' = NoHydrate
  /\ chain' = <<>> /\ cur' = Idle
  /\ tokens' = {} /\ outdated' = {}
  /\ UNCHANGED <<now, storeVars, submitted, accepted, failures>>

Tick ==
  /\ now < MaxTime
  /\ now' = now + 1
  /\ UNCHANGED <<memVars, idVars, hydVars, chainVars, storeVars, callerVars,
                 faultVars>>
-----------------------------------------------------------------------------
Init ==
  /\ now = 0
  /\ available = <<>> /\ delayed = {} /\ leased = EmptyMap /\ expiries = {}
  /\ delayTimer = None /\ leaseTimer = None
  /\ idCounter = 0 /\ leaseGenSeq = 0
  /\ hydrated = FALSE /\ hyd = NoHydrate
  /\ chain = <<>> /\ cur = Idle
  /\ store = EmptyMap /\ tokens = {} /\ outdated = {}
  /\ submitted = {} /\ accepted = {} /\ settled = {}
  /\ failures = 0 /\ crashes = 0

Calls ==
  \/ \E j \in Jobs, d \in Delays : Enqueue(j, d)
  \/ Claim
  \/ \E t \in tokens :
       \/ Ack(t) \/ Release(t)
       \/ \E d \in Delays, a \in t.attempt..MaxAttempt : Reschedule(t, d, a)
       \/ \E ttl \in ExtendTtls : ExtendLease(t, ttl)

Begins == BeginEnqueue \/ BeginLeaseOp \/ BeginClaim \/ BeginExpire

Finishes ==
  \/ FinishEnqueue \/ FinishRefused \/ FinishAck \/ FinishReturn
  \/ FinishExtend \/ FinishClaim \/ ClaimRefused
  \/ ReclaimThenClaim \/ ReclaimThenLoop \/ ReclaimRefused

Hydrates ==
  \/ HydrateStart \/ HydrateRejects \/ HydrateLoad
  \/ \E i \in DOMAIN store : HydrateClear(i)
  \/ HydrateRefused \/ HydrateInstall

Next ==
  \/ Calls \/ Begins \/ Finishes
  \/ StoreApplies \/ StoreRefuses
  \/ ReaderPromotes \/ DelayTimerFires \/ LeaseTimerFires
  \/ Hydrates \/ Crash \/ Tick

Spec == Init /\ [][Next]_vars

\* The event loop runs queued continuations and due timers, the backend
\* answers, and time passes.  Nothing obliges a caller to call.
Fairness ==
  /\ WF_vars(Begins) /\ WF_vars(Finishes)
  /\ WF_vars(StoreApplies \/ StoreRefuses)
  /\ WF_vars(DelayTimerFires) /\ WF_vars(LeaseTimerFires)
  /\ WF_vars(Tick)

FairSpec == Spec /\ Fairness
-----------------------------------------------------------------------------
(* Types.                                                                  *)

EnqueueOp == [kind : {"enqueue"}, id : Ids, job : Jobs, at : Nat]
SettleOp  == [kind : {"ack", "release"}, tok : Lease]
RetryOp   == [kind : {"reschedule"}, tok : Lease, attempt : Ids, at : Nat]
ExtendOp  == [kind : {"extend"}, tok : Lease, ttl : Ids]
PlainOp   == [kind : {"claim", "expire"}]
Op == EnqueueOp \cup SettleOp \cup RetryOp \cup ExtendOp \cup PlainOp

Call == [pc : {"reclaim", "main"}, reply : {"wait", "ok", "err"},
         del : BOOLEAN, id : Ids, gen : Nat, rec : Stored, due : Nat,
         now : Nat]

MemTypeOK ==
  /\ available \in Seq(Row)
  /\ delayed \subseteq Delayed /\ IsFiniteSet(delayed)
  /\ MapsIdsTo(leased, Leased) /\ IsFiniteSet(DOMAIN leased)
  /\ expiries \subseteq Expiry
  /\ delayTimer \in Nat /\ leaseTimer \in Nat

Loading == [pc |-> "clear", rows |-> hyd.rows, now |-> hyd.now, left |-> hyd.left]

HydTypeOK ==
  /\ hydrated \in BOOLEAN
  /\ \/ hyd \in {NoHydrate, [pc |-> "flush"]}
     \/ /\ hyd = Loading
        /\ MapsIdsTo(hyd.rows, Stored) /\ IsFiniteSet(DOMAIN hyd.rows)
        /\ hyd.now \in Nat /\ hyd.left \subseteq DOMAIN hyd.rows

ChainTypeOK == chain \in Seq(Op) /\ (cur = Idle \/ cur \in Call)

StoreTypeOK ==
  MapsIdsTo(store, Stored) /\ IsFiniteSet(DOMAIN store) /\ settled \subseteq Jobs

CallerTypeOK ==
  /\ tokens \subseteq Lease /\ outdated \subseteq tokens
  /\ submitted \subseteq Jobs /\ accepted \subseteq Jobs

\* Every variable holds a value of the code's type: the type invariant.
TypeOK ==
  /\ now \in Nat /\ idCounter \in Nat /\ leaseGenSeq \in Nat
  /\ MemTypeOK /\ HydTypeOK /\ ChainTypeOK /\ StoreTypeOK /\ CallerTypeOK
  /\ failures \in Nat /\ crashes \in Nat
-----------------------------------------------------------------------------
(* Safety.                                                                 *)

\* The row that the running claim (or tryDequeue, of DurableQueueAdmin) has
\* popped: it is in no collection of the queue.
InFlight ==
  IF (Running("claim") \/ Running("dequeue")) /\ cur # Idle /\ cur.pc = "main"
  THEN {cur.id} ELSE {}

AvailableIds == {r.id : r \in AvailableRows}
DelayedIds   == {d.id : d \in delayed}

\* A row is in exactly one of the FIFO, the delay heap, the lease map and a
\* claim's hands, once: no interleaving of timers, settlements and claims lets
\* two workers be given the same row.
RowInOnePlace ==
  /\ \A i, j \in DOMAIN available : available[i].id = available[j].id => i = j
  /\ \A d, e \in delayed : d.id = e.id => d = e
  /\ AvailableIds \cap DelayedIds = {}
  /\ (AvailableIds \cup DelayedIds) \cap DOMAIN leased = {}
  /\ InFlight \cap (AvailableIds \cup DelayedIds \cup DOMAIN leased) = {}

\* The row whose stored record has changed ahead of memory.
Ahead == IF cur # Idle /\ cur.reply = "ok" THEN {cur.id} ELSE {}

\* What is in memory is what the store would give back after a crash, but for
\* the row of the store call in progress; and no stored row is stranded: each
\* is in some collection of a hydrated queue.
MemoryMatchesStore ==
  hydrated =>
    /\ \A r \in AvailableRows :
         /\ r.id \in DOMAIN store
         /\ store[r.id].at <= now
         /\ [store[r.id] EXCEPT !.at = 0] = Cleared(r)
    /\ \A d \in delayed :
         /\ d.id \in DOMAIN store
         /\ store[d.id] = [Cleared(d) EXCEPT !.at = d.at]
    /\ \A i \in DOMAIN leased \ Ahead :
         /\ i \in DOMAIN store
         /\ store[i] = [job |-> leased[i].job, at |-> 0, gen |-> leased[i].gen,
                        exp |-> leased[i].exp, attempt |-> leased[i].attempt]
    /\ DOMAIN store \subseteq
         AvailableIds \cup DelayedIds \cup DOMAIN leased \cup InFlight \cup Ahead

\* A job whose enqueue resolved is stored until an ack removes it, through any
\* crash, refused write or late timer.
AcceptedNotLost ==
  \A j \in accepted \ settled : \E i \in DOMAIN store : store[i].job = j

\* The lease an operation checked before its store call is still there after
\* it, so no operation changes the store and then throws LeaseMismatchError.
LeaseOutlivesItsCall ==
  cur # Idle =>
    \/ Running("enqueue") \/ InFlight # {}
    \/ Holds(cur.id, cur.gen)

PlacedIds == AvailableIds \cup DelayedIds \cup DOMAIN leased \cup InFlight

QueuedEnqueues == {i \in DOMAIN chain : chain[i].kind = "enqueue"}

\* The ids that queued enqueues have taken are handed out once and are those
\* of no row yet.
FreshIds ==
  /\ PlacedIds \subseteq 1..idCounter
  /\ \A i \in QueuedEnqueues : chain[i].id \in (1..idCounter) \ PlacedIds
  /\ \A i, k \in QueuedEnqueues : chain[i].id = chain[k].id => i = k

\* The call awaited is one that the operation at the head of the chain makes,
\* for the row it is about, and a lease it needs is held.
CallFitsOperation ==
  cur # Idle =>
    \/ Running("enqueue") /\ cur.pc = "main" /\ cur.id = Head(chain).id
    \/ Running("claim") /\ cur.pc = "main"
    \/ /\ Holds(cur.id, cur.gen)
       /\ \/ cur.pc = "reclaim" /\ (Running("claim") \/ Running("expire"))
          \/ /\ cur.pc = "main"
             /\ \E kind \in {"ack", "release", "reschedule", "extend"} : Running(kind)

\* Nothing runs and nothing is leased while hydrate rebuilds memory.
QuietLoad == hyd.pc = "clear" => DOMAIN leased = {} /\ cur = Idle /\ Flushed

\* RowInOnePlace and LeaseOutlivesItsCall, strengthened until every step
\* preserves them.
RowInvariant ==
  TypeOK /\ RowInOnePlace /\ FreshIds /\ CallFitsOperation /\ QuietLoad

\* A process that has not hydrated runs nothing and holds no lease.
ColdStart ==
  ~hydrated => /\ chain = <<>> /\ tokens = {} /\ DOMAIN leased = {}
               /\ leaseTimer = None

\* Only a lease has a deadline, and it is numbered from 1.
LeasesNumbered ==
  /\ \A i \in DOMAIN leased : leased[i].gen # None
  /\ \A i \in DOMAIN store : store[i].gen = None => store[i].exp = None

\* What the running operation is writing for the row it is about.
CallRecord ==
  /\ cur.pc = "reclaim" \/ Running("release") => cur.rec = Cleared(leased[cur.id])
  /\ Running("reschedule") =>
       cur.rec = [job |-> Head(chain).tok.job, at |-> Head(chain).at, gen |-> None,
                  exp |-> None, attempt |-> Head(chain).attempt]
  /\ Running("extend") =>
       /\ cur.rec.at = 0 /\ cur.rec.gen = cur.gen
       /\ cur.rec.job = leased[cur.id].job
       /\ cur.rec.attempt = leased[cur.id].attempt
  /\ Running("enqueue") =>
       cur.rec = [job |-> Head(chain).job, at |-> Head(chain).at, gen |-> None,
                  exp |-> None, attempt |-> 1]
  /\ Running("claim") /\ cur.pc = "main" =>
       cur.rec.at = 0 /\ cur.rec.gen = leaseGenSeq /\ cur.rec.gen # None

\* Before its answer a claim has the row as the store has it; after a good answer
\* the store has what the operation has written.
CallWrites ==
  cur # Idle =>
    /\ cur.del <=> Running("ack")
    /\ CallRecord
    /\ Running("claim") /\ cur.pc = "main" /\ cur.reply # "ok" =>
         /\ cur.id \in DOMAIN store /\ store[cur.id].at <= now
         /\ [store[cur.id] EXCEPT !.at = 0] = Cleared(cur.rec)
    /\ cur.reply = "ok" =>
         IF cur.del THEN cur.id \notin DOMAIN store
         ELSE cur.id \in DOMAIN store /\ store[cur.id] = cur.rec

\* The rows hydrate has loaded are those of the store, but for those it cleared.
LoadFits ==
  hyd.pc = "clear" =>
    /\ hyd.now <= now /\ DOMAIN hyd.rows = DOMAIN store
    /\ \A i \in hyd.left : hyd.rows[i].gen # None
    /\ \A i \in DOMAIN store :
         store[i] = IF hyd.rows[i].gen = None \/ i \in hyd.left
                    THEN hyd.rows[i] ELSE Cleared(hyd.rows[i])

\* MemoryMatchesStore, strengthened until every step preserves it.
StoreInvariant ==
  /\ RowInvariant /\ MemoryMatchesStore
  /\ ColdStart /\ LeasesNumbered /\ CallWrites /\ LoadFits

\* maxSize bounds what is stored, with every enqueue that waits its turn.
DepthBound == Cardinality(DOMAIN store) <= MaxSize

\* The delay timer is set, for the earliest delayed row: no wakeup is lost.
DelayTimerCovers ==
  delayed # {} => /\ delayTimer # None
                  /\ \A d \in delayed : delayTimer <= d.at

\* A lease with a deadline is watched: by the lease timer, by a reclaim queued
\* on the chain, or by one that is running and will arm the timer at its end.
LeaseTimerCovers ==
  \A i \in {k \in DOMAIN leased : leased[k].exp # None} :
    \/ leaseTimer # None /\ leaseTimer <= leased[i].exp
    \/ \E k \in DOMAIN chain : chain[k].kind = "expire"
    \/ cur # Idle /\ cur.pc = "reclaim"

\* The row whose reclaim is being written.
Reclaimed == IF cur # Idle /\ cur.pc = "reclaim" THEN {cur.id} ELSE {}

\* Every deadline is on the expiry heap, but for the one being reclaimed, which
\* goes back there when the store refuses; and the heap holds nothing else than
\* deadlines.
DeadlinesListed ==
  /\ \A i \in DOMAIN leased \ Reclaimed :
       leased[i].exp # None =>
         [id |-> i, gen |-> leased[i].gen, exp |-> leased[i].exp] \in expiries
  /\ \A e \in expiries : e.exp # None
  /\ Reclaimed # {} => cur.due # None /\ cur.due = leased[cur.id].exp
  /\ Running("extend") /\ cur # Idle => cur.rec.exp # None

\* LeaseTimerCovers, strengthened in the same way.  A claim whose reclaim the
\* store refuses arms no timer, so nothing is promised after a refusal.
TimerInvariant ==
  /\ RowInvariant /\ DeadlinesListed
  /\ cur # Idle /\ cur.reply = "err" => failures > 0
  /\ failures = 0 => LeaseTimerCovers

\* A Lease that stopped being valid (settled, released, expired) never becomes
\* valid again: its holder gets LeaseMismatchError whatever it tries, until a
\* hydrate, clear or replaceAll numbers the generations from the start again.
NoTokenRevival ==
  [][\A t \in tokens \ outdated :
       ~Holds(t.id, t.gen) => ~Holds(t.id, t.gen)']_vars

Claiming == Running("claim") /\ cur # Idle /\ cur.pc = "main"

\* A Lease object that callers hold, or have passed to a queued operation, was
\* given out before the running claim, for the row as it is leased.
TokensFit ==
  /\ \A t \in tokens \ outdated :
       /\ t.gen <= leaseGenSeq
       /\ Claiming => t.gen < leaseGenSeq
       /\ Holds(t.id, t.gen) => /\ t.job = leased[t.id].job
                                /\ t.attempt = leased[t.id].attempt
  /\ \A i \in DOMAIN chain :
       /\ chain[i].kind \in {"ack", "release", "reschedule", "extend"} =>
            chain[i].tok \in tokens
       /\ chain[i].kind = "reschedule" =>
            chain[i].attempt \in chain[i].tok.attempt..MaxAttempt
  /\ cur # Idle /\ Running("reschedule") =>
       cur.id = Head(chain).tok.id /\ cur.gen = Head(chain).tok.gen

\* A reschedule that is being written has the lease it was called with.
OwnLease == cur # Idle /\ Running("reschedule") => Head(chain).tok \notin outdated

\* A job is stored under one id, and not before it is enqueued or after it is
\* settled; the job of a queued enqueue is stored only by that enqueue.
JobsApart ==
  /\ \A i, k \in DOMAIN store : store[i].job = store[k].job => i = k
  /\ \A i \in DOMAIN store :
       store[i].job \in submitted \ settled /\ store[i].attempt <= MaxAttempt
  /\ settled \subseteq submitted
  /\ \A i \in QueuedEnqueues :
       /\ chain[i].job \in submitted \ settled
       /\ \A k \in QueuedEnqueues : chain[i].job = chain[k].job => i = k
       /\ \A k \in DOMAIN store :
            store[k].job = chain[i].job => i = 1 /\ k \in Ahead

\* "`LeaseMismatchError` on stale leases" (docs/api.md): no operation starts on a
\* Lease given out before a hydrate, clear or replaceAll, which has ended them all.
StaleLeaseRefused ==
  cur # Idle /\ (\E kind \in {"ack", "release", "reschedule", "extend"} : Running(kind)) =>
    Head(chain).tok \notin outdated

\* NoTokenRevival, strengthened in the same way.
LeaseInvariant == StoreInvariant /\ TokensFit

\* A process that hydrates once numbers its generations once.
OneNumbering == outdated = {} /\ (hyd.pc # "off" => ~hydrated)

\* AcceptedNotLost, strengthened in the same way for such a process.
LedgerInvariant == LeaseInvariant /\ OneNumbering /\ JobsApart /\ AcceptedNotLost
-----------------------------------------------------------------------------
(* Liveness.                                                               *)

\* Every operation on the chain settles, whatever the store answers.
CallsSettle == []<>(chain = <<>>)

\* A delayed row becomes claimable (or is lost to a crash) once it is due.
DelayedBecomesReady ==
  \A i \in 1..MaxId :
    (\E d \in delayed : d.id = i /\ d.at <= MaxTime) ~> (i \notin DelayedIds)

\* A lease nobody settles is taken back once its deadline has passed, unless
\* the store has refused a call: a refused claim rearms no lease timer.
ReclaimedUnlessRefused ==
  \A i \in 1..MaxId :
    (i \in DOMAIN leased /\ leased[i].exp \in 1..MaxTime)
      ~> (failures > 0 \/ ~(i \in DOMAIN leased /\ leased[i].exp <= now))

\* "Retain the expiry so a transient store failure retries" (queue.ts, on a
\* refused reclaim): the same, whatever the store has refused.
ReclaimIsRetried ==
  \A i \in 1..MaxId :
    (i \in DOMAIN leased /\ leased[i].exp \in 1..MaxTime)
      ~> ~(i \in DOMAIN leased /\ leased[i].exp <= now)
-----------------------------------------------------------------------------
(* The promise: every step of the queue is a step of JobLedger or none, the *)
(* ledger being read off the store.                                        *)

StoredJobs == {store[i].job : i \in DOMAIN store}
HeldJobs   == {store[i].job : i \in {k \in DOMAIN store : store[k].gen # None}}

JobStatus == [j \in Jobs |->
  CASE j \in HeldJobs -> "held"
    [] j \in StoredJobs \ HeldJobs -> "waiting"
    [] j \in settled \ StoredJobs -> "settled"
    [] OTHER -> "new"]

JobAttempt == [j \in Jobs |->
  IF j \in StoredJobs
  THEN store[CHOOSE i \in DOMAIN store : store[i].job = j].attempt ELSE 0]

Ledger == INSTANCE JobLedger WITH status <- JobStatus, attempt <- JobAttempt

\* The queue keeps the promise of JobLedger at every write, crash and recovery.
KeepsLedger == Ledger!LedgerSpec
=============================================================================
