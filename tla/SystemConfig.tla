---------------------------- MODULE SystemConfig ----------------------------
(***************************************************************************)
(* @qkitt/queue-config: a configuration is validated, its stores and       *)
(* queues are built layer by layer, its durable queues are hydrated and    *)
(* its workers are started.                                                *)
(*                                                                         *)
(* A configuration is data: names are model values, an option is "none",   *)
(* "ok", "js" (it holds a function, which JSON cannot) or "bad" (a value   *)
(* of the wrong type or out of range).  The checks are sequences of        *)
(* error codes in the code's order, the first of which is what it throws.  *)
(* A build runs without an await up to the hydration; its steps are apart  *)
(* here because a worker may start in the middle of it.                    *)
(***************************************************************************)
EXTENDS Naturals

CONSTANTS
    Names,       \* the queue names, in the order a configuration lists them
    StoreNames,  \* the store names, in the order a configuration lists them
    Inherited,   \* names every plain object inherits, "toString" say
    Blank,       \* queue names made of white space
    Swept,       \* pairs of web storage keys: the second begins with the first
                 \* and ":g", "app" and "app:guests" say
    Configs,     \* the configurations an application may give
    MaxLoads     \* bound: hydrateAll calls of the application

StoreKinds ==
    {"memory", "localStorage", "sessionStorage", "impl", "noAdapter", "notARowStore"}

ASSUME ConfigAssumption ==
    /\ DOMAIN Names \subseteq Nat /\ DOMAIN StoreNames \subseteq Nat
    /\ \A pair \in Swept : pair[1] # pair[2]
    /\ \A c \in Configs :
          /\ \A q \in DOMAIN c.queues : \E i \in DOMAIN Names : Names[i] = q
          /\ \A s \in DOMAIN c.stores :
                /\ \E i \in DOMAIN StoreNames : StoreNames[i] = s
                /\ c.stores[s] \in [kind : StoreKinds, key : STRING]
          /\ DOMAIN c.router.bindings \subseteq Nat

VARIABLES
    config,   \* the configuration the application gave
    entry,    \* how it was given: entry point, skipValidate, options.storage
    phase,    \* how far the build has come
    error,    \* what it threw
    built,    \* the queues built, with the recovery of each (RecoveryConfig)
    routed,   \* the names the router's bindings deliver to
    running,  \* queues whose worker is running
    loading,  \* queues with a hydrate() in flight
    loaded,   \* queues whose hydrate() has resolved
    loads     \* bound: hydrateAll calls so far

configVars == <<config, entry, phase, error, built, routed, running, loading, loaded, loads>>

-----------------------------------------------------------------------------
Check(wrong, code) == IF wrong THEN code ELSE "none"

\* The first of a sequence of checks that complains.
FirstOf(checks) ==
    LET bad == {i \in DOMAIN checks : checks[i] # "none"}
    IN  IF bad = {} THEN "none" ELSE checks[CHOOSE i \in bad : \A j \in bad : i <= j]

Of(q) == config.queues[q]
Persisted(q) == Of(q).persist # "none"

WebKinds == {"localStorage", "sessionStorage"}

\* A value that may hold a function: refused in JSON, refused when malformed.
Option(v, js) ==
    FirstOf(<<Check(v = "js" /\ ~js, "JS_ONLY_FIELD"), Check(v = "bad", "INVALID_TYPE")>>)

-----------------------------------------------------------------------------
\* assertWebStorageKey.
NoKey(s) == config.stores[s].kind \in WebKinds /\ config.stores[s].key = "none"

\* parseStoreDefinition of one store.
StoreComplaint(s, js) ==
    LET kind == config.stores[s].kind IN
    FirstOf(<<
        Check(kind = "impl" /\ ~js, "JS_ONLY_FIELD"),
        Check(kind = "notARowStore", "INVALID_IMPL"),
        Check(kind = "noAdapter", "MISSING_FIELD"),
        Check(NoKey(s), "MISSING_FIELD")>>)

\* Mutant of SameWebKey: sessionStorage is forgotten.
SameWebKey_Local(s, t) ==
    config.stores[s].kind = "localStorage" /\ config.stores[s] = config.stores[t]

\* A web store's adapter and key; two stores with the same pair are refused.
SameWebKey(s, t) ==
    config.stores[s].kind \in WebKinds /\ config.stores[s] = config.stores[t]

DuplicateKey == \E s, t \in DOMAIN config.stores : s # t /\ SameWebKey(s, t)

\* parseQueueConfig of one queue.
QueueComplaint(q, js) ==
    LET c == Of(q)
        noWorker == c.worker = "none"
    IN  FirstOf(<<
            Check(c.limits = "bad", "INVALID_TYPE"),
            Check(c.persist \notin DOMAIN config.stores \cup {"none"}, "STORE_NOT_FOUND"),
            Check(~noWorker /\ ~js, "JS_ONLY_FIELD"),
            Check(c.worker = "bad", "INVALID_TYPE"),
            Option(c.loop, js), Check(c.loop # "none" /\ noWorker, "INVALID_FIELD"),
            Option(c.dlqOptions, js), Check(c.dlq # "none" /\ noWorker, "INVALID_FIELD"),
            Check(c.retry # "none" /\ (c.loop # "none" \/ c.onFailure = "loop"),
                  "CONFLICTING_FIELDS"),
            Option(c.retry, js), Check(c.retry # "none" /\ noWorker, "INVALID_FIELD"),
            Option(c.observability, js)>>)

SharedStore ==
    \E q, r \in DOMAIN config.queues :
        q # r /\ Persisted(q) /\ Of(q).persist = Of(r).persist

UnusedStore ==
    \E s \in DOMAIN config.stores : \A q \in DOMAIN config.queues : Of(q).persist # s

\* `name in queues`: also true of what a plain object inherits.
Known(name) == name \in DOMAIN config.queues \cup Inherited

\* Mutant of DlqComplaint: a queue may be its own dead-letter queue.
DlqComplaint_Self(q) == Check(Of(q).dlq # "none" /\ ~Known(Of(q).dlq), "UNKNOWN_QUEUE")

DlqComplaint(q) ==
    FirstOf(<<Check(Of(q).dlq # "none" /\ ~Known(Of(q).dlq), "UNKNOWN_QUEUE"),
              Check(Of(q).dlq = q, "INVALID_FIELD")>>)

\* parseSystemConfigValue: the complaint about the whole configuration.
Complaint(js) ==
    LET r == config.router IN
    FirstOf(<<
        Check(DOMAIN config.queues = {}, "EMPTY_QUEUES"),
        FirstOf([i \in DOMAIN StoreNames |->
            IF StoreNames[i] \in DOMAIN config.stores
            THEN StoreComplaint(StoreNames[i], js) ELSE "none"]),
        Check(DuplicateKey, "DUPLICATE_STORAGE_KEY"),
        FirstOf([i \in DOMAIN Names |->
            IF Names[i] \in DOMAIN config.queues THEN QueueComplaint(Names[i], js) ELSE "none"]),
        Check(SharedStore, "SHARED_STORE"),
        Check(UnusedStore, "UNUSED_STORE"),
        FirstOf([i \in DOMAIN r.bindings |-> Check(r.bindings[i].pattern = "bad", "INVALID_TYPE")]),
        Check(config.hydrate = "bad", "INVALID_TYPE"),
        FirstOf([i \in DOMAIN r.bindings |-> Check(~Known(r.bindings[i].queue), "UNKNOWN_QUEUE")]),
        Check(r.unmatched # "none" /\ ~Known(r.unmatched), "UNKNOWN_QUEUE"),
        FirstOf([i \in DOMAIN Names |->
            IF Names[i] \in DOMAIN config.queues THEN DlqComplaint(Names[i]) ELSE "none"])>>)

-----------------------------------------------------------------------------
\* shouldHydrate.
Hydrates ==
    \/ config.hydrate = "yes"
    \/ config.hydrate = "unset" /\ \E q \in DOMAIN config.queues : Persisted(q)

\* resolveStore: where a store keeps its rows.
Rows(s) ==
    LET d == config.stores[s] IN
    CASE d.kind = "impl" -> <<"impl", d.key>>
      [] d.kind = "memory" -> <<"memory", s>>
      [] OTHER -> <<IF entry.storage = "none" THEN d.kind ELSE "given", d.key>>

\* cleanupOrphanGenerations of store s removes rows of store t: it removes all
\* that begins with its key and ":g" but its own active generation, where the
\* storage lists its keys.  An application may hand in such a storage; the one
\* of lazyGlobalStorage has neither length nor key().
Sweeps(s, t) ==
    /\ entry.storage = "listed"
    /\ {config.stores[s].kind, config.stores[t].kind} \subseteq WebKinds
    /\ <<config.stores[s].key, config.stores[t].key>> \in Swept

\* Mutant of StartsAtOnce: the start is not deferred to after the hydration.
StartsAtOnce_Undeferred(q) == Of(q).worker = "auto"

\* resolveWorker: does the worker run as soon as it is attached?
StartsAtOnce(q) == Of(q).worker = "auto" /\ ~Hydrates

\* withWorker's recovery configuration, before the outer layers change it.
WorkerRecovery(c) ==
    [explicit |-> c.onFailure # "unset",
     policy |-> IF c.onFailure = "unset" THEN "fail" ELSE c.onFailure,
     retry |-> FALSE, loop |-> FALSE, dlq |-> "none"]

RetryRefused(r) == r.retry \/ (r.explicit /\ r.policy # "fail")
LoopRefused(r) == r.retry \/ (r.explicit /\ r.policy # "loop")

\* configureRetryRecovery and configureLoopRecovery, where they are configured.
AfterRetry(c) ==
    IF c.retry = "none" THEN WorkerRecovery(c)
    ELSE [WorkerRecovery(c) EXCEPT !.policy = "fail", !.explicit = TRUE, !.retry = TRUE]

AfterLoop(c) ==
    IF c.loop = "none" THEN AfterRetry(c)
    ELSE [AfterRetry(c) EXCEPT !.policy = "loop", !.explicit = TRUE, !.loop = TRUE]

\* What buildQueueFromConfig and the layers it composes throw for a queue.
QueueBuildError(q) ==
    LET c == Of(q)
        noWorker == c.worker = "none"
    IN  FirstOf(<<
            Check(c.persist \notin DOMAIN config.stores \cup {"none"}, "STORE_NOT_FOUND"),
            Check(q \in Blank, "InvalidQueueOption"),
            Check(c.retry # "none" /\ noWorker, "InvalidQueueComposition"),
            Check(c.retry # "none" /\ RetryRefused(WorkerRecovery(c)), "ConflictingRecovery"),
            Check(c.loop # "none" /\ noWorker, "InvalidQueueComposition"),
            Check(c.loop # "none" /\ LoopRefused(AfterRetry(c)), "ConflictingRecovery")>>)

\* applyDlqLayers: `queues[name]` finds inherited names too.
DlqBuildError ==
    FirstOf([i \in DOMAIN Names |->
        IF Names[i] \notin DOMAIN config.queues THEN "none"
        ELSE LET q == Names[i] IN
             FirstOf(<<
                 Check(Of(q).dlq # "none" /\ ~Known(Of(q).dlq), "UNKNOWN_QUEUE"),
                 Check(Of(q).dlq # "none" /\ Of(q).worker = "none", "InvalidQueueComposition"),
                 Check(Of(q).dlq = q, "InvalidDeadLetterOption")>>)])

\* The sink is looked up first.
SinkBuildError ==
    Check(config.router.unmatched # "none" /\ ~Known(config.router.unmatched), "UNKNOWN_QUEUE")

\* buildConfiguredRouter: the sink, then the bindings in order.
RouterBuildError ==
    FirstOf(<<SinkBuildError,
              FirstOf([i \in DOMAIN config.router.bindings |->
                  LET b == config.router.bindings[i] IN
                  FirstOf(<<Check(~Known(b.queue), "UNKNOWN_QUEUE"),
                            Check(b.pattern = "malformed", "InvalidRoutePattern")>>)])>>)

\* resolveAllStores: a web store without a key is refused.
StoreBuildError == Check(\E s \in DOMAIN config.stores : NoKey(s), "MISSING_FIELD")

-----------------------------------------------------------------------------
\* skipValidate is for configurations TypeScript has typed: nothing is "bad".
WellTyped(c) ==
    /\ \A q \in DOMAIN c.queues :
           "bad" \notin {c.queues[q][f] : f \in {"limits", "worker", "loop", "dlqOptions",
                                                 "retry", "observability"}}
    /\ \A s \in DOMAIN c.stores : c.stores[s].kind \notin {"notARowStore", "noAdapter"}
    /\ c.hydrate # "bad" /\ \A i \in DOMAIN c.router.bindings : c.router.bindings[i].pattern # "bad"

ConfigInit ==
    /\ config \in Configs
    /\ entry \in [by : {"async", "sync", "json"}, skip : BOOLEAN,
                 storage : {"none", "given", "listed"}]
    /\ entry.skip => WellTyped(config)
    /\ phase = "given" /\ error = "none"
    /\ built = <<>> /\ routed = {}
    /\ running = {} /\ loading = {} /\ loaded = {} /\ loads = 0

Throw(code) == phase' = "failed" /\ error' = code

\* Go on to the next phase, unless there is something to throw.
Proceed(code, next) ==
    IF code # "none" THEN Throw(code) ELSE phase' = next /\ UNCHANGED error

\* buildFromJson parses data only first; each builder validates unless told
\* not to; buildFromConfigSync refuses what would have to hydrate.
Validate ==
    /\ phase = "given"
    /\ Proceed(FirstOf(<<IF entry.by = "json" THEN Complaint(FALSE) ELSE "none",
                         IF entry.skip THEN "none" ELSE Complaint(TRUE),
                         Check(entry.by = "sync" /\ Hydrates, "ASYNC_REQUIRED")>>), "stores")
    /\ UNCHANGED <<config, entry, built, routed, running, loading, loaded, loads>>

ResolveStores ==
    /\ phase = "stores"
    /\ Proceed(StoreBuildError, "queues")
    /\ UNCHANGED <<config, entry, built, routed, running, loading, loaded, loads>>

\* The queues are built in the order the configuration lists them.
IsNext(q) ==
    \E i \in DOMAIN Names :
        /\ q = Names[i] /\ q \in DOMAIN config.queues \ DOMAIN built
        /\ \A j \in DOMAIN Names :
               j < i => Names[j] \notin DOMAIN config.queues \ DOMAIN built

\* buildQueueFromConfig.  The worker is attached, and started, before an
\* outer layer can refuse.
BuildQueue(q) ==
    LET code == QueueBuildError(q)
        attached == code \notin {"STORE_NOT_FOUND", "InvalidQueueOption"}
    IN  /\ phase = "queues" /\ IsNext(q)
        /\ IF code # "none"
           THEN Throw(code) /\ UNCHANGED built
           ELSE /\ built' = [b \in DOMAIN built \cup {q} |->
                                IF b = q THEN AfterLoop(Of(q)) ELSE built[b]]
                /\ UNCHANGED <<phase, error>>
        /\ running' = IF attached /\ StartsAtOnce(q) THEN running \cup {q} ELSE running
        /\ UNCHANGED <<config, entry, routed, loading, loaded, loads>>

\* applyDlqLayers: the second pass, when every target exists.
ApplyDlqLayers ==
    /\ phase = "queues" /\ DOMAIN built = DOMAIN config.queues
    /\ Proceed(DlqBuildError, "router")
    /\ built' = IF DlqBuildError # "none" THEN built
                ELSE [q \in DOMAIN built |-> [built[q] EXCEPT !.dlq = Of(q).dlq]]
    /\ UNCHANGED <<config, entry, routed, running, loading, loaded, loads>>

\* buildConfiguredRouter, then hydrateAll when the build hydrates: the queues
\* that have a store load their rows side by side.
BuildRouter ==
    LET next == IF Hydrates THEN "hydrating" ELSE "ready"
    IN  /\ phase = "router"
        /\ Proceed(RouterBuildError, next)
        /\ IF RouterBuildError = "none"
           THEN /\ routed' = {config.router.bindings[i].queue : i \in DOMAIN config.router.bindings}
                /\ loading' = IF Hydrates THEN {q \in DOMAIN built : Persisted(q)} ELSE {}
           ELSE UNCHANGED <<routed, loading>>
        /\ UNCHANGED <<config, entry, built, running, loaded, loads>>

\* A queue's rows are read.
Hydrated(q) ==
    /\ q \in loading
    /\ loading' = loading \ {q} /\ loaded' = loaded \cup {q}
    /\ UNCHANGED <<config, entry, phase, error, built, routed, running, loads>>

\* loadAll fails, or a row is invalid: the build rejects at the first failure
\* while the other queues go on reading.
HydrateFails(q) ==
    /\ q \in loading
    /\ loading' = loading \ {q}
    /\ IF phase = "hydrating" THEN Throw("StoreError") ELSE UNCHANGED <<phase, error>>
    /\ UNCHANGED <<config, entry, built, routed, running, loaded, loads>>

\* startAutoWorkers, once every hydrate() has resolved.
StartAutoWorkers ==
    /\ phase = "hydrating" /\ loading = {}
    /\ running' = running \cup {q \in DOMAIN built : Of(q).worker = "auto"}
    /\ phase' = "ready"
    /\ UNCHANGED <<config, entry, error, built, routed, loading, loaded, loads>>

\* The application calls hydrateAll() itself.  A running worker's queue
\* refuses, and so does one that is loading; the others load.
HydrateAll ==
    /\ phase = "ready" /\ loads < MaxLoads
    /\ loading' = loading \cup {q \in DOMAIN built : Persisted(q) /\ q \notin running}
    /\ loads' = loads + 1
    /\ UNCHANGED <<config, entry, phase, error, built, routed, running, loaded>>

\* The application starts a worker configured with autoStart: false, after
\* its queue's rows are there as the README asks.
StartByHand(q) ==
    /\ phase = "ready" /\ q \in DOMAIN built \ running
    /\ Of(q).worker = "manual" /\ (Persisted(q) => q \in loaded)
    /\ running' = running \cup {q}
    /\ UNCHANGED <<config, entry, phase, error, built, routed, loading, loaded, loads>>

Done == phase \in {"ready", "failed"} /\ loading = {} /\ UNCHANGED configVars

ConfigNext ==
    \/ Validate \/ ResolveStores \/ ApplyDlqLayers \/ BuildRouter
    \/ \E q \in DOMAIN config.queues :
           BuildQueue(q) \/ Hydrated(q) \/ HydrateFails(q) \/ StartByHand(q)
    \/ StartAutoWorkers \/ HydrateAll \/ Done

ConfigSpec == ConfigInit /\ [][ConfigNext]_configVars

-----------------------------------------------------------------------------
(* Where the build hydrates, no worker runs before the rows of every       *)
(* durable queue are in memory, its own and those its failures and         *)
(* routes lead to; and when one queue's rows cannot be read, none ever     *)
(* runs (from-config.ts, buildFromConfig: "hydrate durable queues before   *)
(* auto-start workers can claim restored rows").                           *)
WorkersWaitForEveryQueue ==
    (Hydrates /\ running # {}) =>
        \A q \in DOMAIN config.queues : Persisted(q) => q \in loaded

(* The validator and the layers it stands before agree: a configuration    *)
(* that passed is built, but for the three refusals only the layers make:  *)
(* an onFailure the retry or loop layer cannot combine with, a malformed   *)
(* binding pattern and a blank queue name (validate/ against from-config). *)
AcceptedConfigsBuild ==
    (phase = "failed" /\ ~entry.skip /\ Complaint(TRUE) = "none") =>
        \/ entry.by = "json" /\ Complaint(FALSE) # "none"
        \/ error \in {"ASYNC_REQUIRED", "StoreError"}
        \/ error = "InvalidQueueOption" /\ DOMAIN config.queues \cap Blank # {}
        \/ error = "InvalidRoutePattern"
        \/ error = "ConflictingRecovery"
             /\ \E q \in DOMAIN config.queues : Of(q).onFailure # "unset"

(* Two queues of an accepted configuration keep their rows apart, and no   *)
(* store removes another's, unless the application hands both the same     *)
(* store (one impl under two names, or one options.storage for two         *)
(* adapters) or hands in a storage that lists its keys, in which one       *)
(* store's key begins with the other's and ":g" (parseSystemConfig's       *)
(* duplicate-key and shared-store checks against resolveStore and          *)
(* cleanupOrphanGenerations).                                              *)
RowsNotShared ==
    (~entry.skip /\ phase \notin {"given", "failed"}) =>
        \A q, r \in DOMAIN config.queues :
            (q # r /\ Persisted(q) /\ Persisted(r)) =>
                LET s == Of(q).persist
                    t == Of(r).persist
                IN  Rows(s) = Rows(t) \/ Sweeps(s, t) =>
                        \/ config.stores[s].kind = "impl"
                        \/ entry.storage # "none" /\ config.stores[s].kind # config.stores[t].kind
                        \/ /\ entry.storage = "listed"
                           /\ <<config.stores[s].key, config.stores[t].key>> \in Swept

(* What the README of queue-config asks for: "Web stores must use unique   *)
(* `adapter`+`key` pairs."  Two stores of one adapter whose keys differ    *)
(* keep their rows apart.                                                  *)
UniqueKeysSuffice ==
    (~entry.skip /\ phase \notin {"given", "failed"}) =>
        \A s, t \in DOMAIN config.stores :
            /\ config.stores[s].kind = config.stores[t].kind
            /\ config.stores[s].kind \in WebKinds /\ config.stores[s].key # config.stores[t].key
            => Rows(s) # Rows(t) /\ ~Sweeps(s, t)

=============================================================================
