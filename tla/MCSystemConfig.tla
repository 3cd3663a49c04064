--------------------------- MODULE MCSystemConfig ---------------------------
(* Families of configurations of two queues, each varying what one part of *)
(* the validator and of the builder reads.                                 *)
EXTENDS SystemConfig

Plain == [limits |-> "none", persist |-> "none", worker |-> "none", onFailure |-> "unset",
          loop |-> "none", dlq |-> "none", dlqOptions |-> "none", retry |-> "none",
          observability |-> "none"]

NoRouter == [bindings |-> <<>>, unmatched |-> "none"]

\* Every combination of a queue's recovery options, beside a plain queue.
RecoveryQueues ==
    {[Plain EXCEPT !.worker = w[1], !.onFailure = w[2], !.loop = l,
                   !.dlq = d, !.dlqOptions = IF d = "none" THEN "none" ELSE o, !.retry = r] :
        w \in {<<"none", "unset">>, <<"bad", "unset">>}
                \cup {"auto"} \X {"unset", "fail", "loop", "custom"},
        l \in {"none", "ok", "js", "bad"}, d \in {"none", "a", "b", "ghost", "toString"},
        o \in {"ok", "js"}, r \in {"none", "ok", "js", "bad"}}

RecoveryConfigs ==
    {[queues |-> [q \in {"a", "b"} |-> IF q = "a" THEN c ELSE Plain],
      stores |-> <<>>, router |-> NoRouter, hydrate |-> "unset"] : c \in RecoveryQueues}

\* Every kind of store, two queues that may share one, every start of worker.
StoreDefs ==
    [kind : {"localStorage", "sessionStorage"}, key : {"none", "k1", "k1:guests"}]
      \cup [kind : {"memory", "noAdapter", "notARowStore"}, key : {"none"}]
      \cup [kind : {"impl"}, key : {"k1", "k1:guests"}]

StoreConfigs ==
    {[queues |-> [q \in {"a", "b"} |->
                    [Plain EXCEPT !.persist = IF q = "a" THEN p ELSE "s2", !.worker = w]],
      stores |-> [s \in {"s1", "s2"} |-> IF s = "s1" THEN d ELSE e],
      router |-> NoRouter, hydrate |-> h] :
        p \in {"none", "s1", "s2", "ghost"}, w \in {"auto", "manual"},
        d \in StoreDefs, e \in StoreDefs, h \in {"unset", "no"}}

\* The router's bindings and sink, the options without a family of their
\* own, a blank name, an empty configuration.
RouterConfigs ==
    {[queues |-> [q \in {"a", n} |->
                    [Plain EXCEPT !.limits = IF o = "limits" THEN "bad" ELSE "ok",
                                  !.observability = IF o = "hooks" THEN "js" ELSE "ok"]],
      stores |-> <<>>,
      router |-> [bindings |-> <<[pattern |-> p, queue |-> "a"], [pattern |-> "ok", queue |-> t]>>,
                  unmatched |-> u],
      hydrate |-> h] :
        n \in {"b", " "}, o \in {"none", "limits", "hooks"}, p \in {"ok", "bad", "malformed"},
        t \in {"a", "b", "ghost", "toString"}, u \in {"none", "b", "ghost"},
        h \in {"unset", "yes", "no", "bad"}}

MCConfigs ==
    RecoveryConfigs \cup StoreConfigs \cup RouterConfigs
      \cup {[queues |-> <<>>, stores |-> <<>>, router |-> NoRouter, hydrate |-> "unset"]}

MCNames == <<"a", "b", " ">>
\* The key "k1:guests" begins with "k1" and ":g".
MCSwept == {<<"k1", "k1:guests">>}

MCStoreNames == <<"s1", "s2">>

=============================================================================
