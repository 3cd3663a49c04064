-------------------------------- MODULE Router --------------------------------
(***************************************************************************)
(* The topic router of packages/queue/src/router/router.ts with the         *)
(* pattern matcher of match.util.ts.                                       *)
(*                                                                         *)
(* A publish calls `enqueue` of one target after the other.  Listeners run  *)
(* inside these calls and may bind, unbind or publish themselves, so each   *)
(* call is a step; the publish started last runs first.  Promises that the  *)
(* targets return settle later, when no publish is calling.                *)
(***************************************************************************)
EXTENDS Naturals, Sequences, FiniteSets, Functions, Subsequence

CONSTANTS
  Patterns,       \* what callers bind: sequences of segments
  Topics,         \* what callers publish on: sequences of segments
  Targets,        \* the queues, compared by identity
  NoTarget,       \* no unmatched sink
  MaxBindings,    \* bound on bind calls
  MaxPublishes,   \* bound on publish calls
  MaxSinkChanges  \* bound on setUnmatchedTarget and clearUnmatched calls

ASSUME RouterAssumption ==
  /\ \A p \in Patterns \cup Topics : p \in Seq(STRING)
  /\ NoTarget \notin Targets
  /\ MaxBindings \in Nat /\ MaxPublishes \in Nat /\ MaxSinkChanges \in Nat

VARIABLES
  routes,         \* bindings in bind order, each with its number
  bindings,       \* bind calls so far
  unmatchedTarget,\* the sink for topics nobody has bound
  unmatchedTotal, \* unmatched publishes since the last clearUnmatched
  lastUnmatched,  \* number of the last unmatched publish, 0 for none
  pubs,           \* the publish calls so far
  sinkChanges     \* setUnmatchedTarget and clearUnmatched calls so far

sinkVars == <<unmatchedTarget, unmatchedTotal, lastUnmatched, sinkChanges>>
vars == <<routes, bindings, pubs, sinkVars>>

Star == "*"
Hash == "#"
\* Segments that hold a wildcard character among others, and the empty one.
Embedded == {"a*", "#a"}
Malformed == Embedded \cup {""}

SinkKey == 0   \* the sink's place among the bindings' numbers
-----------------------------------------------------------------------------
(* match.util.ts                                                           *)

\* isValidTopicParts
ValidTopic(t) ==
  /\ t # <<>>
  /\ \A i \in DOMAIN t : t[i] \notin Malformed \cup {Star, Hash}

\* isValidPattern: the segments up to a `#` are checked, and it must be last.
ValidPattern(p) ==
  /\ p # <<>> /\ \A i \in DOMAIN p : p[i] # ""
  /\ \/ \A i \in DOMAIN p : p[i] \notin Embedded \cup {Hash}
     \/ /\ p[Len(p)] = Hash
        /\ \A i \in 1..(Len(p) - 1) : p[i] \notin Embedded \cup {Hash}

\* matchTopicParts: both sequences are walked together.
Matches(p, t) ==
  LET end(i) == \/ i = Len(p) /\ p[i] = Hash
                \/ i > Len(p) /\ i > Len(t)
      walk[i \in 1..(Len(p) + 1)] ==
        IF i > Len(p) \/ i > Len(t) THEN end(i)
        ELSE p[i] = Hash \/ (p[i] \in {Star, t[i]} /\ walk[i + 1])
  IN walk[1]

\* What a pattern means: the topic can be cut into one piece per segment, a
\* piece of any length for `#`, of one segment for `*` or for a literal.
Covers(p, t) ==
  \E cut \in [0..Len(p) -> 0..Len(t)] :
    /\ cut[0] = 0 /\ cut[Len(p)] = Len(t)
    /\ \A i \in DOMAIN p :
         IF p[i] = Hash THEN cut[i] >= cut[i - 1]
         ELSE cut[i] = cut[i - 1] + 1 /\ p[i] \in {Star, t[cut[i]]}
-----------------------------------------------------------------------------
(* Bindings.                                                               *)

Keys(s) == [k \in DOMAIN s |-> s[k].key]

\* An invalid pattern is announced and thrown; nothing is bound.
Bind(p, q) ==
  /\ ValidPattern(p) /\ bindings < MaxBindings
  /\ bindings' = bindings + 1
  /\ routes' = Append(routes, [key |-> bindings + 1, pattern |-> p, target |-> q])
  /\ UNCHANGED <<pubs, sinkVars>>

Gone(r, p, q) == r.pattern = p /\ (q = NoTarget \/ r.target = q)

\* Mutation of Unbind: the bindings a publish iterates over are spliced too.
Unbind_Live(p, q) ==
  /\ \E r \in Range(routes) : Gone(r, p, q)
  /\ routes' = Among(routes, {r \in Range(routes) : ~Gone(r, p, q)})
  /\ pubs' = [n \in DOMAIN pubs |-> [pubs[n] EXCEPT
                 !.due = Among(@, {r \in Range(@) : ~Gone(r, p, q)})]]
  /\ UNCHANGED <<bindings, sinkVars>>

\* unbind(pattern, target), and the function bind has returned: every binding
\* of this pattern to this target.  NoTarget: to any.
Unbind(p, q) ==
  /\ \E r \in Range(routes) : Gone(r, p, q)
  /\ routes' = Among(routes, {r \in Range(routes) : ~Gone(r, p, q)})
  /\ UNCHANGED <<bindings, pubs, sinkVars>>

Clear ==
  /\ routes # <<>> /\ routes' = <<>>
  /\ UNCHANGED <<bindings, pubs, sinkVars>>

SetUnmatchedTarget(q) ==
  /\ sinkChanges < MaxSinkChanges /\ sinkChanges' = sinkChanges + 1
  /\ unmatchedTarget' = q
  /\ UNCHANGED <<routes, bindings, pubs, unmatchedTotal, lastUnmatched>>

ClearUnmatched ==
  /\ sinkChanges < MaxSinkChanges /\ sinkChanges' = sinkChanges + 1
  /\ unmatchedTotal' = 0 /\ lastUnmatched' = 0
  /\ UNCHANGED <<routes, bindings, pubs, unmatchedTarget>>
-----------------------------------------------------------------------------
(* publish ("sync") and publishAsyncDetailed ("async").                    *)

Matching(t) == Among(routes, {r \in Range(routes) : Matches(r.pattern, t)})

Sink == [key |-> SinkKey, pattern |-> <<>>, target |-> unmatchedTarget]

\* The targets a publish will call: the matching bindings, or the sink.
ToCall(t) ==
  IF Matching(t) # <<>> THEN Matching(t)
  ELSE IF unmatchedTarget = NoTarget THEN <<>> ELSE <<Sink>>

\* called, owed: history, the targets called and those the topic is meant for.
Publish(form, t) ==
  /\ ValidTopic(t) /\ Len(pubs) < MaxPublishes
  /\ pubs' = Append(pubs,
       [form |-> form, topic |-> t, due |-> ToCall(t), matched |-> Len(Matching(t)),
        open |-> {}, took |-> {}, errors |-> 0,
        returned |-> FALSE, accepted |-> 0, rejected |-> 0, called |-> <<>>,
        owed |-> Keys(Among(routes, {r \in Range(routes) : Covers(r.pattern, t)}))])
  /\ IF Matching(t) = <<>>
     THEN unmatchedTotal' = unmatchedTotal + 1 /\ lastUnmatched' = Len(pubs) + 1
     ELSE UNCHANGED <<unmatchedTotal, lastUnmatched>>
  /\ UNCHANGED <<routes, bindings, unmatchedTarget, sinkChanges>>

\* The rest of its copy of the bindings is what a publish has yet to call.
Calling(n) == /\ pubs[n].due # <<>>
              /\ \A m \in DOMAIN pubs : m > n => pubs[m].due = <<>>
NobodyCalls == \A n \in DOMAIN pubs : pubs[n].due = <<>>

\* One enqueue: it returns nothing, returns a promise, or throws.
CallTarget(n) ==
  /\ Calling(n)
  /\ LET key == Head(pubs[n].due).key IN
     \E reply \in {"took", "promise", "throws"} :
       pubs' = [pubs EXCEPT
         ![n].due = Tail(@),
         ![n].called = Append(@, key),
         ![n].took = IF reply = "took" THEN @ \cup {key} ELSE @,
         ![n].open = IF reply = "promise" THEN @ \cup {key} ELSE @,
         ![n].errors = IF reply = "throws" THEN @ + 1 ELSE @]
  /\ UNCHANGED <<routes, bindings, sinkVars>>

\* A promise settles; a rejection is announced as router:error.
TargetAnswers(n) ==
  /\ NobodyCalls
  /\ \E key \in pubs[n].open, ok \in BOOLEAN :
       pubs' = [pubs EXCEPT
         ![n].open = @ \ {key},
         ![n].took = IF ok THEN @ \cup {key} ELSE @,
         ![n].errors = IF ok THEN @ ELSE @ + 1]
  /\ UNCHANGED <<routes, bindings, sinkVars>>

\* Mutation of Answered: the promises are not awaited.
Answered_NotAwaited(n) == TRUE

Answered(n) == pubs[n].open = {}

\* publish returns the number of matching bindings once it has called everybody.
ReturnSync(n) ==
  /\ ~pubs[n].returned /\ pubs[n].form = "sync" /\ pubs[n].due = <<>>
  /\ \A m \in DOMAIN pubs : m > n => pubs[m].due = <<>>
  /\ pubs' = [pubs EXCEPT ![n].returned = TRUE]
  /\ UNCHANGED <<routes, bindings, sinkVars>>

\* publishAsyncDetailed resolves when every enqueue has settled.
ReturnAsync(n) ==
  /\ ~pubs[n].returned /\ pubs[n].form = "async" /\ NobodyCalls /\ Answered(n)
  /\ pubs' = [pubs EXCEPT
       ![n].returned = TRUE,
       ![n].accepted = Cardinality(pubs[n].took),
       ![n].rejected = Len(pubs[n].called) - Cardinality(pubs[n].took)]
  /\ UNCHANGED <<routes, bindings, sinkVars>>
-----------------------------------------------------------------------------
Init ==
  /\ routes = <<>> /\ bindings = 0 /\ pubs = <<>>
  /\ unmatchedTarget \in Targets \cup {NoTarget}
  /\ unmatchedTotal = 0 /\ lastUnmatched = 0 /\ sinkChanges = 0

Next ==
  \/ \E p \in Patterns, q \in Targets : Bind(p, q)
  \/ \E p \in Patterns, q \in Targets \cup {NoTarget} : Unbind(p, q)
  \/ Clear \/ ClearUnmatched
  \/ \E q \in Targets \cup {NoTarget} : SetUnmatchedTarget(q)
  \/ \E form \in {"sync", "async"}, t \in Topics : Publish(form, t)
  \/ \E n \in DOMAIN pubs :
       CallTarget(n) \/ TargetAnswers(n) \/ ReturnSync(n) \/ ReturnAsync(n)

Spec == Init /\ [][Next]_vars
-----------------------------------------------------------------------------
Routes == [key : Nat \ {0}, pattern : {p \in Patterns : ValidPattern(p)},
           target : Targets]
SinkCalls == [key : {SinkKey}, pattern : {<<>>}, target : Targets]
Publications ==
  [form : {"sync", "async"}, topic : Topics, due : Seq(Routes \cup SinkCalls),
   matched : Nat, open : SUBSET Nat, took : SUBSET Nat, errors : Nat,
   returned : BOOLEAN, accepted : Nat, rejected : Nat, called : Seq(Nat),
   owed : Seq(Nat)]

\* Only valid patterns are bound and only valid topics published: the type
\* invariant.
TypeOK ==
  /\ routes \in Seq(Routes) /\ bindings \in Nat
  /\ unmatchedTarget \in Targets \cup {NoTarget}
  /\ unmatchedTotal \in Nat /\ lastUnmatched \in Nat /\ sinkChanges \in Nat
  /\ pubs \in Seq(Publications)
  /\ \A n \in DOMAIN pubs : ValidTopic(pubs[n].topic)

\* Nothing occurs twice in s.
Once(s) == \A j, k \in DOMAIN s : s[j] = s[k] => j = k

\* Whom a publish has called and will call.
Seen(P) == P.called \o Keys(P.due)

\* The account of one publish: those it has called are each answered, awaited
\* or announced as an error.
Accounted(P) ==
  /\ P.matched = Len(P.owed) /\ Once(Seen(P))
  /\ IF P.owed # <<>> THEN Seen(P) = P.owed ELSE Seen(P) \in {<<>>, <<SinkKey>>}
  /\ IsFiniteSet(P.took) /\ IsFiniteSet(P.open)
  /\ P.took \cup P.open \subseteq Range(P.called) /\ P.took \cap P.open = {}
  /\ Len(P.called) = Cardinality(P.took) + Cardinality(P.open) + P.errors
  /\ P.returned => P.due = <<>>
  /\ P.returned /\ P.form = "async" =>
       P.open = {} /\ P.accepted = Cardinality(P.took) /\ P.rejected = P.errors

\* What the proofs carry from step to step, with TypeOK: bindings keep numbers
\* of their own, and every publish its account.
FanoutInvariant ==
  /\ Once(Keys(routes)) /\ \A r \in Range(routes) : r.key <= bindings
  /\ \A n \in DOMAIN pubs : Accounted(pubs[n])

\* A message goes once, in bind order, to each binding whose pattern covered
\* its topic when it was published, whatever is bound or unbound by listeners
\* that run meanwhile, and to the sink only when there was no such binding.
EachBindingOnce ==
  \A n \in DOMAIN pubs :
    LET seen == pubs[n].called \o Keys(pubs[n].due) IN
    IF pubs[n].owed # <<>> THEN seen = pubs[n].owed
    ELSE seen \in {<<>>, <<SinkKey>>}

\* What publishAsync reports is what became of the enqueues: every target has
\* answered, the accepted ones hold the message, and each of the others has
\* been announced by one router:error.
ReportIsFinal ==
  \A n \in DOMAIN pubs :
    pubs[n].returned /\ pubs[n].form = "async" =>
      /\ pubs[n].open = {}
      /\ pubs[n].accepted = Cardinality(pubs[n].took)
      /\ pubs[n].rejected = pubs[n].errors
      /\ pubs[n].matched = Len(pubs[n].owed)
=============================================================================
