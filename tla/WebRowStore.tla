----------------------------- MODULE WebRowStore -----------------------------
(***************************************************************************)
(* createWebRowStore of packages/queue/src/persist/stores/web-storage.ts:   *)
(* rows kept under one Web Storage key each, with a manifest key that names *)
(* the generation and the ids that count.                                  *)
(*                                                                         *)
(* A method reads what it needs, then makes a fixed series of storage       *)
(* calls.  The method is the action that works the series out (`script`);   *)
(* each call is an action of its own, because a setItem may throw (quota)   *)
(* and the tab may die between any two of them.                             *)
(***************************************************************************)
EXTENDS Naturals, Sequences, FiniteSets, Functions, Subsequence

CONSTANTS
  Ids,             \* row ids
  Values,          \* what a row may hold
  MaxBatch,        \* longest batch passed to a method
  BatchOverwrites, \* may putBatch be given a row that is already stored?
  MaxGeneration,   \* bound on manifest generations
  MaxRefusals,     \* bound on storage calls that throw
  MaxCrashes       \* bound on crashes

ASSUME StoreAssumption ==
  /\ Ids \subseteq Nat \ {0}
  /\ MaxBatch \in Nat /\ BatchOverwrites \in BOOLEAN
  /\ MaxGeneration \in Nat /\ MaxRefusals \in Nat /\ MaxCrashes \in Nat

VARIABLES
  manifest,    \* the manifest key: a generation and ids in order, or Absent
  order,       \* the key of the older layout: ids in order, <<>> when absent
  rows,        \* row keys: <<generation, id>> -> value; generation 0 is older
  enumerable,  \* does this storage implement length and key()?
  script,      \* storage calls the running method has yet to make
  call,        \* history: rows before and after the running method
  clean,       \* history: has a method swept and lost nothing since?
  refusals,    \* storage calls that have thrown
  crashes      \* crashes so far

storageVars == <<manifest, order, rows, enumerable>>
vars == <<storageVars, script, call, clean, refusals, crashes>>

Absent == [generation |-> 0, ids |-> <<>>]
Records == [id : Ids, val : Values]
Batches == UNION {[1..n -> Records] : n \in 0..MaxBatch}
Contents == UNION {[S -> Values] : S \in SUBSET Ids}
NoRows == [i \in {} |-> i]
NoCall == [from |-> NoRows, to |-> NoRows, on |-> FALSE]

-----------------------------------------------------------------------------
(* What a method reads before it writes.                                   *)

\* loadState(): the manifest, or the order key of the older layout.
LoadState ==
  IF manifest # Absent
  THEN [gen |-> manifest.generation, ids |-> manifest.ids]
  ELSE [gen |-> 0, ids |-> order]

\* loadAll(): the rows the state names, those without a key left out.
View ==
  LET st == LoadState
      found == {i \in Range(st.ids) : <<st.gen, i>> \in DOMAIN rows}
  IN [i \in found |-> rows[<<st.gen, i>>]]

\* The state ensureActiveState() leaves: the older layout becomes generation 1.
Active == [gen |-> IF LoadState.gen = 0 THEN 1 ELSE LoadState.gen,
           ids |-> LoadState.ids]
-----------------------------------------------------------------------------
(* The series of storage calls of each method.                             *)

Set(g, r)     == [do |-> "set", gen |-> g, id |-> r.id, val |-> r.val]
Publish(g, s) == [do |-> "publish", gen |-> g, ids |-> s]
Drop(g, i)    == [do |-> "drop", gen |-> g, id |-> i]
Sweep(g)      == [do |-> "sweep", gen |-> g]

SetAll(g, batch) == [k \in DOMAIN batch |-> Set(g, batch[k])]
DropAll(g, s)    == [k \in DOMAIN s |-> Drop(g, s[k])]

\* cleanupKeys(state)
Cleanup(st) ==
  DropAll(st.gen, st.ids) \o (IF st.gen = 0 THEN <<[do |-> "dropOrder"]>> ELSE <<>>)

\* ensureActiveState(): copy the older rows, publish them, remove the originals.
Migrate(st) ==
  IF st.gen # 0 THEN <<>>
  ELSE LET kept == Among(st.ids, {i \in Ids : <<0, i>> \in DOMAIN rows})
       IN [k \in DOMAIN kept |->
             Set(1, [id |-> kept[k], val |-> rows[<<0, kept[k]>>]])]
          \o <<Publish(1, st.ids)>> \o Cleanup(st)

\* The ids of a batch after those in s, each once, in order of appearance.
Extended(s, batch) ==
  LET f[k \in 0..Len(batch)] ==
        IF k = 0 THEN s
        ELSE IF batch[k].id \in Range(f[k - 1]) THEN f[k - 1]
             ELSE Append(f[k - 1], batch[k].id)
  IN f[Len(batch)]

PutScript(st, r) ==
  <<Set(st.gen, r)>>
  \o (IF r.id \in Range(st.ids) THEN <<>>
      ELSE <<Publish(st.gen, Append(st.ids, r.id))>>)
  \o <<Sweep(st.gen)>>

PutBatchScript(st, batch) ==
  LET ids == Extended(st.ids, batch) IN
  SetAll(st.gen, batch)
  \o (IF Len(ids) = Len(st.ids) THEN <<>> ELSE <<Publish(st.gen, ids)>>)
  \o <<Sweep(st.gen)>>

\* Mutation of RemoveScript: the row goes first, then the manifest entry.
RemoveScript_RowFirst(st, S) ==
  LET left == Among(st.ids, Ids \ S)
      gone == Among(st.ids, S)
  IN IF gone = <<>> THEN <<>>
     ELSE DropAll(st.gen, gone) \o <<Publish(st.gen, left), Sweep(st.gen)>>

\* remove and removeBatch: nothing more happens when no id is stored.
RemoveScript(st, S) ==
  LET left == Among(st.ids, Ids \ S)
      gone == Among(st.ids, S)
  IN IF gone = <<>> THEN <<>>
     ELSE <<Publish(st.gen, left)>> \o DropAll(st.gen, gone) \o <<Sweep(st.gen)>>

ClearScript(st) == <<Publish(st.gen, <<>>)>> \o Cleanup(st) \o <<Sweep(st.gen)>>

\* Mutation of ReplaceScript: the rows are written over the active generation.
ReplaceScript_SameGeneration(st, batch) ==
  LET gen == IF st.gen = 0 THEN 1 ELSE st.gen IN
  SetAll(gen, batch) \o <<Publish(gen, Extended(<<>>, batch))>>
  \o Cleanup(st) \o <<Sweep(gen)>>

\* replaceAll writes the next generation beside the active one.
ReplaceScript(st, batch) ==
  LET gen == st.gen + 1 IN
  SetAll(gen, batch) \o <<Publish(gen, Extended(<<>>, batch))>>
  \o Cleanup(st) \o <<Sweep(gen)>>
-----------------------------------------------------------------------------
(* The methods.                                                            *)

\* The rows after a batch has been written over those in f.
Over(f, batch) ==
  LET ids == {batch[k].id : k \in DOMAIN batch}
      last(i) == CHOOSE k \in DOMAIN batch :
                   /\ batch[k].id = i
                   /\ \A m \in DOMAIN batch : batch[m].id = i => m <= k
  IN [i \in DOMAIN f \cup ids |-> IF i \in ids THEN batch[last(i)].val ELSE f[i]]

Start(steps, to) ==
  /\ ~call.on
  /\ script' = steps
  /\ call' = [from |-> View, to |-> to, on |-> TRUE]
  /\ UNCHANGED <<storageVars, clean, refusals, crashes>>

LoadAll == Start(<<Sweep(LoadState.gen)>>, View)

Put(r) == Start(Migrate(LoadState) \o PutScript(Active, r), Over(View, <<r>>))

PutBatch(batch) ==
  /\ batch # <<>>
  /\ BatchOverwrites \/ \A k \in DOMAIN batch : batch[k].id \notin DOMAIN View
  /\ Start(Migrate(LoadState) \o PutBatchScript(Active, batch),
           Over(View, batch))

Remove(S) ==
  /\ S # {}
  /\ Start(Migrate(LoadState) \o RemoveScript(Active, S),
           Restrict(View, DOMAIN View \ S))

Clear == Start(Migrate(LoadState) \o ClearScript(Active), Restrict(View, {}))

ReplaceAll(batch) ==
  /\ LoadState.gen < MaxGeneration
  /\ Start(ReplaceScript(LoadState, batch), Over(Restrict(View, {}), batch))
-----------------------------------------------------------------------------
(* The storage calls.                                                      *)

Doing(what) == script # <<>> /\ Head(script).do = what

SetRow ==
  /\ Doing("set")
  /\ LET s == Head(script) IN
     rows' = [k \in DOMAIN rows \cup {<<s.gen, s.id>>} |->
                IF k = <<s.gen, s.id>> THEN s.val ELSE rows[k]]
  /\ script' = Tail(script)
  /\ UNCHANGED <<manifest, order, enumerable, call, clean, refusals, crashes>>

PublishManifest ==
  /\ Doing("publish")
  /\ manifest' = [generation |-> Head(script).gen, ids |-> Head(script).ids]
  /\ script' = Tail(script)
  /\ UNCHANGED <<order, rows, enumerable, call, clean, refusals, crashes>>

\* setItem throws: the method throws with it.
SetItemThrows ==
  /\ Doing("set") \/ Doing("publish")
  /\ refusals < MaxRefusals /\ refusals' = refusals + 1
  /\ script' = <<>> /\ call' = NoCall /\ clean' = FALSE
  /\ UNCHANGED <<storageVars, crashes>>

RemoveItem ==
  /\ Doing("drop") \/ Doing("dropOrder")
  /\ LET s == Head(script) IN
     IF s.do = "dropOrder" THEN order' = <<>> /\ UNCHANGED rows
     ELSE /\ rows' = Restrict(rows, DOMAIN rows \ {<<s.gen, s.id>>})
          /\ UNCHANGED order
  /\ script' = Tail(script)
  /\ UNCHANGED <<manifest, enumerable, call, clean, refusals, crashes>>

\* removeItem throws: the catch goes on to the next call.
RemoveItemThrows ==
  /\ Doing("drop") \/ Doing("dropOrder")
  /\ refusals < MaxRefusals /\ refusals' = refusals + 1
  /\ script' = Tail(script) /\ clean' = FALSE
  /\ UNCHANGED <<storageVars, call, crashes>>

\* Mutation of Unreachable: a later generation is taken to be the next one.
Unreachable_OldOnly(g) == {k \in DOMAIN rows : k[1] # 0 /\ k[1] < g}

\* The row keys cleanupOrphanGenerations(g) finds.
Unreachable(g) == {k \in DOMAIN rows : k[1] # 0 /\ k[1] # g}

\* cleanupOrphanGenerations(): the keys are listed, then removed one by one.
\* Nothing comes after it, so a sweep that finds no refusal leaves a clean store.
SweepOrphans ==
  /\ Doing("sweep")
  /\ LET found == Unreachable(Head(script).gen) IN
     \E keys \in Bijection(1..Cardinality(found), found) :
       script' = IF enumerable
                 THEN [k \in DOMAIN keys |-> Drop(keys[k][1], keys[k][2])]
                 ELSE <<>>
  /\ clean' = enumerable
  /\ UNCHANGED <<storageVars, call, refusals, crashes>>

\* The method returns.
Return ==
  /\ call.on /\ script = <<>>
  /\ call' = NoCall
  /\ UNCHANGED <<storageVars, script, clean, refusals, crashes>>

\* The tab dies between two storage calls.  Storage survives.
Crash ==
  /\ call.on /\ crashes < MaxCrashes
  /\ crashes' = crashes + 1
  /\ script' = <<>> /\ call' = NoCall /\ clean' = FALSE
  /\ UNCHANGED <<storageVars, refusals>>
-----------------------------------------------------------------------------
\* An empty storage, or one an older version of the library has left.
Init ==
  /\ manifest = Absent
  /\ \E f \in Contents :
       /\ IsFiniteSet(DOMAIN f)
       /\ order \in Bijection(1..Cardinality(DOMAIN f), DOMAIN f)
       /\ rows = [k \in {0} \X DOMAIN f |-> f[k[2]]]
  /\ enumerable \in BOOLEAN
  /\ script = <<>> /\ call = NoCall /\ clean = TRUE
  /\ refusals = 0 /\ crashes = 0

Method ==
  \/ LoadAll \/ Clear
  \/ \E r \in Records : Put(r)
  \/ \E batch \in Batches : PutBatch(batch) \/ ReplaceAll(batch)
  \/ \E S \in SUBSET Ids : Remove(S)

StorageCall ==
  SetRow \/ PublishManifest \/ SetItemThrows \/ RemoveItem \/ RemoveItemThrows
    \/ SweepOrphans

Next == Method \/ StorageCall \/ Return \/ Crash

Spec == Init /\ [][Next]_vars
-----------------------------------------------------------------------------
SetItem     == [do : {"set"}, gen : Nat, id : Ids, val : Values]
PublishItem == [do : {"publish"}, gen : Nat \ {0}, ids : Seq(Ids)]
DropItem    == [do : {"drop"}, gen : Nat, id : Ids]
SweepItems  == [do : {"sweep"}, gen : Nat]
DropOrder   == [do : {"dropOrder"}]

\* Every variable holds a value of the code's type: the type invariant.
TypeOK ==
  /\ manifest = Absent \/ manifest \in [generation : Nat \ {0}, ids : Seq(Ids)]
  /\ order \in Seq(Ids)
  /\ DOMAIN rows \subseteq Nat \X Ids /\ IsFiniteSet(DOMAIN rows)
  /\ \A k \in DOMAIN rows : rows[k] \in Values
  /\ enumerable \in BOOLEAN /\ clean \in BOOLEAN
  /\ script \in Seq(SetItem \cup PublishItem \cup DropItem \cup SweepItems \cup DropOrder)
  /\ call.from \in Contents /\ call.to \in Contents /\ call.on \in BOOLEAN
  /\ ~call.on => call = NoCall /\ script = <<>>

\* A manifest never names a row that has no key, however a method ends.
ManifestBacked ==
  manifest # Absent =>
    \A i \in Range(manifest.ids) : <<manifest.generation, i>> \in DOMAIN rows

\* Rows of a generation that neither is the active one nor 0 do not outlive a
\* method that has gone through its sweep: what interrupted calls leave in other
\* generations is collected. The sweep spares rows of the active generation that
\* the manifest does not name, and rows of generation 0, whose keys have no
\* generation in them.
OldGenerationsSwept ==
  ~call.on /\ clean /\ enumerable =>
    \A k \in DOMAIN rows : k[1] \in {0, LoadState.gen}

\* The store is a RowMap: methods take effect at one storage call, throw only
\* without effect, and return only with it, through refusals and crashes.
RM == INSTANCE RowMap WITH contents <- View
KeepsRowMap == RM!Spec
=============================================================================
