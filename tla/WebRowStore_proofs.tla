-------------------------- MODULE WebRowStore_proofs --------------------------
(* Web Storage is a row map: proofs of ManifestBacked, OldGenerationsSwept  *)
(* and KeepsRowMap, for every set of ids and values.                        *)
EXTENDS WebRowStore, SharedLemmas, SequenceTheorems, TLAPS
-----------------------------------------------------------------------------
(* The sequences of ids the scripts are made of.                           *)

\* Extended(s, batch) is s with the batch's ids, s itself if they are there.
LEMMA ExtendedFacts ==
  ASSUME NEW s \in Seq(Ids), NEW batch \in Seq(Records)
  PROVE  /\ Extended(s, batch) \in Seq(Ids)
         /\ Range(Extended(s, batch)) = Range(s) \cup {batch[k].id : k \in DOMAIN batch}
         /\ Len(Extended(s, batch)) = Len(s) => Range(Extended(s, batch)) = Range(s)
<1> DEFINE F(f) == [k \in 0..Len(batch) |->
                     IF k = 0 THEN s
                     ELSE IF batch[k].id \in Range(f[k - 1]) THEN f[k - 1]
                          ELSE Append(f[k - 1], batch[k].id)]
           g == CHOOSE f : f = F(f)
           Done(k) == /\ g[k] \in Seq(Ids)
                      /\ Range(g[k]) = Range(s) \cup {batch[m].id : m \in 1..k}
                      /\ Len(g[k]) >= Len(s)
                      /\ Len(g[k]) = Len(s) => Range(g[k]) = Range(s)
<1>1. Len(batch) \in Nat /\ \A k \in 1..Len(batch) : batch[k].id \in Ids
  <2>1. Len(batch) \in Nat /\ \A k \in 1..Len(batch) : batch[k] \in Records
    OBVIOUS
  <2> QED
    BY <2>1 DEF Records
<1>2. \E f : f = F(f)
  <2>1. PICK G : G = [p \in Seq(Ids) \X (1..Len(batch)) |->
                        IF batch[p[2]].id \in Range(p[1]) THEN p[1]
                        ELSE Append(p[1], batch[p[2]].id)]
    OBVIOUS
  <2>2. G \in [Seq(Ids) \X (1..Len(batch)) -> Seq(Ids)]
    BY <1>1, <2>1
  <2>3. PICK f \in [0..Len(batch) -> Seq(Ids)] :
          Recursion(f, s, Len(batch), G)
    <3>1. Len(batch) \in Nat
      BY <1>1
    <3> QED
      BY <2>2, <3>1, FoldExists, Zenon
  <2>4. ASSUME NEW k \in 0..Len(batch), k # 0
        PROVE  f[k] = IF batch[k].id \in Range(f[k - 1]) THEN f[k - 1]
                      ELSE Append(f[k - 1], batch[k].id)
    <3>1. k - 1 \in 0..Len(batch) /\ k \in 1..Len(batch)
      BY <1>1, <2>4
    <3>0. f[k - 1] \in Seq(Ids)
      BY <3>1
    <3>2. G[<<f[k - 1], k>>] = IF batch[k].id \in Range(f[k - 1]) THEN f[k - 1]
                               ELSE Append(f[k - 1], batch[k].id)
      BY <2>1, <3>1, <3>0
    <3> QED
      BY <2>3, <2>4, <3>2 DEF Recursion
  <2>5. f = F(f)
    BY <2>3, <2>4 DEF Recursion
  <2> QED
    BY <2>5
<1>3. g = F(g)
  BY <1>2
<1>4. Extended(s, batch) = g[Len(batch)]
  BY Zenon DEF Extended
<1> HIDE DEF g
<1>5. Done(0)
  <2>1. g[0] = s /\ Len(s) \in Nat /\ 1..0 = {}
    BY <1>1, <1>3
  <2> QED
    BY <2>1
<1>6. ASSUME NEW k \in 0..Len(batch), k < Len(batch), Done(k) PROVE Done(k + 1)
  <2>1. k + 1 \in 1..Len(batch) /\ k + 1 \in 0..Len(batch) /\ k + 1 # 0 /\ (k + 1) - 1 = k
    BY <1>1, <1>6
  <2>2. g[k + 1] = IF batch[k + 1].id \in Range(g[k]) THEN g[k]
                   ELSE Append(g[k], batch[k + 1].id)
    BY <1>3, <2>1
  <2>3. {batch[m].id : m \in 1..(k + 1)} = {batch[m].id : m \in 1..k} \cup {batch[k + 1].id}
    BY <2>1
  <2>4. CASE batch[k + 1].id \in Range(g[k])
    BY <1>6, <2>2, <2>3, <2>4
  <2>5. CASE batch[k + 1].id \notin Range(g[k])
    <3>1. batch[k + 1].id \in Ids /\ Len(s) \in Nat /\ Len(g[k]) \in Nat
      BY <1>1, <1>6, <2>1
    <3>2. /\ g[k + 1] \in Seq(Ids) /\ Len(g[k + 1]) = Len(g[k]) + 1
          /\ Range(g[k + 1]) = Range(g[k]) \cup {batch[k + 1].id}
      BY <1>6, <2>2, <2>5, <3>1, AppendFacts
    <3>3. Range(g[k + 1]) = Range(s) \cup {batch[m].id : m \in 1..(k + 1)}
      BY <1>6, <2>3, <3>2
    <3> QED
      BY <1>6, <3>1, <3>2, <3>3
  <2> QED
    BY <2>4, <2>5
<1>7. 0..Len(batch) \subseteq {k \in 0..Len(batch) : Done(k)}
  <2> DEFINE A == {k \in 0..Len(batch) : Done(k)}
  <2>1. 0 \in A
    <3> HIDE DEF Done
    <3> QED
      BY <1>1, <1>5
  <2>2. \A k \in 0..Len(batch) : k < Len(batch) /\ k \in A => k + 1 \in A
    <3> HIDE DEF Done
    <3> QED
      BY <1>1, <1>6
  <2> HIDE DEF A
  <2>3. 0..Len(batch) \subseteq A
    BY <1>1, <2>1, <2>2, UpTo
  <2> QED
    BY <2>3 DEF A
<1>8. Done(Len(batch))
  <2> HIDE DEF Done
  <2> QED
    BY <1>1, <1>7
<1>9. DOMAIN batch = 1..Len(batch)
  OBVIOUS
<1> QED
  BY <1>4, <1>8, <1>9
-----------------------------------------------------------------------------
(* Types.                                                                  *)

Items == SetItem \cup PublishItem \cup DropItem \cup SweepItems \cup DropOrder

\* What a method reads is well typed.
LEMMA ReadTypes ==
  ASSUME TypeOK
  PROVE  /\ LoadState.gen \in Nat /\ LoadState.ids \in Seq(Ids)
         /\ LoadState = [gen |-> LoadState.gen, ids |-> LoadState.ids]
         /\ Active.gen \in Nat \ {0} /\ Active.ids = LoadState.ids
         /\ View \in Contents
<1>1. /\ LoadState.gen \in Nat /\ LoadState.ids \in Seq(Ids)
      /\ LoadState = [gen |-> LoadState.gen, ids |-> LoadState.ids]
  BY DEF TypeOK, LoadState
<1>2. Active.gen \in Nat \ {0} /\ Active.ids = LoadState.ids
  BY <1>1 DEF Active
<1>3. View \in Contents
  <2> DEFINE found == {i \in Range(LoadState.ids) : <<LoadState.gen, i>> \in DOMAIN rows}
  <2>1. found \in SUBSET Ids
    BY <1>1 DEF Range
  <2>2. View = [i \in found |-> rows[<<LoadState.gen, i>>]]
    BY DEF View
  <2>3. \A i \in found : rows[<<LoadState.gen, i>>] \in Values
    BY DEF TypeOK
  <2>4. View \in [found -> Values]
    BY <2>2, <2>3
  <2> QED
    BY <2>1, <2>4 DEF Contents
<1> QED
  BY <1>1, <1>2, <1>3

\* The series of set and of remove calls are made of such calls.
LEMMA SeriesTypes ==
  ASSUME NEW g \in Nat
  PROVE  /\ \A batch \in Seq(Records) : SetAll(g, batch) \in Seq(SetItem)
         /\ \A s \in Seq(Ids) : DropAll(g, s) \in Seq(DropItem)
<1>1. ASSUME NEW batch \in Seq(Records) PROVE SetAll(g, batch) \in Seq(SetItem)
  <2>1. /\ DOMAIN batch = 1..Len(batch) /\ Len(batch) \in Nat
        /\ \A k \in 1..Len(batch) : batch[k] \in Records
    OBVIOUS
  <2>2. \A k \in 1..Len(batch) : Set(g, batch[k]) \in SetItem
    BY <2>1 DEF Records, Set, SetItem
  <2> QED
    BY <2>1, <2>2 DEF SetAll
<1>2. ASSUME NEW s \in Seq(Ids) PROVE DropAll(g, s) \in Seq(DropItem)
  <2>1. DOMAIN s = 1..Len(s) /\ Len(s) \in Nat /\ \A k \in 1..Len(s) : s[k] \in Ids
    OBVIOUS
  <2>2. \A k \in 1..Len(s) : Drop(g, s[k]) \in DropItem
    BY <2>1 DEF Drop, DropItem
  <2> QED
    BY <2>1, <2>2 DEF DropAll
<1> QED
  BY <1>1, <1>2

\* Calls of one kind are calls.
LEMMA ItemTypes ==
  /\ \A q \in Seq(SetItem) : q \in Seq(Items)
  /\ \A q \in Seq(DropItem) : q \in Seq(Items)
  /\ \A g \in Nat \ {0}, s \in Seq(Ids) : <<Publish(g, s)>> \in Seq(Items)
  /\ \A g \in Nat : <<Sweep(g)>> \in Seq(Items)
  /\ \A g \in Nat, r \in Records : <<Set(g, r)>> \in Seq(Items)
  /\ <<[do |-> "dropOrder"]>> \in Seq(Items)
  /\ <<>> \in Seq(Items)
<1>1. SetItem \subseteq Items /\ DropItem \subseteq Items
  BY DEF Items
<1>2. \A g \in Nat \ {0}, s \in Seq(Ids) : Publish(g, s) \in Items
  BY DEF Publish, PublishItem, Items
<1>3. \A g \in Nat : Sweep(g) \in Items
  BY DEF Sweep, SweepItems, Items
<1>4. \A g \in Nat, r \in Records : Set(g, r) \in Items
  BY DEF Set, SetItem, Records, Items
<1>5. [do |-> "dropOrder"] \in Items
  BY DEF DropOrder, Items
<1> HIDE DEF Items
<1> QED
  BY <1>1, <1>2, <1>3, <1>4, <1>5

\* Two series, one after the other.
LEMMA JoinType ==
  ASSUME NEW x \in Seq(Items), NEW y \in Seq(Items)
  PROVE  x \o y \in Seq(Items)
OBVIOUS

\* cleanupKeys makes remove calls.
LEMMA CleanupType ==
  ASSUME NEW st, st.gen \in Nat, st.ids \in Seq(Ids)
  PROVE  Cleanup(st) \in Seq(Items)
<1>1. DropAll(st.gen, st.ids) \in Seq(Items)
  BY SeriesTypes, ItemTypes
<1> QED
  BY <1>1, ItemTypes, JoinType DEF Cleanup

\* The older rows that ensureActiveState copies, as a batch.
Copied ==
  LET kept == Among(LoadState.ids, {i \in Ids : <<0, i>> \in DOMAIN rows})
  IN [k \in DOMAIN kept |-> [id |-> kept[k], val |-> rows[<<0, kept[k]>>]]]

LEMMA CopiedType ==
  ASSUME TypeOK
  PROVE  /\ Copied \in Seq(Records)
         /\ \A k \in DOMAIN Copied : /\ <<0, Copied[k].id>> \in DOMAIN rows
                                     /\ Copied[k].val = rows[<<0, Copied[k].id>>]
         /\ {Copied[k].id : k \in DOMAIN Copied}
              = {i \in Range(LoadState.ids) : <<0, i>> \in DOMAIN rows}
<1> DEFINE S == {i \in Ids : <<0, i>> \in DOMAIN rows}
<1>1. PICK kept \in Seq(Ids) : /\ kept = Among(LoadState.ids, S)
                               /\ Range(kept) = Range(LoadState.ids) \cap S
  BY ReadTypes, AmongFacts
<1>2. Copied = [k \in DOMAIN kept |-> [id |-> kept[k], val |-> rows[<<0, kept[k]>>]]]
  BY <1>1 DEF Copied
<1>3. /\ DOMAIN kept = 1..Len(kept) /\ Len(kept) \in Nat
      /\ \A k \in 1..Len(kept) : kept[k] \in Ids /\ <<0, kept[k]>> \in DOMAIN rows
  <2>1. DOMAIN kept = 1..Len(kept) /\ Len(kept) \in Nat
    OBVIOUS
  <2>2. \A k \in 1..Len(kept) : kept[k] \in S
    BY <1>1, <2>1 DEF Range
  <2> QED
    BY <2>1, <2>2
<1>4. \A k \in 1..Len(kept) : rows[<<0, kept[k]>>] \in Values
  BY <1>3 DEF TypeOK
<1>5. Copied \in Seq(Records)
  <2>1. \A k \in 1..Len(kept) : Copied[k] \in Records
    BY <1>2, <1>3, <1>4 DEF Records
  <2> QED
    BY <1>2, <1>3, <2>1
<1>6. Range(LoadState.ids) \subseteq Ids
  BY ReadTypes DEF Range
<1>7. {Copied[k].id : k \in DOMAIN Copied} = Range(kept)
  BY <1>2 DEF Range
<1>8. Range(LoadState.ids) \cap S = {i \in Range(LoadState.ids) : <<0, i>> \in DOMAIN rows}
  BY <1>6
<1> QED
  BY <1>1, <1>2, <1>3, <1>5, <1>7, <1>8

\* The series of ensureActiveState.
LEMMA MigrateIs ==
  ASSUME TypeOK
  PROVE  /\ Migrate(LoadState)
              = IF LoadState.gen # 0 THEN <<>>
                ELSE SetAll(1, Copied) \o <<Publish(1, LoadState.ids)>> \o Cleanup(LoadState)
         /\ Migrate(LoadState) \in Seq(Items)
<1>1. SetAll(1, Copied) = [k \in DOMAIN Copied |-> Set(1, Copied[k])]
  BY DEF SetAll
<1>2. ASSUME LoadState.gen = 0
      PROVE  Migrate(LoadState)
               = SetAll(1, Copied) \o <<Publish(1, LoadState.ids)>> \o Cleanup(LoadState)
  BY <1>1, <1>2 DEF Migrate, Copied
<1>3. SetAll(1, Copied) \in Seq(Items)
  BY CopiedType, SeriesTypes, ItemTypes
<1>4. <<Publish(1, LoadState.ids)>> \in Seq(Items)
  <2>1. 1 \in Nat \ {0} /\ LoadState.ids \in Seq(Ids)
    BY ReadTypes
  <2> QED
    BY <2>1, ItemTypes
<1>5. Cleanup(LoadState) \in Seq(Items)
  BY ReadTypes, CleanupType
<1>6. SetAll(1, Copied) \o <<Publish(1, LoadState.ids)>> \o Cleanup(LoadState) \in Seq(Items)
  BY <1>3, <1>4, <1>5, JoinType
<1> QED
  BY <1>2, <1>6, ItemTypes DEF Migrate

\* The series of the methods.
LEMMA ScriptTypes ==
  ASSUME NEW st, st.gen \in Nat \ {0}, st.ids \in Seq(Ids)
  PROVE  /\ \A r \in Records : PutScript(st, r) \in Seq(Items)
         /\ \A b \in Seq(Records) : PutBatchScript(st, b) \in Seq(Items)
         /\ \A S : RemoveScript(st, S) \in Seq(Items)
         /\ ClearScript(st) \in Seq(Items)
<1>1. <<Sweep(st.gen)>> \in Seq(Items) /\ <<>> \in Seq(Items)
  BY ItemTypes
<1>2. ASSUME NEW r \in Records PROVE PutScript(st, r) \in Seq(Items)
  <2>1. <<Set(st.gen, r)>> \in Seq(Items)
    BY ItemTypes
  <2>2. r.id \in Ids
    BY DEF Records
  <2>3. <<Publish(st.gen, Append(st.ids, r.id))>> \in Seq(Items)
    BY <2>2, AppendFacts, ItemTypes
  <2> QED
    BY <1>1, <2>1, <2>3, JoinType DEF PutScript
<1>3. ASSUME NEW b \in Seq(Records) PROVE PutBatchScript(st, b) \in Seq(Items)
  <2>1. SetAll(st.gen, b) \in Seq(Items)
    BY SeriesTypes, ItemTypes
  <2>2. <<Publish(st.gen, Extended(st.ids, b))>> \in Seq(Items)
    BY ExtendedFacts, ItemTypes
  <2> QED
    BY <1>1, <2>1, <2>2, JoinType DEF PutBatchScript
<1>4. ASSUME NEW S PROVE RemoveScript(st, S) \in Seq(Items)
  <2>1. Among(st.ids, S) \in Seq(Ids) /\ Among(st.ids, Ids \ S) \in Seq(Ids)
    BY AmongFacts
  <2>2. DropAll(st.gen, Among(st.ids, S)) \in Seq(Items)
    BY <2>1, SeriesTypes, ItemTypes
  <2>3. <<Publish(st.gen, Among(st.ids, Ids \ S))>> \in Seq(Items)
    BY <2>1, ItemTypes
  <2> QED
    BY <1>1, <2>2, <2>3, JoinType DEF RemoveScript
<1>5. ClearScript(st) \in Seq(Items)
  <2>1. <<Publish(st.gen, <<>>)>> \in Seq(Items)
    <3>1. <<>> \in Seq(Ids)
      OBVIOUS
    <3> QED
      BY <3>1, ItemTypes
  <2>2. Cleanup(st) \in Seq(Items)
    BY CleanupType
  <2> QED
    BY <1>1, <2>1, <2>2, JoinType DEF ClearScript
<1> QED
  BY <1>2, <1>3, <1>4, <1>5

\* The series of replaceAll.
LEMMA ReplaceType ==
  ASSUME NEW st, st.gen \in Nat, st.ids \in Seq(Ids), NEW b \in Seq(Records)
  PROVE  ReplaceScript(st, b) \in Seq(Items)
<1>1. st.gen + 1 \in Nat \ {0}
  OBVIOUS
<1>2. SetAll(st.gen + 1, b) \in Seq(Items) /\ Cleanup(st) \in Seq(Items)
  BY <1>1, SeriesTypes, ItemTypes, CleanupType
<1>3. Extended(<<>>, b) \in Seq(Ids)
  <2>1. <<>> \in Seq(Ids)
    OBVIOUS
  <2> QED
    BY <2>1, ExtendedFacts
<1>4. /\ <<Publish(st.gen + 1, Extended(<<>>, b))>> \in Seq(Items)
      /\ <<Sweep(st.gen + 1)>> \in Seq(Items)
  BY <1>1, <1>3, ItemTypes
<1> QED
  BY <1>2, <1>4, JoinType DEF ReplaceScript

\* A batch is a sequence of records.
LEMMA BatchType ==
  ASSUME NEW batch \in Batches
  PROVE  batch \in Seq(Records)
<1>1. PICK n \in 0..MaxBatch : batch \in [1..n -> Records]
  BY DEF Batches
<1>2. n \in Nat
  BY <1>1, StoreAssumption
<1> QED
  BY <1>1, <1>2

LEMMA RecordFacts ==
  ASSUME NEW batch \in Seq(Records)
  PROVE  /\ DOMAIN batch = 1..Len(batch) /\ Len(batch) \in Nat
         /\ \A k \in DOMAIN batch : batch[k].id \in Ids /\ batch[k].val \in Values
         /\ {batch[k].id : k \in DOMAIN batch} \subseteq Ids
<1>1. /\ DOMAIN batch = 1..Len(batch) /\ Len(batch) \in Nat
      /\ \A k \in 1..Len(batch) : batch[k] \in Records
  OBVIOUS
<1>2. \A k \in DOMAIN batch : batch[k].id \in Ids /\ batch[k].val \in Values
  BY <1>1 DEF Records
<1> QED
  BY <1>1, <1>2

\* The last of the first n records of a batch that is for an id.
LastIn(batch, n, i) ==
  CHOOSE k \in 1..n : /\ batch[k].id = i
                      /\ \A m \in 1..n : batch[m].id = i => m <= k

\* It is there when one of these records is for the id, and is the only such one.
LEMMA LastFacts ==
  ASSUME NEW batch, NEW n \in Nat, NEW p \in 1..n
  PROVE  /\ LastIn(batch, n, batch[p].id) \in 1..n
         /\ batch[LastIn(batch, n, batch[p].id)].id = batch[p].id
         /\ \A m \in 1..n :
              batch[m].id = batch[p].id => m <= LastIn(batch, n, batch[p].id)
<1> DEFINE S == {k \in 1..n : batch[k].id = batch[p].id}
<1>1. S \subseteq 0..n /\ S # {}
  OBVIOUS
<1>2. \E k \in S : \A m \in S : m <= k
  <2> HIDE DEF S
  <2> QED
    BY <1>1, Greatest
<1>3. \E k \in 1..n : /\ batch[k].id = batch[p].id
                      /\ \A m \in 1..n : batch[m].id = batch[p].id => m <= k
  BY <1>2
<1> QED
  BY <1>3 DEF LastIn

LEMMA LastIs ==
  ASSUME NEW batch, NEW n \in Nat, NEW k \in 1..n,
         \A m \in 1..n : batch[m].id = batch[k].id => m <= k
  PROVE  LastIn(batch, n, batch[k].id) = k
<1>1. PICK j : j = LastIn(batch, n, batch[k].id)
  OBVIOUS
<1>2. /\ j \in 1..n /\ batch[j].id = batch[k].id
      /\ \A m \in 1..n : batch[m].id = batch[k].id => m <= j
  BY <1>1, LastFacts, Zenon
<1>3. j <= k /\ k <= j
  BY <1>2
<1> QED
  BY <1>1, <1>2, <1>3

\* One record more.
LEMMA LastStep ==
  ASSUME NEW batch, NEW n \in Nat \ {0}
  PROVE  /\ LastIn(batch, n, batch[n].id) = n
         /\ \A m \in 1..(n - 1) :
              batch[m].id # batch[n].id
                => LastIn(batch, n, batch[m].id) = LastIn(batch, n - 1, batch[m].id)
<1>1. LastIn(batch, n, batch[n].id) = n
  BY LastIs
<1>2. ASSUME NEW m \in 1..(n - 1), batch[m].id # batch[n].id
      PROVE  LastIn(batch, n, batch[m].id) = LastIn(batch, n - 1, batch[m].id)
  <2>0. n - 1 \in Nat
    OBVIOUS
  <2>1. PICK k : k = LastIn(batch, n - 1, batch[m].id)
    OBVIOUS
  <2>2. /\ k \in 1..(n - 1) /\ batch[k].id = batch[m].id
        /\ \A j \in 1..(n - 1) : batch[j].id = batch[m].id => j <= k
    BY <2>0, <2>1, LastFacts, Zenon
  <2>3. k \in 1..n /\ \A j \in 1..n : batch[j].id = batch[k].id => j <= k
    BY <1>2, <2>2
  <2> QED
    BY <2>1, <2>2, <2>3, LastIs
<1> QED
  BY <1>1, <1>2

\* The rows a method leaves, by the last record for each id.
LEMMA OverIs ==
  ASSUME NEW f, NEW batch \in Seq(Records)
  PROVE  Over(f, batch)
           = [i \in DOMAIN f \cup {batch[k].id : k \in DOMAIN batch} |->
                IF i \in {batch[k].id : k \in DOMAIN batch}
                THEN batch[LastIn(batch, Len(batch), i)].val ELSE f[i]]
<1> DEFINE ids == {batch[k].id : k \in DOMAIN batch}
           Last(i) == CHOOSE k \in DOMAIN batch :
                        /\ batch[k].id = i
                        /\ \A m \in DOMAIN batch : batch[m].id = i => m <= k
<1>1. DOMAIN batch = 1..Len(batch) /\ Len(batch) \in Nat
  BY RecordFacts
<1>2. ASSUME NEW i \in ids PROVE Last(i) = LastIn(batch, Len(batch), i)
  <2>1. PICK p \in 1..Len(batch) : batch[p].id = i
    BY <1>1, <1>2
  <2>2. PICK k \in 1..Len(batch) : k = LastIn(batch, Len(batch), i)
    BY <1>1, <2>1, LastFacts
  <2>3. /\ k \in DOMAIN batch /\ batch[k].id = i
        /\ \A m \in DOMAIN batch : batch[m].id = i => m <= k
    BY <1>1, <2>1, <2>2, LastFacts
  <2>4. /\ Last(i) \in DOMAIN batch /\ batch[Last(i)].id = i
        /\ \A m \in DOMAIN batch : batch[m].id = i => m <= Last(i)
    BY <2>3
  <2>5. Last(i) \in 1..Len(batch) /\ Last(i) <= k /\ k <= Last(i)
    BY <1>1, <2>3, <2>4
  <2> HIDE DEF Last
  <2> QED
    BY <1>1, <2>2, <2>5
<1>3. Over(f, batch) = [i \in DOMAIN f \cup ids |->
                          IF i \in ids THEN batch[Last(i)].val ELSE f[i]]
  BY Zenon DEF Over
<1> HIDE DEF Last
<1> QED
  BY <1>2, <1>3

LEMMA OverType ==
  ASSUME NEW f \in Contents, NEW batch \in Seq(Records)
  PROVE  Over(f, batch) \in Contents
<1> DEFINE ids == {batch[k].id : k \in DOMAIN batch}
<1>1. PICK S \in SUBSET Ids : f \in [S -> Values]
  BY DEF Contents
<1>2. ids \subseteq Ids /\ \A k \in DOMAIN batch : batch[k].val \in Values
  BY RecordFacts
<1>3. \A i \in ids : batch[LastIn(batch, Len(batch), i)].val \in Values
  <2>1. DOMAIN batch = 1..Len(batch) /\ Len(batch) \in Nat
    BY RecordFacts
  <2>2. \A k \in 1..Len(batch) : LastIn(batch, Len(batch), batch[k].id) \in 1..Len(batch)
    BY <2>1, LastFacts
  <2> QED
    BY <1>2, <2>1, <2>2
<1>4. Over(f, batch) = [i \in S \cup ids |->
                          IF i \in ids THEN batch[LastIn(batch, Len(batch), i)].val ELSE f[i]]
  <2>1. DOMAIN f = S
    BY <1>1
  <2>2. Over(f, batch) = [i \in DOMAIN f \cup ids |->
                            IF i \in ids THEN batch[LastIn(batch, Len(batch), i)].val ELSE f[i]]
    BY OverIs, Zenon
  <2> QED
    BY <2>1, <2>2
<1>5. Over(f, batch) \in [S \cup ids -> Values] /\ S \cup ids \in SUBSET Ids
  <2> HIDE DEF ids
  <2> QED
    BY <1>1, <1>2, <1>3, <1>4
<1> QED
  BY <1>5 DEF Contents

LEMMA RestrictType ==
  ASSUME NEW f \in Contents, NEW S, S \subseteq DOMAIN f
  PROVE  Restrict(f, S) \in Contents
BY DEF Contents, Restrict

\* A method that starts.
LEMMA StartType ==
  ASSUME TypeOK, NEW steps \in Seq(Items), NEW to \in Contents, Start(steps, to)
  PROVE  TypeOK'
<1>1. steps \in Seq(SetItem \cup PublishItem \cup DropItem \cup SweepItems \cup DropOrder)
  BY DEF Items
<1>2. call'.from \in Contents /\ call'.to \in Contents /\ call'.on = TRUE
  BY ReadTypes DEF Start
<1> QED
  BY <1>1, <1>2 DEF TypeOK, Start, storageVars

LEMMA MethodType ==
  ASSUME TypeOK, Method
  PROVE  TypeOK'
<1>1. /\ View \in Contents /\ Migrate(LoadState) \in Seq(Items)
      /\ Active.gen \in Nat \ {0} /\ Active.ids \in Seq(Ids)
      /\ LoadState.gen \in Nat /\ LoadState.ids \in Seq(Ids)
  BY ReadTypes, MigrateIs
<1>2. CASE LoadAll
  <2>1. <<Sweep(LoadState.gen)>> \in Seq(Items)
    BY <1>1, ItemTypes
  <2> QED
    BY <1>1, <1>2, <2>1, StartType DEF LoadAll
<1>3. CASE Clear
  <2>1. Migrate(LoadState) \o ClearScript(Active) \in Seq(Items)
    BY <1>1, ScriptTypes, JoinType
  <2>2. Restrict(View, {}) \in Contents
    BY <1>1, RestrictType
  <2> QED
    BY <1>3, <2>1, <2>2, StartType DEF Clear
<1>4. ASSUME NEW r \in Records, Put(r) PROVE TypeOK'
  <2>1. Migrate(LoadState) \o PutScript(Active, r) \in Seq(Items)
    BY <1>1, ScriptTypes, JoinType
  <2>2. Over(View, <<r>>) \in Contents
    <3>1. <<r>> \in Seq(Records)
      OBVIOUS
    <3> QED
      BY <1>1, <3>1, OverType
  <2> QED
    BY <1>4, <2>1, <2>2, StartType DEF Put
<1>5. ASSUME NEW batch \in Batches, PutBatch(batch) PROVE TypeOK'
  <2>1. Migrate(LoadState) \o PutBatchScript(Active, batch) \in Seq(Items)
    BY <1>1, BatchType, ScriptTypes, JoinType
  <2>2. Over(View, batch) \in Contents
    BY <1>1, BatchType, OverType
  <2> QED
    BY <1>5, <2>1, <2>2, StartType DEF PutBatch
<1>6. ASSUME NEW batch \in Batches, ReplaceAll(batch) PROVE TypeOK'
  <2>1. ReplaceScript(LoadState, batch) \in Seq(Items)
    BY <1>1, BatchType, ReplaceType
  <2>2. Over(Restrict(View, {}), batch) \in Contents
    BY <1>1, BatchType, RestrictType, OverType
  <2> QED
    BY <1>6, <2>1, <2>2, StartType DEF ReplaceAll
<1>7. ASSUME NEW S \in SUBSET Ids, Remove(S) PROVE TypeOK'
  <2>1. Migrate(LoadState) \o RemoveScript(Active, S) \in Seq(Items)
    BY <1>1, ScriptTypes, JoinType
  <2>2. Restrict(View, DOMAIN View \ S) \in Contents
    BY <1>1, RestrictType
  <2> QED
    BY <1>7, <2>1, <2>2, StartType DEF Remove
<1> QED
  BY <1>2, <1>3, <1>4, <1>5, <1>6, <1>7 DEF Method

\* The first call of a script, by its kind, and the calls after it.
LEMMA HeadTypes ==
  ASSUME TypeOK, script # <<>>
  PROVE  /\ Tail(script) \in Seq(Items) /\ Head(script) = script[1] /\ call.on
         /\ Len(script) \in Nat \ {0} /\ Len(Tail(script)) = Len(script) - 1
         /\ \A k \in 1..Len(script) - 1 : Tail(script)[k] = script[k + 1]
         /\ Doing("set") => Head(script) \in SetItem
         /\ Doing("publish") => Head(script) \in PublishItem
         /\ Doing("drop") => Head(script) \in DropItem
         /\ Doing("sweep") => Head(script) \in SweepItems
<1>1. script \in Seq(Items)
  BY DEF TypeOK, Items
<1>2. /\ Tail(script) \in Seq(Items) /\ Head(script) = script[1] /\ Head(script) \in Items
      /\ Len(script) \in Nat \ {0} /\ Len(Tail(script)) = Len(script) - 1
      /\ \A k \in 1..Len(script) - 1 : Tail(script)[k] = script[k + 1]
  <2> HIDE DEF Items
  <2> QED
    BY <1>1
<1>3. call.on
  BY DEF TypeOK
<1> QED
  BY <1>2, <1>3 DEF Doing, Items, SetItem, PublishItem, DropItem, SweepItems, DropOrder

LEMMA StorageCallType ==
  ASSUME TypeOK, StorageCall
  PROVE  TypeOK'
<1>1. script # <<>>
  BY DEF StorageCall, SetRow, PublishManifest, SetItemThrows, RemoveItem,
     RemoveItemThrows, SweepOrphans, Doing
<1>2. /\ Tail(script) \in Seq(SetItem \cup PublishItem \cup DropItem \cup SweepItems \cup DropOrder)
      /\ call.on
  BY <1>1, HeadTypes DEF Items
<1>3. CASE SetRow
  <2>1. Head(script) \in SetItem
    BY <1>1, <1>3, HeadTypes DEF SetRow
  <2>2. PICK key \in Nat \X Ids : key = <<Head(script).gen, Head(script).id>>
    BY <2>1 DEF SetItem
  <2>3. rows' = [k \in DOMAIN rows \cup {key} |->
                   IF k = key THEN Head(script).val ELSE rows[k]]
    BY <1>3, <2>2 DEF SetRow
  <2>4. DOMAIN rows' = DOMAIN rows \cup {key} /\ IsFiniteSet(DOMAIN rows \cup {key})
    BY <2>3, FS_AddElement DEF TypeOK
  <2>5. \A k \in DOMAIN rows' : rows'[k] \in Values
    BY <2>1, <2>3 DEF TypeOK, SetItem
  <2>6. DOMAIN rows' \subseteq Nat \X Ids
    BY <2>2, <2>4 DEF TypeOK
  <2> QED
    BY <1>2, <1>3, <2>4, <2>5, <2>6 DEF TypeOK, SetRow
<1>4. CASE PublishManifest
  <2>1. Head(script) \in PublishItem
    BY <1>1, <1>4, HeadTypes DEF PublishManifest
  <2>2. manifest' \in [generation : Nat \ {0}, ids : Seq(Ids)]
    BY <1>4, <2>1 DEF PublishManifest, PublishItem
  <2> QED
    BY <1>2, <1>4, <2>2 DEF TypeOK, PublishManifest
<1>5. CASE SetItemThrows
  <2>1. NoRows \in Contents
    BY DEF NoRows, Contents
  <2>2. /\ call'.from \in Contents /\ call'.to \in Contents /\ call'.on \in BOOLEAN
        /\ script' = <<>> /\ call' = NoCall
    BY <1>5, <2>1 DEF SetItemThrows, NoCall
  <2>3. <<>> \in Seq(SetItem \cup PublishItem \cup DropItem \cup SweepItems \cup DropOrder)
    OBVIOUS
  <2> QED
    BY <1>5, <2>2, <2>3 DEF TypeOK, SetItemThrows, storageVars
<1>6. CASE RemoveItem
  <2>1. CASE Head(script).do = "dropOrder"
    <3>1. order' = <<>> /\ <<>> \in Seq(Ids)
      BY <1>6, <2>1 DEF RemoveItem
    <3> QED
      BY <1>2, <1>6, <2>1, <3>1 DEF TypeOK, RemoveItem
  <2>2. CASE Head(script).do # "dropOrder"
    <3>1. rows' = Restrict(rows, DOMAIN rows \ {<<Head(script).gen, Head(script).id>>})
      BY <1>6, <2>2 DEF RemoveItem
    <3>2. /\ DOMAIN rows' = DOMAIN rows \ {<<Head(script).gen, Head(script).id>>}
          /\ \A k \in DOMAIN rows' : rows'[k] = rows[k]
      BY <3>1 DEF Restrict
    <3>3. IsFiniteSet(DOMAIN rows \ {<<Head(script).gen, Head(script).id>>})
      BY FS_RemoveElement DEF TypeOK
    <3> QED
      BY <1>2, <1>6, <2>2, <3>2, <3>3 DEF TypeOK, RemoveItem
  <2> QED
    BY <2>1, <2>2
<1>7. CASE RemoveItemThrows
  BY <1>2, <1>7 DEF TypeOK, RemoveItemThrows, storageVars
<1>8. CASE SweepOrphans
  <2> DEFINE found == Unreachable(Head(script).gen)
  <2>1. found \subseteq DOMAIN rows
    BY DEF Unreachable
  <2>2. Cardinality(found) \in Nat
    BY <2>1, FS_Subset, FS_CardinalityType DEF TypeOK
  <2>3. ASSUME NEW keys \in Bijection(1..Cardinality(found), found)
        PROVE  [k \in DOMAIN keys |-> Drop(keys[k][1], keys[k][2])] \in Seq(DropItem)
    <3>1. keys \in [1..Cardinality(found) -> found]
      BY <2>3 DEF Bijection, Injection
    <3>2. \A k \in DOMAIN keys : keys[k] \in Nat \X Ids
      BY <2>1, <3>1 DEF TypeOK
    <3>3. \A k \in DOMAIN keys : Drop(keys[k][1], keys[k][2]) \in DropItem
      BY <3>2 DEF Drop, DropItem
    <3> HIDE DEF found
    <3> QED
      BY <2>2, <3>1, <3>3
  <2>4. script' \in Seq(DropItem)
    BY <1>8, <2>3 DEF SweepOrphans
  <2>5. script' \in Seq(SetItem \cup PublishItem \cup DropItem \cup SweepItems \cup DropOrder)
    BY <2>4, ItemTypes DEF Items
  <2> QED
    BY <1>2, <1>8, <2>5 DEF TypeOK, SweepOrphans, storageVars
<1> QED
  BY <1>3, <1>4, <1>5, <1>6, <1>7, <1>8 DEF StorageCall

LEMMA InitType ==
  ASSUME Init
  PROVE  TypeOK
<1>1. PICK f \in Contents : /\ IsFiniteSet(DOMAIN f)
                            /\ order \in Bijection(1..Cardinality(DOMAIN f), DOMAIN f)
                            /\ rows = [k \in {0} \X DOMAIN f |-> f[k[2]]]
  BY DEF Init
<1>2. /\ DOMAIN f \subseteq Ids /\ \A i \in DOMAIN f : f[i] \in Values
      /\ Cardinality(DOMAIN f) \in Nat
  BY <1>1, FS_CardinalityType DEF Contents
<1>3. order \in Seq(Ids)
  <2>1. order \in [1..Cardinality(DOMAIN f) -> DOMAIN f]
    BY <1>1 DEF Bijection, Injection
  <2> QED
    BY <1>2, <2>1
<1>4. /\ DOMAIN rows = {0} \X DOMAIN f /\ DOMAIN rows \subseteq Nat \X Ids
      /\ \A k \in DOMAIN rows : rows[k] \in Values
  BY <1>1, <1>2
<1>5. IsFiniteSet(DOMAIN rows)
  <2>1. IsFiniteSet({0})
    BY FS_Singleton
  <2> QED
    BY <1>1, <1>4, <2>1, FS_Product
<1>6. NoRows \in Contents
  BY DEF NoRows, Contents
<1> QED
  BY <1>3, <1>4, <1>5, <1>6 DEF Init, TypeOK, NoCall

LEMMA TypeStep ==
  ASSUME TypeOK, [Next]_vars
  PROVE  TypeOK'
<1>1. CASE Method
  BY <1>1, MethodType
<1>2. CASE StorageCall
  BY <1>2, StorageCallType
<1>3. CASE Return \/ Crash
  <2>1. NoRows \in Contents
    BY DEF NoRows, Contents
  <2>2. /\ script' = <<>> /\ call' = NoCall /\ UNCHANGED storageVars
        /\ clean' \in BOOLEAN
    <3>1. CASE Return
      BY <3>1 DEF Return, TypeOK
    <3>2. CASE Crash
      BY <3>2 DEF Crash
    <3> QED
      BY <1>3, <3>1, <3>2
  <2>4. call'.from \in Contents /\ call'.to \in Contents /\ call'.on \in BOOLEAN
    BY <2>1, <2>2 DEF NoCall
  <2>3. <<>> \in Seq(SetItem \cup PublishItem \cup DropItem \cup SweepItems \cup DropOrder)
    OBVIOUS
  <2> QED
    BY <2>2, <2>3, <2>4 DEF TypeOK, storageVars
<1>4. CASE UNCHANGED vars
  BY <1>4 DEF TypeOK, vars, storageVars
<1> QED
  BY <1>1, <1>2, <1>3, <1>4 DEF Next

\* Manifest, row keys and the calls still to make keep their types: no
\* manifest of generation 0 is published, and rows are keyed by generation and id.
THEOREM TypeCorrect == Spec => []TypeOK
<1>1. Init => TypeOK
  BY InitType
<1>2. TypeOK /\ [Next]_vars => TypeOK'
  BY TypeStep
<1> QED
  BY <1>1, <1>2, PTL DEF Spec
-----------------------------------------------------------------------------
(* What a series of storage calls does to a storage: its generation (0      *)
(* before a manifest is published), the ids it names and its row keys.      *)

At(g, I, f) == [gen |-> g, ids |-> I, rows |-> f]
With(f, key, v) == [x \in DOMAIN f \cup {key} |-> IF x = key THEN v ELSE f[x]]
Less(f, K) == [x \in DOMAIN f \ K |-> f[x]]

Proper(s) == s = At(s.gen, s.ids, Less(s.rows, {}))

Moves(a, s, t) ==
  \/ a.do = "set" /\ t = At(s.gen, s.ids, With(s.rows, <<a.gen, a.id>>, a.val))
  \/ a.do = "publish" /\ a.gen # 0 /\ t = At(a.gen, Range(a.ids), s.rows)
  \/ a.do = "drop" /\ t = At(s.gen, s.ids, Less(s.rows, {<<a.gen, a.id>>}))
  \/ a.do = "dropOrder" /\ s.gen # 0 /\ t = s
  \/ /\ a.do = "sweep" /\ s.gen = a.gen
     /\ t = At(s.gen, s.ids, Less(s.rows, {x \in DOMAIN s.rows : x[1] \notin {0, a.gen}}))

\* Every row it names is there, and what a load returns then.
Whole(s) == \A i \in s.ids : <<s.gen, i>> \in DOMAIN s.rows
ViewOf(s) == [i \in s.ids |-> s.rows[<<s.gen, i>>]]

\* The storages a series goes through, each with all its rows.
Path(sc, T) ==
  /\ \A k \in 1..Len(sc) : Moves(sc[k], T[k], T[k + 1])
  /\ \A k \in 1..Len(sc) + 1 : Whole(T[k])

\* A series that leads from s to t and, if e, shows a load nothing but q.
Run(sc, s, t, q, e) ==
  \E T : /\ Path(sc, T) /\ T[1] = s /\ T[Len(sc) + 1] = t
         /\ e => \A k \in 1..Len(sc) + 1 : ViewOf(T[k]) = q

LEMMA RunNothing ==
  ASSUME NEW s, Whole(s), NEW q, NEW e \in BOOLEAN, e => ViewOf(s) = q
  PROVE  Run(<<>>, s, s, q, e)
<1>1. PICK T : T = [k \in 1..1 |-> s]
  OBVIOUS
<1>2. Len(<<>>) = 0 /\ T[1] = s
  BY <1>1
<1>3. Path(<<>>, T) /\ T[Len(<<>>) + 1] = s
  BY <1>2 DEF Path
<1>4. e => \A k \in 1..Len(<<>>) + 1 : ViewOf(T[k]) = q
  BY <1>2
<1> QED
  BY <1>2, <1>3, <1>4 DEF Run

LEMMA RunOne ==
  ASSUME NEW a, NEW s, NEW t, Whole(s), Whole(t), Moves(a, s, t),
         NEW q, NEW e \in BOOLEAN, e => ViewOf(s) = q /\ ViewOf(t) = q
  PROVE  Run(<<a>>, s, t, q, e)
<1>1. PICK T : T = [k \in 1..2 |-> IF k = 1 THEN s ELSE t]
  OBVIOUS
<1>2. Len(<<a>>) = 1 /\ <<a>>[1] = a /\ T[1] = s /\ T[2] = t
  BY <1>1
<1>3. Path(<<a>>, T)
  <2>1. \A k \in 1..Len(<<a>>) : Moves(<<a>>[k], T[k], T[k + 1])
    BY <1>2
  <2>2. \A k \in 1..Len(<<a>>) + 1 : Whole(T[k])
    BY <1>2
  <2> QED
    BY <2>1, <2>2 DEF Path
<1>4. e => \A k \in 1..Len(<<a>>) + 1 : ViewOf(T[k]) = q
  BY <1>2
<1> QED
  BY <1>2, <1>3, <1>4 DEF Run

LEMMA RunJoin ==
  ASSUME NEW x \in Seq(Items), NEW y \in Seq(Items), NEW s, NEW t, NEW u,
         NEW q, NEW e \in BOOLEAN, Run(x, s, t, q, e), Run(y, t, u, q, e)
  PROVE  Run(x \o y, s, u, q, e)
<1>1. PICK X : /\ Path(x, X) /\ X[1] = s /\ X[Len(x) + 1] = t
               /\ e => \A k \in 1..Len(x) + 1 : ViewOf(X[k]) = q
  BY DEF Run
<1>2. PICK Y : /\ Path(y, Y) /\ Y[1] = t /\ Y[Len(y) + 1] = u
               /\ e => \A k \in 1..Len(y) + 1 : ViewOf(Y[k]) = q
  BY DEF Run
<1>3. /\ Len(x) \in Nat /\ Len(y) \in Nat /\ Len(x \o y) = Len(x) + Len(y)
      /\ \A k \in 1..Len(x) : (x \o y)[k] = x[k]
      /\ \A k \in 1..Len(y) : (x \o y)[k + Len(x)] = y[k]
  OBVIOUS
<1>4. PICK T : T = [k \in 1..Len(x \o y) + 1 |->
                      IF k <= Len(x) THEN X[k] ELSE Y[k - Len(x)]]
  OBVIOUS
<1>5. /\ \A k \in 1..Len(x) + 1 : T[k] = X[k]
      /\ \A k \in 1..Len(y) + 1 : T[k + Len(x)] = Y[k]
  <2>1. \A k \in 1..Len(x) : T[k] = X[k]
    BY <1>3, <1>4
  <2>2. \A k \in 1..Len(y) + 1 : T[k + Len(x)] = Y[k]
    <3> SUFFICES ASSUME NEW k \in 1..Len(y) + 1 PROVE T[k + Len(x)] = Y[k]
      OBVIOUS
    <3>1. /\ k + Len(x) \in 1..Len(x \o y) + 1 /\ ~ (k + Len(x) <= Len(x))
          /\ (k + Len(x)) - Len(x) = k
      BY <1>3
    <3> QED
      BY <1>4, <3>1
  <2>3. T[1 + Len(x)] = Y[1]
    BY <1>3, <2>2
  <2>4. \A k \in 1..Len(x) + 1 : k \in 1..Len(x) \/ k = 1 + Len(x)
    BY <1>3
  <2> QED
    BY <1>1, <1>2, <1>3, <2>1, <2>2, <2>3, <2>4
<1>6. ASSUME NEW k \in 1..Len(x \o y) + 1
      PROVE  k \in 1..Len(x) + 1 \/ \E m \in 1..Len(y) + 1 : k = m + Len(x)
  <2>1. CASE k <= Len(x)
    BY <1>3, <2>1
  <2>2. CASE ~ (k <= Len(x))
    <3>1. k - Len(x) \in 1..Len(y) + 1 /\ k = (k - Len(x)) + Len(x)
      BY <1>3, <2>2
    <3> QED
      BY <3>1
  <2> QED
    BY <2>1, <2>2
<1>7. Path(x \o y, T)
  <2>1. ASSUME NEW k \in 1..Len(x) PROVE Moves((x \o y)[k], T[k], T[k + 1])
    <3>1. k \in 1..Len(x) + 1 /\ k + 1 \in 1..Len(x) + 1
      BY <1>3
    <3>2. T[k] = X[k] /\ T[k + 1] = X[k + 1] /\ (x \o y)[k] = x[k]
      BY <1>3, <1>5, <3>1
    <3> QED
      BY <1>1, <3>2 DEF Path
  <2>2. ASSUME NEW k \in 1..Len(y)
        PROVE  Moves((x \o y)[k + Len(x)], T[k + Len(x)], T[(k + Len(x)) + 1])
    <3>1. /\ k \in 1..Len(y) + 1 /\ k + 1 \in 1..Len(y) + 1
          /\ (k + Len(x)) + 1 = (k + 1) + Len(x)
      BY <1>3
    <3>2. /\ T[k + Len(x)] = Y[k] /\ T[(k + Len(x)) + 1] = Y[k + 1]
          /\ (x \o y)[k + Len(x)] = y[k]
      BY <1>3, <1>5, <3>1
    <3> QED
      BY <1>2, <3>2 DEF Path
  <2>3. \A k \in 1..Len(x \o y) : k \in 1..Len(x) \/ \E m \in 1..Len(y) : k = m + Len(x)
    <3> SUFFICES ASSUME NEW k \in 1..Len(x \o y), k \notin 1..Len(x)
                 PROVE  \E m \in 1..Len(y) : k = m + Len(x)
      OBVIOUS
    <3>1. k - Len(x) \in 1..Len(y) /\ k = (k - Len(x)) + Len(x)
      BY <1>3
    <3> QED
      BY <3>1
  <2>4. \A k \in 1..Len(x \o y) + 1 : Whole(T[k])
    BY <1>1, <1>2, <1>5, <1>6 DEF Path
  <2> QED
    BY <2>1, <2>2, <2>3, <2>4 DEF Path
<1>8. T[1] = s /\ T[Len(x \o y) + 1] = u
  <2>1. 1 \in 1..Len(x) + 1 /\ Len(y) + 1 \in 1..Len(y) + 1
        /\ Len(x \o y) + 1 = (Len(y) + 1) + Len(x)
    BY <1>3
  <2> QED
    BY <1>1, <1>2, <1>5, <2>1
<1>9. ASSUME e PROVE \A k \in 1..Len(x \o y) + 1 : ViewOf(T[k]) = q
  <2>1. /\ \A k \in 1..Len(x) + 1 : ViewOf(T[k]) = q
        /\ \A k \in 1..Len(y) + 1 : ViewOf(T[k + Len(x)]) = q
    BY <1>1, <1>2, <1>5, <1>9
  <2> QED
    BY <1>6, <2>1
<1> QED
  BY <1>7, <1>8, <1>9 DEF Run

\* The rows after the first n records of a batch.
Written(f, g, b, n) ==
  [x \in DOMAIN f \cup {<<g, b[m].id>> : m \in 1..n} |->
     IF x \in {<<g, b[m].id>> : m \in 1..n} THEN b[LastIn(b, n, x[2])].val ELSE f[x]]

LEMMA WrittenStep ==
  ASSUME NEW f, NEW g, NEW b, NEW n \in Nat \ {0}
  PROVE  Written(f, g, b, n) = With(Written(f, g, b, n - 1), <<g, b[n].id>>, b[n].val)
<1> DEFINE K == {<<g, b[m].id>> : m \in 1..n}
           L == {<<g, b[m].id>> : m \in 1..(n - 1)}
           key == <<g, b[n].id>>
<1>1. K = L \cup {key}
  <2>1. \A m \in 1..n : m \in 1..(n - 1) \/ m = n
    OBVIOUS
  <2>2. n \in 1..n /\ \A m \in 1..(n - 1) : m \in 1..n
    OBVIOUS
  <2> QED
    BY <2>1, <2>2
<1>2. Written(f, g, b, n) =
        [x \in DOMAIN f \cup K |-> IF x \in K THEN b[LastIn(b, n, x[2])].val ELSE f[x]]
  BY DEF Written
<1>3. Written(f, g, b, n - 1) =
        [x \in DOMAIN f \cup L |-> IF x \in L THEN b[LastIn(b, n - 1, x[2])].val ELSE f[x]]
  BY DEF Written
<1>4. ASSUME NEW x \in L, x # key
      PROVE  LastIn(b, n, x[2]) = LastIn(b, n - 1, x[2])
  <2>1. PICK m \in 1..(n - 1) : x = <<g, b[m].id>>
    OBVIOUS
  <2>2. x[2] = b[m].id /\ b[m].id # b[n].id
    BY <1>4, <2>1
  <2> QED
    BY <2>2, LastStep
<1>5. LastIn(b, n, key[2]) = n
  BY LastStep
<1> HIDE DEF K, L
<1>6. With(Written(f, g, b, n - 1), key, b[n].val) =
        [x \in (DOMAIN f \cup L) \cup {key} |->
           IF x = key THEN b[n].val ELSE Written(f, g, b, n - 1)[x]]
  BY <1>3 DEF With
<1>7. \A x \in DOMAIN f \cup K :
        (IF x \in K THEN b[LastIn(b, n, x[2])].val ELSE f[x])
          = IF x = key THEN b[n].val ELSE Written(f, g, b, n - 1)[x]
  <2> HIDE DEF key
  <2> QED
    BY <1>1, <1>3, <1>4, <1>5
<1>8. (DOMAIN f \cup L) \cup {key} = DOMAIN f \cup K
  BY <1>1
<1> HIDE DEF key
<1> QED
  BY <1>2, <1>6, <1>7, <1>8 DEF key

LEMMA WrittenNone ==
  ASSUME NEW f, f = Less(f, {}), NEW g, NEW b
  PROVE  Written(f, g, b, 0) = f
<1>1. {<<g, b[m].id>> : m \in 1..0} = {}
  OBVIOUS
<1>2. Written(f, g, b, 0) = [x \in DOMAIN f |-> f[x]]
  BY <1>1 DEF Written
<1> QED
  BY <1>2 DEF Less

\* Rows that a load does not look at may change.
LEMMA ViewKept ==
  ASSUME NEW g, NEW I, NEW f, NEW h, Whole(At(g, I, f)),
         \A i \in I : <<g, i>> \in DOMAIN h /\ h[<<g, i>>] = f[<<g, i>>]
  PROVE  Whole(At(g, I, h)) /\ ViewOf(At(g, I, h)) = ViewOf(At(g, I, f))
BY DEF Whole, ViewOf, At

\* Writing a batch: beside the rows that count, or over them.
LEMMA RunSets ==
  ASSUME NEW s, Proper(s), Whole(s), NEW g, NEW b \in Seq(Records),
         NEW q, NEW e \in BOOLEAN,
         e => /\ ViewOf(s) = q
              /\ g # s.gen \/ \A k \in DOMAIN b : b[k].id \notin s.ids
  PROVE  Run(SetAll(g, b), s, At(s.gen, s.ids, Written(s.rows, g, b, Len(b))), q, e)
<1>1. DOMAIN b = 1..Len(b) /\ Len(b) \in Nat
  BY RecordFacts
<1>2. /\ Len(SetAll(g, b)) = Len(b)
      /\ \A k \in 1..Len(b) : SetAll(g, b)[k] = Set(g, b[k])
  BY <1>1 DEF SetAll
<1>3. PICK T : T = [k \in 1..Len(b) + 1 |-> At(s.gen, s.ids, Written(s.rows, g, b, k - 1))]
  OBVIOUS
<1>4. T[1] = s /\ T[Len(b) + 1] = At(s.gen, s.ids, Written(s.rows, g, b, Len(b)))
  <2>1. s = At(s.gen, s.ids, s.rows) /\ s.rows = Less(s.rows, {})
    BY DEF Proper, At
  <2>2. Written(s.rows, g, b, 0) = s.rows
    BY <2>1, WrittenNone
  <2>3. /\ 1 \in 1..Len(b) + 1 /\ 1 - 1 = 0
        /\ Len(b) + 1 \in 1..Len(b) + 1 /\ (Len(b) + 1) - 1 = Len(b)
    BY <1>1
  <2> QED
    BY <1>3, <2>1, <2>2, <2>3
<1>5. ASSUME NEW k \in 1..Len(b) PROVE Moves(SetAll(g, b)[k], T[k], T[k + 1])
  <2>1. /\ k \in Nat \ {0} /\ k \in 1..Len(b) + 1 /\ k + 1 \in 1..Len(b) + 1
        /\ (k + 1) - 1 = k
    BY <1>1
  <2>2. T[k] = At(s.gen, s.ids, Written(s.rows, g, b, k - 1))
    BY <1>3, <2>1
  <2>3. T[k + 1] = At(s.gen, s.ids, Written(s.rows, g, b, k))
    BY <1>3, <2>1
  <2>4. Written(s.rows, g, b, k)
          = With(Written(s.rows, g, b, k - 1), <<g, b[k].id>>, b[k].val)
    BY <2>1, WrittenStep
  <2>5. SetAll(g, b)[k] = [do |-> "set", gen |-> g, id |-> b[k].id, val |-> b[k].val]
    BY <1>2 DEF Set
  <2> QED
    BY <2>2, <2>3, <2>4, <2>5 DEF Moves, At
<1>6. ASSUME NEW k \in 1..Len(b) + 1
      PROVE  Whole(T[k]) /\ (e => ViewOf(T[k]) = q)
  <2>1. T[k] = At(s.gen, s.ids, Written(s.rows, g, b, k - 1))
    BY <1>3
  <2>2. DOMAIN s.rows \subseteq DOMAIN Written(s.rows, g, b, k - 1)
    BY DEF Written
  <2>3. Whole(T[k])
    BY <2>1, <2>2 DEF Whole, At
  <2>4. ASSUME e PROVE ViewOf(T[k]) = q
    <3>1. ASSUME NEW i \in s.ids
          PROVE  /\ <<s.gen, i>> \in DOMAIN Written(s.rows, g, b, k - 1)
                 /\ Written(s.rows, g, b, k - 1)[<<s.gen, i>>] = s.rows[<<s.gen, i>>]
      <4>1. <<s.gen, i>> \in DOMAIN s.rows
        BY DEF Whole
      <4>2. <<s.gen, i>> \notin {<<g, b[m].id>> : m \in 1..(k - 1)}
        <5>1. \A m \in 1..(k - 1) : m \in DOMAIN b
          BY <1>1
        <5> QED
          BY <2>4, <5>1
      <4> QED
        BY <4>1, <4>2 DEF Written
    <3>2. s = At(s.gen, s.ids, s.rows)
      BY DEF Proper, At
    <3>3. ViewOf(At(s.gen, s.ids, Written(s.rows, g, b, k - 1))) = ViewOf(s)
      <4>1. Whole(At(s.gen, s.ids, s.rows))
        BY <3>2
      <4>2. ViewOf(At(s.gen, s.ids, Written(s.rows, g, b, k - 1)))
              = ViewOf(At(s.gen, s.ids, s.rows))
        BY <3>1, <4>1, ViewKept, Zenon
      <4> QED
        BY <3>2, <4>2
    <3> QED
      BY <2>1, <2>4, <3>3
  <2> QED
    BY <2>3, <2>4
<1>7. Path(SetAll(g, b), T)
  BY <1>2, <1>5, <1>6 DEF Path
<1> QED
  BY <1>2, <1>4, <1>6, <1>7 DEF Run

\* Removing rows that are not named any more.
LEMMA RunDrops ==
  ASSUME NEW s, Proper(s), Whole(s), NEW g, NEW d \in Seq(Ids),
         g # s.gen \/ Range(d) \cap s.ids = {}
  PROVE  \E t : /\ Proper(t) /\ Whole(t) /\ t.gen = s.gen /\ t.ids = s.ids
                /\ ViewOf(t) = ViewOf(s) /\ Run(DropAll(g, d), s, t, ViewOf(s), TRUE)
<1> DEFINE Gone(n) == {<<g, d[m]>> : m \in 1..n}
           State(n) == At(s.gen, s.ids, Less(s.rows, Gone(n)))
<1>1. DOMAIN d = 1..Len(d) /\ Len(d) \in Nat
  OBVIOUS
<1>2. /\ Len(DropAll(g, d)) = Len(d)
      /\ \A k \in 1..Len(d) : DropAll(g, d)[k] = Drop(g, d[k])
  BY <1>1 DEF DropAll
<1>3. PICK T : T = [k \in 1..Len(d) + 1 |-> State(k - 1)]
  OBVIOUS
<1>4. s = At(s.gen, s.ids, s.rows) /\ s.rows = Less(s.rows, {})
  BY DEF Proper, At
<1>5. T[1] = s /\ T[Len(d) + 1] = State(Len(d))
  <2>1. Gone(0) = {}
    OBVIOUS
  <2>2. /\ 1 \in 1..Len(d) + 1 /\ 1 - 1 = 0
        /\ Len(d) + 1 \in 1..Len(d) + 1 /\ (Len(d) + 1) - 1 = Len(d)
    BY <1>1
  <2>3. State(0) = s
    BY <1>4, <2>1
  <2> HIDE DEF State
  <2> QED
    BY <1>3, <2>2, <2>3
<1>6. ASSUME NEW k \in 1..Len(d) PROVE Moves(DropAll(g, d)[k], T[k], T[k + 1])
  <2>1. /\ k \in 1..Len(d) + 1 /\ k + 1 \in 1..Len(d) + 1 /\ (k + 1) - 1 = k
        /\ k \in Nat \ {0}
    BY <1>1
  <2>2. T[k] = State(k - 1) /\ T[k + 1] = State(k)
    <3> HIDE DEF State
    <3> QED
      BY <1>3, <2>1
  <2>3. Gone(k) = Gone(k - 1) \cup {<<g, d[k]>>}
    <3>1. \A m \in 1..k : m \in 1..(k - 1) \/ m = k
      BY <2>1
    <3>2. k \in 1..k /\ \A m \in 1..(k - 1) : m \in 1..k
      BY <2>1
    <3> QED
      BY <3>1, <3>2
  <2>4. Less(s.rows, Gone(k)) = Less(Less(s.rows, Gone(k - 1)), {<<g, d[k]>>})
    <3> HIDE DEF Gone
    <3> QED
      BY <2>3 DEF Less
  <2>5. DropAll(g, d)[k] = [do |-> "drop", gen |-> g, id |-> d[k]]
    BY <1>2 DEF Drop
  <2> QED
    BY <2>2, <2>4, <2>5 DEF Moves, At
<1>7. ASSUME NEW n \in 0..Len(d)
      PROVE  /\ Proper(State(n)) /\ Whole(State(n)) /\ ViewOf(State(n)) = ViewOf(s)
             /\ State(n).gen = s.gen /\ State(n).ids = s.ids
  <2>1. ASSUME NEW i \in s.ids
        PROVE  /\ <<s.gen, i>> \in DOMAIN Less(s.rows, Gone(n))
               /\ Less(s.rows, Gone(n))[<<s.gen, i>>] = s.rows[<<s.gen, i>>]
    <3>1. <<s.gen, i>> \in DOMAIN s.rows
      BY DEF Whole
    <3>2. <<s.gen, i>> \notin Gone(n)
      <4>1. \A m \in 1..n : d[m] \in Range(d)
        BY <1>1 DEF Range
      <4> QED
        BY <4>1
    <3> QED
      BY <3>1, <3>2 DEF Less
  <2>2. Whole(At(s.gen, s.ids, s.rows))
    BY <1>4
  <2>3. Whole(State(n)) /\ ViewOf(State(n)) = ViewOf(At(s.gen, s.ids, s.rows))
    <3> HIDE DEF Gone
    <3> QED
      BY <2>1, <2>2, ViewKept, Zenon
  <2>4. Proper(State(n))
    BY DEF Proper, At, Less
  <2> QED
    BY <1>4, <2>3, <2>4 DEF At
<1>8. Path(DropAll(g, d), T)
  <2>1. \A k \in 1..Len(d) + 1 : Whole(T[k])
    <3> SUFFICES ASSUME NEW k \in 1..Len(d) + 1 PROVE Whole(T[k])
      OBVIOUS
    <3>1. T[k] = State(k - 1) /\ k - 1 \in 0..Len(d)
      BY <1>1, <1>3
    <3> HIDE DEF State
    <3> QED
      BY <1>7, <3>1
  <2> QED
    BY <1>2, <1>6, <2>1 DEF Path
<1>9. \A k \in 1..Len(d) + 1 : ViewOf(T[k]) = ViewOf(s)
  <2> SUFFICES ASSUME NEW k \in 1..Len(d) + 1 PROVE ViewOf(T[k]) = ViewOf(s)
    OBVIOUS
  <2>1. T[k] = State(k - 1) /\ k - 1 \in 0..Len(d)
    BY <1>1, <1>3
  <2> HIDE DEF State
  <2> QED
    BY <1>7, <2>1
<1>10. Run(DropAll(g, d), s, State(Len(d)), ViewOf(s), TRUE)
  <2> HIDE DEF State
  <2> QED
    BY <1>2, <1>5, <1>8, <1>9 DEF Run
<1>11. Len(d) \in 0..Len(d)
  BY <1>1
<1> HIDE DEF State
<1> QED
  BY <1>7, <1>10, <1>11

\* cleanupKeys, once a manifest is published that does not name these rows.
LEMMA RunCleanup ==
  ASSUME NEW s, Proper(s), Whole(s), s.gen # 0,
         NEW st, st.gen \in Nat, st.ids \in Seq(Ids),
         st.gen # s.gen \/ Range(st.ids) \cap s.ids = {}
  PROVE  \E t : /\ Proper(t) /\ Whole(t) /\ t.gen = s.gen /\ t.ids = s.ids
                /\ ViewOf(t) = ViewOf(s) /\ Run(Cleanup(st), s, t, ViewOf(s), TRUE)
<1>1. PICK t : /\ Proper(t) /\ Whole(t) /\ t.gen = s.gen /\ t.ids = s.ids
               /\ ViewOf(t) = ViewOf(s)
               /\ Run(DropAll(st.gen, st.ids), s, t, ViewOf(s), TRUE)
  BY RunDrops
<1>2. Run(<<[do |-> "dropOrder"]>>, t, t, ViewOf(s), TRUE)
  <2>1. Moves([do |-> "dropOrder"], t, t)
    BY <1>1 DEF Moves
  <2> QED
    BY <1>1, <2>1, RunOne
<1>3. Run(<<>>, t, t, ViewOf(s), TRUE)
  BY <1>1, RunNothing
<1>4. DropAll(st.gen, st.ids) \in Seq(Items)
  BY SeriesTypes, ItemTypes
<1>5. Run(Cleanup(st), s, t, ViewOf(s), TRUE)
  <2>1. CASE st.gen = 0
    BY <1>1, <1>2, <1>4, <2>1, ItemTypes, RunJoin DEF Cleanup
  <2>2. CASE st.gen # 0
    BY <1>1, <1>3, <1>4, <2>2, ItemTypes, RunJoin DEF Cleanup
  <2> QED
    BY <2>1, <2>2
<1> QED
  BY <1>1, <1>5

\* cleanupOrphanGenerations leaves the rows that count alone.
LEMMA RunSweep ==
  ASSUME NEW s, Proper(s), Whole(s)
  PROVE  \E t : Run(<<Sweep(s.gen)>>, s, t, ViewOf(s), TRUE)
<1> DEFINE K == {x \in DOMAIN s.rows : x[1] \notin {0, s.gen}}
           t == At(s.gen, s.ids, Less(s.rows, K))
<1>1. \A i \in s.ids : /\ <<s.gen, i>> \in DOMAIN Less(s.rows, K)
                       /\ Less(s.rows, K)[<<s.gen, i>>] = s.rows[<<s.gen, i>>]
  BY DEF Whole, Less
<1>2. Whole(At(s.gen, s.ids, s.rows)) /\ s = At(s.gen, s.ids, s.rows)
  BY DEF Proper, At
<1>3. Whole(t) /\ ViewOf(t) = ViewOf(At(s.gen, s.ids, s.rows))
  <2> HIDE DEF K
  <2> QED
    BY <1>1, <1>2, ViewKept, Zenon
<1>4. Moves(Sweep(s.gen), s, t)
  BY DEF Moves, Sweep
<1> HIDE DEF t
<1> QED
  BY <1>2, <1>3, <1>4, RunOne
-----------------------------------------------------------------------------
(* A method as a plan: a load finds the rows of before it until one of its  *)
(* calls and those of after it from then on, and no call from there on may  *)
(* make the method throw.                                                  *)

Setting == {"set", "publish"}

Plan(sc, s, from, to) ==
  \E T : /\ Path(sc, T) /\ T[1] = s
         /\ ~BatchOverwrites =>
              /\ ViewOf(T[Len(sc) + 1]) = to
              /\ \A k \in 1..Len(sc) :
                   \/ ViewOf(T[k]) = from
                   \/ /\ ViewOf(T[k]) = to /\ ViewOf(T[k + 1]) = to
                      /\ sc[k].do \notin Setting

Trails(sc) == \A k \in 1..Len(sc) : sc[k].do \notin Setting

LEMMA PlanQuiet ==
  ASSUME NEW sc \in Seq(Items), NEW s, NEW t, NEW q, Run(sc, s, t, q, TRUE)
  PROVE  Plan(sc, s, q, q)
<1>1. PICK T : /\ Path(sc, T) /\ T[1] = s
               /\ \A k \in 1..Len(sc) + 1 : ViewOf(T[k]) = q
  BY DEF Run
<1>2. Len(sc) \in Nat
  OBVIOUS
<1>3. Len(sc) + 1 \in 1..Len(sc) + 1 /\ \A k \in 1..Len(sc) : k \in 1..Len(sc) + 1
  BY <1>2
<1> QED
  BY <1>1, <1>3 DEF Plan

LEMMA PlanAny ==
  ASSUME BatchOverwrites, NEW sc, NEW s, NEW t, NEW q, NEW e, Run(sc, s, t, q, e),
         NEW from, NEW to
  PROVE  Plan(sc, s, from, to)
BY StoreAssumption DEF Run, Plan

LEMMA PlanCommit ==
  ASSUME NEW x \in Seq(Items), NEW a, <<a>> \in Seq(Items), NEW y \in Seq(Items),
         NEW s, NEW t, NEW u, NEW v, NEW from, NEW to, NEW e \in BOOLEAN,
         Run(x, s, t, from, e), Moves(a, t, u), Run(y, u, v, to, e), Trails(y),
         ~BatchOverwrites => e
  PROVE  Plan((x \o <<a>>) \o y, s, from, to)
<1> DEFINE sc == (x \o <<a>>) \o y
<1>1. PICK X : /\ Path(x, X) /\ X[1] = s /\ X[Len(x) + 1] = t
               /\ e => \A k \in 1..Len(x) + 1 : ViewOf(X[k]) = from
  BY DEF Run
<1>2. PICK Y : /\ Path(y, Y) /\ Y[1] = u /\ Y[Len(y) + 1] = v
               /\ e => \A k \in 1..Len(y) + 1 : ViewOf(Y[k]) = to
  BY DEF Run
<1>3. PICK n \in Nat : n = Len(x) + 1
  OBVIOUS
<1>4. /\ Len(sc) = n + Len(y) /\ Len(x) \in Nat /\ Len(y) \in Nat
      /\ \A k \in 1..Len(x) : sc[k] = x[k]
      /\ sc[n] = a
      /\ \A k \in 1..Len(y) : sc[k + n] = y[k]
  <2>1. x \o <<a>> = Append(x, a)
    OBVIOUS
  <2>2. PICK z \in Seq(Items) : z = x \o <<a>>
    BY JoinType
  <2>3. /\ Len(z) = n /\ Len(x) \in Nat /\ Len(y) \in Nat
        /\ \A k \in 1..Len(x) : z[k] = x[k]
        /\ z[n] = a
    BY <1>3, <2>1, <2>2
  <2>4. /\ Len(z \o y) = n + Len(y)
        /\ \A k \in 1..n : (z \o y)[k] = z[k]
        /\ \A k \in 1..Len(y) : (z \o y)[k + n] = y[k]
    BY <2>3
  <2>5. n \in 1..n /\ \A k \in 1..Len(x) : k \in 1..n
    BY <1>3, <2>3
  <2> QED
    BY <2>2, <2>3, <2>4, <2>5
<1> HIDE DEF sc
<1>5. PICK T : T = [k \in 1..Len(sc) + 1 |-> IF k <= n THEN X[k] ELSE Y[k - n]]
  OBVIOUS
<1>6. \A k \in 1..n : k \in 1..Len(sc) + 1 /\ T[k] = X[k]
  BY <1>3, <1>4, <1>5
<1>7. \A k \in 1..Len(y) + 1 : k + n \in 1..Len(sc) + 1 /\ T[k + n] = Y[k]
  <2> SUFFICES ASSUME NEW k \in 1..Len(y) + 1
               PROVE  k + n \in 1..Len(sc) + 1 /\ T[k + n] = Y[k]
    OBVIOUS
  <2>1. k + n \in 1..Len(sc) + 1 /\ ~ (k + n <= n) /\ (k + n) - n = k
    BY <1>3, <1>4
  <2> QED
    BY <1>5, <2>1
<1>8. ASSUME NEW k \in 1..Len(sc) + 1
      PROVE  k \in 1..n \/ \E m \in 1..Len(y) + 1 : k = m + n
  <2>1. CASE k <= n
    BY <1>3, <2>1
  <2>2. CASE ~ (k <= n)
    <3>1. k - n \in 1..Len(y) + 1 /\ k = (k - n) + n
      BY <1>3, <1>4, <2>2
    <3> QED
      BY <3>1
  <2> QED
    BY <2>1, <2>2
<1>9. ASSUME NEW k \in 1..Len(sc)
      PROVE  k \in 1..Len(x) \/ k = n \/ \E m \in 1..Len(y) : k = m + n
  <2>1. CASE k <= n
    BY <1>3, <1>4, <2>1
  <2>2. CASE ~ (k <= n)
    <3>1. k - n \in 1..Len(y) /\ k = (k - n) + n
      BY <1>3, <1>4, <2>2
    <3> QED
      BY <3>1
  <2> QED
    BY <2>1, <2>2
<1>10. ASSUME NEW k \in 1..Len(x) PROVE k \in 1..n /\ k + 1 \in 1..n
  BY <1>3, <1>4
<1>11. n \in 1..n /\ T[n] = t /\ T[n + 1] = u
  <2>1. n \in 1..n /\ 1 \in 1..Len(y) + 1 /\ n + 1 = 1 + n
    BY <1>3, <1>4
  <2>2. T[n] = X[n] /\ T[1 + n] = Y[1]
    BY <1>6, <1>7, <2>1
  <2> QED
    BY <1>1, <1>2, <1>3, <2>1, <2>2
<1>12. ASSUME NEW m \in 1..Len(y)
       PROVE  /\ m \in 1..Len(y) + 1 /\ m + 1 \in 1..Len(y) + 1
              /\ T[(m + n) + 1] = Y[m + 1]
  <2>1. m \in 1..Len(y) + 1 /\ m + 1 \in 1..Len(y) + 1 /\ (m + n) + 1 = (m + 1) + n
    BY <1>3, <1>4
  <2> QED
    BY <1>7, <2>1
<1>13. Path(sc, T)
  <2>1. ASSUME NEW k \in 1..Len(sc) PROVE Moves(sc[k], T[k], T[k + 1])
    <3>1. CASE k \in 1..Len(x)
      BY <1>1, <1>4, <1>6, <1>10, <3>1 DEF Path
    <3>2. CASE k = n
      BY <1>4, <1>11, <3>2
    <3>3. ASSUME NEW m \in 1..Len(y), k = m + n PROVE Moves(sc[k], T[k], T[k + 1])
      BY <1>2, <1>4, <1>7, <1>12, <3>3 DEF Path
    <3> QED
      BY <1>9, <3>1, <3>2, <3>3
  <2>2. \A k \in 1..Len(sc) + 1 : Whole(T[k])
    <3>1. \A k \in 1..n : Whole(X[k])
      BY <1>1, <1>3 DEF Path
    <3>2. \A m \in 1..Len(y) + 1 : Whole(Y[m])
      BY <1>2 DEF Path
    <3> QED
      BY <1>6, <1>7, <1>8, <3>1, <3>2
  <2> QED
    BY <2>1, <2>2 DEF Path
<1>14. T[1] = s
  <2>1. 1 \in 1..n
    BY <1>3, <1>4
  <2> QED
    BY <1>1, <1>6, <2>1
<1>15. ASSUME ~BatchOverwrites
       PROVE  /\ ViewOf(T[Len(sc) + 1]) = to
              /\ \A k \in 1..Len(sc) :
                   \/ ViewOf(T[k]) = from
                   \/ /\ ViewOf(T[k]) = to /\ ViewOf(T[k + 1]) = to
                      /\ sc[k].do \notin Setting
  <2>1. /\ \A k \in 1..n : ViewOf(T[k]) = from
        /\ \A m \in 1..Len(y) + 1 : ViewOf(T[m + n]) = to
    BY <1>1, <1>2, <1>3, <1>6, <1>7, <1>15
  <2>2. ViewOf(T[Len(sc) + 1]) = to
    <3>1. Len(y) + 1 \in 1..Len(y) + 1 /\ Len(sc) + 1 = (Len(y) + 1) + n
      BY <1>3, <1>4
    <3> QED
      BY <2>1, <3>1
  <2>3. ASSUME NEW m \in 1..Len(y)
        PROVE  /\ ViewOf(T[m + n]) = to /\ ViewOf(T[(m + n) + 1]) = to
               /\ sc[m + n].do \notin Setting
    <3>1. ViewOf(Y[m + 1]) = to
      BY <1>2, <1>12, <1>15
    <3> QED
      BY <1>4, <1>12, <2>1, <3>1 DEF Trails
  <2> QED
    BY <1>9, <1>10, <1>11, <2>1, <2>2, <2>3
<1> QED
  BY <1>13, <1>14, <1>15 DEF Plan, sc
-----------------------------------------------------------------------------
(* The plan of each method.                                                *)

\* The storage as it is.
Real == At(LoadState.gen, Range(LoadState.ids), Less(rows, {}))

LEMMA RealIs ==
  ASSUME TypeOK, Whole(Real)
  PROVE  /\ Proper(Real) /\ ViewOf(Real) = View
         /\ Real.gen = LoadState.gen /\ Real.ids = Range(LoadState.ids)
<1>1. Real.gen = LoadState.gen /\ Real.ids = Range(LoadState.ids) /\ Real.rows = Less(rows, {})
  BY DEF Real, At
<1>2. Proper(Real)
  BY DEF Proper, Real, At, Less
<1>3. \A i \in Real.ids : <<LoadState.gen, i>> \in DOMAIN rows
  BY <1>1 DEF Whole, Less
<1>4. {i \in Range(LoadState.ids) : <<LoadState.gen, i>> \in DOMAIN rows} = Real.ids
  BY <1>1, <1>3
<1>5. View = [i \in Real.ids |-> rows[<<LoadState.gen, i>>]]
  BY <1>4 DEF View
<1>6. ViewOf(Real) = [i \in Real.ids |-> rows[<<LoadState.gen, i>>]]
  <2>1. ViewOf(Real) = [i \in Real.ids |-> Real.rows[<<LoadState.gen, i>>]]
    BY <1>1 DEF ViewOf
  <2>2. \A i \in Real.ids : Real.rows[<<LoadState.gen, i>>] = rows[<<LoadState.gen, i>>]
    BY <1>1, <1>3 DEF Less
  <2> QED
    BY <2>1, <2>2
<1> QED
  BY <1>1, <1>2, <1>5, <1>6

\* What a load finds in a storage.
LEMMA ViewFacts ==
  ASSUME NEW s
  PROVE  /\ DOMAIN ViewOf(s) = s.ids
         /\ \A i \in s.ids : ViewOf(s)[i] = s.rows[<<s.gen, i>>]
BY DEF ViewOf

\* The row keys of a generation hold the rows f.
Keeps(r, g, f) == \A i \in DOMAIN f : <<g, i>> \in DOMAIN r /\ r[<<g, i>>] = f[i]

BatchIds(b) == {b[k].id : k \in DOMAIN b}

\* A batch written over the rows that count, once its ids are named.
LEMMA WrittenView ==
  ASSUME NEW f, NEW r, NEW g, NEW b \in Seq(Records), NEW I, NEW u,
         Keeps(r, g, f), I = DOMAIN f \cup BatchIds(b),
         u = At(g, I, Written(r, g, b, Len(b)))
  PROVE  Proper(u) /\ Whole(u) /\ ViewOf(u) = Over(f, b) /\ u.gen = g /\ u.ids = I
<1> USE DEF Keeps, BatchIds
<1> DEFINE ids == {b[k].id : k \in DOMAIN b}
           K == {<<g, b[m].id>> : m \in 1..Len(b)}
<1>1. DOMAIN b = 1..Len(b)
  BY RecordFacts
<1>2. \A i : <<g, i>> \in K <=> i \in ids
  BY <1>1
<1>3. /\ u.gen = g /\ u.ids = I
      /\ u.rows = [x \in DOMAIN r \cup K |->
                     IF x \in K THEN b[LastIn(b, Len(b), x[2])].val ELSE r[x]]
  BY DEF At, Written
<1> HIDE DEF K, ids
<1>4. ASSUME NEW i \in I
      PROVE  /\ <<g, i>> \in DOMAIN u.rows
             /\ u.rows[<<g, i>>] = IF i \in ids THEN b[LastIn(b, Len(b), i)].val ELSE f[i]
  <2>1. i \in DOMAIN f \/ i \in ids
    BY <1>4 DEF ids
  <2> QED
    BY <1>2, <1>3, <2>1
<1>5. Whole(u)
  BY <1>3, <1>4 DEF Whole
<1>6. ViewOf(u) = [i \in I |-> IF i \in ids THEN b[LastIn(b, Len(b), i)].val ELSE f[i]]
  <2>1. ViewOf(u) = [i \in I |-> u.rows[<<g, i>>]]
    BY <1>3 DEF ViewOf
  <2> QED
    BY <1>4, <2>1
<1>7. Over(f, b) = [i \in DOMAIN f \cup ids |->
                      IF i \in ids THEN b[LastIn(b, Len(b), i)].val ELSE f[i]]
  BY OverIs, Zenon DEF ids
<1>8. Proper(u)
  <2>1. u.rows = Less(u.rows, {})
    BY <1>3 DEF Less
  <2>2. u = At(u.gen, u.ids, u.rows)
    BY DEF At
  <2> QED
    BY <2>1, <2>2 DEF Proper
<1>9. I = DOMAIN f \cup ids
  BY DEF ids
<1> QED
  BY <1>3, <1>5, <1>6, <1>7, <1>8, <1>9

\* A batch written where no row counts.
LEMMA WrittenAnew ==
  ASSUME NEW r, NEW g, NEW b \in Seq(Records), NEW I, NEW u,
         I = BatchIds(b), u = At(g, I, Written(r, g, b, Len(b)))
  PROVE  /\ Proper(u) /\ Whole(u) /\ u.gen = g /\ u.ids = I
         /\ ViewOf(u) = [i \in I |-> b[LastIn(b, Len(b), i)].val]
         /\ \A f : DOMAIN f = {} => ViewOf(u) = Over(f, b)
<1>1. ASSUME NEW f, DOMAIN f = {}
      PROVE  Proper(u) /\ Whole(u) /\ u.gen = g /\ u.ids = I /\ ViewOf(u) = Over(f, b)
  <2>1. I = DOMAIN f \cup BatchIds(b)
    BY <1>1
  <2>2. Keeps(r, g, f)
    BY <1>1 DEF Keeps
  <2> QED
    BY <2>1, <2>2, WrittenView
<1>2. PICK f : f = [i \in {} |-> i]
  OBVIOUS
<1>3. DOMAIN f = {}
  BY <1>2
<1>4. Over(f, b) = [i \in DOMAIN f \cup {b[k].id : k \in DOMAIN b} |->
                      IF i \in {b[k].id : k \in DOMAIN b}
                      THEN b[LastIn(b, Len(b), i)].val ELSE f[i]]
  BY OverIs
<1>5. Over(f, b) = [i \in I |-> b[LastIn(b, Len(b), i)].val]
  BY <1>3, <1>4 DEF BatchIds
<1> QED
  BY <1>1, <1>3, <1>5

\* Calls that make no method throw.
LEMMA TrailsFacts ==
  /\ \A g : Trails(<<Sweep(g)>>)
  /\ \A g : \A d \in Seq(Ids) : Trails(DropAll(g, d))
  /\ \A x, y \in Seq(Items) : Trails(x) /\ Trails(y) => Trails(x \o y)
<1>1. ASSUME NEW g PROVE Trails(<<Sweep(g)>>)
  BY DEF Trails, Sweep, Setting
<1>2. ASSUME NEW g, NEW d \in Seq(Ids) PROVE Trails(DropAll(g, d))
  <2>1. /\ Len(DropAll(g, d)) = Len(d)
        /\ \A k \in 1..Len(d) : DropAll(g, d)[k] = Drop(g, d[k])
    <3>1. DOMAIN d = 1..Len(d) /\ Len(d) \in Nat
      OBVIOUS
    <3> QED
      BY <3>1 DEF DropAll
  <2>2. ASSUME NEW k \in 1..Len(d) PROVE DropAll(g, d)[k].do = "drop"
    <3>1. DropAll(g, d)[k] = [do |-> "drop", gen |-> g, id |-> d[k]]
      BY <2>1 DEF Drop
    <3> QED
      BY <3>1
  <2> QED
    BY <2>1, <2>2 DEF Trails, Setting
<1>3. ASSUME NEW x \in Seq(Items), NEW y \in Seq(Items), Trails(x), Trails(y)
      PROVE  Trails(x \o y)
  <2>1. /\ Len(x) \in Nat /\ Len(y) \in Nat /\ Len(x \o y) = Len(x) + Len(y)
        /\ \A k \in 1..Len(x) : (x \o y)[k] = x[k]
        /\ \A k \in 1..Len(y) : (x \o y)[k + Len(x)] = y[k]
    OBVIOUS
  <2> SUFFICES ASSUME NEW k \in 1..Len(x \o y) PROVE (x \o y)[k].do \notin Setting
    BY DEF Trails
  <2>2. CASE k <= Len(x)
    BY <1>3, <2>1, <2>2 DEF Trails
  <2>3. CASE ~ (k <= Len(x))
    <3>1. k - Len(x) \in 1..Len(y) /\ k = (k - Len(x)) + Len(x)
      BY <2>1, <2>3
    <3> QED
      BY <1>3, <2>1, <3>1 DEF Trails
  <2> QED
    BY <2>2, <2>3
<1> QED
  BY <1>1, <1>2, <1>3

LEMMA CleanupTrails ==
  ASSUME NEW st, st.gen \in Nat, st.ids \in Seq(Ids)
  PROVE  Trails(Cleanup(st))
<1>1. /\ DropAll(st.gen, st.ids) \in Seq(Items) /\ Trails(DropAll(st.gen, st.ids))
      /\ <<>> \in Seq(Items) /\ <<[do |-> "dropOrder"]>> \in Seq(Items)
  BY SeriesTypes, ItemTypes, TrailsFacts
<1>2. Trails(<<>>) /\ Trails(<<[do |-> "dropOrder"]>>)
  BY DEF Trails, Setting
<1> QED
  BY <1>1, <1>2, TrailsFacts DEF Cleanup

\* A run that shows only q is one that may show anything.
LEMMA RunWeaker ==
  ASSUME NEW sc, NEW s, NEW t, NEW q, Run(sc, s, t, q, TRUE), NEW e \in BOOLEAN
  PROVE  Run(sc, s, t, q, e)
BY DEF Run

\* A load that finds the same rows after ensureActiveState.
LEMMA MigrateRuns ==
  ASSUME TypeOK, Whole(Real)
  PROVE  \E t : /\ Proper(t) /\ Whole(t) /\ ViewOf(t) = View
                /\ t.gen = Active.gen /\ t.ids = Range(Active.ids)
                /\ Run(Migrate(LoadState), Real, t, View, TRUE)
<1>1. /\ Proper(Real) /\ ViewOf(Real) = View
      /\ Real.gen = LoadState.gen /\ Real.ids = Range(LoadState.ids)
      /\ LoadState.gen \in Nat /\ LoadState.ids \in Seq(Ids)
      /\ Active.ids = LoadState.ids
  BY RealIs, ReadTypes
<1>2. CASE LoadState.gen # 0
  <2>1. Migrate(LoadState) = <<>> /\ Active.gen = LoadState.gen
    BY <1>2, MigrateIs DEF Active
  <2> QED
    BY <1>1, <2>1, RunNothing
<1>3. CASE LoadState.gen = 0
  <2> DEFINE W == Written(Real.rows, 1, Copied, Len(Copied))
             ids == {Copied[k].id : k \in DOMAIN Copied}
             t1 == At(0, Real.ids, W)
             u == At(1, Real.ids, W)
  <2>1. /\ Copied \in Seq(Records) /\ ids = Real.ids
        /\ \A k \in DOMAIN Copied : /\ <<0, Copied[k].id>> \in DOMAIN rows
                                    /\ Copied[k].val = rows[<<0, Copied[k].id>>]
    <3>1. \A i \in Range(LoadState.ids) : <<0, i>> \in DOMAIN rows
      BY <1>3 DEF Whole, Real, At, Less
    <3> QED
      BY <1>1, <3>1, CopiedType
  <2>2. Run(SetAll(1, Copied), Real, t1, View, TRUE)
    <3>1. Real.gen = 0 /\ 1 # Real.gen
      BY <1>1, <1>3
    <3>2. Run(SetAll(1, Copied), Real, At(Real.gen, Real.ids, W), View, TRUE)
      BY <1>1, <2>1, <3>1, RunSets
    <3> QED
      BY <3>1, <3>2
  <2>3. /\ Proper(u) /\ Whole(u) /\ u.gen = 1 /\ u.ids = Real.ids
        /\ ViewOf(u) = [i \in ids |-> Copied[LastIn(Copied, Len(Copied), i)].val]
    <3>1. Real.ids = BatchIds(Copied)
      BY <2>1 DEF BatchIds
    <3>2. u = At(1, Real.ids, Written(Real.rows, 1, Copied, Len(Copied)))
      OBVIOUS
    <3> HIDE DEF u
    <3> QED
      BY <2>1, <3>1, <3>2, WrittenAnew
  <2>4. ViewOf(u) = View
    <3>1. ASSUME NEW i \in ids
          PROVE  Copied[LastIn(Copied, Len(Copied), i)].val = rows[<<0, i>>]
      <4>1. DOMAIN Copied = 1..Len(Copied) /\ Len(Copied) \in Nat
        BY <2>1, RecordFacts
      <4>2. PICK p \in 1..Len(Copied) : i = Copied[p].id
        BY <4>1
      <4>3. PICK j : j = LastIn(Copied, Len(Copied), Copied[p].id)
        OBVIOUS
      <4>4. j \in 1..Len(Copied) /\ Copied[j].id = i
        BY <4>1, <4>2, <4>3, LastFacts
      <4> QED
        BY <2>1, <4>1, <4>2, <4>3, <4>4
    <3>2. View = [i \in ids |-> rows[<<0, i>>]]
      <4>1. {i \in Range(LoadState.ids) : <<0, i>> \in DOMAIN rows} = ids
        BY CopiedType
      <4> QED
        BY <1>3, <4>1 DEF View
    <3> HIDE DEF ids, u
    <3> QED
      BY <2>3, <3>1, <3>2
  <2>5. Run(<<Publish(1, LoadState.ids)>>, t1, u, View, TRUE)
    <3>1. Moves(Publish(1, LoadState.ids), t1, u)
      BY <1>1 DEF Moves, Publish, At
    <3>2. Whole(t1) /\ ViewOf(t1) = View
      <4>1. PICK T : /\ Path(SetAll(1, Copied), T) /\ T[Len(SetAll(1, Copied)) + 1] = t1
                     /\ \A k \in 1..Len(SetAll(1, Copied)) + 1 : ViewOf(T[k]) = View
        BY <2>2 DEF Run
      <4>2. Len(SetAll(1, Copied)) \in Nat
        BY <2>1, SeriesTypes
      <4>3. Len(SetAll(1, Copied)) + 1 \in 1..Len(SetAll(1, Copied)) + 1
        BY <4>2
      <4> QED
        BY <4>1, <4>3 DEF Path
    <3> HIDE DEF t1, u
    <3> QED
      BY <2>3, <2>4, <3>1, <3>2, RunOne
  <2>6. PICK t : /\ Proper(t) /\ Whole(t) /\ t.gen = 1 /\ t.ids = Real.ids
                 /\ ViewOf(t) = View /\ Run(Cleanup(LoadState), u, t, View, TRUE)
    <3> HIDE DEF u
    <3>1. u.gen # 0 /\ LoadState.gen # u.gen
      BY <1>3, <2>3
    <3> QED
      BY <1>1, <2>3, <2>4, <3>1, RunCleanup
  <2>7. /\ SetAll(1, Copied) \in Seq(Items) /\ <<Publish(1, LoadState.ids)>> \in Seq(Items)
        /\ Cleanup(LoadState) \in Seq(Items)
    <3>1. 1 \in Nat \ {0}
      OBVIOUS
    <3> QED
      BY <1>1, <2>1, <3>1, SeriesTypes, ItemTypes, CleanupType
  <2>8. Run(Migrate(LoadState), Real, t, View, TRUE)
    <3> HIDE DEF t1, u
    <3>1. Run(SetAll(1, Copied) \o <<Publish(1, LoadState.ids)>>, Real, u, View, TRUE)
      BY <2>2, <2>5, <2>7, RunJoin
    <3>2. Run((SetAll(1, Copied) \o <<Publish(1, LoadState.ids)>>) \o Cleanup(LoadState),
              Real, t, View, TRUE)
      BY <2>6, <2>7, <3>1, JoinType, RunJoin
    <3> QED
      BY <1>3, <3>2, MigrateIs
  <2>9. Active.gen = 1
    BY <1>3 DEF Active
  <2> QED
    BY <1>1, <2>6, <2>8, <2>9
<1> QED
  BY <1>2, <1>3

\* A series in four parts, bracketed in three ways.
Nested(m, p, c, z) == m \o ((p \o c) \o z)
Paired(m, p, c, z) == (m \o p) \o (c \o z)
InARow(m, p, c, z) == ((m \o p) \o c) \o z

LEMMA Associates ==
  \A a, b, c \in Seq(Items) : (a \o b) \o c = a \o (b \o c)
BY ConcatAssociative

LEMMA Regroup ==
  ASSUME NEW m \in Seq(Items), NEW p \in Seq(Items), NEW c \in Seq(Items),
         NEW z \in Seq(Items)
  PROVE  /\ m \o ((p \o c) \o z) = ((m \o p) \o c) \o z
         /\ Nested(m, p, c, z) = Paired(m, p, c, z)
         /\ InARow(m, p, c, z) = Paired(m, p, c, z)
<1>1. p \o c \in Seq(Items) /\ m \o p \in Seq(Items)
  BY JoinType
<1>2. (m \o (p \o c)) \o z = m \o ((p \o c) \o z)
  <2>1. PICK w \in Seq(Items) : w = p \o c
    BY <1>1
  <2>2. (m \o w) \o z = m \o (w \o z)
    BY Associates, Zenon
  <2> QED
    BY <2>1, <2>2
<1>3. (m \o p) \o c = m \o (p \o c)
  BY Associates, Zenon
<1>4. ((m \o p) \o c) \o z = (m \o p) \o (c \o z)
  <2>1. PICK w \in Seq(Items) : w = m \o p
    BY <1>1
  <2>2. (w \o c) \o z = w \o (c \o z)
    BY Associates, Zenon
  <2> QED
    BY <2>1, <2>2
<1>5. m \o ((p \o c) \o z) = ((m \o p) \o c) \o z
  BY <1>2, <1>3
<1>6. InARow(m, p, c, z) = Paired(m, p, c, z)
  BY <1>4 DEF InARow, Paired
<1>7. Nested(m, p, c, z) = InARow(m, p, c, z)
  BY <1>5 DEF InARow, Nested
<1> QED
  BY <1>5, <1>6, <1>7

\* A series that shows nothing but q ends with its rows all there.
LEMMA RunEnds ==
  ASSUME NEW sc \in Seq(Items), NEW s, NEW t, NEW q, NEW e, Run(sc, s, t, q, e)
  PROVE  Whole(t)
<1>1. PICK T : Path(sc, T) /\ T[Len(sc) + 1] = t
  BY DEF Run
<1>2. Len(sc) + 1 \in 1..Len(sc) + 1
  <2>1. Len(sc) \in Nat
    OBVIOUS
  <2> QED
    BY <2>1
<1> QED
  BY <1>1, <1>2 DEF Path

\* A batch that goes beside the stored rows, or over them, and is published.
LEMMA PlacePlan ==
  ASSUME TypeOK, Whole(Real), NEW b \in Seq(Records), NEW ids \in Seq(Ids),
         NEW e \in BOOLEAN, ~BatchOverwrites => e,
         Range(ids) = Range(Active.ids) \cup BatchIds(b),
         e => \A k \in DOMAIN b : b[k].id \notin Range(Active.ids)
  PROVE  Plan(((Migrate(LoadState) \o SetAll(Active.gen, b))
                 \o <<Publish(Active.gen, ids)>>) \o <<Sweep(Active.gen)>>,
              Real, View, Over(View, b))
<1> DEFINE g == Active.gen
           m == Migrate(LoadState)
<1>1. PICK t : /\ Proper(t) /\ Whole(t) /\ ViewOf(t) = View
               /\ t.gen = g /\ t.ids = Range(Active.ids)
               /\ Run(m, Real, t, View, TRUE)
  BY MigrateRuns
<1>2. /\ g \in Nat \ {0} /\ m \in Seq(Items) /\ SetAll(g, b) \in Seq(Items)
      /\ <<Publish(g, ids)>> \in Seq(Items) /\ <<Sweep(g)>> \in Seq(Items)
  <2>1. g \in Nat \ {0} /\ m \in Seq(Items)
    BY ReadTypes, MigrateIs
  <2> HIDE DEF g, m
  <2> QED
    BY <2>1, SeriesTypes, ItemTypes
<1> HIDE DEF g, m
<1> DEFINE t1 == At(t.gen, t.ids, Written(t.rows, g, b, Len(b)))
           u == At(g, Range(ids), Written(t.rows, g, b, Len(b)))
<1>3. Run(SetAll(g, b), t, t1, View, e)
  BY <1>1, RunSets
<1>4. Proper(u) /\ Whole(u) /\ ViewOf(u) = Over(View, b) /\ u.gen = g
  <2>1. Keeps(t.rows, g, View) /\ DOMAIN View = t.ids
    BY <1>1, ViewFacts DEF Keeps, Whole
  <2>2. Range(ids) = DOMAIN View \cup BatchIds(b)
    BY <1>1, <2>1
  <2>3. u = At(g, Range(ids), Written(t.rows, g, b, Len(b)))
    OBVIOUS
  <2> HIDE DEF u
  <2> QED
    BY <2>1, <2>2, <2>3, WrittenView
<1>5. Moves(Publish(g, ids), t1, u)
  BY <1>2 DEF Moves, Publish, At
<1> HIDE DEF t1, u
<1>6. Run(m \o SetAll(g, b), Real, t1, View, e)
  <2>1. Run(m, Real, t, View, e)
    BY <1>1, RunWeaker
  <2> QED
    BY <1>2, <1>3, <2>1, RunJoin
<1>7. PICK v : Run(<<Sweep(g)>>, u, v, Over(View, b), e)
  <2>1. PICK v : Run(<<Sweep(g)>>, u, v, Over(View, b), TRUE)
    BY <1>4, RunSweep
  <2> QED
    BY <2>1, RunWeaker
<1>8. m \o SetAll(g, b) \in Seq(Items)
  BY <1>2, JoinType
<1>9. Trails(<<Sweep(g)>>)
  BY TrailsFacts
<1>10. Plan(((m \o SetAll(g, b)) \o <<Publish(g, ids)>>) \o <<Sweep(g)>>,
            Real, View, Over(View, b))
  BY <1>2, <1>5, <1>6, <1>7, <1>8, <1>9, PlanCommit
<1> QED
  BY <1>10 DEF g, m

\* put.
LEMMA PutPlan ==
  ASSUME TypeOK, Whole(Real), NEW r \in Records
  PROVE  Plan(Migrate(LoadState) \o PutScript(Active, r), Real, View, Over(View, <<r>>))
<1> DEFINE g == Active.gen
           m == Migrate(LoadState)
           b == <<r>>
<1>1. /\ g \in Nat \ {0} /\ m \in Seq(Items) /\ Active.ids \in Seq(Ids)
      /\ <<Set(g, r)>> \in Seq(Items) /\ <<Sweep(g)>> \in Seq(Items) /\ <<>> \in Seq(Items)
  <2>1. g \in Nat \ {0} /\ m \in Seq(Items) /\ Active.ids \in Seq(Ids)
    BY ReadTypes, MigrateIs
  <2> HIDE DEF g, m
  <2> QED
    BY <2>1, ItemTypes
<1>2. /\ b \in Seq(Records) /\ Len(b) = 1 /\ DOMAIN b = 1..1 /\ b[1] = r
      /\ r.id \in Ids
  BY DEF Records
<1>3. SetAll(g, b) = <<Set(g, r)>> /\ BatchIds(b) = {r.id}
  BY <1>2 DEF SetAll, BatchIds
<1> HIDE DEF g, m, b
<1>4. CASE r.id \notin Range(Active.ids)
  <2> DEFINE ids == Append(Active.ids, r.id)
  <2>1. ids \in Seq(Ids) /\ Range(ids) = Range(Active.ids) \cup BatchIds(b)
    BY <1>1, <1>2, <1>3, AppendFacts
  <2>2. <<Publish(g, ids)>> \in Seq(Items)
    BY <1>1, <2>1, ItemTypes
  <2>3. PutScript(Active, r) = (<<Set(g, r)>> \o <<Publish(g, ids)>>) \o <<Sweep(g)>>
    BY <1>4 DEF PutScript, g
  <2> HIDE DEF ids
  <2>4. Plan(((m \o SetAll(g, b)) \o <<Publish(g, ids)>>) \o <<Sweep(g)>>,
             Real, View, Over(View, b))
    <3>1. TRUE => \A k \in DOMAIN b : b[k].id \notin Range(Active.ids)
      BY <1>2, <1>4
    <3>2. TRUE \in BOOLEAN /\ (~BatchOverwrites => TRUE)
      OBVIOUS
    <3> QED
      BY <1>2, <2>1, <3>1, <3>2, PlacePlan DEF g, m
  <2>5. m \o PutScript(Active, r)
          = ((m \o SetAll(g, b)) \o <<Publish(g, ids)>>) \o <<Sweep(g)>>
    BY <1>1, <1>3, <2>2, <2>3, Regroup
  <2> QED
    BY <2>4, <2>5 DEF m, b
<1>5. CASE r.id \in Range(Active.ids)
  <2>1. PICK t : /\ Proper(t) /\ Whole(t) /\ ViewOf(t) = View
                 /\ t.gen = g /\ t.ids = Range(Active.ids)
                 /\ Run(m, Real, t, View, TRUE)
    BY MigrateRuns DEF g, m
  <2>0. PICK I : I = t.ids
    OBVIOUS
  <2> DEFINE u == At(g, I, Written(t.rows, g, b, Len(b)))
  <2>2. Proper(u) /\ Whole(u) /\ ViewOf(u) = Over(View, b) /\ u.gen = g
    <3>1. Keeps(t.rows, g, View) /\ DOMAIN View = t.ids
      BY <2>1, ViewFacts DEF Keeps, Whole
    <3>2. I = DOMAIN View \cup BatchIds(b)
      BY <1>3, <1>5, <2>0, <2>1, <3>1
    <3>3. u = At(g, I, Written(t.rows, g, b, Len(b)))
      OBVIOUS
    <3>4. b \in Seq(Records)
      BY <1>2
    <3> HIDE DEF u
    <3> QED
      BY <3>1, <3>2, <3>3, <3>4, WrittenView
  <2>3. Moves(Set(g, r), t, u)
    <3>1. t.rows = Less(t.rows, {})
      BY <2>1 DEF Proper, At
    <3>2. Written(t.rows, g, b, 0) = t.rows
      BY <3>1, WrittenNone
    <3>3. 1 \in Nat \ {0} /\ 1 - 1 = 0
      OBVIOUS
    <3>4. Written(t.rows, g, b, 1) = With(Written(t.rows, g, b, 1 - 1), <<g, b[1].id>>, b[1].val)
      BY <3>3, WrittenStep
    <3>5. Written(t.rows, g, b, Len(b)) = With(t.rows, <<g, r.id>>, r.val)
      BY <1>2, <3>2, <3>3, <3>4
    <3> QED
      BY <2>0, <2>1, <3>5 DEF Moves, Set
  <2> HIDE DEF u
  <2>4. PICK v : Run(<<Sweep(g)>>, u, v, Over(View, b), TRUE)
    BY <2>2, RunSweep
  <2>5. Plan((m \o <<Set(g, r)>>) \o <<Sweep(g)>>, Real, View, Over(View, b))
    <3>1. Trails(<<Sweep(g)>>)
      BY TrailsFacts
    <3> QED
      BY <1>1, <2>1, <2>3, <2>4, <3>1, PlanCommit
  <2>6. PutScript(Active, r) = (<<Set(g, r)>> \o <<>>) \o <<Sweep(g)>>
    BY <1>5 DEF PutScript, g
  <2>7. m \o PutScript(Active, r) = (m \o <<Set(g, r)>>) \o <<Sweep(g)>>
    <3>1. <<>> \o <<Sweep(g)>> = <<Sweep(g)>>
      BY <1>1, ConcatEmptySeq
    <3> QED
      BY <1>1, <2>6, <3>1, Regroup
  <2> QED
    BY <2>5, <2>7 DEF m, b
<1> QED
  BY <1>4, <1>5

\* putBatch.
LEMMA PutBatchPlan ==
  ASSUME TypeOK, Whole(Real), NEW b \in Seq(Records), b # <<>>,
         BatchOverwrites \/ \A k \in DOMAIN b : b[k].id \notin DOMAIN View
  PROVE  Plan(Migrate(LoadState) \o PutBatchScript(Active, b), Real, View, Over(View, b))
<1> DEFINE g == Active.gen
           m == Migrate(LoadState)
           ids == Extended(Active.ids, b)
           e == ~BatchOverwrites
<1>1. /\ g \in Nat \ {0} /\ m \in Seq(Items) /\ Active.ids \in Seq(Ids)
      /\ Active.ids = LoadState.ids
  BY ReadTypes, MigrateIs
<1>2. /\ ids \in Seq(Ids) /\ Range(ids) = Range(Active.ids) \cup BatchIds(b)
      /\ Len(ids) = Len(Active.ids) => Range(ids) = Range(Active.ids)
  BY <1>1, ExtendedFacts, Zenon DEF BatchIds
<1>3. DOMAIN View = Range(Active.ids)
  BY <1>1, RealIs, ViewFacts
<1>4. e \in BOOLEAN /\ (e => \A k \in DOMAIN b : b[k].id \notin Range(Active.ids))
  BY <1>3, StoreAssumption
<1>5. PutBatchScript(Active, b) =
        (SetAll(g, b) \o (IF Len(ids) = Len(Active.ids) THEN <<>> ELSE <<Publish(g, ids)>>))
          \o <<Sweep(g)>>
  BY DEF PutBatchScript
<1> HIDE DEF g, m, ids, e
<1>6. /\ SetAll(g, b) \in Seq(Items) /\ <<Publish(g, ids)>> \in Seq(Items)
      /\ <<Sweep(g)>> \in Seq(Items) /\ <<>> \in Seq(Items)
  BY <1>1, <1>2, SeriesTypes, ItemTypes
<1>7. CASE Len(ids) # Len(Active.ids)
  <2>1. Plan(((m \o SetAll(g, b)) \o <<Publish(g, ids)>>) \o <<Sweep(g)>>,
             Real, View, Over(View, b))
    <3>1. ~BatchOverwrites => e
      BY DEF e
    <3> QED
      BY <1>2, <1>4, <3>1, PlacePlan DEF g, m
  <2>2. m \o PutBatchScript(Active, b)
          = ((m \o SetAll(g, b)) \o <<Publish(g, ids)>>) \o <<Sweep(g)>>
    BY <1>1, <1>5, <1>6, <1>7, Regroup
  <2> QED
    BY <2>1, <2>2 DEF m
<1>8. CASE Len(ids) = Len(Active.ids)
  <2>1. BatchOverwrites
    <3>1. DOMAIN b = 1..Len(b) /\ Len(b) \in Nat /\ Len(b) # 0
      BY RecordFacts
    <3>2. 1 \in DOMAIN b /\ b[1].id \in BatchIds(b)
      BY <3>1 DEF BatchIds
    <3>3. b[1].id \in Range(Active.ids)
      BY <1>2, <1>8, <3>2
    <3> QED
      BY <1>3, <3>2, <3>3
  <2>2. PICK t : /\ Proper(t) /\ Whole(t) /\ t.gen = g /\ Run(m, Real, t, View, TRUE)
    BY MigrateRuns DEF g, m
  <2>3. PICK t1 : t1 = At(t.gen, t.ids, Written(t.rows, g, b, Len(b)))
    OBVIOUS
  <2>4. Run(SetAll(g, b), t, t1, View, FALSE)
    BY <2>2, <2>3, RunSets
  <2>5. Proper(t1) /\ Whole(t1) /\ t1.gen = g
    <3>1. Whole(t1)
      BY <1>6, <2>4, RunEnds
    <3>2. t1.rows = Less(t1.rows, {})
      BY <2>3 DEF At, Less, Written
    <3> QED
      BY <2>2, <2>3, <3>1, <3>2 DEF Proper, At
  <2>6. PICK v : Run(<<Sweep(g)>>, t1, v, ViewOf(t1), TRUE)
    BY <2>5, RunSweep
  <2>7. Run(<<Sweep(g)>>, t1, v, View, FALSE)
    BY <2>6 DEF Run
  <2>8. Run(m \o SetAll(g, b), Real, t1, View, FALSE) /\ m \o SetAll(g, b) \in Seq(Items)
    <3>1. Run(m, Real, t, View, FALSE)
      BY <2>2, RunWeaker
    <3> QED
      BY <1>1, <1>6, <2>4, <3>1, RunJoin, JoinType
  <2>9. Run((m \o SetAll(g, b)) \o <<Sweep(g)>>, Real, v, View, FALSE)
    BY <1>6, <2>7, <2>8, RunJoin
  <2>10. Plan((m \o SetAll(g, b)) \o <<Sweep(g)>>, Real, View, Over(View, b))
    BY <2>1, <2>9, PlanAny
  <2>11. m \o PutBatchScript(Active, b) = (m \o SetAll(g, b)) \o <<Sweep(g)>>
    <3>1. <<>> \o <<Sweep(g)>> = <<Sweep(g)>>
      BY <1>6, ConcatEmptySeq
    <3> QED
      BY <1>1, <1>5, <1>6, <1>8, <3>1, Regroup
  <2> QED
    BY <2>10, <2>11 DEF m
<1> QED
  BY <1>7, <1>8

\* A manifest with fewer ids: the rows that go with the others.
LEMMA FewerView ==
  ASSUME NEW s, Proper(s), Whole(s), NEW I, I \subseteq s.ids,
         NEW u, u = At(s.gen, I, s.rows)
  PROVE  /\ Proper(u) /\ Whole(u) /\ u.gen = s.gen /\ u.ids = I
         /\ ViewOf(u) = Restrict(ViewOf(s), I)
<1>1. u.gen = s.gen /\ u.ids = I /\ u.rows = s.rows
  BY DEF At
<1>2. s.rows = Less(s.rows, {})
  BY DEF Proper, At
<1>3. Proper(u)
  BY <1>1, <1>2 DEF Proper
<1>4. Whole(u)
  BY <1>1 DEF Whole
<1>5. ViewOf(u) = [i \in I |-> s.rows[<<s.gen, i>>]]
  BY <1>1 DEF ViewOf
<1>6. Restrict(ViewOf(s), I) = [i \in I |-> ViewOf(s)[i]]
  BY DEF Restrict
<1>7. \A i \in I : ViewOf(s)[i] = s.rows[<<s.gen, i>>]
  BY ViewFacts
<1> QED
  BY <1>1, <1>3, <1>4, <1>5, <1>6, <1>7

\* remove and removeBatch.
LEMMA RemovePlan ==
  ASSUME TypeOK, Whole(Real), NEW S
  PROVE  Plan(Migrate(LoadState) \o RemoveScript(Active, S),
              Real, View, Restrict(View, DOMAIN View \ S))
<1> DEFINE g == Active.gen
           m == Migrate(LoadState)
           left == Among(Active.ids, Ids \ S)
           gone == Among(Active.ids, S)
           to == Restrict(View, DOMAIN View \ S)
<1>1. /\ g \in Nat \ {0} /\ m \in Seq(Items) /\ Active.ids \in Seq(Ids)
      /\ Active.ids = LoadState.ids
  BY ReadTypes, MigrateIs
<1>2. /\ left \in Seq(Ids) /\ Range(left) = Range(Active.ids) \cap (Ids \ S)
      /\ gone \in Seq(Ids) /\ Range(gone) = Range(Active.ids) \cap S
  BY <1>1, AmongFacts
<1>3. DOMAIN View = Range(Active.ids) /\ Range(Active.ids) \subseteq Ids
  <2>1. DOMAIN View = Range(Active.ids)
    BY <1>1, RealIs, ViewFacts
  <2>2. \A k \in DOMAIN Active.ids : Active.ids[k] \in Ids
    BY <1>1
  <2> QED
    BY <2>1, <2>2 DEF Range
<1>4. PICK t : /\ Proper(t) /\ Whole(t) /\ ViewOf(t) = View
               /\ t.gen = g /\ t.ids = Range(Active.ids)
               /\ Run(m, Real, t, View, TRUE)
  BY MigrateRuns
<1>5. RemoveScript(Active, S) =
        IF gone = <<>> THEN <<>>
        ELSE (<<Publish(g, left)>> \o DropAll(g, gone)) \o <<Sweep(g)>>
  BY DEF RemoveScript
<1> HIDE DEF g, m, left, gone
<1>6. CASE gone = <<>>
  <2>1. m \o <<>> = m
    BY <1>1, ConcatEmptySeq
  <2>2. Range(gone) = {}
    BY <1>6 DEF Range
  <2>3. to = View
    <3>1. DOMAIN View \ S = DOMAIN View
      BY <1>2, <1>3, <2>2
    <3>2. to = [i \in DOMAIN View |-> View[i]]
      BY <3>1 DEF Restrict
    <3> QED
      BY <3>2 DEF View
  <2>4. Plan(m, Real, View, View)
    BY <1>1, <1>4, PlanQuiet
  <2> QED
    BY <1>5, <1>6, <2>1, <2>3, <2>4 DEF m
<1>7. CASE gone # <<>>
  <2>1. PICK u : u = At(t.gen, Range(left), t.rows)
    OBVIOUS
  <2>2. /\ Proper(u) /\ Whole(u) /\ u.gen = g /\ u.ids = Range(left)
        /\ ViewOf(u) = to
    <3>1. Range(left) \subseteq t.ids /\ Range(left) = DOMAIN View \ S
      BY <1>2, <1>3, <1>4
    <3> QED
      BY <1>4, <2>1, <3>1, FewerView
  <2>3. Moves(Publish(g, left), t, u)
    BY <1>1, <1>4, <2>1 DEF Moves, Publish
  <2>4. PICK w : /\ Proper(w) /\ Whole(w) /\ w.gen = g
                 /\ ViewOf(w) = to /\ Run(DropAll(g, gone), u, w, to, TRUE)
    <3>1. Range(gone) \cap u.ids = {}
      BY <1>2, <2>2
    <3> HIDE DEF to
    <3> QED
      BY <1>2, <2>2, <3>1, RunDrops
  <2>5. PICK v : Run(<<Sweep(g)>>, w, v, to, TRUE)
    BY <2>4, RunSweep
  <2>6. /\ DropAll(g, gone) \in Seq(Items) /\ <<Publish(g, left)>> \in Seq(Items)
        /\ <<Sweep(g)>> \in Seq(Items)
    BY <1>1, <1>2, SeriesTypes, ItemTypes
  <2>7. /\ Run(DropAll(g, gone) \o <<Sweep(g)>>, u, v, to, TRUE)
        /\ DropAll(g, gone) \o <<Sweep(g)>> \in Seq(Items)
    BY <2>4, <2>5, <2>6, RunJoin, JoinType
  <2>8. Trails(DropAll(g, gone) \o <<Sweep(g)>>)
    BY <1>2, <2>6, TrailsFacts
  <2>9. Plan((m \o <<Publish(g, left)>>) \o (DropAll(g, gone) \o <<Sweep(g)>>),
             Real, View, to)
    <3> HIDE DEF to
    <3> QED
      BY <1>1, <1>4, <2>3, <2>6, <2>7, <2>8, PlanCommit
  <2>10. m \o RemoveScript(Active, S)
           = (m \o <<Publish(g, left)>>) \o (DropAll(g, gone) \o <<Sweep(g)>>)
    <3>1. PICK p \in Seq(Items), c \in Seq(Items), z \in Seq(Items) :
            p = <<Publish(g, left)>> /\ c = DropAll(g, gone) /\ z = <<Sweep(g)>>
      BY <2>6
    <3>2. RemoveScript(Active, S) = (p \o c) \o z
      BY <1>5, <1>7, <3>1
    <3>3. Nested(m, p, c, z) = Paired(m, p, c, z)
      BY <1>1, Regroup
    <3> QED
      BY <3>1, <3>2, <3>3 DEF Nested, Paired
  <2> QED
    BY <2>9, <2>10 DEF m
<1> QED
  BY <1>6, <1>7

\* clear.
LEMMA ClearPlan ==
  ASSUME TypeOK, Whole(Real)
  PROVE  Plan(Migrate(LoadState) \o ClearScript(Active), Real, View, Restrict(View, {}))
<1> DEFINE g == Active.gen
           m == Migrate(LoadState)
           to == Restrict(View, {})
<1>1. /\ g \in Nat \ {0} /\ m \in Seq(Items) /\ Active.ids \in Seq(Ids)
  BY ReadTypes, MigrateIs
<1>2. PICK t : /\ Proper(t) /\ Whole(t) /\ ViewOf(t) = View
               /\ t.gen = g /\ Run(m, Real, t, View, TRUE)
  BY MigrateRuns
<1>3. ClearScript(Active) = (<<Publish(g, <<>>)>> \o Cleanup(Active)) \o <<Sweep(g)>>
  BY DEF ClearScript
<1>4. PICK p \in Seq(Items), c \in Seq(Items), z \in Seq(Items) :
        p = <<Publish(g, <<>>)>> /\ c = Cleanup(Active) /\ z = <<Sweep(g)>>
  <2>1. <<>> \in Seq(Ids)
    OBVIOUS
  <2> HIDE DEF g
  <2>2. <<Publish(g, <<>>)>> \in Seq(Items) /\ <<Sweep(g)>> \in Seq(Items)
    BY <1>1, <2>1, ItemTypes
  <2>3. Cleanup(Active) \in Seq(Items)
    BY <1>1, CleanupType DEF g
  <2> QED
    BY <2>2, <2>3
<1>5. PICK u : u = At(t.gen, {}, t.rows)
  OBVIOUS
<1>6. Proper(u) /\ Whole(u) /\ u.gen = g /\ u.ids = {} /\ ViewOf(u) = to
  BY <1>2, <1>5, FewerView
<1> HIDE DEF to, m
<1>7. Moves(Publish(g, <<>>), t, u)
  <2>1. Range(<<>>) = {}
    BY DEF Range
  <2> QED
    BY <1>1, <1>2, <1>5, <2>1 DEF Moves, Publish
<1>8. PICK w : /\ Proper(w) /\ Whole(w) /\ w.gen = g
               /\ ViewOf(w) = to /\ Run(c, u, w, to, TRUE)
  <2>1. u.gen # 0 /\ Active.gen \in Nat /\ Range(Active.ids) \cap u.ids = {}
    BY <1>1, <1>6
  <2> QED
    BY <1>1, <1>4, <1>6, <2>1, RunCleanup
<1>9. PICK v : Run(z, w, v, to, TRUE)
  BY <1>4, <1>8, RunSweep
<1>10. Run(c \o z, u, v, to, TRUE) /\ c \o z \in Seq(Items)
  BY <1>8, <1>9, RunJoin, JoinType
<1>11. Trails(c \o z)
  BY <1>1, <1>4, CleanupTrails, TrailsFacts
<1>12. Plan((m \o p) \o (c \o z), Real, View, to)
  BY <1>1, <1>2, <1>4, <1>7, <1>10, <1>11, PlanCommit
<1>13. Nested(m, p, c, z) = Paired(m, p, c, z)
  BY <1>1, Regroup
<1> QED
  BY <1>3, <1>4, <1>12, <1>13 DEF m, to, Nested, Paired

\* replaceAll: the next generation is whole before it is named.
LEMMA ReplacePlan ==
  ASSUME TypeOK, Whole(Real), NEW b \in Seq(Records)
  PROVE  Plan(ReplaceScript(LoadState, b), Real, View, Over(Restrict(View, {}), b))
<1> DEFINE g == LoadState.gen + 1
           ids == Extended(<<>>, b)
           to == Over(Restrict(View, {}), b)
<1>1. /\ LoadState.gen \in Nat /\ LoadState.ids \in Seq(Ids) /\ g \in Nat \ {0}
      /\ g # LoadState.gen
      /\ Proper(Real) /\ ViewOf(Real) = View /\ Real.gen = LoadState.gen
  BY ReadTypes, RealIs
<1>2. ids \in Seq(Ids) /\ Range(ids) = BatchIds(b)
  <2>1. <<>> \in Seq(Ids) /\ Range(<<>>) = {}
    BY DEF Range
  <2>2. ids \in Seq(Ids) /\ Range(ids) = Range(<<>>) \cup BatchIds(b)
    BY <2>1, ExtendedFacts, Zenon DEF BatchIds
  <2> HIDE DEF ids
  <2> QED
    BY <2>1, <2>2
<1>3. ReplaceScript(LoadState, b) =
        ((SetAll(g, b) \o <<Publish(g, ids)>>) \o Cleanup(LoadState)) \o <<Sweep(g)>>
  BY DEF ReplaceScript
<1> HIDE DEF g, ids
<1>4. PICK m \in Seq(Items), p \in Seq(Items), c \in Seq(Items), z \in Seq(Items) :
        /\ m = SetAll(g, b) /\ p = <<Publish(g, ids)>>
        /\ c = Cleanup(LoadState) /\ z = <<Sweep(g)>>
  <2>1. /\ SetAll(g, b) \in Seq(Items) /\ <<Publish(g, ids)>> \in Seq(Items)
        /\ <<Sweep(g)>> \in Seq(Items) /\ Cleanup(LoadState) \in Seq(Items)
    BY <1>1, <1>2, SeriesTypes, ItemTypes, CleanupType
  <2> QED
    BY <2>1
<1>5. PICK r : r = Written(Real.rows, g, b, Len(b))
  OBVIOUS
<1>6. PICK t : t = At(Real.gen, Real.ids, r)
  OBVIOUS
<1>7. PICK u : u = At(g, BatchIds(b), r)
  OBVIOUS
<1>8. Run(m, Real, t, View, TRUE)
  BY <1>1, <1>4, <1>5, <1>6, RunSets
<1>9. Proper(u) /\ Whole(u) /\ u.gen = g /\ ViewOf(u) = to
  <2>1. DOMAIN Restrict(View, {}) = {}
    BY DEF Restrict
  <2>2. PICK f : f = Restrict(View, {})
    OBVIOUS
  <2>3. Proper(u) /\ Whole(u) /\ u.gen = g /\ ViewOf(u) = Over(f, b)
    BY <1>5, <1>7, <2>1, <2>2, WrittenAnew
  <2> QED
    BY <2>2, <2>3
<1> HIDE DEF to
<1>10. Moves(Publish(g, ids), t, u)
  BY <1>1, <1>2, <1>6, <1>7 DEF Moves, Publish, At
<1>11. PICK w : /\ Proper(w) /\ Whole(w) /\ w.gen = g
                /\ ViewOf(w) = to /\ Run(c, u, w, to, TRUE)
  <2>1. u.gen # 0 /\ LoadState.gen # u.gen
    BY <1>1, <1>9
  <2> QED
    BY <1>1, <1>4, <1>9, <2>1, RunCleanup
<1>12. PICK v : Run(z, w, v, to, TRUE)
  BY <1>4, <1>11, RunSweep
<1>13. Run(c \o z, u, v, to, TRUE) /\ c \o z \in Seq(Items)
  BY <1>11, <1>12, RunJoin, JoinType
<1>14. Trails(c \o z)
  BY <1>1, <1>4, CleanupTrails, TrailsFacts
<1>15. Plan((m \o p) \o (c \o z), Real, View, to)
  BY <1>4, <1>8, <1>10, <1>13, <1>14, PlanCommit
<1>16. InARow(m, p, c, z) = Paired(m, p, c, z)
  BY Regroup
<1> QED
  BY <1>3, <1>4, <1>15, <1>16 DEF to, InARow, Paired

\* loadAll.
LEMMA LoadAllPlan ==
  ASSUME TypeOK, Whole(Real)
  PROVE  Plan(<<Sweep(LoadState.gen)>>, Real, View, View)
<1>1. /\ LoadState.gen \in Nat
      /\ Proper(Real) /\ ViewOf(Real) = View /\ Real.gen = LoadState.gen
  BY ReadTypes, RealIs
<1>2. <<Sweep(LoadState.gen)>> \in Seq(Items)
  BY <1>1, ItemTypes
<1>3. PICK t : Run(<<Sweep(Real.gen)>>, Real, t, ViewOf(Real), TRUE)
  BY <1>1, RunSweep
<1> QED
  BY <1>1, <1>2, <1>3, PlanQuiet

\* Every method starts with a plan from the storage as it is.
LEMMA MethodPlan ==
  ASSUME TypeOK, Whole(Real), Method
  PROVE  /\ ~call.on /\ call'.on /\ call'.from = View
         /\ UNCHANGED <<storageVars, clean, refusals, crashes>>
         /\ Plan(script', Real, View, call'.to)
<1>1. ASSUME NEW steps, NEW to, Start(steps, to)
      PROVE  /\ ~call.on /\ call'.on /\ call'.from = View /\ call'.to = to
             /\ script' = steps
             /\ UNCHANGED <<storageVars, clean, refusals, crashes>>
  BY <1>1 DEF Start
<1>2. CASE LoadAll
  BY <1>1, <1>2, LoadAllPlan DEF LoadAll
<1>3. CASE Clear
  BY <1>1, <1>3, ClearPlan DEF Clear
<1>4. ASSUME NEW r \in Records, Put(r)
      PROVE  /\ ~call.on /\ call'.on /\ call'.from = View
             /\ UNCHANGED <<storageVars, clean, refusals, crashes>>
             /\ Plan(script', Real, View, call'.to)
  BY <1>1, <1>4, PutPlan DEF Put
<1>5. ASSUME NEW b \in Batches, PutBatch(b)
      PROVE  /\ ~call.on /\ call'.on /\ call'.from = View
             /\ UNCHANGED <<storageVars, clean, refusals, crashes>>
             /\ Plan(script', Real, View, call'.to)
  <2>1. b \in Seq(Records)
    BY BatchType
  <2>2. /\ b # <<>>
        /\ BatchOverwrites \/ \A k \in DOMAIN b : b[k].id \notin DOMAIN View
        /\ Start(Migrate(LoadState) \o PutBatchScript(Active, b), Over(View, b))
    BY <1>5 DEF PutBatch
  <2>3. Plan(Migrate(LoadState) \o PutBatchScript(Active, b), Real, View, Over(View, b))
    BY <2>1, <2>2, PutBatchPlan
  <2> QED
    BY <1>1, <2>2, <2>3
<1>6. ASSUME NEW b \in Batches, ReplaceAll(b)
      PROVE  /\ ~call.on /\ call'.on /\ call'.from = View
             /\ UNCHANGED <<storageVars, clean, refusals, crashes>>
             /\ Plan(script', Real, View, call'.to)
  <2>1. b \in Seq(Records)
    BY BatchType
  <2> QED
    BY <1>1, <1>6, <2>1, ReplacePlan DEF ReplaceAll
<1>7. ASSUME NEW S \in SUBSET Ids, Remove(S)
      PROVE  /\ ~call.on /\ call'.on /\ call'.from = View
             /\ UNCHANGED <<storageVars, clean, refusals, crashes>>
             /\ Plan(script', Real, View, call'.to)
  BY <1>1, <1>7, RemovePlan DEF Remove
<1> QED
  BY <1>2, <1>3, <1>4, <1>5, <1>6, <1>7 DEF Method

\* The first call of a plan, and the plan of the rest.
LEMMA PlanStep ==
  ASSUME NEW sc \in Seq(Items), sc # <<>>, NEW s, NEW from, NEW to,
         Plan(sc, s, from, to)
  PROVE  \E t : /\ Moves(Head(sc), s, t) /\ Whole(t) /\ Plan(Tail(sc), t, from, to)
                /\ ~BatchOverwrites =>
                     \/ ViewOf(s) = from /\ ViewOf(t) \in {from, to}
                     \/ /\ ViewOf(s) = to /\ ViewOf(t) = to
                        /\ Head(sc).do \notin Setting
<1>1. PICK T : /\ Path(sc, T) /\ T[1] = s
               /\ ~BatchOverwrites =>
                    /\ ViewOf(T[Len(sc) + 1]) = to
                    /\ \A k \in 1..Len(sc) :
                         \/ ViewOf(T[k]) = from
                         \/ /\ ViewOf(T[k]) = to /\ ViewOf(T[k + 1]) = to
                            /\ sc[k].do \notin Setting
  BY DEF Plan
<1>2. PICK n \in Nat : n = Len(sc) - 1
  OBVIOUS
<1>3. /\ Len(sc) = n + 1 /\ Head(sc) = sc[1] /\ Len(Tail(sc)) = n
      /\ \A k \in 1..n : Tail(sc)[k] = sc[k + 1]
  BY <1>2
<1>4. PICK U : U = [k \in 1..n + 1 |-> T[k + 1]]
  OBVIOUS
<1>5. /\ 1 \in 1..n + 1 /\ n + 1 \in 1..n + 1 /\ 1 \in 1..Len(sc)
      /\ \A k \in 1..n + 1 : k + 1 \in 1..Len(sc) + 1
      /\ \A k \in 1..n : k \in 1..n + 1 /\ k + 1 \in 1..n + 1 /\ k + 1 \in 1..Len(sc)
  BY <1>3
<1>6. U[1] = T[2]
  BY <1>4, <1>5
<1>7. Path(Tail(sc), U)
  <2>1. ASSUME NEW k \in 1..n PROVE Moves(Tail(sc)[k], U[k], U[k + 1])
    <3>1. Moves(sc[k + 1], T[k + 1], T[(k + 1) + 1])
      BY <1>1, <1>5 DEF Path
    <3> QED
      BY <1>3, <1>4, <1>5, <3>1
  <2>2. \A k \in 1..n + 1 : Whole(U[k])
    BY <1>1, <1>4, <1>5 DEF Path
  <2> QED
    BY <1>3, <2>1, <2>2 DEF Path
<1>8. ASSUME ~BatchOverwrites
      PROVE  /\ ViewOf(U[n + 1]) = to
             /\ \A k \in 1..n :
                  \/ ViewOf(U[k]) = from
                  \/ /\ ViewOf(U[k]) = to /\ ViewOf(U[k + 1]) = to
                     /\ Tail(sc)[k].do \notin Setting
  <2>1. ViewOf(U[n + 1]) = to
    BY <1>1, <1>3, <1>4, <1>5, <1>8
  <2>2. ASSUME NEW k \in 1..n
        PROVE  \/ ViewOf(U[k]) = from
               \/ /\ ViewOf(U[k]) = to /\ ViewOf(U[k + 1]) = to
                  /\ Tail(sc)[k].do \notin Setting
    <3>1. \/ ViewOf(T[k + 1]) = from
          \/ /\ ViewOf(T[k + 1]) = to /\ ViewOf(T[(k + 1) + 1]) = to
             /\ sc[k + 1].do \notin Setting
      BY <1>1, <1>5, <1>8
    <3>2. U[k] = T[k + 1] /\ U[k + 1] = T[(k + 1) + 1] /\ Tail(sc)[k] = sc[k + 1]
      BY <1>3, <1>4, <1>5
    <3> QED
      BY <3>1, <3>2
  <2> QED
    BY <2>1, <2>2
<1>9. Plan(Tail(sc), U[1], from, to)
  BY <1>3, <1>7, <1>8 DEF Plan
<1>10. Moves(Head(sc), s, U[1]) /\ Whole(U[1])
  <2>1. Moves(sc[1], T[1], T[1 + 1])
    BY <1>1, <1>5 DEF Path
  <2>2. Whole(U[1])
    BY <1>3, <1>5, <1>7 DEF Path
  <2> QED
    BY <1>1, <1>3, <1>6, <2>1, <2>2
<1>11. ASSUME ~BatchOverwrites
       PROVE  \/ ViewOf(s) = from /\ ViewOf(U[1]) \in {from, to}
              \/ /\ ViewOf(s) = to /\ ViewOf(U[1]) = to
                 /\ Head(sc).do \notin Setting
  <2>1. \/ ViewOf(T[1]) = from
        \/ /\ ViewOf(T[1]) = to /\ ViewOf(T[1 + 1]) = to
           /\ sc[1].do \notin Setting
    BY <1>1, <1>5, <1>11
  <2>2. ViewOf(U[1]) \in {from, to}
    <3>1. CASE n = 0
      BY <1>8, <1>11, <3>1
    <3>2. CASE n # 0
      <4>1. 1 \in 1..n
        BY <3>2
      <4> QED
        BY <1>8, <1>11, <4>1
    <3> QED
      BY <3>1, <3>2
  <2> QED
    BY <1>1, <1>3, <1>6, <2>1, <2>2
<1> QED
  BY <1>9, <1>10, <1>11

\* A plan that has been carried out.
LEMMA PlanEnd ==
  ASSUME NEW s, NEW from, NEW to, Plan(<<>>, s, from, to), ~BatchOverwrites
  PROVE  ViewOf(s) = to
<1>1. Len(<<>>) + 1 = 1
  OBVIOUS
<1> QED
  BY <1>1 DEF Plan
-----------------------------------------------------------------------------
(* The sweep is the last call a method makes.                              *)

NoSweep(sc)   == \A a \in Range(sc) : a.do # "sweep"
HasSweep(sc)  == \E a \in Range(sc) : a.do = "sweep"
SweepLast(sc) == \A k \in 1..Len(sc) : sc[k].do = "sweep" => k = Len(sc)

\* The members of a sequence, of two joined and of one without its head.
LEMMA RangeFacts ==
  /\ \A x, y \in Seq(Items) : Range(x \o y) = Range(x) \cup Range(y)
  /\ \A x \in Seq(Items) : x # <<>> => Range(x) = {Head(x)} \cup Range(Tail(x))
  /\ \A a : Range(<<a>>) = {a}
  /\ Range(<<>>) = {}
<1>1. ASSUME NEW x \in Seq(Items), NEW y \in Seq(Items)
      PROVE  Range(x \o y) = Range(x) \cup Range(y)
  <2>1. /\ Len(x) \in Nat /\ Len(y) \in Nat /\ Len(x \o y) = Len(x) + Len(y)
        /\ DOMAIN x = 1..Len(x) /\ DOMAIN y = 1..Len(y)
        /\ DOMAIN (x \o y) = 1..Len(x) + Len(y)
        /\ \A k \in 1..Len(x) : (x \o y)[k] = x[k]
        /\ \A k \in 1..Len(y) : (x \o y)[k + Len(x)] = y[k]
    OBVIOUS
  <2>2. ASSUME NEW k \in 1..Len(x) + Len(y)
        PROVE  (x \o y)[k] \in Range(x) \cup Range(y)
    <3>1. CASE k <= Len(x)
      BY <2>1, <3>1 DEF Range
    <3>2. CASE ~ (k <= Len(x))
      <4>1. k - Len(x) \in 1..Len(y) /\ k = (k - Len(x)) + Len(x)
        BY <2>1, <3>2
      <4> QED
        BY <2>1, <4>1 DEF Range
    <3> QED
      BY <3>1, <3>2
  <2>3. ASSUME NEW k \in 1..Len(x) PROVE x[k] \in Range(x \o y)
    <3>1. k \in 1..Len(x) + Len(y)
      BY <2>1
    <3> QED
      BY <2>1, <3>1 DEF Range
  <2>4. ASSUME NEW k \in 1..Len(y) PROVE y[k] \in Range(x \o y)
    <3>1. k + Len(x) \in 1..Len(x) + Len(y)
      BY <2>1
    <3> QED
      BY <2>1, <3>1 DEF Range
  <2>5. Range(x \o y) \subseteq Range(x) \cup Range(y)
    <3>1. Range(x \o y) = {(x \o y)[k] : k \in 1..Len(x) + Len(y)}
      BY <2>1 DEF Range
    <3> QED
      BY <2>2, <3>1
  <2>6. Range(x) = {x[k] : k \in 1..Len(x)} /\ Range(y) = {y[k] : k \in 1..Len(y)}
    BY <2>1 DEF Range
  <2>7. Range(x) \subseteq Range(x \o y) /\ Range(y) \subseteq Range(x \o y)
    BY <2>3, <2>4, <2>6
  <2> QED
    BY <2>5, <2>7
<1>2. ASSUME NEW x \in Seq(Items), x # <<>>
      PROVE  Range(x) = {Head(x)} \cup Range(Tail(x))
  <2>1. PICK n \in Nat : n = Len(x) - 1
    BY <1>2
  <2>2. /\ DOMAIN x = 1..n + 1 /\ DOMAIN Tail(x) = 1..n /\ Head(x) = x[1]
        /\ \A k \in 1..n : Tail(x)[k] = x[k + 1]
    BY <1>2, <2>1
  <2>3. /\ 1 \in 1..n + 1 /\ \A k \in 1..n : k + 1 \in 1..n + 1
        /\ \A k \in 1..n + 1 : k = 1 \/ (k - 1 \in 1..n /\ k = (k - 1) + 1)
    OBVIOUS
  <2>4. ASSUME NEW k \in 1..n + 1 PROVE x[k] \in {Head(x)} \cup Range(Tail(x))
    <3>1. CASE k = 1
      BY <2>2, <3>1
    <3>2. CASE k - 1 \in 1..n /\ k = (k - 1) + 1
      BY <2>2, <3>2 DEF Range
    <3> QED
      BY <2>3, <3>1, <3>2
  <2>5. \A k \in 1..n : Tail(x)[k] \in Range(x)
    BY <2>2, <2>3 DEF Range
  <2> QED
    BY <2>2, <2>3, <2>4, <2>5 DEF Range
<1>3. ASSUME NEW a PROVE Range(<<a>>) = {a}
  <2>1. DOMAIN <<a>> = {1} /\ <<a>>[1] = a
    OBVIOUS
  <2> QED
    BY <2>1 DEF Range
<1>4. Range(<<>>) = {}
  BY DEF Range
<1> QED
  BY <1>1, <1>2, <1>3, <1>4, Zenon

LEMMA SweepEnds ==
  ASSUME NEW x \in Seq(Items), NoSweep(x), NEW g, <<Sweep(g)>> \in Seq(Items)
  PROVE  SweepLast(x \o <<Sweep(g)>>) /\ HasSweep(x \o <<Sweep(g)>>)
<1>1. /\ Len(x) \in Nat /\ DOMAIN x = 1..Len(x)
      /\ Len(x \o <<Sweep(g)>>) = Len(x) + 1
      /\ \A k \in 1..Len(x) : (x \o <<Sweep(g)>>)[k] = x[k]
  OBVIOUS
<1>2. ASSUME NEW k \in 1..Len(x) PROVE (x \o <<Sweep(g)>>)[k].do # "sweep"
  BY <1>1 DEF NoSweep, Range
<1>3. SweepLast(x \o <<Sweep(g)>>)
  BY <1>1, <1>2 DEF SweepLast
<1>4. Sweep(g) \in Range(x \o <<Sweep(g)>>)
  <2>1. Range(x \o <<Sweep(g)>>) = Range(x) \cup Range(<<Sweep(g)>>)
    BY RangeFacts, Zenon
  <2>2. Range(<<Sweep(g)>>) = {Sweep(g)}
    BY RangeFacts, Zenon
  <2> QED
    BY <2>1, <2>2
<1>5. Sweep(g).do = "sweep"
  BY DEF Sweep
<1> QED
  BY <1>3, <1>4, <1>5 DEF HasSweep

LEMMA NoSweepLast ==
  ASSUME NEW x \in Seq(Items), NoSweep(x)
  PROVE  SweepLast(x)
BY DEF SweepLast, NoSweep, Range

LEMMA NoSweepFacts ==
  /\ \A q \in Seq(SetItem) : NoSweep(q)
  /\ \A q \in Seq(DropItem) : NoSweep(q)
  /\ \A g, s : NoSweep(<<Publish(g, s)>>)
  /\ \A g, r : NoSweep(<<Set(g, r)>>)
  /\ NoSweep(<<>>) /\ NoSweep(<<[do |-> "dropOrder"]>>)
  /\ \A x, y \in Seq(Items) : NoSweep(x) /\ NoSweep(y) => NoSweep(x \o y)
<1>1. ASSUME NEW q \in Seq(SetItem) PROVE NoSweep(q)
  <2>1. \A k \in DOMAIN q : q[k] \in SetItem
    OBVIOUS
  <2>2. \A a \in SetItem : a.do # "sweep"
    BY DEF SetItem
  <2> QED
    BY <2>1, <2>2 DEF NoSweep, Range
<1>2. ASSUME NEW q \in Seq(DropItem) PROVE NoSweep(q)
  <2>1. \A k \in DOMAIN q : q[k] \in DropItem
    OBVIOUS
  <2>2. \A a \in DropItem : a.do # "sweep"
    BY DEF DropItem
  <2> QED
    BY <2>1, <2>2 DEF NoSweep, Range
<1>3. ASSUME NEW g, NEW s PROVE NoSweep(<<Publish(g, s)>>)
  <2>1. Publish(g, s).do = "publish"
    BY DEF Publish
  <2> QED
    BY <2>1, RangeFacts DEF NoSweep
<1>4. ASSUME NEW g, NEW r PROVE NoSweep(<<Set(g, r)>>)
  <2>1. Set(g, r).do = "set"
    BY DEF Set
  <2> QED
    BY <2>1, RangeFacts DEF NoSweep
<1>5. NoSweep(<<>>) /\ NoSweep(<<[do |-> "dropOrder"]>>)
  BY RangeFacts DEF NoSweep
<1>6. \A x, y \in Seq(Items) : NoSweep(x) /\ NoSweep(y) => NoSweep(x \o y)
  BY RangeFacts DEF NoSweep
<1> QED
  BY <1>1, <1>2, <1>3, <1>4, <1>5, <1>6

LEMMA CleanupNoSweep ==
  ASSUME NEW st, st.gen \in Nat, st.ids \in Seq(Ids)
  PROVE  NoSweep(Cleanup(st))
<1>1. /\ DropAll(st.gen, st.ids) \in Seq(Items) /\ NoSweep(DropAll(st.gen, st.ids))
      /\ <<>> \in Seq(Items) /\ <<[do |-> "dropOrder"]>> \in Seq(Items)
  BY SeriesTypes, ItemTypes, NoSweepFacts
<1>2. NoSweep(<<>>) /\ NoSweep(<<[do |-> "dropOrder"]>>)
  BY NoSweepFacts
<1> QED
  BY <1>1, <1>2, NoSweepFacts DEF Cleanup

\* What a series writes and publishes is of one generation.
OfGeneration(sc, g) == \A a \in Range(sc) : a.do \in Setting => a.gen = g
Publishes(sc)       == \E a \in Range(sc) : a.do = "publish"

\* ensureActiveState alone makes the first generation, without a sweep.
LEMMA MigrateShape ==
  ASSUME TypeOK
  PROVE  /\ NoSweep(Migrate(LoadState))
         /\ LoadState.gen = 0 => /\ OfGeneration(Migrate(LoadState), 1)
                                 /\ Publishes(Migrate(LoadState))
<1>1. CASE LoadState.gen # 0
  BY <1>1, MigrateIs, NoSweepFacts
<1>2. CASE LoadState.gen = 0
  <2>1. /\ LoadState.ids \in Seq(Ids) /\ Copied \in Seq(Records)
        /\ 1 \in Nat \ {0} /\ 1 \in Nat
    BY ReadTypes, CopiedType
  <2>2. PICK x \in Seq(Items), y \in Seq(Items), z \in Seq(Items) :
          /\ x = SetAll(1, Copied) /\ y = <<Publish(1, LoadState.ids)>>
          /\ z = Cleanup(LoadState) /\ NoSweep(x) /\ NoSweep(y) /\ NoSweep(z)
    <3>1. SetAll(1, Copied) \in Seq(Items) /\ NoSweep(SetAll(1, Copied))
      BY <2>1, SeriesTypes, ItemTypes, NoSweepFacts
    <3>2. /\ <<Publish(1, LoadState.ids)>> \in Seq(Items)
          /\ NoSweep(<<Publish(1, LoadState.ids)>>)
      <4>1. PICK g \in Nat \ {0} : g = 1
        BY <2>1
      <4>2. <<Publish(g, LoadState.ids)>> \in Seq(Items)
        BY <2>1, ItemTypes
      <4> QED
        BY <4>1, <4>2, NoSweepFacts
    <3>3. Cleanup(LoadState) \in Seq(Items) /\ NoSweep(Cleanup(LoadState))
      BY <1>2, <2>1, CleanupType, CleanupNoSweep
    <3> QED
      BY <3>1, <3>2, <3>3, Zenon
  <2>3. NoSweep(x) /\ NoSweep(y) /\ NoSweep(z)
    BY <2>2
  <2>4. Migrate(LoadState) = (x \o y) \o z /\ x \o y \in Seq(Items)
    BY <1>2, <2>2, MigrateIs, JoinType
  <2>5. Range(Migrate(LoadState)) = (Range(x) \cup Range(y)) \cup Range(z)
    <3>1. Range(x \o y) = Range(x) \cup Range(y)
      BY RangeFacts, Zenon
    <3>2. PICK w \in Seq(Items) : w = x \o y
      BY <2>4
    <3>3. Range(w \o z) = Range(w) \cup Range(z)
      BY RangeFacts, Zenon
    <3> QED
      BY <2>4, <3>1, <3>2, <3>3
  <2>6. \A a \in Range(x) : a.gen = 1
    <3>1. \A k \in DOMAIN Copied : Set(1, Copied[k]).gen = 1
      BY DEF Set
    <3> QED
      BY <2>2, <3>1 DEF SetAll, Range
  <2>7. Range(y) = {Publish(1, LoadState.ids)}
    BY <2>2, RangeFacts
  <2>8. \A a \in Range(z) : a.do \notin Setting
    <3>1. Trails(z)
      BY <1>2, <2>1, <2>2, CleanupTrails
    <3>2. DOMAIN z = 1..Len(z)
      OBVIOUS
    <3> QED
      BY <3>1, <3>2 DEF Trails, Range
  <2>9. Publish(1, LoadState.ids).do = "publish" /\ Publish(1, LoadState.ids).gen = 1
    BY DEF Publish
  <2>10. OfGeneration(Migrate(LoadState), 1)
    BY <2>5, <2>6, <2>7, <2>8, <2>9 DEF OfGeneration
  <2>11. Publishes(Migrate(LoadState))
    BY <2>5, <2>7, <2>9 DEF Publishes
  <2>12. NoSweep(Migrate(LoadState))
    BY <2>3, <2>5 DEF NoSweep
  <2> QED
    BY <2>10, <2>11, <2>12
<1> QED
  BY <1>1, <1>2

LEMMA SweepAfter ==
  ASSUME NEW m \in Seq(Items), NoSweep(m), NEW x \in Seq(Items), NoSweep(x),
         NEW g \in Nat
  PROVE  /\ SweepLast(m \o (x \o <<Sweep(g)>>)) /\ HasSweep(m \o (x \o <<Sweep(g)>>))
<1>1. <<Sweep(g)>> \in Seq(Items)
  BY ItemTypes
<1>2. m \o x \in Seq(Items) /\ NoSweep(m \o x)
  BY JoinType, NoSweepFacts
<1>3. (m \o x) \o <<Sweep(g)>> = m \o (x \o <<Sweep(g)>>)
  <2>1. PICK w \in Seq(Items) : w = <<Sweep(g)>>
    BY <1>1
  <2>2. (m \o x) \o w = m \o (x \o w)
    BY Associates, Zenon
  <2> QED
    BY <2>1, <2>2
<1>4. SweepLast((m \o x) \o <<Sweep(g)>>) /\ HasSweep((m \o x) \o <<Sweep(g)>>)
  BY <1>1, <1>2, SweepEnds
<1> QED
  BY <1>3, <1>4

\* A method ends in a sweep, unless it is a removal that removes nothing.
LEMMA MethodShape ==
  ASSUME TypeOK, Method
  PROVE  /\ SweepLast(script')
         /\ HasSweep(script') \/ script' = Migrate(LoadState)
<1>1. PICK m \in Seq(Items) : m = Migrate(LoadState) /\ NoSweep(m)
  BY MigrateIs, MigrateShape
<1>2. PICK g \in Nat \ {0} : g = Active.gen
  BY ReadTypes
<1>3. /\ LoadState.gen \in Nat /\ LoadState.ids \in Seq(Ids) /\ Active.ids \in Seq(Ids)
      /\ Active.gen \in Nat
  BY <1>2, ReadTypes
<1>4. <<>> \in Seq(Items) /\ NoSweep(<<>>)
  BY ItemTypes, NoSweepFacts
<1>5. CASE LoadAll
  <2>1. script' = <<>> \o (<<>> \o <<Sweep(LoadState.gen)>>)
    BY <1>5 DEF LoadAll, Start
  <2> QED
    BY <1>3, <1>4, <2>1, SweepAfter
<1>6. CASE Clear
  <2>1. PICK p \in Seq(Items), c \in Seq(Items) :
          /\ p = <<Publish(g, <<>>)>> /\ c = Cleanup(Active)
          /\ NoSweep(p) /\ NoSweep(c)
    <3>1. <<>> \in Seq(Ids)
      OBVIOUS
    <3>2. <<Publish(g, <<>>)>> \in Seq(Items) /\ NoSweep(<<Publish(g, <<>>)>>)
      BY <3>1, ItemTypes, NoSweepFacts
    <3>3. Cleanup(Active) \in Seq(Items) /\ NoSweep(Cleanup(Active))
      BY <1>3, CleanupType, CleanupNoSweep
    <3> QED
      BY <3>2, <3>3
  <2>2. script' = m \o ((p \o c) \o <<Sweep(g)>>)
    BY <1>1, <1>2, <1>6, <2>1 DEF Clear, Start, ClearScript
  <2>3. p \o c \in Seq(Items) /\ NoSweep(p \o c)
    BY <2>1, JoinType, NoSweepFacts
  <2> QED
    BY <1>1, <1>2, <2>2, <2>3, SweepAfter
<1>7. ASSUME NEW r \in Records, Put(r)
      PROVE  SweepLast(script') /\ HasSweep(script')
  <2>1. PICK x \in Seq(Items), y \in Seq(Items) :
          /\ x = <<Set(g, r)>> /\ NoSweep(x) /\ NoSweep(y)
          /\ y = IF r.id \in Range(Active.ids) THEN <<>>
                 ELSE <<Publish(g, Append(Active.ids, r.id))>>
    <3>1. r.id \in Ids
      BY DEF Records
    <3>2. Append(Active.ids, r.id) \in Seq(Ids)
      BY <1>3, <3>1, AppendFacts
    <3>3. /\ <<Publish(g, Append(Active.ids, r.id))>> \in Seq(Items)
          /\ NoSweep(<<Publish(g, Append(Active.ids, r.id))>>)
      BY <3>2, ItemTypes, NoSweepFacts
    <3>4. <<Set(g, r)>> \in Seq(Items) /\ NoSweep(<<Set(g, r)>>)
      BY ItemTypes, NoSweepFacts
    <3> QED
      BY <1>4, <3>3, <3>4
  <2>2. script' = m \o ((x \o y) \o <<Sweep(g)>>)
    BY <1>1, <1>2, <1>7, <2>1 DEF Put, Start, PutScript
  <2>3. x \o y \in Seq(Items) /\ NoSweep(x \o y)
    BY <2>1, JoinType, NoSweepFacts
  <2> QED
    BY <1>1, <1>2, <2>2, <2>3, SweepAfter
<1>8. ASSUME NEW b \in Batches, PutBatch(b)
      PROVE  SweepLast(script') /\ HasSweep(script')
  <2>1. b \in Seq(Records)
    BY BatchType
  <2>2. PICK ids \in Seq(Ids) : ids = Extended(Active.ids, b)
    BY <1>3, <2>1, ExtendedFacts
  <2>3. PICK x \in Seq(Items), y \in Seq(Items) :
          /\ x = SetAll(g, b) /\ NoSweep(x) /\ NoSweep(y)
          /\ y = IF Len(ids) = Len(Active.ids) THEN <<>> ELSE <<Publish(g, ids)>>
    <3>1. SetAll(g, b) \in Seq(Items) /\ NoSweep(SetAll(g, b))
      BY <2>1, SeriesTypes, ItemTypes, NoSweepFacts
    <3>2. <<Publish(g, ids)>> \in Seq(Items) /\ NoSweep(<<Publish(g, ids)>>)
      BY ItemTypes, NoSweepFacts
    <3> QED
      BY <1>4, <3>1, <3>2
  <2>4. script' = m \o ((x \o y) \o <<Sweep(g)>>)
    BY <1>1, <1>2, <1>8, <2>2, <2>3 DEF PutBatch, Start, PutBatchScript
  <2>5. x \o y \in Seq(Items) /\ NoSweep(x \o y)
    BY <2>3, JoinType, NoSweepFacts
  <2> QED
    BY <1>1, <1>2, <2>4, <2>5, SweepAfter
<1>9. ASSUME NEW b \in Batches, ReplaceAll(b)
      PROVE  SweepLast(script') /\ HasSweep(script')
  <2>1. b \in Seq(Records)
    BY BatchType
  <2>2. PICK n \in Nat \ {0} : n = LoadState.gen + 1
    BY <1>3
  <2>3. PICK ids \in Seq(Ids) : ids = Extended(<<>>, b)
    <3>1. <<>> \in Seq(Ids)
      OBVIOUS
    <3> QED
      BY <2>1, <3>1, ExtendedFacts
  <2>4. PICK x \in Seq(Items), y \in Seq(Items), z \in Seq(Items) :
          /\ x = SetAll(n, b) /\ NoSweep(x)
          /\ y = <<Publish(n, ids)>> /\ NoSweep(y)
          /\ z = Cleanup(LoadState) /\ NoSweep(z)
    <3>1. SetAll(n, b) \in Seq(Items) /\ NoSweep(SetAll(n, b))
      BY <2>1, SeriesTypes, ItemTypes, NoSweepFacts
    <3>2. <<Publish(n, ids)>> \in Seq(Items) /\ NoSweep(<<Publish(n, ids)>>)
      BY ItemTypes, NoSweepFacts
    <3>3. Cleanup(LoadState) \in Seq(Items) /\ NoSweep(Cleanup(LoadState))
      BY <1>3, CleanupType, CleanupNoSweep
    <3> QED
      BY <3>1, <3>2, <3>3
  <2>5. script' = ((x \o y) \o z) \o <<Sweep(n)>>
    BY <1>9, <2>2, <2>3, <2>4 DEF ReplaceAll, Start, ReplaceScript
  <2>6. (x \o y) \o z \in Seq(Items) /\ NoSweep((x \o y) \o z) /\ <<Sweep(n)>> \in Seq(Items)
    <3>1. x \o y \in Seq(Items) /\ NoSweep(x \o y)
      BY <2>4, JoinType, NoSweepFacts
    <3> QED
      BY <2>4, <3>1, JoinType, NoSweepFacts, ItemTypes
  <2> QED
    BY <2>5, <2>6, SweepEnds
<1>10. ASSUME NEW S \in SUBSET Ids, Remove(S)
       PROVE  SweepLast(script') /\ (HasSweep(script') \/ script' = m)
  <2>1. PICK left \in Seq(Ids), gone \in Seq(Ids) :
          left = Among(Active.ids, Ids \ S) /\ gone = Among(Active.ids, S)
    BY <1>3, AmongFacts
  <2>2. script' = m \o RemoveScript(Active, S)
    BY <1>1, <1>10 DEF Remove, Start
  <2>3. CASE gone = <<>>
    <3>1. RemoveScript(Active, S) = <<>>
      BY <2>1, <2>3 DEF RemoveScript
    <3>2. m \o <<>> = m
      BY ConcatEmptySeq
    <3> QED
      BY <1>1, <2>2, <3>1, <3>2, NoSweepLast
  <2>4. CASE gone # <<>>
    <3>1. PICK p \in Seq(Items), c \in Seq(Items) :
            /\ p = <<Publish(g, left)>> /\ NoSweep(p)
            /\ c = DropAll(g, gone) /\ NoSweep(c)
      <4>1. <<Publish(g, left)>> \in Seq(Items) /\ NoSweep(<<Publish(g, left)>>)
        BY ItemTypes, NoSweepFacts
      <4>2. DropAll(g, gone) \in Seq(Items) /\ NoSweep(DropAll(g, gone))
        BY SeriesTypes, ItemTypes, NoSweepFacts
      <4> QED
        BY <4>1, <4>2
    <3>2. RemoveScript(Active, S) = (p \o c) \o <<Sweep(g)>>
      BY <1>2, <2>1, <2>4, <3>1 DEF RemoveScript
    <3>3. p \o c \in Seq(Items) /\ NoSweep(p \o c)
      BY <3>1, JoinType, NoSweepFacts
    <3> QED
      BY <1>1, <1>2, <2>2, <3>2, <3>3, SweepAfter
  <2> QED
    BY <2>3, <2>4
<1> QED
  BY <1>1, <1>5, <1>6, <1>7, <1>8, <1>9, <1>10 DEF Method
-----------------------------------------------------------------------------
(* The invariant: the storage holds at least the rows of a state of the     *)
(* running method's plan, so that a removal that threw, or a row written    *)
(* and never named, does no harm.                                          *)

Within(f, h) == \A x \in DOMAIN f : x \in DOMAIN h /\ h[x] = f[x]

Shadow(s) ==
  /\ s.gen = LoadState.gen /\ s.ids = Range(LoadState.ids)
  /\ Within(s.rows, rows) /\ Whole(s)

PlanInvariant ==
  /\ SweepLast(script)
  /\ \E s : Shadow(s) /\ (call.on => Plan(script, s, call.from, call.to))

\* A load finds what it finds in the plan's state.
LEMMA ShadowFacts ==
  ASSUME TypeOK, NEW s, Shadow(s)
  PROVE  Whole(Real) /\ View = ViewOf(s) /\ Shadow(Real)
<1>1. \A i \in Range(LoadState.ids) : /\ <<LoadState.gen, i>> \in DOMAIN rows
                                      /\ rows[<<LoadState.gen, i>>] = s.rows[<<LoadState.gen, i>>]
  BY DEF Shadow, Whole, Within
<1>2. Whole(Real)
  BY <1>1 DEF Whole, Real, At, Less
<1>3. {i \in Range(LoadState.ids) : <<LoadState.gen, i>> \in DOMAIN rows} = Range(LoadState.ids)
  BY <1>1
<1>4. View = [i \in Range(LoadState.ids) |-> rows[<<LoadState.gen, i>>]]
  BY <1>3 DEF View
<1>5. ViewOf(s) = [i \in Range(LoadState.ids) |-> s.rows[<<LoadState.gen, i>>]]
  BY DEF Shadow, ViewOf
<1>6. Within(Real.rows, rows)
  BY DEF Within, Real, At, Less
<1> QED
  BY <1>1, <1>2, <1>4, <1>5, <1>6, RealIs DEF Shadow

\* A call that goes through moves the plan on.
LEMMA Advance ==
  ASSUME TypeOK, NEW s, Shadow(s), NEW t, Moves(Head(script), s, t), Whole(t),
         SetRow \/ PublishManifest \/ RemoveItem
  PROVE  Shadow(t)'
<1>1. CASE SetRow
  <2>1. /\ Doing("set") /\ Head(script).do = "set" /\ Head(script) \in SetItem
    BY <1>1, HeadTypes DEF SetRow, Doing
  <2>2. PICK key, v : key = <<Head(script).gen, Head(script).id>> /\ v = Head(script).val
    OBVIOUS
  <2>3. t = At(s.gen, s.ids, With(s.rows, key, v))
    BY <2>1, <2>2 DEF Moves
  <2>4. rows' = [x \in DOMAIN rows \cup {key} |-> IF x = key THEN v ELSE rows[x]]
    BY <1>1, <2>2 DEF SetRow
  <2>5. Within(t.rows, rows')
    BY <2>3, <2>4 DEF Shadow, Within, At, With
  <2>6. LoadState' = LoadState
    BY <1>1 DEF SetRow, LoadState
  <2>7. t.gen = LoadState.gen /\ t.ids = Range(LoadState.ids)
    BY <2>3 DEF At, Shadow
  <2> QED
    BY <2>5, <2>6, <2>7 DEF Shadow
<1>2. CASE PublishManifest
  <2>1. /\ Head(script).do = "publish" /\ Head(script) \in PublishItem
    BY <1>2, HeadTypes DEF PublishManifest, Doing
  <2>2. PICK g, q : g = Head(script).gen /\ q = Head(script).ids
    OBVIOUS
  <2>3. t = At(g, Range(q), s.rows) /\ g # 0
    BY <2>1, <2>2 DEF Moves
  <2>4. manifest' = [generation |-> g, ids |-> q] /\ rows' = rows
    BY <1>2, <2>2 DEF PublishManifest
  <2>5. LoadState'.gen = g /\ LoadState'.ids = q
    BY <2>3, <2>4 DEF LoadState, Absent
  <2>6. Within(t.rows, rows')
    BY <2>3, <2>4 DEF At, Shadow
  <2> QED
    BY <2>3, <2>5, <2>6 DEF Shadow, At
<1>3. CASE RemoveItem
  <2>1. CASE Head(script).do = "dropOrder"
    <3>1. t = s /\ s.gen # 0
      BY <2>1 DEF Moves
    <3>2. rows' = rows /\ manifest' = manifest
      BY <1>3, <2>1 DEF RemoveItem
    <3>3. manifest # Absent
      BY <3>1 DEF Shadow, LoadState
    <3>4. LoadState' = LoadState
      BY <3>2, <3>3 DEF LoadState
    <3> QED
      BY <3>1, <3>2, <3>4 DEF Shadow
  <2>2. CASE Head(script).do # "dropOrder"
    <3>1. Head(script).do = "drop"
      BY <1>3, <2>2 DEF RemoveItem, Doing
    <3>2. PICK key : key = <<Head(script).gen, Head(script).id>>
      OBVIOUS
    <3>3. t = At(s.gen, s.ids, Less(s.rows, {key}))
      BY <3>1, <3>2 DEF Moves
    <3>4. rows' = [x \in DOMAIN rows \ {key} |-> rows[x]] /\ order' = order /\ manifest' = manifest
      <4>1. rows' = Restrict(rows, DOMAIN rows \ {key}) /\ order' = order /\ manifest' = manifest
        BY <1>3, <2>2, <3>2 DEF RemoveItem
      <4> QED
        BY <4>1 DEF Restrict
    <3>5. LoadState' = LoadState
      BY <3>4 DEF LoadState
    <3>6. Within(t.rows, rows')
      BY <3>3, <3>4 DEF Shadow, Within, At, Less
    <3> QED
      BY <3>3, <3>5, <3>6 DEF Shadow, At
  <2> QED
    BY <2>1, <2>2
<1> QED
  BY <1>1, <1>2, <1>3

\* What is left of the sweep: its keys, none of them a row that counts.
LEMMA SweptPlan ==
  ASSUME TypeOK, NEW s, Shadow(s), NEW t, Moves(Head(script), s, t), Whole(t),
         SweepOrphans, NEW from, NEW to, ~BatchOverwrites => ViewOf(t) = to
  PROVE  /\ Shadow(t)' /\ Plan(script', t, from, to) /\ NoSweep(script')
         /\ script' \in Seq(DropItem)
         /\ Head(script).gen = LoadState.gen
         /\ \A x \in DOMAIN rows : x[1] \notin {0, LoadState.gen} /\ enumerable
              => \E k \in DOMAIN script' : script'[k] = Drop(x[1], x[2])
<1>1. Head(script).do = "sweep"
  BY DEF SweepOrphans, Doing
<1>2. PICK g : g = Head(script).gen
  OBVIOUS
<1>3. /\ s.gen = g /\ g = LoadState.gen
      /\ t = At(g, s.ids, Less(s.rows, {x \in DOMAIN s.rows : x[1] \notin {0, g}}))
  BY <1>1, <1>2 DEF Moves, Shadow
<1>4. PICK keys : /\ keys \in Bijection(1..Cardinality(Unreachable(g)), Unreachable(g))
                  /\ script' = IF enumerable
                               THEN [k \in DOMAIN keys |-> Drop(keys[k][1], keys[k][2])]
                               ELSE <<>>
  BY <1>2 DEF SweepOrphans
<1>5. PICK n : n = Cardinality(Unreachable(g))
  OBVIOUS
<1>6. n \in Nat /\ Unreachable(g) \subseteq DOMAIN rows /\ DOMAIN rows \subseteq Nat \X Ids
  <2>1. Unreachable(g) \subseteq DOMAIN rows
    BY DEF Unreachable
  <2>2. IsFiniteSet(Unreachable(g))
    BY <2>1, FS_Subset DEF TypeOK
  <2> QED
    BY <1>5, <2>1, <2>2, FS_CardinalityType DEF TypeOK
<1>7. /\ DOMAIN keys = 1..n /\ \A k \in 1..n : keys[k] \in Unreachable(g)
      /\ \A x \in Unreachable(g) : \E k \in 1..n : keys[k] = x
  BY <1>4, <1>5 DEF Bijection, Injection, Surjection
<1>8. Shadow(t)'
  <2>1. LoadState' = LoadState /\ rows' = rows
    BY DEF SweepOrphans, storageVars, LoadState
  <2>2. Within(t.rows, rows)
    BY <1>3 DEF Shadow, Within, At, Less
  <2> QED
    BY <1>3, <2>1, <2>2 DEF Shadow, At
<1>9. ASSUME NEW k \in DOMAIN script'
      PROVE  /\ script'[k] \in DropItem /\ script'[k].do = "drop"
             /\ Moves(script'[k], t, t)
  <2>1. enumerable /\ k \in 1..n /\ script'[k] = Drop(keys[k][1], keys[k][2])
    BY <1>4, <1>7
  <2>2. keys[k] \in Nat \X Ids /\ keys[k] \in Unreachable(g)
    BY <1>6, <1>7, <2>1
  <2>3. PICK h \in Nat, i \in Ids : keys[k] = <<h, i>>
    BY <2>2
  <2>4. script'[k] = [do |-> "drop", gen |-> h, id |-> i]
    BY <2>1, <2>3 DEF Drop
  <2>5. h # 0 /\ h # g
    BY <2>2, <2>3 DEF Unreachable
  <2>6. Less(t.rows, {<<h, i>>}) = t.rows
    BY <1>3, <2>5 DEF Less, At
  <2>7. t = At(t.gen, t.ids, t.rows)
    BY <1>3 DEF At
  <2>8. Moves(script'[k], t, t)
    BY <2>4, <2>6, <2>7 DEF Moves
  <2>9. script'[k] \in DropItem
    BY <2>4 DEF DropItem
  <2> QED
    BY <2>4, <2>8, <2>9
<1>10. script' \in Seq(DropItem)
  <2>1. CASE enumerable
    <3>1. DOMAIN script' = 1..n
      BY <1>4, <1>7, <2>1
    <3>2. script' \in [1..n -> DropItem]
      BY <1>4, <1>7, <1>9, <2>1, <3>1
    <3> QED
      BY <1>6, <3>2
  <2>2. CASE ~enumerable
    BY <1>4, <2>2
  <2> QED
    BY <2>1, <2>2
<1>11. NoSweep(script')
  BY <1>10, NoSweepFacts
<1>12. Plan(script', t, from, to)
  <2>1. DOMAIN script' = 1..Len(script')
    BY <1>10
  <2>2. PICK T : T = [k \in 1..Len(script') + 1 |-> t]
    OBVIOUS
  <2>3. Len(script') \in Nat
    BY <1>10
  <2>4. /\ 1 \in 1..Len(script') + 1 /\ Len(script') + 1 \in 1..Len(script') + 1
        /\ \A k \in 1..Len(script') : k \in 1..Len(script') + 1 /\ k + 1 \in 1..Len(script') + 1
    BY <2>3
  <2>5. Path(script', T) /\ T[1] = t
    BY <1>9, <2>1, <2>2, <2>4 DEF Path
  <2>6. \A k \in 1..Len(script') : script'[k].do \notin Setting
    BY <1>9, <2>1 DEF Setting
  <2> QED
    BY <2>2, <2>4, <2>5, <2>6 DEF Plan
<1>13. ASSUME NEW x \in DOMAIN rows, x[1] \notin {0, g}, enumerable
       PROVE  \E k \in DOMAIN script' : script'[k] = Drop(x[1], x[2])
  <2>1. x \in Unreachable(g)
    BY <1>13 DEF Unreachable
  <2> QED
    BY <1>4, <1>7, <1>13, <2>1
<1> QED
  BY <1>2, <1>3, <1>8, <1>10, <1>11, <1>12, <1>13

LEMMA PlanInit ==
  ASSUME Init
  PROVE  PlanInvariant
<1>1. PICK f \in Contents : /\ order \in Bijection(1..Cardinality(DOMAIN f), DOMAIN f)
                            /\ rows = [k \in {0} \X DOMAIN f |-> f[k[2]]]
  BY DEF Init
<1>2. /\ LoadState.gen = 0 /\ LoadState.ids = order
      /\ script = <<>> /\ ~call.on /\ TypeOK
  BY InitType DEF Init, LoadState, NoCall
<1>3. Range(order) \subseteq DOMAIN f
  <2>1. \A k \in DOMAIN order : order[k] \in DOMAIN f
    BY <1>1 DEF Bijection, Injection
  <2> QED
    BY <2>1 DEF Range
<1>4. \A i \in Range(order) : <<0, i>> \in DOMAIN rows
  BY <1>1, <1>3
<1>5. Whole(Real)
  BY <1>2, <1>4 DEF Whole, Real, At, Less
<1>6. Within(Real.rows, rows)
  BY DEF Within, Real, At, Less
<1>7. Shadow(Real)
  BY <1>2, <1>5, <1>6, RealIs DEF Shadow
<1>8. SweepLast(script)
  BY <1>2 DEF SweepLast
<1> QED
  BY <1>2, <1>7, <1>8 DEF PlanInvariant

\* A series one call shorter.
LEMMA TailSweepLast ==
  ASSUME TypeOK, script # <<>>, SweepLast(script)
  PROVE  SweepLast(Tail(script)) /\ (Head(script).do = "sweep" => Tail(script) = <<>>)
<1>1. PICK n \in Nat, tl \in Seq(Items) :
        /\ n = Len(script) - 1 /\ tl = Tail(script)
        /\ Head(script) = script[1] /\ Len(script) = n + 1 /\ Len(tl) = n
        /\ \A k \in 1..n : tl[k] = script[k + 1]
  <2>1. /\ Tail(script) \in Seq(Items) /\ Head(script) = script[1]
        /\ Len(script) \in Nat \ {0} /\ Len(Tail(script)) = Len(script) - 1
        /\ \A k \in 1..Len(script) - 1 : Tail(script)[k] = script[k + 1]
    BY HeadTypes
  <2>2. PICK n : n = Len(script) - 1
    OBVIOUS
  <2>3. n \in Nat /\ Len(script) = n + 1
    BY <2>1, <2>2
  <2> QED
    BY <2>1, <2>2, <2>3
<1>2. \A k \in 1..n + 1 : script[k].do = "sweep" => k = n + 1
  BY <1>1 DEF SweepLast
<1>3. ASSUME NEW k \in 1..n, tl[k].do = "sweep" PROVE k = n
  <2>1. k + 1 \in 1..n + 1 /\ script[k + 1].do = "sweep"
    BY <1>1, <1>3
  <2>2. k + 1 = n + 1
    BY <1>2, <2>1
  <2> QED
    BY <2>2
<1>4. SweepLast(tl)
  BY <1>1, <1>3 DEF SweepLast
<1>5. ASSUME Head(script).do = "sweep" PROVE tl = <<>>
  <2>1. 1 \in 1..n + 1 /\ script[1].do = "sweep"
    BY <1>1, <1>5
  <2>2. n = 0
    BY <1>2, <2>1
  <2>3. Len(tl) = 0
    BY <1>1, <2>2
  <2> QED
    BY <2>3
<1> QED
  BY <1>1, <1>4, <1>5

LEMMA ShadowNext ==
  ASSUME NEW s, Shadow(s)'
  PROVE  View' = ViewOf(s)
<1>1. \A i \in Range(LoadState'.ids) :
        /\ <<LoadState'.gen, i>> \in DOMAIN rows'
        /\ rows'[<<LoadState'.gen, i>>] = s.rows[<<LoadState'.gen, i>>]
  BY DEF Shadow, Whole, Within
<1>2. {i \in Range(LoadState'.ids) : <<LoadState'.gen, i>> \in DOMAIN rows'}
        = Range(LoadState'.ids)
  BY <1>1
<1>3. View' = [i \in Range(LoadState'.ids) |-> rows'[<<LoadState'.gen, i>>]]
  BY <1>2 DEF View
<1>4. ViewOf(s) = [i \in Range(LoadState'.ids) |-> s.rows[<<LoadState'.gen, i>>]]
  BY DEF Shadow, ViewOf
<1> QED
  BY <1>1, <1>3, <1>4

\* A step seen from the invariant: what becomes of the plan and of the rows
\* that a load finds.
LEMMA PlanNext ==
  ASSUME TypeOK, PlanInvariant, [Next]_vars
  PROVE  /\ PlanInvariant'
         /\ ~BatchOverwrites => [RM!Next]_<<View, call>>
<1>1. PICK s : Shadow(s) /\ (call.on => Plan(script, s, call.from, call.to))
  BY DEF PlanInvariant
<1>2. Whole(Real) /\ View = ViewOf(s) /\ Shadow(Real)
  BY <1>1, ShadowFacts
<1>3. TypeOK'
  BY TypeStep
<1>4. ASSUME UNCHANGED storageVars
      PROVE  View' = View /\ \A z : Shadow(z) => Shadow(z)'
  <2>1. LoadState' = LoadState /\ rows' = rows
    BY <1>4 DEF storageVars, LoadState
  <2>2. View' = View
    BY <2>1 DEF View
  <2>3. \A z : Shadow(z) => Shadow(z)'
    BY <2>1 DEF Shadow
  <2> QED
    BY <2>2, <2>3
<1>5. CASE Method
  <2>1. /\ ~call.on /\ call'.on /\ call'.from = View
        /\ UNCHANGED storageVars
        /\ Plan(script', Real, View, call'.to)
    BY <1>2, <1>5, MethodPlan
  <2>2. SweepLast(script')
    BY <1>5, MethodShape
  <2>3. PICK z : z = Real
    OBVIOUS
  <2>4. Shadow(z)' /\ Plan(script', z, call'.from, call'.to)
    BY <1>2, <1>4, <2>1, <2>3
  <2>5. PlanInvariant'
    BY <2>2, <2>4 DEF PlanInvariant
  <2>6. RM!Begin
    <3>1. \E steps, to : call' = [from |-> View, to |-> to, on |-> TRUE]
      BY <1>5 DEF Method, LoadAll, Clear, Put, PutBatch, ReplaceAll, Remove, Start
    <3>2. call'.to \in Contents
      BY <1>3 DEF TypeOK
    <3>3. call' = [from |-> View, to |-> call'.to, on |-> TRUE]
      BY <3>1
    <3> QED
      BY <1>4, <2>1, <3>2, <3>3 DEF RM!Begin
  <2> QED
    BY <2>5, <2>6 DEF RM!Next
<1>6. CASE StorageCall
  <2>1. script # <<>> /\ call.on /\ script \in Seq(Items)
    <3>1. script # <<>>
      BY <1>6 DEF StorageCall, SetRow, PublishManifest, SetItemThrows, RemoveItem,
         RemoveItemThrows, SweepOrphans, Doing
    <3> QED
      BY <3>1, HeadTypes DEF TypeOK, Items
  <2>2. PICK from, to : from = call.from /\ to = call.to
    OBVIOUS
  <2>3. PICK t : /\ Moves(Head(script), s, t) /\ Whole(t)
                 /\ Plan(Tail(script), t, from, to)
                 /\ ~BatchOverwrites =>
                      \/ ViewOf(s) = from /\ ViewOf(t) \in {from, to}
                      \/ /\ ViewOf(s) = to /\ ViewOf(t) = to
                         /\ Head(script).do \notin Setting
    BY <1>1, <2>1, <2>2, PlanStep
  <2>4. /\ SweepLast(Tail(script))
        /\ Head(script).do = "sweep" => Tail(script) = <<>>
    BY <2>1, TailSweepLast DEF PlanInvariant
  <2>5. CASE SetRow \/ PublishManifest \/ RemoveItem
    <3>1. Shadow(t)'
      BY <1>1, <2>3, <2>5, Advance
    <3>2. script' = Tail(script) /\ call' = call
      BY <2>5 DEF SetRow, PublishManifest, RemoveItem
    <3>3. PlanInvariant'
      BY <2>2, <2>3, <2>4, <3>1, <3>2 DEF PlanInvariant
    <3>4. View' = ViewOf(t)
      BY <3>1, ShadowNext
    <3>5. ~BatchOverwrites => RM!Apply \/ UNCHANGED <<View, call>>
      BY <1>2, <2>1, <2>2, <2>3, <3>2, <3>4 DEF RM!Apply
    <3> QED
      BY <3>3, <3>5 DEF RM!Next
  <2>6. CASE SetItemThrows
    <3>1. UNCHANGED storageVars /\ script' = <<>> /\ call' = NoCall /\ ~call'.on
      BY <2>6 DEF SetItemThrows, NoCall
    <3>2. PlanInvariant'
      <4>1. SweepLast(script')
        BY <3>1 DEF SweepLast
      <4> QED
        BY <1>1, <1>4, <3>1, <4>1 DEF PlanInvariant
    <3>3. Head(script).do \in Setting
      BY <2>6 DEF SetItemThrows, Doing, Setting
    <3>4. ~BatchOverwrites => RM!Throw
      BY <1>2, <1>4, <2>1, <2>2, <2>3, <3>1, <3>3
         DEF RM!Throw, RM!NoCall, NoCall, RM!NoRows, NoRows
    <3> QED
      BY <3>2, <3>4 DEF RM!Next
  <2>7. CASE RemoveItemThrows
    <3>1. UNCHANGED storageVars /\ script' = Tail(script) /\ call' = call
      BY <2>7 DEF RemoveItemThrows
    <3>2. PlanInvariant'
      <4>1. Head(script).do \in {"drop", "dropOrder"}
        BY <2>7 DEF RemoveItemThrows, Doing
      <4>2. t.gen = s.gen /\ t.ids = s.ids /\ Within(t.rows, s.rows)
        <5>1. CASE Head(script).do = "dropOrder"
          BY <2>3, <5>1 DEF Moves, Within
        <5>2. CASE Head(script).do = "drop"
          <6>1. t = At(s.gen, s.ids, Less(s.rows, {<<Head(script).gen, Head(script).id>>}))
            BY <2>3, <5>2 DEF Moves
          <6> QED
            BY <6>1 DEF At, Less, Within
        <5> QED
          BY <4>1, <5>1, <5>2
      <4>3. Shadow(t)
        BY <1>1, <2>3, <4>2 DEF Shadow, Within
      <4> QED
        BY <1>4, <2>2, <2>3, <2>4, <3>1, <4>3 DEF PlanInvariant
    <3>3. UNCHANGED <<View, call>>
      BY <1>4, <3>1
    <3> QED
      BY <3>2, <3>3
  <2>8. CASE SweepOrphans
    <3>1. Head(script).do = "sweep" /\ Tail(script) = <<>>
      BY <2>4, <2>8 DEF SweepOrphans, Doing
    <3>2. UNCHANGED storageVars /\ call' = call
      BY <2>8 DEF SweepOrphans
    <3>3. ~BatchOverwrites => ViewOf(t) = to
      BY <2>3, <3>1, PlanEnd
    <3>4. /\ Shadow(t)' /\ Plan(script', t, from, to) /\ NoSweep(script')
          /\ script' \in Seq(DropItem)
      BY <1>1, <2>3, <2>8, <3>3, SweptPlan
    <3>5. SweepLast(script')
      <4>1. script' \in Seq(Items)
        BY <3>4, ItemTypes
      <4> QED
        BY <3>4, <4>1, NoSweepLast
    <3>6. PlanInvariant'
      BY <2>2, <3>2, <3>4, <3>5 DEF PlanInvariant
    <3>7. UNCHANGED <<View, call>>
      BY <1>4, <3>2
    <3> QED
      BY <3>6, <3>7
  <2> QED
    BY <1>6, <2>5, <2>6, <2>7, <2>8 DEF StorageCall
<1>7. CASE Return
  <2>1. /\ UNCHANGED storageVars /\ script' = <<>> /\ call' = NoCall /\ ~call'.on
        /\ script = <<>> /\ call.on
    BY <1>7 DEF Return, NoCall
  <2>2. PlanInvariant'
    <3>1. SweepLast(script')
      BY <2>1 DEF SweepLast
    <3> QED
      BY <1>1, <1>4, <2>1, <3>1 DEF PlanInvariant
  <2>3. ASSUME ~BatchOverwrites PROVE RM!Return
    <3>1. PICK from, to : from = call.from /\ to = call.to
      OBVIOUS
    <3>2. ViewOf(s) = to
      BY <1>1, <2>1, <2>3, <3>1, PlanEnd
    <3> QED
      BY <1>2, <1>4, <2>1, <3>1, <3>2 DEF RM!Return, RM!NoCall, NoCall, RM!NoRows, NoRows
  <2> QED
    BY <2>2, <2>3 DEF RM!Next
<1>8. CASE Crash
  <2>1. /\ UNCHANGED storageVars /\ script' = <<>> /\ call' = NoCall /\ ~call'.on
        /\ call.on
    BY <1>8 DEF Crash, NoCall
  <2>2. PlanInvariant'
    <3>1. SweepLast(script')
      BY <2>1 DEF SweepLast
    <3> QED
      BY <1>1, <1>4, <2>1, <3>1 DEF PlanInvariant
  <2>3. ASSUME ~BatchOverwrites PROVE RM!Crash
    <3>1. PICK from, to : from = call.from /\ to = call.to
      OBVIOUS
    <3>2. Plan(script, s, from, to) /\ script \in Seq(Items)
      BY <1>1, <2>1, <3>1 DEF TypeOK, Items
    <3>3. ViewOf(s) \in {from, to}
      <4>1. CASE script = <<>>
        BY <2>3, <3>2, <4>1, PlanEnd
      <4>2. CASE script # <<>>
        BY <2>3, <3>2, <4>2, PlanStep
      <4> QED
        BY <4>1, <4>2
    <3> QED
      BY <1>2, <1>4, <2>1, <3>1, <3>3 DEF RM!Crash, RM!NoCall, NoCall, RM!NoRows, NoRows
  <2> QED
    BY <2>2, <2>3 DEF RM!Next
<1>9. CASE UNCHANGED vars
  <2>1. UNCHANGED storageVars /\ script' = script /\ call' = call
    BY <1>9 DEF vars
  <2>2. PlanInvariant'
    BY <1>1, <1>4, <2>1 DEF PlanInvariant
  <2> QED
    BY <1>4, <2>1, <2>2
<1> QED
  BY <1>5, <1>6, <1>7, <1>8, <1>9 DEF Next

\* PlanInvariant holds in every reachable state: the calls a method has still to
\* make lead through states whose rows are stored, with the sweep at the end.
THEOREM PlanHolds == Spec => []PlanInvariant
<1>1. Init => PlanInvariant
  BY PlanInit
<1>2. TypeOK /\ PlanInvariant /\ [Next]_vars => PlanInvariant'
  BY PlanNext
<1> QED
  BY <1>1, <1>2, TypeCorrect, PTL DEF Spec

\* However a method ends, by returning, by a refused call or by the death of
\* the tab, the manifest names no row that has no key.
THEOREM ManifestAlwaysBacked == Spec => []ManifestBacked
<1>1. TypeOK /\ PlanInvariant => ManifestBacked
  <2> SUFFICES ASSUME TypeOK, PlanInvariant, manifest # Absent
               PROVE  \A i \in Range(manifest.ids) : <<manifest.generation, i>> \in DOMAIN rows
    BY DEF ManifestBacked
  <2>1. PICK s : Shadow(s)
    BY DEF PlanInvariant
  <2>2. LoadState.gen = manifest.generation /\ LoadState.ids = manifest.ids
    BY DEF LoadState
  <2> QED
    BY <2>1, <2>2 DEF Shadow, Whole, Within
<1> QED
  BY <1>1, TypeCorrect, PlanHolds, PTL

\* The store implements the row map: a method takes effect at one storage
\* call, throws only before it and returns only after it.  A batch that
\* overwrites stored rows does not, so the theorem is about a store whose
\* queue never passes one.
THEOREM ImplementsRowMap == ASSUME ~BatchOverwrites PROVE Spec => KeepsRowMap
<1>1. Init => View \in Contents /\ call = RM!NoCall
  <2> SUFFICES ASSUME Init PROVE View \in Contents /\ call = RM!NoCall
    OBVIOUS
  <2>1. View \in Contents
    BY InitType, ReadTypes
  <2> QED
    BY <2>1 DEF Init, RM!NoCall, NoCall, RM!NoRows, NoRows
<1>2. TypeOK /\ PlanInvariant /\ [Next]_vars => [RM!Next]_<<View, call>>
  BY PlanNext
<1> QED
  BY <1>1, <1>2, TypeCorrect, PlanHolds, PTL DEF Spec, KeepsRowMap, RM!Spec
-----------------------------------------------------------------------------
(* What an interrupted call leaves behind is collected: while nothing has   *)
(* been lost since a sweep, either a sweep is still to come, or every row   *)
(* is of the generation that counts or about to be removed.                *)

\* Once the series has run, the rows are of generation g, or older ones.
Settles(sc, g) ==
  /\ NoSweep(sc) /\ OfGeneration(sc, g)
  /\ LoadState.gen = g \/ Publishes(sc)
  /\ \A x \in DOMAIN rows : x[1] \in {0, g} \/ Drop(x[1], x[2]) \in Range(sc)

TidyInvariant ==
  clean /\ enumerable => HasSweep(script) \/ \E g : Settles(script, g)

LEMMA TidyInit ==
  ASSUME Init
  PROVE  TidyInvariant
<1>1. PICK f : rows = [k \in {0} \X DOMAIN f |-> f[k[2]]]
  BY DEF Init
<1>2. LoadState.gen = 0 /\ script = <<>>
  BY DEF Init, LoadState
<1>3. \A x \in DOMAIN rows : x[1] = 0
  BY <1>1
<1>4. Range(script) = {}
  BY <1>2, RangeFacts
<1>5. Settles(script, 0)
  BY <1>2, <1>3, <1>4 DEF Settles, NoSweep, OfGeneration
<1> QED
  BY <1>5 DEF TidyInvariant

\* A storage call that goes through keeps a settling series settling.
LEMMA SettlesOn ==
  ASSUME TypeOK, NEW g, Settles(script, g), SetRow \/ PublishManifest \/ RemoveItem
  PROVE  Settles(script, g)'
<1>1. script # <<>> /\ script \in Seq(Items)
  <2>1. script # <<>>
    BY DEF SetRow, PublishManifest, RemoveItem, Doing
  <2> QED
    BY <2>1 DEF TypeOK, Items
<1>2. Range(script) = {Head(script)} \cup Range(Tail(script))
  BY <1>1, RangeFacts, Zenon
<1>3. PICK a, tl : a = Head(script) /\ tl = Tail(script)
  OBVIOUS
<1>4. script' = tl /\ Range(script) = {a} \cup Range(tl)
  BY <1>2, <1>3 DEF SetRow, PublishManifest, RemoveItem
<1>5. NoSweep(tl) /\ OfGeneration(tl, g)
  BY <1>4 DEF Settles, NoSweep, OfGeneration
<1>6. CASE SetRow
  <2>1. a.do = "set" /\ a.gen = g
    BY <1>3, <1>4, <1>6 DEF SetRow, Doing, Settles, OfGeneration, Setting
  <2>2. LoadState' = LoadState /\ DOMAIN rows' = DOMAIN rows \cup {<<a.gen, a.id>>}
    BY <1>3, <1>6 DEF SetRow, LoadState
  <2>3. ASSUME NEW x \in DOMAIN rows'
        PROVE  x[1] \in {0, g} \/ Drop(x[1], x[2]) \in Range(tl)
    <3>1. CASE x = <<a.gen, a.id>>
      BY <2>1, <3>1
    <3>2. CASE x \in DOMAIN rows
      <4>1. Drop(x[1], x[2]) # a
        BY <2>1 DEF Drop
      <4> QED
        BY <1>4, <3>2, <4>1 DEF Settles
    <3> QED
      BY <2>2, <3>1, <3>2
  <2>4. LoadState.gen = g \/ Publishes(tl)
    BY <1>4, <2>1 DEF Settles, Publishes
  <2> QED
    BY <1>3, <1>4, <1>5, <2>2, <2>3, <2>4 DEF Settles
<1>7. CASE PublishManifest
  <2>1. a.do = "publish" /\ a.gen = g /\ a \in PublishItem
    <3>1. a \in PublishItem
      BY <1>1, <1>3, <1>7, HeadTypes DEF PublishManifest
    <3> QED
      BY <1>3, <1>4, <1>7, <3>1 DEF PublishManifest, Doing, Settles, OfGeneration, Setting
  <2>2. manifest' = [generation |-> a.gen, ids |-> a.ids] /\ rows' = rows /\ a.gen # 0
    BY <1>3, <1>7, <2>1 DEF PublishManifest, PublishItem
  <2>3. LoadState'.gen = g
    BY <2>1, <2>2 DEF LoadState, Absent
  <2>4. ASSUME NEW x \in DOMAIN rows'
        PROVE  x[1] \in {0, g} \/ Drop(x[1], x[2]) \in Range(tl)
    <3>1. Drop(x[1], x[2]) # a
      BY <2>1 DEF Drop
    <3> QED
      BY <1>4, <2>2, <3>1 DEF Settles
  <2> QED
    BY <1>3, <1>4, <1>5, <2>3, <2>4 DEF Settles
<1>8. CASE RemoveItem
  <2>1. a.do \in {"drop", "dropOrder"}
    BY <1>3, <1>8 DEF RemoveItem, Doing
  <2>2. manifest' = manifest /\ LoadState'.gen = LoadState.gen
    BY <1>8 DEF RemoveItem, LoadState
  <2>3. LoadState.gen = g \/ Publishes(tl)
    BY <1>4, <2>1 DEF Settles, Publishes
  <2>4. ASSUME NEW x \in DOMAIN rows'
        PROVE  x[1] \in {0, g} \/ Drop(x[1], x[2]) \in Range(tl)
    <3>1. CASE a.do = "dropOrder"
      <4>1. rows' = rows /\ Drop(x[1], x[2]) # a
        BY <1>3, <1>8, <3>1 DEF RemoveItem, Drop
      <4> QED
        BY <1>4, <4>1 DEF Settles
    <3>2. CASE a.do = "drop"
      <4>1. rows' = Restrict(rows, DOMAIN rows \ {<<a.gen, a.id>>})
        BY <1>3, <1>8, <3>2 DEF RemoveItem
      <4>2. x \in DOMAIN rows /\ x # <<a.gen, a.id>>
        BY <4>1 DEF Restrict
      <4>3. x = <<x[1], x[2]>>
        BY <4>2 DEF TypeOK
      <4>4. Drop(x[1], x[2]) # a
        <5>1. Drop(x[1], x[2]).gen = x[1] /\ Drop(x[1], x[2]).id = x[2]
          BY DEF Drop
        <5> QED
          BY <4>2, <4>3, <5>1
      <4> QED
        BY <1>4, <4>2, <4>4 DEF Settles
    <3> QED
      BY <2>1, <3>1, <3>2
  <2> QED
    BY <1>3, <1>4, <1>5, <2>2, <2>3, <2>4 DEF Settles
<1> QED
  BY <1>6, <1>7, <1>8

\* A method that sweeps is tidy while it runs; one that does not leaves the
\* rows of the generation it makes, or touches nothing.
LEMMA TidyMethod ==
  ASSUME TypeOK, TidyInvariant, Method
  PROVE  TidyInvariant'
<1>1. script = <<>> /\ UNCHANGED <<storageVars, clean>>
  BY DEF Method, LoadAll, Clear, Put, PutBatch, ReplaceAll, Remove, Start, TypeOK
<1>2. HasSweep(script') \/ script' = Migrate(LoadState)
  BY MethodShape
<1>3. CASE HasSweep(script')
  BY <1>3 DEF TidyInvariant
<1>4. CASE script' = Migrate(LoadState) /\ clean /\ enumerable
  <2>1. Range(script) = {}
    BY <1>1, RangeFacts
  <2>2. PICK g : Settles(script, g)
    BY <1>4, <2>1 DEF TidyInvariant, HasSweep
  <2>3. LoadState.gen = g /\ \A x \in DOMAIN rows : x[1] \in {0, g}
    BY <2>1, <2>2 DEF Settles, Publishes
  <2>4. LoadState' = LoadState /\ rows' = rows
    BY <1>1 DEF storageVars, LoadState
  <2>5. CASE g # 0
    <3>1. script' = <<>>
      BY <1>4, <2>3, <2>5, MigrateIs
    <3>2. Settles(script, g)'
      BY <1>1, <2>2, <2>4, <3>1 DEF Settles
    <3> QED
      BY <3>2 DEF TidyInvariant
  <2>6. CASE g = 0
    <3>1. /\ NoSweep(script') /\ OfGeneration(script', 1) /\ Publishes(script')
      BY <1>4, <2>3, <2>6, MigrateShape
    <3>2. Settles(script, 1)'
      BY <2>3, <2>4, <2>6, <3>1 DEF Settles
    <3> QED
      BY <3>2 DEF TidyInvariant
  <2> QED
    BY <2>5, <2>6
<1>5. CASE ~ (clean /\ enumerable)
  BY <1>1, <1>5 DEF TidyInvariant, storageVars
<1> QED
  BY <1>2, <1>3, <1>4, <1>5

LEMMA TidyCall ==
  ASSUME TypeOK, PlanInvariant, TidyInvariant, StorageCall
  PROVE  TidyInvariant'
<1>1. script # <<>> /\ call.on /\ script \in Seq(Items)
  <2>1. script # <<>>
    BY DEF StorageCall, SetRow, PublishManifest, SetItemThrows, RemoveItem,
       RemoveItemThrows, SweepOrphans, Doing
  <2> QED
    BY <2>1, HeadTypes DEF TypeOK, Items
<1>2. CASE SetRow \/ PublishManifest \/ RemoveItem
  <2>1. script' = Tail(script) /\ clean' = clean /\ enumerable' = enumerable
    BY <1>2 DEF SetRow, PublishManifest, RemoveItem
  <2>2. CASE HasSweep(script)
    <3>1. Range(script) = {Head(script)} \cup Range(Tail(script))
      BY <1>1, RangeFacts, Zenon
    <3>2. Head(script).do # "sweep"
      BY <1>2 DEF SetRow, PublishManifest, RemoveItem, Doing
    <3>3. HasSweep(Tail(script))
      BY <2>2, <3>1, <3>2 DEF HasSweep
    <3> QED
      BY <2>1, <3>3 DEF TidyInvariant
  <2>3. ASSUME NEW g, Settles(script, g) PROVE TidyInvariant'
    <3>3. Settles(script, g)'
      BY <1>2, <2>3, SettlesOn
    <3> QED
      BY <3>3 DEF TidyInvariant
  <2>4. CASE ~ (clean /\ enumerable)
    BY <2>1, <2>4 DEF TidyInvariant
  <2> QED
    BY <2>2, <2>3, <2>4 DEF TidyInvariant
<1>3. CASE SetItemThrows \/ RemoveItemThrows
  BY <1>3 DEF SetItemThrows, RemoveItemThrows, TidyInvariant
<1>4. CASE SweepOrphans
  <2>1. PICK s : Shadow(s) /\ Plan(script, s, call.from, call.to)
    BY <1>1 DEF PlanInvariant
  <2>2. PICK from, to : from = call.from /\ to = call.to
    OBVIOUS
  <2>3. PICK t : /\ Moves(Head(script), s, t) /\ Whole(t)
                 /\ Plan(Tail(script), t, from, to)
    BY <1>1, <2>1, <2>2, PlanStep
  <2>4. Tail(script) = <<>>
    BY <1>1, <1>4, TailSweepLast DEF PlanInvariant, SweepOrphans, Doing
  <2>5. ~BatchOverwrites => ViewOf(t) = to
    BY <2>3, <2>4, PlanEnd
  <2>6. /\ NoSweep(script') /\ script' \in Seq(DropItem)
        /\ \A x \in DOMAIN rows : x[1] \notin {0, LoadState.gen} /\ enumerable
             => \E k \in DOMAIN script' : script'[k] = Drop(x[1], x[2])
    BY <1>4, <2>1, <2>3, <2>5, SweptPlan
  <2>7. LoadState' = LoadState /\ rows' = rows /\ enumerable' = enumerable
    BY <1>4 DEF SweepOrphans, storageVars, LoadState
  <2>8. OfGeneration(script', LoadState.gen)
    <3>1. \A a \in Range(script') : a \in DropItem
      BY <2>6 DEF Range
    <3> QED
      BY <3>1 DEF OfGeneration, Setting, DropItem
  <2>9. ASSUME enumerable PROVE Settles(script, LoadState.gen)'
    <3>1. \A x \in DOMAIN rows :
            x[1] \in {0, LoadState.gen} \/ Drop(x[1], x[2]) \in Range(script')
      BY <2>6, <2>9 DEF Range
    <3> QED
      BY <2>6, <2>7, <2>8, <3>1 DEF Settles
  <2> QED
    BY <2>7, <2>9 DEF TidyInvariant
<1> QED
  BY <1>2, <1>3, <1>4 DEF StorageCall

\* TidyInvariant holds in every reachable state: rows of a generation that no
\* longer counts are about to be dropped, unless a call was refused or a tab died.
THEOREM TidyHolds == Spec => []TidyInvariant
<1>1. Init => TidyInvariant
  BY TidyInit
<1>2. TypeOK /\ PlanInvariant /\ TidyInvariant /\ [Next]_vars => TidyInvariant'
  <2> SUFFICES ASSUME TypeOK, PlanInvariant, TidyInvariant, [Next]_vars
               PROVE  TidyInvariant'
    OBVIOUS
  <2>1. CASE Return \/ UNCHANGED vars
    <3>1. UNCHANGED <<storageVars, script, clean>>
      BY <2>1 DEF Return, vars
    <3>2. LoadState' = LoadState /\ rows' = rows /\ enumerable' = enumerable
      BY <3>1 DEF storageVars, LoadState
    <3>3. \A g : Settles(script, g) => Settles(script, g)'
      BY <3>1, <3>2 DEF Settles
    <3> QED
      BY <3>1, <3>2, <3>3 DEF TidyInvariant
  <2>2. CASE Crash
    BY <2>2 DEF Crash, TidyInvariant
  <2> QED
    BY <2>1, <2>2, TidyMethod, TidyCall DEF Next
<1> QED
  BY <1>1, <1>2, TypeCorrect, PlanHolds, PTL DEF Spec

\* Rows of a generation that no longer counts do not outlive a sweep that met
\* no refusal, on a storage that can list its keys.
THEOREM OrphansCollected == Spec => []OldGenerationsSwept
<1>1. TypeOK /\ TidyInvariant => OldGenerationsSwept
  <2> SUFFICES ASSUME TypeOK, TidyInvariant, ~call.on, clean, enumerable,
                      NEW k \in DOMAIN rows
               PROVE  k[1] \in {0, LoadState.gen}
    BY DEF OldGenerationsSwept
  <2>1. script = <<>>
    BY DEF TypeOK
  <2>2. Range(script) = {}
    BY <2>1, RangeFacts
  <2>3. PICK g : Settles(script, g)
    BY <2>2 DEF TidyInvariant, HasSweep
  <2> QED
    BY <2>2, <2>3 DEF Settles, Publishes
<1> QED
  BY <1>1, TypeCorrect, TidyHolds, PTL
=============================================================================
