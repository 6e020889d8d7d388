--------------------------- MODULE Scd2MetaProofs ---------------------------
(***************************************************************************)
(* Theorems about Scd2Meta, for every value of its constants: types, that  *)
(* the dimension table is the log of versions its readers rely on, that    *)
(* writing an item again changes nothing, and that an entry has one origin.*)
(***************************************************************************)
EXTENDS Scd2Meta, FiniteSetTheorems, FunctionTheorems, SequenceTheorems, TLAPS

-----------------------------------------------------------------------------
(* Types.                                                                  *)

Acts == {"reconcile", "rename", "remove", "sweep"}
ItemType ==
  {it \in [act : Acts, id : Ids \cup {NoId}, old : Ids \cup {NoId}, entry : Entry,
           ts : Times, live : SUBSET Ids] : it.act # "sweep" => it.id \in Ids}

\* TypeOK with the types of what it rests on.
TypeInv ==
  /\ TypeOK
  /\ buffer \in Seq(ItemType) /\ queue \in Seq(ItemType)
  /\ latest \in Times /\ ops \in 0..MaxOps /\ faults \in Nat /\ restarts \in Nat

LEMMA TimesFacts ==
  /\ MaxTime \in Nat /\ MaxOps \in Nat /\ Open \in Nat /\ Open \notin Times /\ 0 \in Times
  /\ \A t \in Times : t \in Nat /\ t < Open
BY MetaAssumption DEF Times, Open

LEMMA NoEntryType == NoEntry \in Entry
<1>1. (CHOOSE p \in Payloads : TRUE) \in Payloads
  BY MetaAssumption
<1> QED
  BY <1>1, TimesFacts DEF NoEntry, Entry

\* The later of two stamps.
LEMMA MaxOfTwo ==
  ASSUME NEW a \in Times, NEW b \in Times
  PROVE  Max({a, b}) \in Times /\ a <= Max({a, b}) /\ b <= Max({a, b})
<1>1. a \in Nat /\ b \in Nat
  BY TimesFacts
<1>2. \E x \in {a, b} : \A y \in {a, b} : x >= y
  BY <1>1
<1>3. Max({a, b}) \in {a, b} /\ \A y \in {a, b} : Max({a, b}) >= y
  BY <1>2 DEF Max
<1> QED
  BY <1>1, <1>3

\* A snapshot lists every id of a finite registry once.
LEMMA SeqOfSet ==
  ASSUME NEW S, S \subseteq Ids
  PROVE  /\ Cardinality(S) \in Nat /\ IsFiniteSet(S)
         /\ SetToSeq(S) \in [1..Cardinality(S) -> S] /\ IsInjective(SetToSeq(S))
         /\ \A i \in S : \E n \in 1..Cardinality(S) : SetToSeq(S)[n] = i
<1>1. IsFiniteSet(S)
  BY MetaAssumption, FS_Subset
<1>2. Cardinality(S) \in Nat /\ ExistsBijection(1..Cardinality(S), S)
  BY <1>1, FS_CardinalityType
<1>3. PICK f \in Bijection(1..Cardinality(S), S) : TRUE
  BY <1>2 DEF ExistsBijection
<1>4. f \in [1..Cardinality(S) -> S] /\ IsInjective(f)
  BY <1>3 DEF Bijection, Injection
<1> DEFINE g == SetToSeq(S)
<1>5. g \in [1..Cardinality(S) -> S] /\ IsInjective(g)
  BY <1>4 DEF SetToSeq
<1> HIDE DEF g
<1>6. g \in Injection(1..Cardinality(S), S) /\ Cardinality(1..Cardinality(S)) = Cardinality(S)
  BY <1>2, <1>5, FS_Interval DEF Injection
<1>7. g \in Surjection(1..Cardinality(S), S)
  BY <1>1, <1>6, FS_Injection
<1> QED
  BY <1>1, <1>2, <1>5, <1>7 DEF Surjection, g

-----------------------------------------------------------------------------
(* What a transaction does to the table.                                   *)

\* The versions of T after those of S ended at t.
EndAt(T, S, t) == {IF v \in S THEN [v EXCEPT !.to = t] ELSE v : v \in T}
Endable(T, t) == {v \in T : v.to = Open /\ v.from < t}

\* The rows R of the transaction of item it on T: some open versions end at its stamp,
\* and at most one version of its id is added, after the others or as the first of its id.
Effect(T, R, it) ==
  \E S \in SUBSET Endable(T, it.ts), N \in SUBSET {NewVersion(T, it, from) : from \in Times} :
    /\ R = EndAt(T, S, it.ts) \cup N
    /\ \A w \in N : /\ N = {w} /\ it.id \in Ids
                    /\ OpenOf(EndAt(T, S, it.ts), it.id) = {}
                    /\ w.from = it.ts \/ \A v \in T : v.id # it.id
                    /\ w.from <= it.ts

LEMMA ClosedIsEndAt ==
  ASSUME NEW T, NEW i, NEW t
  PROVE  /\ Closed(T, i, t) = EndAt(T, {v \in OpenOf(T, i) : v.from < t}, t)
         /\ {v \in OpenOf(T, i) : v.from < t} \subseteq Endable(T, t)
BY DEF Closed, EndAt, OpenOf, Endable

\* A statement that ends nothing leaves the table.
LEMMA EndNothing ==
  ASSUME NEW T, NEW t
  PROVE  EndAt(T, {}, t) = T
BY DEF EndAt

LEMMA FirstFromType ==
  ASSUME NEW T, NEW it \in ItemType
  PROVE  /\ FirstFrom(T, it) \in Times
         /\ FirstFrom(T, it) = it.ts \/ \A v \in T : v.id # it.id
         /\ FirstFrom(T, it) <= it.ts
BY TimesFacts DEF FirstFrom, ItemType, Entry

\* A statement that only ends versions.
LEMMA OnlyEnds ==
  ASSUME NEW T, NEW it, NEW S \in SUBSET Endable(T, it.ts)
  PROVE  Effect(T, EndAt(T, S, it.ts), it)
<1> DEFINE N == {}
<1>1. EndAt(T, S, it.ts) = EndAt(T, S, it.ts) \cup N
  OBVIOUS
<1>2. N \in SUBSET {NewVersion(T, it, from) : from \in Times}
  OBVIOUS
<1>3. \A w \in N : FALSE
  OBVIOUS
<1> HIDE DEF N
<1> QED
  BY <1>1, <1>2, <1>3 DEF Effect

\* Closing and then inserting unless the id has an open row.
LEMMA CloseAndInsert ==
  ASSUME NEW T, NEW it \in ItemType, it.act # "sweep", NEW i, NEW from \in Times,
         from = it.ts \/ \A v \in T : v.id # it.id, from <= it.ts
  PROVE  Effect(T, Inserted(Closed(T, i, it.ts), NewVersion(T, it, from)), it)
<1> DEFINE S == {v \in OpenOf(T, i) : v.from < it.ts}
           w == NewVersion(T, it, from)
<1>1. Closed(T, i, it.ts) = EndAt(T, S, it.ts) /\ S \in SUBSET Endable(T, it.ts)
  BY ClosedIsEndAt
<1>2. w \in {NewVersion(T, it, f) : f \in Times} /\ w.id = it.id /\ it.id \in Ids /\ w.from = from
  BY DEF NewVersion, ItemType
<1> HIDE DEF S, w
<1>3. CASE OpenOf(EndAt(T, S, it.ts), it.id) = {}
  <2>1. Inserted(Closed(T, i, it.ts), w) = EndAt(T, S, it.ts) \cup {w}
    BY <1>1, <1>2, <1>3 DEF Inserted
  <2>2. {w} \in SUBSET {NewVersion(T, it, f) : f \in Times}
    BY <1>2
  <2> QED
    BY <1>1, <1>2, <1>3, <2>1, <2>2 DEF Effect, w
<1>4. CASE OpenOf(EndAt(T, S, it.ts), it.id) # {}
  <2>1. Inserted(Closed(T, i, it.ts), w) = EndAt(T, S, it.ts)
    BY <1>1, <1>2, <1>4 DEF Inserted
  <2> QED
    BY <1>1, <2>1, OnlyEnds DEF w
<1> QED
  BY <1>3, <1>4

LEMMA NoEffect ==
  ASSUME NEW T, NEW it
  PROVE  Effect(T, T, it)
BY EndNothing, OnlyEnds

LEMMA DispatchedEffect ==
  ASSUME NEW T, NEW it \in ItemType
  PROVE  Effect(T, Dispatched(T, it).rows, it)
<1>1. it.act \in Acts /\ it.ts \in Times
  BY DEF ItemType
<1>2. CASE it.act = "reconcile"
  <2> DEFINE closed == Closed(T, it.id, it.ts)
             from == IF closed = T THEN FirstFrom(T, it) ELSE it.ts
             done == Inserted(closed, NewVersion(T, it, from))
  <2>1. Dispatched(T, it).rows = T \/ Dispatched(T, it).rows = done
    BY <1>2 DEF Dispatched, Reconciled, Result
  <2>2. from \in Times /\ (from = it.ts \/ \A v \in T : v.id # it.id) /\ from <= it.ts
    BY <1>1, FirstFromType, TimesFacts
  <2>3. Effect(T, done, it)
    BY <1>2, <2>2, CloseAndInsert
  <2> QED
    BY <2>1, <2>3, NoEffect
<1>3. CASE it.act = "rename"
  <2>1. Dispatched(T, it).rows = Inserted(Closed(T, it.old, it.ts), NewVersion(T, it, it.ts))
    BY <1>3 DEF Dispatched, Renamed, Result
  <2>2. it.ts <= it.ts
    BY <1>1, TimesFacts
  <2> QED
    BY <1>1, <1>3, <2>1, <2>2, CloseAndInsert
<1>4. CASE it.act = "remove"
  <2> DEFINE S == {v \in OpenOf(T, it.id) : v.from < it.ts}
  <2>1. Dispatched(T, it).rows = Closed(T, it.id, it.ts)
    BY <1>4 DEF Dispatched, Removed, Result
  <2>2. Closed(T, it.id, it.ts) = EndAt(T, S, it.ts) /\ S \in SUBSET Endable(T, it.ts)
    BY ClosedIsEndAt
  <2> HIDE DEF S
  <2> QED
    BY <2>1, <2>2, OnlyEnds
<1>5. CASE it.act = "sweep"
  <2> DEFINE open == {v \in T : v.to = Open}
             stale == {v \in open : v.from < it.ts /\ v.id \notin it.live}
             swept == (T \ stale) \cup {[v EXCEPT !.to = it.ts] : v \in stale}
  <2>1. Dispatched(T, it).rows = T \/ Dispatched(T, it).rows = swept
    BY <1>5 DEF Dispatched, Swept, Result
  <2>2. swept = EndAt(T, stale, it.ts) /\ stale \in SUBSET Endable(T, it.ts)
    BY DEF EndAt, Endable
  <2> HIDE DEF stale, swept
  <2>3. Effect(T, swept, it)
    BY <2>2, OnlyEnds
  <2> QED
    BY <2>1, <2>3, NoEffect
<1> QED
  BY <1>1, <1>2, <1>3, <1>4, <1>5 DEF Acts

\* What _write_item_raw leaves: the effect of the item if the database accepts it, or
\* the table as it was.
LEMMA WrittenEffect ==
  ASSUME NEW T, NEW it \in ItemType
  PROVE  LET R == Written(T, it).rows
         IN  Effect(T, R, it) /\ (R = T \/ Legal(R))
<1>1. \/ Written(T, it).rows = Dispatched(T, it).rows /\ Legal(Dispatched(T, it).rows)
      \/ Written(T, it).rows = T
  BY DEF Written, Result
<1> QED
  BY <1>1, DispatchedEffect, NoEffect

-----------------------------------------------------------------------------
(* The rows of an id are numbered in the order of their insertion.         *)

Numbered(T) ==
  /\ IsFiniteSet(T) /\ T \subseteq Version
  /\ \A v \in T : v.row < Cardinality(T)
  /\ \A v, w \in T : v.row = w.row /\ v.id = w.id => v = w

\* Ending versions keeps the number of rows and their numbers.
LEMMA EndAtNumbered ==
  ASSUME NEW T, Numbered(T), NEW S \in SUBSET T, NEW t \in Times
  PROVE  Numbered(EndAt(T, S, t)) /\ Cardinality(EndAt(T, S, t)) = Cardinality(T)
<1> DEFINE end(v) == IF v \in S THEN [v EXCEPT !.to = t] ELSE v
           R == EndAt(T, S, t)
           f == [v \in T |-> end(v)]
<1>1. \A v \in T : end(v).row = v.row /\ end(v).id = v.id /\ end(v) \in Version
  BY DEF Version, Numbered
<1>2. R = {end(v) : v \in T}
  BY DEF EndAt
<1> HIDE DEF end, R
<1>3. f \in Surjection(T, R)
  BY <1>2 DEF Surjection
<1>4. f \in Injection(T, R)
  <2>1. \A v, w \in T : f[v] = f[w] => v = w
    BY <1>1 DEF Numbered
  <2> QED
    BY <1>3, <2>1 DEF Surjection, Injection, IsInjective
<1>5. IsFiniteSet(R) /\ Cardinality(R) = Cardinality(T)
  BY <1>3, <1>4, FS_Surjection DEF Numbered
<1>6. R \subseteq Version
  BY <1>1, <1>2
<1>7. \A v \in R : v.row < Cardinality(R)
  BY <1>1, <1>2, <1>5 DEF Numbered
<1>8. \A v, w \in R : v.row = w.row /\ v.id = w.id => v = w
  BY <1>1, <1>2 DEF Numbered
<1> QED
  BY <1>5, <1>6, <1>7, <1>8 DEF Numbered, R

\* So does a transaction, which numbers the version it adds.
LEMMA EffectNumbered ==
  ASSUME NEW T, Numbered(T), NEW it \in ItemType, NEW R, Effect(T, R, it)
  PROVE  Numbered(R)
<1>1. it.ts \in Times /\ it.entry \in Entry
  BY DEF ItemType
<1>2. PICK S \in SUBSET Endable(T, it.ts), N \in SUBSET {NewVersion(T, it, from) : from \in Times} :
         /\ R = EndAt(T, S, it.ts) \cup N
         /\ \A w \in N : N = {w} /\ it.id \in Ids
  BY DEF Effect
<1> DEFINE E == EndAt(T, S, it.ts)
<1>3. Numbered(E) /\ Cardinality(E) = Cardinality(T)
  BY <1>1, EndAtNumbered DEF Endable
<1> HIDE DEF E
<1>4. CASE N = {}
  BY <1>2, <1>3, <1>4 DEF E
<1>5. CASE N # {}
  <2>1. PICK w \in N : N = {w} /\ it.id \in Ids
    BY <1>2, <1>5
  <2>2. PICK from \in Times : w = NewVersion(T, it, from)
    BY <1>2
  <2>3. IsFiniteSet(T) /\ Cardinality(T) \in Nat
    BY FS_CardinalityType DEF Numbered
  <2>4. w.row = Cardinality(T) /\ w \in Version
    BY <1>1, <2>1, <2>2, <2>3 DEF NewVersion, Version
  <2>5. \A v \in E : v.row < w.row /\ v.row \in Nat
    BY <1>3, <2>4 DEF Numbered, Version
  <2>6. w \notin E
    BY <2>3, <2>4, <2>5
  <2>7. R = E \cup {w} /\ IsFiniteSet(E)
    BY <1>2, <1>3, <2>1 DEF E, Numbered
  <2>8. IsFiniteSet(R) /\ Cardinality(R) = Cardinality(T) + 1
    BY <1>3, <2>6, <2>7, FS_AddElement
  <2>9. \A v \in R : v.row < Cardinality(R)
    BY <1>3, <2>3, <2>4, <2>5, <2>7, <2>8
  <2>10. \A u, v \in R : u.row = v.row /\ u.id = v.id => u = v
    <3>1. \A v \in E : v.row # w.row
      BY <2>3, <2>4, <2>5
    <3> QED
      BY <1>3, <2>7, <3>1 DEF Numbered
  <2> QED
    BY <1>3, <2>4, <2>7, <2>8, <2>9, <2>10 DEF Numbered
<1> QED
  BY <1>4, <1>5

-----------------------------------------------------------------------------
(* Type correctness.                                                       *)

Inv == TypeInv /\ Numbered(table)

\* The registry is a function from some of the ids to entries.
LEMMA RegistryType ==
  ASSUME NEW r, NEW S \in SUBSET Ids, r \in [S -> Entry]
  PROVE  /\ DOMAIN r \in SUBSET Ids /\ r \in [DOMAIN r -> Entry]
         /\ \E D \in SUBSET Ids : r \in [D -> Entry]
OBVIOUS

LEMMA InitInv == Init => Inv
<1> SUFFICES ASSUME Init PROVE Inv
  OBVIOUS
<1>1. PICK S \in SUBSET Ids : registry = [i \in S |-> [NoEntry EXCEPT !.uuid = i]]
  BY DEF Init
<1>2. \A i \in Ids : [NoEntry EXCEPT !.uuid = i] \in Entry
  BY NoEntryType DEF Entry
<1>3. registry \in [S -> Entry]
  BY <1>1, <1>2
<1> DEFINE v(i) == [row |-> 0, id |-> i, entry |-> registry[i], from |-> 0, to |-> Open]
           f == [i \in S |-> v(i)]
<1>4. table = {v(i) : i \in S}
  BY <1>1 DEF Init
<1>5. \A i \in S : v(i) \in Version /\ v(i).row = 0 /\ v(i).id = i
  BY <1>3, TimesFacts DEF Version
<1> HIDE DEF v
<1>6. IsFiniteSet(S)
  BY MetaAssumption, FS_Subset
<1>7. f \in Surjection(S, table)
  BY <1>4 DEF Surjection
<1>8. IsFiniteSet(table)
  BY <1>6, <1>7, FS_Surjection
<1>9. \A w \in table : w.row < Cardinality(table)
  <2>1. Cardinality(table) \in Nat /\ (table # {} => Cardinality(table) # 0)
    BY <1>8, FS_CardinalityType, FS_EmptySet
  <2> QED
    BY <1>4, <1>5, <2>1
<1>10. Numbered(table)
  BY <1>4, <1>5, <1>8, <1>9 DEF Numbered
<1>11. TypeOK
  <2>1. letters \in [Reasons -> Nat] /\ ha = "running" /\ now = 0 /\ written = FALSE
          /\ rule \in {"exclusion", "unique"}
    BY DEF Init
  <2> QED
    BY <1>1, <1>3, <1>10, <2>1, TimesFacts DEF TypeOK, Numbered
<1>12. /\ buffer = <<>> /\ queue = <<>> /\ latest = 0 /\ ops = 0 /\ faults = 0 /\ restarts = 0
  BY DEF Init
<1> QED
  BY <1>10, <1>11, <1>12, TimesFacts DEF Inv, TypeInv

\* A reading of the clock: without a fault it is later than every other.
LEMMA StampType ==
  ASSUME Inv, NEW t \in Times, Stamp(t)
  PROVE  /\ now' = t /\ latest' \in Times /\ latest <= latest' /\ t <= latest'
         /\ faults' \in Nat /\ faults <= faults'
         /\ faults' = 0 => faults = 0 /\ t = latest + 1
<1>1. latest \in Times /\ faults \in Nat
  BY DEF Inv, TypeInv
<1>2. latest' = Max({latest, t}) /\ now' = t
  BY DEF Stamp
<1>3. latest' \in Times /\ latest <= latest' /\ t <= latest'
  BY <1>1, <1>2, MaxOfTwo
<1>4. (t = latest + 1 /\ faults' = faults) \/ faults' = faults + 1
  BY DEF Stamp
<1> QED
  BY <1>1, <1>2, <1>3, <1>4

\* A change of the registry, whatever it does to the entries.
LEMMA ChangeType ==
  ASSUME Inv, NEW it \in ItemType, NEW t \in Times, NEW described, Change(it, t, described)
  PROVE  /\ now' \in Times /\ latest' \in Times /\ faults' \in Nat /\ ops' \in 0..MaxOps
         /\ buffer' \in Seq(ItemType)
         /\ UNCHANGED <<ha, queue, written, table, rule, letters, restarts>>
<1>1. now' \in Times /\ latest' \in Times /\ faults' \in Nat
  BY StampType DEF Change
<1>2. ops' \in 0..MaxOps
  BY TimesFacts DEF Inv, TypeInv, Change
<1>3. buffer' \in Seq(ItemType)
  BY DEF Inv, TypeInv, Change, Observe
<1> QED
  BY <1>1, <1>2, <1>3 DEF Change

\* An item of a snapshot stamped t of the registry r: one of its entries, or the sweep.
SnapshotItem(it, r, t) ==
  /\ it.ts = t
  /\ \/ it.act = "reconcile" /\ it.id \in DOMAIN r /\ it.entry = r[it.id]
     \/ it.act = "sweep" /\ it.live = DOMAIN r

\* A snapshot lists the entries of r, and ends with the sweep.
Lists(Q, r, t) ==
  /\ \A n \in 1..Len(Q) : SnapshotItem(Q[n], r, t)
  /\ Q # <<>> /\ Q[Len(Q)].act = "sweep"
  /\ \A n \in 1..(Len(Q) - 1) : Q[n].act = "reconcile"
  /\ \A i \in DOMAIN r : \E n \in 1..(Len(Q) - 1) : Q[n].id = i

LEMMA SnapshotItems ==
  ASSUME Inv, Snapshot
  PROVE  \E Q \in Seq(ItemType), t \in Times :
           /\ Stamp(t) /\ buffer' = buffer \o Q /\ Lists(Q, registry, t)
           /\ healed' = (t > latest /\ registry # <<>>)
           /\ witnessed' = (witnessed /\ t > latest)
<1> DEFINE D == DOMAIN registry
           item(t, n) == Item("reconcile", SetToSeq(D)[n], NoId, registry[SetToSeq(D)[n]], t, {})
           last(t) == Item("sweep", NoId, NoId, NoEntry, t, D)
<1>1. PICK t \in Times :
         /\ Stamp(t)
         /\ buffer' = buffer \o [n \in 1..Cardinality(D) |-> item(t, n)] \o <<last(t)>>
         /\ healed' = (t > latest /\ registry # <<>>)
         /\ witnessed' = (witnessed /\ t > latest)
  BY DEF Snapshot
<1>2. D \subseteq Ids /\ \A i \in D : registry[i] \in Entry
  BY DEF Inv, TypeInv, TypeOK
<1>3. /\ Cardinality(D) \in Nat
      /\ \A n \in 1..Cardinality(D) : SetToSeq(D)[n] \in D
      /\ \A i \in D : \E n \in 1..Cardinality(D) : SetToSeq(D)[n] = i
  BY <1>2, SeqOfSet
<1>4. \A n \in 1..Cardinality(D) : item(t, n) \in ItemType /\ SnapshotItem(item(t, n), registry, t)
  <2> TAKE n \in 1..Cardinality(D)
  <2>1. SetToSeq(D)[n] \in Ids /\ registry[SetToSeq(D)[n]] \in Entry
    BY <1>2, <1>3
  <2> QED
    BY <1>3, <2>1 DEF Item, ItemType, Acts, SnapshotItem
<1>5. last(t) \in ItemType /\ SnapshotItem(last(t), registry, t)
  BY <1>2, NoEntryType DEF Item, ItemType, Acts, SnapshotItem
<1>a. /\ last(t).act = "sweep"
      /\ \A n \in 1..Cardinality(D) : item(t, n).act = "reconcile" /\ item(t, n).id = SetToSeq(D)[n]
  BY DEF Item
<1> HIDE DEF item, last, D
<1> DEFINE X == [n \in 1..Cardinality(D) |-> item(t, n)]
<1>6. X \in Seq(ItemType) /\ <<last(t)>> \in Seq(ItemType) /\ buffer \in Seq(ItemType)
  BY <1>3, <1>4, <1>5 DEF Inv, TypeInv
<1>7. Len(X) = Cardinality(D) /\ \A n \in 1..Len(X) : SnapshotItem(X[n], registry, t)
  BY <1>3, <1>4
<1> HIDE DEF X
<1>8. buffer' = buffer \o (X \o <<last(t)>>)
  <2>1. buffer' = (buffer \o X) \o <<last(t)>>
    BY <1>1 DEF X
  <2> QED
    BY <1>6, <2>1, ConcatAssociative
<1> DEFINE Q == X \o <<last(t)>>
<1>9. /\ Q \in Seq(ItemType) /\ Len(Q) = Len(X) + 1
      /\ \A n \in 1..Len(Q) : Q[n] = IF n <= Len(X) THEN X[n] ELSE last(t)
  BY <1>6
<1> HIDE DEF Q
<1>10. \A n \in 1..Len(Q) : SnapshotItem(Q[n], registry, t)
  BY <1>5, <1>6, <1>7, <1>9
<1>11. \A n \in 1..(Len(Q) - 1) : n \in 1..Len(Q) /\ n <= Len(X) /\ n \in 1..Cardinality(D)
  BY <1>3, <1>7, <1>9
<1>12. \A n \in 1..(Len(Q) - 1) : Q[n] = item(t, n)
  BY <1>9, <1>11 DEF X
<1>13. Q # <<>> /\ Q[Len(Q)] = last(t)
  BY <1>3, <1>7, <1>9
<1>14. \A i \in D : \E n \in 1..(Len(Q) - 1) : Q[n].id = i
  <2> SUFFICES ASSUME NEW i \in D PROVE \E n \in 1..(Len(Q) - 1) : Q[n].id = i
    OBVIOUS
  <2>1. PICK n \in 1..Cardinality(D) : SetToSeq(D)[n] = i
    BY <1>3
  <2>2. n \in 1..(Len(Q) - 1)
    BY <1>3, <1>7, <1>9
  <2> QED
    BY <1>a, <1>12, <2>1, <2>2
<1>15. Lists(Q, registry, t)
  BY <1>a, <1>10, <1>11, <1>12, <1>13, <1>14 DEF Lists, D
<1> QED
  BY <1>1, <1>8, <1>9, <1>15 DEF Q

LEMMA SnapshotType ==
  ASSUME Inv, Snapshot
  PROVE  /\ now' \in Times /\ latest' \in Times /\ faults' \in Nat
         /\ buffer' \in Seq(ItemType)
<1>1. PICK Q \in Seq(ItemType), t \in Times : Stamp(t) /\ buffer' = buffer \o Q
  BY SnapshotItems
<1>2. buffer \in Seq(ItemType)
  BY DEF Inv, TypeInv
<1> QED
  BY <1>1, <1>2, StampType

LEMMA InvStep == Inv /\ [Next]_vars => Inv'
<1> SUFFICES ASSUME Inv, [Next]_vars PROVE Inv'
  OBVIOUS
<1> USE DEF Inv, TypeInv
<1>r. /\ DOMAIN registry \in SUBSET Ids /\ registry \in [DOMAIN registry -> Entry]
  BY RegistryType DEF TypeOK
\* Changes of the registry.
<1>change. ASSUME NEW it \in ItemType, NEW t \in Times, NEW described, Change(it, t, described),
                  NEW S \in SUBSET Ids, registry' \in [S -> Entry]
           PROVE  Inv'
  <2>1. /\ now' \in Times /\ latest' \in Times /\ faults' \in Nat /\ ops' \in 0..MaxOps
        /\ buffer' \in Seq(ItemType)
        /\ UNCHANGED <<ha, queue, written, table, rule, letters, restarts>>
    BY <1>change, ChangeType
  <2>2. TypeOK'
    BY <1>change, <2>1 DEF TypeOK
  <2>3. Numbered(table')
    BY <2>1
  <2> QED
    BY <2>1, <2>2, <2>3
<1>create. CASE RegCreate
  <2>1. PICK i \in Ids \ DOMAIN registry, p \in Payloads, t \in Times :
          LET e == [uuid |-> ops + 1, pay |-> p, created |-> t]
              it == Item("reconcile", i, NoId, e, t, {})
          IN /\ registry' = [j \in DOMAIN registry \cup {i} |-> IF j = i THEN e ELSE registry[j]]
             /\ Change(it, t, truth \cup {NewVersion(truth, it, t)})
    BY <1>create DEF RegCreate
  <2> DEFINE e == [uuid |-> ops + 1, pay |-> p, created |-> t]
             it == Item("reconcile", i, NoId, e, t, {})
             S == DOMAIN registry \cup {i}
  <2>2. e \in Entry
    <3>1. ops + 1 \in 0..MaxOps
      BY <2>1, TimesFacts DEF Change
    <3> QED
      BY <3>1 DEF Entry
  <2>3. it \in ItemType
    BY <2>2 DEF Item, ItemType, Acts
  <2>4. S \in SUBSET Ids /\ registry' \in [S -> Entry]
    BY <1>r, <2>1, <2>2
  <2> QED
    BY <1>change, <2>1, <2>3, <2>4
<1>update. CASE RegUpdate
  <2>1. PICK i \in DOMAIN registry, p \in Payloads, t \in Times :
          LET e == [registry[i] EXCEPT !.pay = p]
              it == Item("reconcile", i, NoId, e, t, {})
          IN /\ registry' = [registry EXCEPT ![i] = e]
             /\ Change(it, t, CloseTruth(i, t) \cup {NewVersion(truth, it, t)})
    BY <1>update DEF RegUpdate
  <2> DEFINE e == [registry[i] EXCEPT !.pay = p]
             it == Item("reconcile", i, NoId, e, t, {})
             S == DOMAIN registry
  <2>2. e \in Entry /\ i \in Ids
    BY <1>r DEF Entry
  <2>3. it \in ItemType
    BY <2>2 DEF Item, ItemType, Acts
  <2>4. S \in SUBSET Ids /\ registry' \in [S -> Entry]
    BY <1>r, <2>1, <2>2
  <2> QED
    BY <1>change, <2>1, <2>3, <2>4
<1>rename. CASE RegRename
  <2>1. PICK i \in DOMAIN registry, j \in Ids \ DOMAIN registry, t \in Times :
          LET it == Item("rename", j, i, registry[i], t, {})
          IN /\ registry' = [k \in (DOMAIN registry \ {i}) \cup {j} |->
                               IF k = j THEN registry[i] ELSE registry[k]]
             /\ Change(it, t, CloseTruth(i, t) \cup {NewVersion(truth, it, t)})
    BY <1>rename DEF RegRename
  <2> DEFINE it == Item("rename", j, i, registry[i], t, {})
             S == (DOMAIN registry \ {i}) \cup {j}
  <2>2. it \in ItemType
    BY <1>r DEF Item, ItemType, Acts
  <2>3. S \in SUBSET Ids /\ registry' \in [S -> Entry]
    BY <1>r, <2>1
  <2> QED
    BY <1>change, <2>1, <2>2, <2>3
<1>remove. CASE RegRemove
  <2>1. PICK i \in DOMAIN registry, t \in Times :
          /\ registry' = Restrict(registry, DOMAIN registry \ {i})
          /\ Change(Item("remove", i, NoId, NoEntry, t, {}), t, CloseTruth(i, t))
    BY <1>remove DEF RegRemove
  <2>2. Item("remove", i, NoId, NoEntry, t, {}) \in ItemType
    BY <1>r, NoEntryType DEF Item, ItemType, Acts
  <2>3. DOMAIN registry \ {i} \in SUBSET Ids /\ registry' \in [DOMAIN registry \ {i} -> Entry]
    BY <1>r, <2>1 DEF Restrict
  <2> QED
    BY <1>change, <2>1, <2>2, <2>3
\* The recorder.
<1>snapshot. CASE Snapshot
  <2>1. ha' = "running" /\ UNCHANGED <<registry, queue, written, table, rule, letters, ops, restarts>>
    BY <1>snapshot DEF Snapshot
  <2>2. /\ now' \in Times /\ latest' \in Times /\ faults' \in Nat
        /\ buffer' \in Seq(ItemType)
    BY <1>snapshot, SnapshotType
  <2> QED
    BY <2>1, <2>2 DEF TypeOK
<1>drain. CASE Drain
  <2>1. PICK k \in 0..Len(buffer) : queue' = queue \o SubSeq(buffer, 1, k) \o buffer
    BY <1>drain DEF Drain
  <2>2. SubSeq(buffer, 1, k) \in Seq(ItemType)
    OBVIOUS
  <2>3. queue' \in Seq(ItemType) /\ (queue # <<>> => queue' # <<>>)
    BY <2>1, <2>2
  <2>4. faults' \in Nat
    BY <1>drain DEF Drain
  <2>5. /\ buffer' = <<>>
        /\ UNCHANGED <<registry, ha, now, written, table, rule, letters, ops, restarts, latest>>
    BY <1>drain DEF Drain
  <2> QED
    BY <2>3, <2>4, <2>5 DEF TypeOK
<1>write. CASE Write
  <2> DEFINE it == Head(queue)
             R == Written(table, it)
  <2>1. it \in ItemType
    BY <1>write DEF Write
  <2>2. Effect(table, R.rows, it)
    BY <2>1, WrittenEffect
  <2>3. Numbered(R.rows)
    BY <2>1, <2>2, EffectNumbered
  <2>4. /\ table' = R.rows /\ written' = TRUE /\ queue # <<>> /\ ha # "down"
        /\ letters' = [r \in Reasons |-> letters[r] + IF r \in R.why THEN 1 ELSE 0]
        /\ UNCHANGED <<queue, rule, envVars>>
    BY <1>write DEF Write
  <2> HIDE DEF R
  <2>5. letters' \in [Reasons -> Nat]
    BY <2>4 DEF TypeOK
  <2> QED
    BY <2>3, <2>4, <2>5 DEF TypeOK, Numbered, envVars
<1>done. CASE TaskDone
  <2>1. Tail(queue) \in Seq(ItemType)
    BY <1>done DEF TaskDone, TypeOK
  <2> QED
    BY <1>done, <2>1 DEF TaskDone, TypeOK, envVars
<1>stop. CASE Stop
  <2>1. /\ ha' = "down" /\ buffer' = <<>> /\ written' = FALSE /\ restarts' = restarts + 1
        /\ UNCHANGED <<registry, now, queue, table, rule, letters, ops, faults, latest>>
    BY <1>stop DEF Stop
  <2>2. <<>> \in Seq(ItemType)
    OBVIOUS
  <2>3. buffer' \in Seq(ItemType) /\ restarts' \in Nat
    BY <2>1, <2>2
  <2>4. TypeOK'
    BY <2>1 DEF TypeOK
  <2>5. Numbered(table')
    BY <2>1
  <2> QED
    BY <2>1, <2>3, <2>4, <2>5
<1>start. CASE StartUp
  BY <1>start DEF StartUp, TypeOK
<1>stutter. CASE UNCHANGED vars
  BY <1>stutter DEF vars, TypeOK
<1> QED
  BY <1>create, <1>update, <1>rename, <1>remove, <1>snapshot, <1>drain, <1>write, <1>done,
     <1>stop, <1>start, <1>stutter DEF Next

LEMMA InvHolds == Spec => []Inv
<1> QED
  BY InitInv, InvStep, PTL DEF Spec

\* Types of the registries' history: in particular every version begins and ends at an
\* instant, and what the worker has written is still at the front of the queue.
THEOREM TypeCorrect == Spec => []TypeOK
<1>1. Inv => TypeOK
  BY DEF Inv, TypeInv
<1> QED
  BY <1>1, InvHolds, PTL
-----------------------------------------------------------------------------
(* The table is a log of versions.                                         *)

\* The body of VersionLog's Transaction, from the table T to the table R.
Gone(T, R) == {v \in T : v \notin R}
Ends(T, R, t) == (T \ Gone(T, R)) \cup {[v EXCEPT !.to = t] : v \in Gone(T, R)}
OneOpenOf(T) == \A v, w \in T : v.id = w.id /\ v.to = Open /\ w.to = Open => v = w
AreApart(v, w) == v.id = w.id /\ v # w => v.to <= w.from \/ w.to <= v.from
LogStep(T, R, apart) ==
  /\ \A v \in Gone(T, R) : v.to = Open
  /\ \A w \in R \ T : w.from < w.to
  /\ OneOpenOf(R)
  /\ \E t \in {w.to : w \in R \ T} :
       LET added == R \ Ends(T, R, t)
       IN /\ Ends(T, R, t) \subseteq R
          /\ \A v, w \in added : v = w
          /\ \A w \in added : w.to = Open
          /\ apart => \A v \in R, w \in added : AreApart(v, w)

\* What the database accepts under rule r.
LegalUnder(r, T) ==
  IF r = "exclusion"
    THEN \A v, w \in T : v.from <= v.to /\ (v # w => ~Overlap(v, w))
    ELSE \A i \in Ids : Cardinality(OpenOf(T, i)) <= 1

\* It has one open version of an id, under either rule.
LEMMA LegalOneOpen ==
  ASSUME NEW r, NEW R, Numbered(R), LegalUnder(r, R)
  PROVE  OneOpenOf(R)
<1> SUFFICES ASSUME NEW v \in R, NEW w \in R, v.id = w.id, v.to = Open, w.to = Open, v # w
             PROVE  FALSE
  BY DEF OneOpenOf
<1>1. v \in Version /\ w \in Version
  BY DEF Numbered
<1>2. v.from < Open /\ w.from < Open /\ v.id \in Ids
  BY <1>1, TimesFacts DEF Version
<1>3. CASE r = "exclusion"
  BY <1>2, <1>3 DEF LegalUnder, Overlap
<1>4. CASE r # "exclusion"
  <2> DEFINE O == OpenOf(R, v.id)
  <2>1. O \subseteq R /\ v \in O /\ w \in O
    BY DEF OpenOf
  <2>2. Cardinality(O) <= 1
    BY <1>2, <1>4 DEF LegalUnder
  <2> HIDE DEF O
  <2>3. IsFiniteSet(O)
    BY <2>1, FS_Subset DEF Numbered
  <2>4. Cardinality({v, w}) <= Cardinality(O)
    BY <2>1, <2>3, FS_Subset
  <2>5. Cardinality({v, w}) = 2
    <3>1. Cardinality({v}) = 1 /\ IsFiniteSet({v})
      BY FS_Singleton
    <3>2. {v, w} = {v} \cup {w} /\ w \notin {v}
      OBVIOUS
    <3>3. Cardinality({v} \cup {w}) = Cardinality({v}) + 1
      BY <3>1, <3>2, FS_AddElement
    <3> QED
      BY <3>1, <3>2, <3>3
  <2>6. Cardinality(O) \in Nat
    BY <2>3, FS_CardinalityType
  <2> QED
    BY <2>2, <2>4, <2>5, <2>6
<1> QED
  BY <1>3, <1>4

\* The set S of the versions that ended, what they became, and the added ones can be read
\* off the two tables.
ReadOff(T, R, S, N, t) ==
  /\ Gone(T, R) = S
  /\ \A v \in S : [v EXCEPT !.to = t] \in R \ T
  /\ \A w \in N : w \in R \ T
  /\ Ends(T, R, t) = EndAt(T, S, t)
  /\ R \ T = {[v EXCEPT !.to = t] : v \in S} \cup N

LEMMA EffectEnds ==
  ASSUME NEW T, Numbered(T), NEW it \in ItemType, NEW S \in SUBSET Endable(T, it.ts),
         NEW N, \A w \in N : w.row = Cardinality(T), NEW R, R = EndAt(T, S, it.ts) \cup N
  PROVE  ReadOff(T, R, S, N, it.ts)
<1> DEFINE ts == it.ts
           end(v) == IF v \in S THEN [v EXCEPT !.to = ts] ELSE v
           E == EndAt(T, S, ts)
<1>0. R = E \cup N
  OBVIOUS
<1>1. ts \in Times /\ ts # Open /\ S \subseteq T /\ \A v \in S : v.to = Open
  BY TimesFacts DEF ItemType, Endable
<1>2. Cardinality(T) \in Nat /\ \A v \in T : v.row \in Nat /\ v.row < Cardinality(T)
  BY FS_CardinalityType DEF Numbered, Version
<1>3. \A v \in T : end(v).row = v.row /\ end(v).id = v.id /\ (v \in S => end(v).to = ts)
  BY DEF Numbered, Version
<1>4. E = {end(v) : v \in T}
  BY DEF EndAt
<1> HIDE DEF end, E, ts
<1>5. \A w \in N : w \notin T /\ w \notin E
  BY <1>2, <1>3, <1>4
<1>6. \A v \in T, u \in T : v = end(u) => u = v
  BY <1>3 DEF Numbered
<1>7. \A v \in S : v \notin E
  BY <1>1, <1>3, <1>4, <1>6
<1>8. \A v \in T : v \notin S => v = end(v)
  BY DEF end
<1>9. \A v \in S : end(v) = [v EXCEPT !.to = ts] /\ end(v) \in E /\ end(v) \notin T
  <2> SUFFICES ASSUME NEW v \in S
               PROVE  end(v) = [v EXCEPT !.to = ts] /\ end(v) \in E /\ end(v) \notin T
    OBVIOUS
  <2>1. end(v) = [v EXCEPT !.to = ts] /\ end(v) \in E
    BY <1>1, <1>4 DEF end
  <2>2. end(v) # v
    BY <1>1, <1>3
  <2>3. \A u \in T : u = end(v) => u = v
    BY <1>1, <1>6
  <2> QED
    BY <2>1, <2>2, <2>3
<1>10. Gone(T, R) = S
  <2>1. \A v \in S : v \notin R
    BY <1>0, <1>1, <1>5, <1>7
  <2>2. \A v \in T : v \notin S => v \in R
    BY <1>0, <1>4, <1>8
  <2> QED
    BY <1>1, <2>1, <2>2 DEF Gone
<1>11. Ends(T, R, ts) = E
  <2>1. Ends(T, R, ts) = (T \ S) \cup {[v EXCEPT !.to = ts] : v \in S}
    BY <1>10 DEF Ends
  <2>2. \A x \in E : x \in (T \ S) \cup {[v EXCEPT !.to = ts] : v \in S}
    BY <1>4, <1>8, <1>9
  <2>3. \A x \in (T \ S) \cup {[v EXCEPT !.to = ts] : v \in S} : x \in E
    BY <1>4, <1>8, <1>9
  <2> QED
    BY <2>1, <2>2, <2>3
<1>12. R \ T = {[v EXCEPT !.to = ts] : v \in S} \cup N
  <2>1. \A x \in R \ T : x \in {[v EXCEPT !.to = ts] : v \in S} \cup N
    BY <1>0, <1>4, <1>8, <1>9
  <2>2. \A x \in {[v EXCEPT !.to = ts] : v \in S} \cup N : x \in R \ T
    BY <1>0, <1>5, <1>9
  <2> QED
    BY <2>1, <2>2
<1> QED
  BY <1>0, <1>5, <1>9, <1>10, <1>11, <1>12 DEF ReadOff, E, ts

\* Two versions of an id are apart in every table the exclusion constraint accepts.
LEMMA LegalApart ==
  ASSUME NEW R, Numbered(R), Legal(R), rule = "exclusion", NEW v \in R, NEW w \in R
  PROVE  AreApart(v, w)
<1>1. v # w => ~Overlap(v, w)
  BY DEF Legal
<1>2. v.from \in Nat /\ v.to \in Nat /\ w.from \in Nat /\ w.to \in Nat
  BY TimesFacts DEF Numbered, Version
<1> QED
  BY <1>1, <1>2 DEF Overlap, AreApart

\* An effect the database accepts is a transaction of the log.  The version it adds is
\* apart from the others by the constraint, or because nothing ended after its stamp.
LEMMA EffectIsLogStep ==
  ASSUME NEW T, Numbered(T), NEW it \in ItemType, NEW R, Effect(T, R, it), R # T, Legal(R),
         NEW apart,
         apart => \/ rule = "exclusion"
                  \/ \A v \in T : v.to # Open => v.to <= it.ts
  PROVE  LogStep(T, R, apart)
<1>1. it.ts \in Times /\ it.ts \in Nat /\ it.ts < Open /\ Open \in Nat /\ it.ts # Open
  BY TimesFacts DEF ItemType
<1>2. PICK S \in SUBSET Endable(T, it.ts), N \in SUBSET {NewVersion(T, it, from) : from \in Times} :
         /\ R = EndAt(T, S, it.ts) \cup N
         /\ \A w \in N : /\ N = {w} /\ it.id \in Ids
                         /\ OpenOf(EndAt(T, S, it.ts), it.id) = {}
                         /\ w.from = it.ts \/ \A v \in T : v.id # it.id
  BY DEF Effect
<1> DEFINE E == EndAt(T, S, it.ts)
<1>3. \A w \in N : w.row = Cardinality(T) /\ w.to = Open /\ w.id = it.id /\ w.from \in Times
  BY <1>2 DEF NewVersion
<1>4. /\ Gone(T, R) = S
      /\ \A v \in S : [v EXCEPT !.to = it.ts] \in R \ T
      /\ \A w \in N : w \in R \ T
      /\ Ends(T, R, it.ts) = E
      /\ R \ T = {[v EXCEPT !.to = it.ts] : v \in S} \cup N
  <2>1. S \in SUBSET Endable(T, it.ts) /\ \A w \in N : w.row = Cardinality(T)
    BY <1>3
  <2>2. R = EndAt(T, S, it.ts) \cup N
    BY <1>2
  <2>3. ReadOff(T, R, S, N, it.ts)
    BY <2>1, <2>2, EffectEnds
  <2> QED
    BY <2>3 DEF ReadOff
<1>5. Numbered(R)
  BY EffectNumbered
<1>6. OneOpenOf(R)
  <2>1. LegalUnder(rule, R)
    BY DEF Legal, LegalUnder
  <2> QED
    BY <1>5, <2>1, LegalOneOpen
<1>7. \A v \in S : v \in Version /\ v.to = Open /\ v.from < it.ts
  BY DEF Endable, Numbered
<1>8. \A v \in Gone(T, R) : v.to = Open
  BY <1>4, <1>7
<1>9. \A w \in R \ T : w.from < w.to
  <2> SUFFICES ASSUME NEW w \in R \ T PROVE w.from < w.to
    OBVIOUS
  <2>1. CASE w \in N
    BY <1>3, <2>1, TimesFacts
  <2>2. CASE w \notin N
    <3>1. PICK v \in S : w = [v EXCEPT !.to = it.ts]
      BY <1>4, <2>2
    <3> QED
      BY <1>7, <3>1 DEF Version
  <2> QED
    BY <2>1, <2>2
\* The versions ended at the stamp, or at Open when none did.
<1> DEFINE t == IF S = {} THEN Open ELSE it.ts
<1>10. t \in {w.to : w \in R \ T}
  <2>1. CASE S # {}
    <3>1. PICK v \in S : TRUE
      BY <2>1
    <3>2. [v EXCEPT !.to = it.ts].to = it.ts
      BY <1>7 DEF Version
    <3>3. [v EXCEPT !.to = it.ts] \in R \ T
      BY <1>4
    <3> QED
      BY <2>1, <3>2, <3>3
  <2>2. CASE S = {}
    <3>1. N # {}
      BY <1>2, <2>2, EndNothing
    <3>2. PICK w \in N : TRUE
      BY <3>1
    <3> QED
      BY <1>3, <1>4, <2>2, <3>2
  <2> QED
    BY <2>1, <2>2
<1>11. Ends(T, R, t) = E
  <2>1. CASE S # {}
    BY <1>4, <2>1
  <2>2. CASE S = {}
    <3>1. Ends(T, R, Open) = T
      BY <1>4, <2>2 DEF Ends
    <3> QED
      BY <2>2, <3>1, EndNothing
  <2> QED
    BY <2>1, <2>2
<1> HIDE DEF t, E
<1> DEFINE added == R \ Ends(T, R, t)
<1>12. Ends(T, R, t) \subseteq R
  BY <1>2, <1>11 DEF E
<1>13. added \subseteq N
  BY <1>2, <1>11 DEF E
<1>14. \A v, w \in added : v = w
  BY <1>2, <1>13
<1>15. \A w \in added : w.to = Open
  BY <1>3, <1>13
<1>16. apart => \A v \in R, w \in added : AreApart(v, w)
  <2> SUFFICES ASSUME apart, NEW v \in R, NEW w \in added, v.id = w.id, v # w
               PROVE  AreApart(v, w)
    BY DEF AreApart
  <2>1. w \in R /\ w \in N /\ N = {w}
    BY <1>2, <1>13
  <2>2. CASE rule = "exclusion"
    BY <1>5, <2>1, <2>2, LegalApart
  <2>3. CASE \A u \in T : u.to # Open => u.to <= it.ts
    <3>1. v \in E /\ v.id = it.id
      BY <1>2, <1>3, <2>1 DEF E
    <3>2. PICK u \in T : v = IF u \in S THEN [u EXCEPT !.to = it.ts] ELSE u
      BY <3>1 DEF E, EndAt
    <3>3. u \in Version /\ u.id = it.id
      BY <3>1, <3>2 DEF Numbered, Version
    <3>4. w.from = it.ts
      BY <1>2, <2>1, <3>3
    <3>5. v.to # Open
      BY <1>2, <2>1, <3>1 DEF OpenOf, E
    <3>6. v.to <= it.ts
      <4>1. CASE u \in S
        BY <1>1, <3>2, <3>3, <4>1 DEF Version
      <4>2. CASE u \notin S
        BY <2>3, <3>2, <3>5, <4>2
      <4> QED
        BY <4>1, <4>2
    <3> QED
      BY <3>4, <3>6 DEF AreApart
  <2> QED
    BY <2>2, <2>3
<1> QED
  BY <1>6, <1>8, <1>9, <1>10, <1>12, <1>14, <1>15, <1>16 DEF LogStep

-----------------------------------------------------------------------------
(* The order of what is pending, while nothing is repeated and the clock   *)
(* does not step back.                                                     *)

\* The pending items P are in the order of their stamps, the last stamp is last, and
\* every version that ended did so no later than any of them.
Ordered(P, T, last) ==
  /\ \A m, n \in 1..Len(P) : m <= n => P[m].ts <= P[n].ts
  /\ \A n \in 1..Len(P) : P[n].ts <= last
  /\ \A v \in T : v.to # Open => v.to <= last /\ \A n \in 1..Len(P) : v.to <= P[n].ts

LogInv ==
  /\ Inv /\ OneOpenOf(table)
  /\ faults = 0 => Ordered(queue \o buffer, table, latest)

\* New items are stamped later than what is pending.
LEMMA OrderedMore ==
  ASSUME NEW T, T \subseteq Version, NEW P \in Seq(ItemType), NEW Q \in Seq(ItemType),
         NEW last \in Nat, NEW t \in Nat, NEW l \in Nat, Ordered(P, T, last), last <= t, t <= l,
         \A n \in 1..Len(Q) : Q[n].ts = t
  PROVE  Ordered(P \o Q, T, l)
<1> DEFINE PQ == P \o Q
<1>1. /\ Len(P) \in Nat /\ Len(Q) \in Nat /\ Len(PQ) = Len(P) + Len(Q)
      /\ \A n \in 1..Len(PQ) : PQ[n] = IF n <= Len(P) THEN P[n] ELSE Q[n - Len(P)]
  BY ConcatProperties
<1>2. /\ \A n \in 1..Len(P) : P[n].ts \in Nat
      /\ \A v \in T : v.to \in Nat
  BY TimesFacts DEF ItemType, Version
<1> HIDE DEF PQ
<1>3. \A n \in 1..Len(PQ) : \/ n \in 1..Len(P) /\ PQ[n] = P[n] /\ PQ[n].ts <= last
                            \/ n > Len(P) /\ PQ[n].ts = t
  <2> SUFFICES ASSUME NEW n \in 1..Len(PQ)
               PROVE  \/ n \in 1..Len(P) /\ PQ[n] = P[n] /\ PQ[n].ts <= last
                      \/ n > Len(P) /\ PQ[n].ts = t
    OBVIOUS
  <2>1. CASE n <= Len(P)
    BY <1>1, <2>1 DEF Ordered
  <2>2. CASE n > Len(P)
    <3>1. n - Len(P) \in 1..Len(Q) /\ PQ[n] = Q[n - Len(P)]
      BY <1>1, <2>2
    <3> QED
      BY <2>2, <3>1
  <2> QED
    BY <1>1, <2>1, <2>2
<1>4. \A m, n \in 1..Len(PQ) : m <= n => PQ[m].ts <= PQ[n].ts
  <2> SUFFICES ASSUME NEW m \in 1..Len(PQ), NEW n \in 1..Len(PQ), m <= n
               PROVE  PQ[m].ts <= PQ[n].ts
    OBVIOUS
  <2>1. CASE n \in 1..Len(P)
    <3>1. m \in 1..Len(P) /\ PQ[m] = P[m] /\ PQ[n] = P[n]
      BY <1>1, <1>3, <2>1
    <3> QED
      BY <2>1, <3>1 DEF Ordered
  <2>2. CASE n > Len(P)
    <3>1. PQ[n].ts = t
      BY <1>1, <1>3, <2>2
    <3>2. CASE m \in 1..Len(P)
      BY <1>2, <1>3, <3>1, <3>2
    <3>3. CASE m > Len(P)
      BY <1>1, <1>3, <3>1, <3>3
    <3> QED
      BY <1>1, <3>2, <3>3
  <2> QED
    BY <1>1, <2>1, <2>2
<1>5. \A n \in 1..Len(PQ) : PQ[n].ts <= l
  BY <1>2, <1>3
<1>6. ASSUME NEW v \in T, v.to # Open
      PROVE  v.to <= l /\ \A n \in 1..Len(PQ) : v.to <= PQ[n].ts
  <2>1. v.to \in Nat /\ v.to <= last /\ \A n \in 1..Len(P) : v.to <= P[n].ts
    BY <1>2, <1>6 DEF Ordered
  <2>2. ASSUME NEW n \in 1..Len(PQ) PROVE v.to <= PQ[n].ts
    <3>1. CASE n \in 1..Len(P) /\ PQ[n] = P[n]
      BY <2>1, <3>1
    <3>2. CASE PQ[n].ts = t
      BY <2>1, <3>2
    <3> QED
      BY <1>3, <3>1, <3>2
  <2> QED
    BY <2>1, <2>2
<1> QED
  BY <1>4, <1>5, <1>6 DEF Ordered, PQ

\* What is pending after the front item was taken off, or after the end was lost.
LEMMA OrderedLess ==
  ASSUME NEW T, NEW P \in Seq(ItemType), NEW last, Ordered(P, T, last),
         NEW Q \in Seq(ItemType), NEW k \in Nat, k + Len(Q) <= Len(P),
         \A n \in 1..Len(Q) : Q[n] = P[n + k]
  PROVE  Ordered(Q, T, last)
<1>1. Len(Q) \in Nat /\ Len(P) \in Nat
  OBVIOUS
<1>2. \A n \in 1..Len(Q) : n + k \in 1..Len(P) /\ Q[n].ts = P[n + k].ts
  BY <1>1
<1>3. \A m, n \in 1..Len(Q) : m <= n => Q[m].ts <= Q[n].ts
  <2> SUFFICES ASSUME NEW m \in 1..Len(Q), NEW n \in 1..Len(Q), m <= n
               PROVE  Q[m].ts <= Q[n].ts
    OBVIOUS
  <2>1. m + k <= n + k
    OBVIOUS
  <2> QED
    BY <1>2, <2>1 DEF Ordered
<1> QED
  BY <1>2, <1>3 DEF Ordered

\* The transaction of the first pending item ends versions at its stamp.
LEMMA OrderedWrite ==
  ASSUME NEW T, T \subseteq Version, NEW P \in Seq(ItemType), P # <<>>, NEW last \in Nat,
         Ordered(P, T, last), NEW R, Effect(T, R, P[1])
  PROVE  Ordered(P, R, last)
<1> DEFINE ts == P[1].ts
<1>1. Len(P) \in Nat /\ 1 \in 1..Len(P) /\ P[1] \in ItemType /\ ts \in Nat
  BY TimesFacts DEF ItemType
<1>2. ts <= last /\ \A n \in 1..Len(P) : ts <= P[n].ts
  BY <1>1 DEF Ordered
<1>3. PICK S \in SUBSET Endable(T, ts), N \in SUBSET {NewVersion(T, P[1], from) : from \in Times} :
         R = EndAt(T, S, ts) \cup N
  BY DEF Effect
<1>4. ASSUME NEW v \in R, v.to # Open
      PROVE  v.to <= last /\ \A n \in 1..Len(P) : v.to <= P[n].ts
  <2>1. CASE v \in N
    <3>1. v.to = Open
      BY <2>1 DEF NewVersion
    <3> QED
      BY <1>4, <3>1
  <2>2. CASE v \in EndAt(T, S, ts)
    <3>1. PICK u \in T : v = IF u \in S THEN [u EXCEPT !.to = ts] ELSE u
      BY <2>2 DEF EndAt
    <3>2. v.to = ts \/ v = u
      BY <3>1 DEF Version
    <3> QED
      BY <1>2, <1>4, <3>2 DEF Ordered
  <2> QED
    BY <1>3, <2>1, <2>2
<1> QED
  BY <1>4 DEF Ordered

\* So every stamped step leaves the pending items in order.
LEMMA StampOrdered ==
  ASSUME LogInv, NEW t \in Times, Stamp(t), UNCHANGED <<queue, table>>,
         NEW Q \in Seq(ItemType), \A n \in 1..Len(Q) : Q[n].ts = t, buffer' = buffer \o Q,
         faults' = 0
  PROVE  Ordered(queue' \o buffer', table', latest')
<1>1. /\ latest' \in Times /\ latest <= latest' /\ t <= latest' /\ faults = 0 /\ t = latest + 1
  BY StampType DEF LogInv
<1>2. /\ latest \in Nat /\ latest' \in Nat /\ t \in Nat
      /\ queue \in Seq(ItemType) /\ buffer \in Seq(ItemType) /\ table \subseteq Version
  BY <1>1, TimesFacts DEF LogInv, Inv, TypeInv, Numbered
<1>3. Ordered(queue \o buffer, table, latest)
  BY <1>1 DEF LogInv
<1>4. queue' \o buffer' = (queue \o buffer) \o Q
  <2>1. queue \o (buffer \o Q) = (queue \o buffer) \o Q
    <3>1. queue \in Seq(ItemType) /\ buffer \in Seq(ItemType) /\ Q \in Seq(ItemType)
      BY <1>2
    <3> QED
      BY ONLY <3>1, ConcatAssociative
  <2> QED
    BY <2>1
<1>5. queue \o buffer \in Seq(ItemType) /\ latest <= t
  BY <1>1, <1>2
<1> DEFINE P == queue \o buffer
<1>6. P \in Seq(ItemType) /\ Ordered(P, table, latest)
  BY <1>3, <1>5
<1> HIDE DEF P
<1>7. Ordered(P \o Q, table, latest')
  BY <1>1, <1>2, <1>5, <1>6, OrderedMore
<1> QED
  BY <1>4, <1>7 DEF P

LEMMA ChangeOrdered ==
  ASSUME LogInv, NEW it, NEW t \in Times, NEW described, Change(it, t, described),
         it \in ItemType, it.ts = t, faults' = 0
  PROVE  Ordered(queue' \o buffer', table', latest')
<1>1. Stamp(t) /\ UNCHANGED <<queue, table>> /\ buffer \in Seq(ItemType)
  BY DEF Change, LogInv, Inv, TypeInv
<1>2. CASE ha = "down"
  <2> DEFINE Q == <<>>
  <2>1. Q \in Seq(ItemType) /\ (\A n \in 1..Len(Q) : Q[n].ts = t) /\ buffer \o Q = buffer
    BY <1>1, ConcatEmptySeq
  <2>2. buffer' = buffer \o Q
    BY <1>2, <2>1 DEF Change, Observe
  <2> HIDE DEF Q
  <2> QED
    BY <1>1, <2>1, <2>2, StampOrdered
<1>3. CASE ha # "down"
  <2> DEFINE Q == <<it>>
  <2>1. Q \in Seq(ItemType) /\ (\A n \in 1..Len(Q) : Q[n].ts = t) /\ buffer \o Q = Append(buffer, it)
    BY <1>1, AppendIsConcat
  <2>2. buffer' = buffer \o Q
    BY <1>3, <2>1 DEF Change, Observe
  <2> HIDE DEF Q
  <2> QED
    BY <1>1, <2>1, <2>2, StampOrdered
<1> QED
  BY <1>2, <1>3

\* What the writing of the front item does to the table, if it changes it at all.
LEMMA WriteIsLogStep ==
  ASSUME LogInv, Write, table' # table
  PROVE  LogStep(table, table', rule = "exclusion" \/ faults = 0)
<1> DEFINE it == Head(queue)
           P == queue \o buffer
<1>1. /\ queue # <<>> /\ queue \in Seq(ItemType) /\ buffer \in Seq(ItemType) /\ it \in ItemType
      /\ Numbered(table) /\ table' = Written(table, it).rows
  BY DEF LogInv, Inv, TypeInv, Write
<1>2. Effect(table, table', it) /\ Legal(table')
  <2>1. LET R == Written(table, it).rows
        IN  Effect(table, R, it) /\ (R = table \/ Legal(R))
    BY <1>1, WrittenEffect
  <2> QED
    BY <1>1, <2>1
<1>3. P[1] = it /\ Len(P) \in Nat /\ Len(P) >= 1
  BY <1>1
<1>4. faults = 0 => \A v \in table : v.to # Open => v.to <= it.ts
  BY <1>3 DEF LogInv, Ordered
<1> HIDE DEF it, P
<1> DEFINE apart == rule = "exclusion" \/ faults = 0
           R == table'
<1>5. apart => \/ rule = "exclusion"
               \/ \A v \in table : v.to # Open => v.to <= it.ts
  BY <1>4
<1>6. R = table'
  OBVIOUS
<1> HIDE DEF apart, R
<1>7. LogStep(table, R, apart)
  BY <1>1, <1>2, <1>5, <1>6, EffectIsLogStep
<1> QED
  BY <1>6, <1>7 DEF apart

LEMMA LogInvInit == Init => LogInv
<1> SUFFICES ASSUME Init PROVE LogInv
  OBVIOUS
<1>1. Inv
  BY InitInv
<1>2. /\ \A v, w \in table : v.id = w.id => v = w
      /\ \A v \in table : v.to = Open
  BY DEF Init
<1>3. queue \o buffer = <<>>
  BY DEF Init
<1> QED
  BY <1>1, <1>2, <1>3 DEF LogInv, OneOpenOf, Ordered

LEMMA LogInvStep == LogInv /\ [Next]_vars => LogInv'
<1> SUFFICES ASSUME LogInv, [Next]_vars PROVE LogInv'
  OBVIOUS
<1>inv. Inv /\ Inv' /\ OneOpenOf(table)
  BY InvStep DEF LogInv
<1>ord. faults = 0 => Ordered(queue \o buffer, table, latest)
  BY DEF LogInv
<1>seq. /\ queue \in Seq(ItemType) /\ buffer \in Seq(ItemType) /\ faults \in Nat
        /\ latest \in Nat /\ table \subseteq Version
  BY <1>inv, TimesFacts DEF Inv, TypeInv, Numbered
\* Only the worker changes the table, and only a fault repeats items.
<1>table. ASSUME table' = table, faults' = 0 => Ordered(queue' \o buffer', table', latest')
          PROVE  LogInv'
  BY <1>inv, <1>table DEF LogInv, OneOpenOf
<1>create. CASE RegCreate
  <2>1. PICK i \in Ids \ DOMAIN registry, p \in Payloads, t \in Times :
          LET e == [uuid |-> ops + 1, pay |-> p, created |-> t]
              it == Item("reconcile", i, NoId, e, t, {})
          IN Change(it, t, truth \cup {NewVersion(truth, it, t)})
    BY <1>create DEF RegCreate
  <2> DEFINE e == [uuid |-> ops + 1, pay |-> p, created |-> t]
             it == Item("reconcile", i, NoId, e, t, {})
  <2>2. ops + 1 \in 0..MaxOps
    BY <1>inv, <2>1, TimesFacts DEF Change, Inv, TypeInv
  <2>3. e \in Entry
    BY <2>2 DEF Entry
  <2>4. it \in ItemType /\ it.ts = t
    BY <2>3 DEF Item, ItemType, Acts
  <2>5. Change(it, t, truth \cup {NewVersion(truth, it, t)})
    BY <2>1
  <2> HIDE DEF it
  <2> QED
    BY <1>table, <2>4, <2>5, ChangeOrdered DEF Change
<1>update. CASE RegUpdate
  <2>1. PICK i \in DOMAIN registry, p \in Payloads, t \in Times :
          LET e == [registry[i] EXCEPT !.pay = p]
              it == Item("reconcile", i, NoId, e, t, {})
          IN Change(it, t, CloseTruth(i, t) \cup {NewVersion(truth, it, t)})
    BY <1>update DEF RegUpdate
  <2> DEFINE e == [registry[i] EXCEPT !.pay = p]
             it == Item("reconcile", i, NoId, e, t, {})
  <2>2. e \in Entry /\ i \in Ids
    <3>1. registry[i] \in Entry /\ i \in Ids
      BY <1>inv DEF Inv, TypeInv, TypeOK
    <3> QED
      BY <3>1 DEF Entry
  <2>3. it \in ItemType /\ it.ts = t
    BY <2>2 DEF Item, ItemType, Acts
  <2>4. Change(it, t, CloseTruth(i, t) \cup {NewVersion(truth, it, t)})
    BY <2>1
  <2> HIDE DEF it
  <2> QED
    BY <1>table, <2>3, <2>4, ChangeOrdered DEF Change
<1>rename. CASE RegRename
  <2>1. PICK i \in DOMAIN registry, j \in Ids \ DOMAIN registry, t \in Times :
          LET it == Item("rename", j, i, registry[i], t, {})
          IN Change(it, t, CloseTruth(i, t) \cup {NewVersion(truth, it, t)})
    BY <1>rename DEF RegRename
  <2> DEFINE it == Item("rename", j, i, registry[i], t, {})
  <2>2. it \in ItemType /\ it.ts = t
    BY <1>inv DEF Item, ItemType, Acts, Inv, TypeInv, TypeOK
  <2>3. Change(it, t, CloseTruth(i, t) \cup {NewVersion(truth, it, t)})
    BY <2>1
  <2> HIDE DEF it
  <2> QED
    BY <1>table, <2>2, <2>3, ChangeOrdered DEF Change
<1>remove. CASE RegRemove
  <2>1. PICK i \in DOMAIN registry, t \in Times :
          Change(Item("remove", i, NoId, NoEntry, t, {}), t, CloseTruth(i, t))
    BY <1>remove DEF RegRemove
  <2> DEFINE it == Item("remove", i, NoId, NoEntry, t, {})
  <2>2. it \in ItemType /\ it.ts = t
    BY <1>inv, NoEntryType DEF Item, ItemType, Acts, Inv, TypeInv, TypeOK
  <2>3. Change(it, t, CloseTruth(i, t))
    BY <2>1
  <2> HIDE DEF it
  <2> QED
    BY <1>table, <2>2, <2>3, ChangeOrdered DEF Change
<1>snapshot. CASE Snapshot
  <2>1. PICK Q \in Seq(ItemType), t \in Times :
          /\ Stamp(t) /\ buffer' = buffer \o Q
          /\ \A n \in 1..Len(Q) : Q[n].ts = t
    BY <1>inv, <1>snapshot, SnapshotItems DEF SnapshotItem, Lists
  <2>2. UNCHANGED <<queue, table>>
    BY <1>snapshot DEF Snapshot
  <2>3. faults' = 0 => Ordered(queue' \o buffer', table', latest')
    BY <2>1, <2>2, StampOrdered
  <2> QED
    BY <1>table, <2>2, <2>3
<1>drain. CASE Drain
  <2>1. PICK k \in 0..Len(buffer) :
          /\ queue' = queue \o SubSeq(buffer, 1, k) \o buffer
          /\ (k = 0 /\ faults' = faults) \/ faults' = faults + 1
    BY <1>drain DEF Drain
  <2>2. buffer' = <<>> /\ table' = table /\ latest' = latest
    BY <1>drain DEF Drain
  <2>3. ASSUME faults' = 0
        PROVE  queue' \o buffer' = queue \o buffer /\ faults = 0
    <3>1. k = 0 /\ faults = 0
      BY <1>seq, <2>1, <2>3
    <3>2. SubSeq(buffer, 1, k) = <<>>
      BY <3>1
    <3>3. queue' = queue \o buffer
      BY <1>seq, <2>1, <3>2, ConcatEmptySeq
    <3>4. queue \o buffer \in Seq(ItemType)
      BY <1>seq
    <3> QED
      BY <2>2, <3>1, <3>3, <3>4, ConcatEmptySeq
  <2> QED
    BY <1>table, <1>ord, <2>2, <2>3
<1>write. CASE Write
  <2> DEFINE P == queue \o buffer
             it == Head(queue)
             R == Written(table, it).rows
  <2>1. /\ queue # <<>> /\ table' = R /\ UNCHANGED <<queue, buffer, latest, faults>>
    BY <1>write DEF Write, envVars
  <2>2. P \in Seq(ItemType) /\ P # <<>> /\ P[1] = it /\ it \in ItemType
    BY <1>seq, <2>1
  <2>3. Effect(table, R, it)
    BY <2>2, WrittenEffect
  <2>4. OneOpenOf(table')
    <3>1. CASE table' = table
      BY <1>inv, <3>1
    <3>2. CASE table' # table
      BY <1>write, <3>2, WriteIsLogStep DEF LogStep
    <3> QED
      BY <3>1, <3>2
  <2> HIDE DEF P, it, R
  <2>5. faults = 0 => Ordered(P, table, latest)
    BY <1>ord DEF P
  <2>6. faults = 0 => Ordered(P, R, latest)
    BY <1>seq, <2>2, <2>3, <2>5, OrderedWrite
  <2>7. faults' = 0 => Ordered(queue' \o buffer', table', latest')
    BY <2>1, <2>6 DEF P
  <2> QED
    BY <1>inv, <2>4, <2>7 DEF LogInv, OneOpenOf
<1>done. CASE TaskDone
  <2>1. queue # <<>> /\ queue' = Tail(queue) /\ UNCHANGED <<buffer, table, latest, faults>>
    BY <1>inv, <1>done DEF TaskDone, envVars, Inv, TypeInv, TypeOK
  <2> DEFINE P == queue \o buffer
             Q == queue' \o buffer'
  <2>2. /\ Q \in Seq(ItemType) /\ P \in Seq(ItemType) /\ 1 + Len(Q) <= Len(P)
        /\ \A n \in 1..Len(Q) : Q[n] = P[n + 1]
    BY <1>seq, <2>1
  <2> HIDE DEF Q, P
  <2>3. faults = 0 => Ordered(P, table, latest)
    BY <1>ord DEF P
  <2>4. faults = 0 => Ordered(Q, table, latest)
    BY <2>2, <2>3, OrderedLess
  <2> QED
    BY <1>table, <2>1, <2>4 DEF Q
<1>stop. CASE Stop
  <2>1. buffer' = <<>> /\ UNCHANGED <<queue, table, latest, faults>>
    BY <1>stop DEF Stop
  <2> DEFINE P == queue \o buffer
             Q == queue' \o buffer'
  <2>2. Q = queue
    BY <1>seq, <2>1, ConcatEmptySeq
  <2>3. /\ Q \in Seq(ItemType) /\ P \in Seq(ItemType) /\ 0 + Len(Q) <= Len(P)
        /\ \A n \in 1..Len(Q) : Q[n] = P[n + 0]
    BY <1>seq, <2>2
  <2> HIDE DEF Q, P
  <2>4. faults = 0 => Ordered(P, table, latest)
    BY <1>ord DEF P
  <2>5. faults = 0 => Ordered(Q, table, latest)
    BY <2>3, <2>4, OrderedLess
  <2> QED
    BY <1>table, <2>1, <2>5 DEF Q
<1>start. CASE StartUp
  BY <1>table, <1>ord, <1>start DEF StartUp
<1>stutter. CASE UNCHANGED vars
  BY <1>table, <1>ord, <1>stutter DEF vars
<1> QED
  BY <1>create, <1>update, <1>rename, <1>remove, <1>snapshot, <1>drain, <1>write, <1>done,
     <1>stop, <1>start, <1>stutter DEF Next

\* Only the worker changes the table.
LEMMA OnlyWriteChanges == [Next]_vars => Write \/ table' = table
<1> SUFFICES ASSUME [Next]_vars PROVE Write \/ table' = table
  OBVIOUS
<1>1. RegCreate \/ RegUpdate \/ RegRename \/ RegRemove => table' = table
  BY DEF RegCreate, RegUpdate, RegRename, RegRemove, Change
<1> QED
  BY <1>1 DEF Next, vars, Snapshot, Drain, TaskDone, Stop, StartUp

\* The history the worker writes is a log of versions: what is closed stays, an id has one open
\* version, a transaction ends versions at one instant and adds at most one, and under the
\* exclusion constraint, or while nothing is repeated and the clock does not step back, no
\* instant belongs to two versions of an id (schema.py:60, const.py:652).
THEOREM ImplementsLog == Spec => LogSpec
<1>1. Init => Log!Init
  BY DEF Init, Log!Init, Log!OneOpen, Log!Apart
<1>2. LogInv /\ [Next]_vars => [Log!Transaction]_table
  <2> SUFFICES ASSUME LogInv, [Next]_vars, table' # table PROVE Log!Transaction
    OBVIOUS
  <2>1. LogStep(table, table', rule = "exclusion" \/ faults = 0)
    BY OnlyWriteChanges, WriteIsLogStep
  <2>2. Log!Ended = Gone(table, table')
    BY DEF Gone, Log!Ended
  <2>3. \A t : Log!ClosedAt(t) = Ends(table, table', t)
    BY <2>2 DEF Ends, Log!ClosedAt
  <2>4. Log!OneOpen(table')
    BY <2>1 DEF LogStep, OneOpenOf, Log!OneOpen
  <2>5. \A v, w : Log!Apart(v, w) <=> AreApart(v, w)
    BY DEF Log!Apart, AreApart
  <2>6. \E t \in {w.to : w \in table' \ table} :
          LET added == table' \ Log!ClosedAt(t)
          IN  /\ Log!ClosedAt(t) \subseteq table'
              /\ \A v, w \in added : v = w
              /\ \A w \in added : w.to = Open
              /\ rule = "exclusion" \/ faults = 0 =>
                   \A v \in table', w \in added : Log!Apart(v, w)
    BY <2>1, <2>3, <2>5 DEF LogStep
  <2>7. (\A v \in Log!Ended : v.to = Open) /\ (\A w \in table' \ table : w.from < w.to)
    BY <2>1, <2>2 DEF LogStep
  <2> QED
    BY <2>4, <2>6, <2>7 DEF Log!Transaction
<1> QED
  BY <1>1, <1>2, LogInvInit, LogInvStep, PTL DEF Spec, LogSpec, Log!Spec

-----------------------------------------------------------------------------
(* Writing an item again.                                                  *)

\* _write_item_raw under rule r.
WrittenUnder(r, T, it) ==
  LET done == Dispatched(T, it)
  IN IF LegalUnder(r, done.rows) THEN done ELSE Result(T, {"integrity"})

\* An item applied to R, where its transaction left R of T, changes no row, and nothing
\* is dead-lettered for a reason it was not dead-lettered for before.
NoOpAfter(T, R, it) ==
  /\ Dispatched(R, it).rows = R
  /\ Dispatched(R, it).why \subseteq Dispatched(T, it).why

\* No row that can be ended at t is left by the statement that ended them.
LEMMA ClosedTwice ==
  ASSUME NEW T, T \subseteq Version, NEW i, NEW t \in Times
  PROVE  /\ \A v \in OpenOf(Closed(T, i, t), i) : ~(v.from < t)
         /\ Closed(Closed(T, i, t), i, t) = Closed(T, i, t)
<1> DEFINE C == Closed(T, i, t)
<1>1. t # Open
  BY TimesFacts
<1>2. \A v \in OpenOf(C, i) : ~(v.from < t)
  <2> SUFFICES ASSUME NEW v \in C, v.id = i, v.to = Open, v.from < t PROVE FALSE
    BY DEF OpenOf
  <2>1. PICK u \in T : v = IF u \in OpenOf(T, i) /\ u.from < t THEN [u EXCEPT !.to = t] ELSE u
    BY DEF Closed
  <2>2. u \in Version
    OBVIOUS
  <2>3. CASE u \in OpenOf(T, i) /\ u.from < t
    BY <1>1, <2>1, <2>2, <2>3 DEF Version
  <2>4. CASE ~(u \in OpenOf(T, i) /\ u.from < t)
    BY <2>1, <2>4 DEF OpenOf
  <2> QED
    BY <2>3, <2>4
<1> HIDE DEF C
<1>3. Closed(C, i, t) = C
  BY <1>2 DEF Closed
<1> QED
  BY <1>2, <1>3 DEF C

LEMMA ReconciledTwice ==
  ASSUME NEW T, T \subseteq Version, NEW it \in ItemType, it.act = "reconcile"
  PROVE  NoOpAfter(T, Dispatched(T, it).rows, it)
<1> DEFINE id == it.id
           closed == Closed(T, id, it.ts)
           new == NewVersion(T, it, IF closed = T THEN FirstFrom(T, it) ELSE it.ts)
           done == Inserted(closed, new)
<1>1. it.ts \in Times /\ \A X : Dispatched(X, it) = Reconciled(X, it)
  BY DEF Dispatched, ItemType
<1>2. CASE OpenOf(T, id) # {} /\ ~Differs(T, it)
  BY <1>1, <1>2 DEF Reconciled, Result, NoOpAfter
<1>3. CASE ~(OpenOf(T, id) # {} /\ ~Differs(T, it))
  <2>1. /\ Dispatched(T, it).rows = done
        /\ Dispatched(T, it).why = Skipped(closed, done, it)
    BY <1>1, <1>3 DEF Reconciled, Result
  <2>2. /\ \A v \in OpenOf(closed, id) : ~(v.from < it.ts)
        /\ Closed(closed, id, it.ts) = closed
    BY <1>1, ClosedTwice
  <2>3. new.id = id /\ new.to = Open /\ new.entry = it.entry
    BY DEF NewVersion
  <2> HIDE DEF closed, new
  \* The version of the item is there: nothing is done.
  <2>4. CASE OpenOf(closed, id) = {}
    <3>1. done = closed \cup {new}
      BY <2>3, <2>4 DEF Inserted
    <3>2. new \in OpenOf(done, id) /\ SamePayload(new.entry, it.entry)
      BY <2>3, <3>1 DEF OpenOf, SamePayload
    <3>3. OpenOf(done, id) # {} /\ ~Differs(done, it)
      BY <3>2 DEF Differs
    <3> QED
      BY <1>1, <2>1, <3>3 DEF Reconciled, Result, NoOpAfter
  \* An open version starts later: nothing can be done, again.
  <2>5. CASE OpenOf(closed, id) # {}
    <3>1. done = closed
      BY <2>3, <2>5 DEF Inserted
    <3>2. CASE ~Differs(done, it)
      BY <1>1, <2>1, <2>5, <3>1, <3>2 DEF Reconciled, Result, NoOpAfter
    <3>3. CASE Differs(done, it)
      <4>1. \A v : v.id = id => Inserted(done, v) = done
        BY <2>5, <3>1 DEF Inserted
      <4>2. \A from : NewVersion(done, it, from).id = id
        BY DEF NewVersion
      <4>3. \A from : Inserted(Closed(done, id, it.ts), NewVersion(done, it, from)) = done
        BY <2>2, <3>1, <4>1, <4>2
      <4>4. /\ Dispatched(done, it).rows = done
            /\ Dispatched(done, it).why = Skipped(done, done, it)
        BY <1>1, <2>2, <3>1, <3>3, <4>3 DEF Reconciled, Result
      <4> QED
        BY <2>1, <3>1, <4>4 DEF NoOpAfter
    <3> QED
      BY <3>2, <3>3
  <2> QED
    BY <2>4, <2>5
<1> QED
  BY <1>2, <1>3

LEMMA RenamedTwice ==
  ASSUME NEW T, T \subseteq Version, NEW it \in ItemType, it.act = "rename"
  PROVE  NoOpAfter(T, Dispatched(T, it).rows, it)
<1> DEFINE id == it.id
           closed == Closed(T, it.old, it.ts)
           new == NewVersion(T, it, it.ts)
           done == Inserted(closed, new)
<1>1. it.ts \in Times /\ it.ts \in Nat /\ \A X : Dispatched(X, it) = Renamed(X, it)
  BY TimesFacts DEF Dispatched, ItemType
<1>2. /\ Dispatched(T, it).rows = done
      /\ Dispatched(T, it).why = Skipped(closed, done, it)
  BY <1>1 DEF Renamed, Result
<1>3. /\ \A v \in OpenOf(closed, it.old) : ~(v.from < it.ts)
      /\ Closed(closed, it.old, it.ts) = closed
  BY <1>1, ClosedTwice
<1>4. new.id = id /\ new.to = Open /\ new.entry = it.entry /\ new.from = it.ts
  BY DEF NewVersion
<1> HIDE DEF closed, new
<1>5. done = closed \/ done = closed \cup {new}
  BY DEF Inserted
<1>6. OpenOf(done, id) # {}
  BY <1>4 DEF Inserted, OpenOf
<1>7. Closed(done, it.old, it.ts) = done
  <2>1. \A v \in OpenOf(done, it.old) : ~(v.from < it.ts)
    BY <1>1, <1>3, <1>4, <1>5 DEF OpenOf
  <2> HIDE DEF done
  <2> QED
    BY <2>1 DEF Closed
<1>8. Inserted(done, NewVersion(done, it, it.ts)) = done
  <2>1. NewVersion(done, it, it.ts).id = id
    BY DEF NewVersion
  <2> HIDE DEF done
  <2> QED
    BY <1>6, <2>1 DEF Inserted
<1>9. /\ Dispatched(done, it).rows = done
      /\ Dispatched(done, it).why = Skipped(done, done, it)
  BY <1>1, <1>7, <1>8 DEF Renamed, Result
<1>10. done # closed => AlreadyApplied(done, it)
  <2>1. ASSUME done # closed PROVE new \in OpenOf(done, id)
    BY <1>4, <1>5, <2>1 DEF OpenOf
  <2> QED
    BY <1>4, <2>1 DEF AlreadyApplied, SamePayload
<1> HIDE DEF done
<1> QED
  BY <1>2, <1>9, <1>10 DEF NoOpAfter, Skipped

\* A removal that closed an open version left none, when an id has at most one.
LEMMA RemovedTwice ==
  ASSUME NEW T, T \subseteq Version, OneOpenOf(T), NEW it \in ItemType, it.act = "remove"
  PROVE  NoOpAfter(T, Dispatched(T, it).rows, it)
<1> DEFINE closed == Closed(T, it.id, it.ts)
<1>1. it.ts \in Times /\ it.ts # Open /\ \A X : Dispatched(X, it) = Removed(X, it)
  BY TimesFacts DEF Dispatched, ItemType
<1>2. /\ Dispatched(T, it).rows = closed
      /\ Dispatched(T, it).why = IF closed = T /\ OpenOf(T, it.id) # {} THEN {"out_of_order"} ELSE {}
  BY <1>1 DEF Removed, Result
<1>3. Closed(closed, it.id, it.ts) = closed
  BY <1>1, ClosedTwice
<1>4. OpenOf(closed, it.id) # {} => closed = T
  <2> SUFFICES ASSUME NEW v \in closed, v.id = it.id, v.to = Open PROVE closed = T
    BY DEF OpenOf
  <2>1. PICK u \in T : v = IF u \in OpenOf(T, it.id) /\ u.from < it.ts THEN [u EXCEPT !.to = it.ts] ELSE u
    BY DEF Closed
  <2>2. u \in OpenOf(T, it.id) /\ ~(u.from < it.ts)
    <3>1. CASE u \in OpenOf(T, it.id) /\ u.from < it.ts
      BY <1>1, <2>1, <3>1 DEF Version
    <3>2. CASE ~(u \in OpenOf(T, it.id) /\ u.from < it.ts)
      BY <2>1, <3>2 DEF OpenOf
    <3> QED
      BY <3>1, <3>2
  <2>3. \A w \in OpenOf(T, it.id) : w = u
    BY <2>2 DEF OneOpenOf, OpenOf
  <2>4. \A w \in OpenOf(T, it.id) : ~(w.from < it.ts)
    BY <2>2, <2>3
  <2> QED
    BY <2>4 DEF Closed
<1> HIDE DEF closed
<1>5. /\ Dispatched(closed, it).rows = closed
      /\ Dispatched(closed, it).why =
           IF OpenOf(closed, it.id) # {} THEN {"out_of_order"} ELSE {}
  BY <1>1, <1>3 DEF Removed, Result
<1> QED
  BY <1>2, <1>4, <1>5 DEF NoOpAfter

LEMMA SweptTwice ==
  ASSUME NEW T, T \subseteq Version, NEW it \in ItemType, it.act = "sweep"
  PROVE  NoOpAfter(T, Dispatched(T, it).rows, it)
<1> DEFINE stale(X) == {v \in {w \in X : w.to = Open} : v.from < it.ts /\ v.id \notin it.live}
           ended(X) == (X \ stale(X)) \cup {[v EXCEPT !.to = it.ts] : v \in stale(X)}
<1>1. it.ts \in Times /\ it.ts # Open /\ \A X : Dispatched(X, it) = Swept(X, it)
  BY TimesFacts DEF Dispatched, ItemType
<1>3. Swept(T, it).rows = T \/ Swept(T, it).rows = ended(T)
  BY DEF Swept, Result
<1>4. CASE Swept(T, it).rows = T
  BY <1>1, <1>4 DEF NoOpAfter
<1>5. CASE Swept(T, it).rows = ended(T)
  <2> DEFINE R == ended(T)
  <2>1. \A v \in {[w EXCEPT !.to = it.ts] : w \in stale(T)} : v.to # Open
    BY <1>1 DEF Version
  <2>2. stale(R) = {}
    BY <2>1
  <2>3. ended(R) = R
    BY <2>2
  <2> HIDE DEF R
  <2>4. ~SweepRefused(Cardinality(stale(R)), Cardinality({v \in R : v.to = Open}))
    <3>1. Cardinality(stale(R)) = 0 /\ FreeCloses \in Nat
      BY <2>2, FS_EmptySet, MetaAssumption
    <3> QED
      BY <3>1 DEF SweepRefused
  <2>5. Swept(R, it).rows = R /\ Swept(R, it).why = {}
    BY <2>3, <2>4 DEF Swept, Result
  <2>6. Dispatched(T, it).rows = R
    BY <1>1, <1>5 DEF R
  <2>7. NoOpAfter(T, R, it)
    BY <1>1, <2>5 DEF NoOpAfter
  <2> QED
    BY <2>6, <2>7
<1> QED
  BY <1>3, <1>4, <1>5

\* The whole transaction, whether the database accepted it or not.
LEMMA WrittenTwice ==
  ASSUME NEW r, NEW T, T \subseteq Version, OneOpenOf(T), NEW it \in ItemType
  PROVE  LET R == WrittenUnder(r, T, it)
             again == WrittenUnder(r, R.rows, it)
         IN  /\ again.rows = R.rows
             /\ again.why \subseteq R.why
<1> DEFINE D == Dispatched(T, it).rows
<1>1. NoOpAfter(T, D, it)
  BY ReconciledTwice, RenamedTwice, RemovedTwice, SweptTwice DEF ItemType, Acts
<1>2. CASE LegalUnder(r, D)
  <2>1. WrittenUnder(r, T, it) = Dispatched(T, it)
    BY <1>2 DEF WrittenUnder
  <2>2. WrittenUnder(r, D, it) = Dispatched(D, it)
    BY <1>1, <1>2 DEF WrittenUnder, NoOpAfter
  <2> HIDE DEF D
  <2> QED
    BY <1>1, <2>1, <2>2 DEF NoOpAfter, D
<1>3. CASE ~LegalUnder(r, D)
  BY <1>3 DEF WrittenUnder, Result
<1> QED
  BY <1>2, <1>3

LEMMA ReplayStep == LogInv /\ ReplayNoOp /\ [Next]_vars => ReplayNoOp'
<1> SUFFICES ASSUME LogInv, ReplayNoOp, [Next]_vars, written' PROVE ReplayNoOp'
  BY DEF ReplayNoOp
<1> DEFINE oo == "out_of_order"
           noOp(r, T, it, lost) ==
             LET again == WrittenUnder(r, T, it)
             IN  again.rows = T /\ (lost = 0 => oo \notin again.why)
<1>inv. /\ table \subseteq Version /\ OneOpenOf(table) /\ queue \in Seq(ItemType)
        /\ buffer \in Seq(ItemType) /\ letters \in [Reasons -> Nat] /\ (written => queue # <<>>)
  BY DEF LogInv, Inv, TypeInv, TypeOK
<1>u. \A T, it : Written(T, it) = WrittenUnder(rule, T, it)
  BY DEF Written, WrittenUnder, Legal, LegalUnder
<1>1. ReplayNoOp <=> (written => noOp(rule, table, Head(queue), letters[oo]))
  BY <1>u DEF ReplayNoOp
<1>2. noOp(rule', table', Head(queue'), letters'[oo]) => ReplayNoOp'
  BY DEF ReplayNoOp, Written, WrittenUnder, Legal, LegalUnder
<1> HIDE DEF noOp
<1>write. CASE Write
  <2> DEFINE it == Head(queue)
             R == WrittenUnder(rule, table, it)
  <2>1. /\ queue # <<>> /\ it \in ItemType /\ queue' = queue /\ rule' = rule /\ table' = R.rows
        /\ letters'[oo] = letters[oo] + IF oo \in R.why THEN 1 ELSE 0
    BY <1>inv, <1>u, <1>write DEF Write, Reasons
  <2>2. /\ WrittenUnder(rule, R.rows, it).rows = R.rows
        /\ WrittenUnder(rule, R.rows, it).why \subseteq R.why
    BY <1>inv, <2>1, WrittenTwice
  <2>3. letters[oo] \in Nat
    BY <1>inv DEF Reasons
  <2> HIDE DEF R
  <2>4. letters'[oo] = 0 => oo \notin R.why
    BY <2>1, <2>3
  <2> QED
    BY <1>2, <2>1, <2>2, <2>4 DEF noOp
\* In the other steps what was written stays at the front of the queue.
<1>else. ASSUME written, UNCHANGED <<table, rule, letters>>, Head(queue') = Head(queue)
         PROVE  ReplayNoOp'
  BY <1>1, <1>2, <1>else
<1>drain. CASE Drain
  <2>1. written /\ UNCHANGED <<table, rule, letters>>
    BY <1>drain DEF Drain
  <2>2. PICK k \in 0..Len(buffer) : queue' = queue \o SubSeq(buffer, 1, k) \o buffer
    BY <1>drain DEF Drain
  <2>3. SubSeq(buffer, 1, k) \in Seq(ItemType) /\ queue # <<>>
    BY <1>inv, <2>1
  <2>4. Head(queue') = Head(queue)
    BY <1>inv, <2>2, <2>3
  <2> QED
    BY <1>else, <2>1, <2>4
<1>change. ASSUME RegCreate \/ RegUpdate \/ RegRename \/ RegRemove PROVE ReplayNoOp'
  <2>1. UNCHANGED <<written, table, rule, letters, queue>>
    BY <1>change DEF RegCreate, RegUpdate, RegRename, RegRemove, Change
  <2> QED
    BY <1>else, <2>1
<1>rest. CASE Snapshot \/ TaskDone \/ Stop \/ StartUp \/ UNCHANGED vars
  BY <1>else, <1>rest DEF Snapshot, TaskDone, Stop, StartUp, vars
<1> QED
  BY <1>write, <1>drain, <1>change, <1>rest DEF Next

\* Writing the front item again, after a stop between its transaction and task_done, changes
\* no row and is not counted as a lost change when no change was lost (meta_worker.py:509),
\* whatever the item, the table and the rule of the database.
THEOREM ReplaysChangeNothing == Spec => []ReplayNoOp
<1>1. Init => ReplayNoOp
  BY DEF Init, ReplayNoOp
<1> QED
  BY <1>1, LogInvInit, LogInvStep, ReplayStep, PTL DEF Spec
-----------------------------------------------------------------------------
(* The origin of an entry.                                                 *)

\* The items that can add a version, and those of a registration, which alone are stamped
\* as the entry is created.
Writes(it) == it.act \in {"reconcile", "rename"}
Birth(it) == Writes(it) /\ it.ts = it.entry.created

\* The entries in the registry r, in the table T and in what is pending.
Entries(r, P, T) ==
  {r[i] : i \in DOMAIN r} \cup {v.entry : v \in T}
    \cup {P[n].entry : n \in {m \in 1..Len(P) : Writes(P[m])}}

Origins(T) ==
  \A v, w \in T :
    v.entry.uuid = w.entry.uuid /\ v.from = w.from /\ v.from = v.entry.created => v.id = w.id

\* An entry has one time of creation, which is no later than the last stamp; nothing
\* that is pending comes before its registration; and until that is taken off the
\* queue the table knows the entry by no other id.
Origin(r, P, T, last, k) ==
  /\ \A e \in Entries(r, P, T) : e.uuid \in Ids \cup 1..k /\ e.created \in 0..last
  /\ \A e, f \in Entries(r, P, T) : e.uuid = f.uuid => e.created = f.created
  /\ \A m, n \in 1..Len(P) :
       m < n /\ Writes(P[m]) /\ Birth(P[n]) => P[m].entry.uuid # P[n].entry.uuid
  /\ \A n \in 1..Len(P), v \in T :
       Birth(P[n]) /\ v.entry.uuid = P[n].entry.uuid => v.id = P[n].id
  /\ Origins(T)

OriginInv == faults = 0 => Origin(registry, queue \o buffer, table, latest, ops)

\* Each version of R was in T, perhaps open, or is the one of the item, which starts at its
\* stamp unless it is the first of its entry.
Stems(T, R, it) ==
  \A x \in R :
    \/ \E v \in T : x.id = v.id /\ x.entry = v.entry /\ x.from = v.from
    \/ /\ Writes(it) /\ x.id = it.id /\ x.entry = it.entry
       /\ x.from = it.ts \/ \A v \in T : v.entry.uuid # it.entry.uuid

LEMMA ClosedStems ==
  ASSUME NEW T, T \subseteq Version, NEW it, NEW i, NEW t
  PROVE  Stems(T, Closed(T, i, t), it)
<1> SUFFICES ASSUME NEW x \in Closed(T, i, t)
             PROVE  \E v \in T : x.id = v.id /\ x.entry = v.entry /\ x.from = v.from
  BY DEF Stems
<1>1. PICK v \in T : x = IF v \in OpenOf(T, i) /\ v.from < t THEN [v EXCEPT !.to = t] ELSE v
  BY DEF Closed
<1>2. v \in Version
  OBVIOUS
<1> QED
  BY <1>1, <1>2 DEF Version

LEMMA InsertedStems ==
  ASSUME NEW T, T \subseteq Version, NEW it, Writes(it), NEW i, NEW from,
         from = it.ts \/ \A v \in T : v.entry.uuid # it.entry.uuid
  PROVE  Stems(T, Inserted(Closed(T, i, it.ts), NewVersion(T, it, from)), it)
<1> DEFINE C == Closed(T, i, it.ts)
           w == NewVersion(T, it, from)
<1>1. Stems(T, C, it)
  BY ClosedStems
<1>2. w.id = it.id /\ w.entry = it.entry /\ w.from = from
  BY DEF NewVersion
<1> HIDE DEF C, w
<1>3. Inserted(C, w) \subseteq C \cup {w}
  BY DEF Inserted
<1> QED
  BY <1>1, <1>2, <1>3 DEF Stems, C, w

LEMMA WrittenStems ==
  ASSUME NEW T, T \subseteq Version, NEW it \in ItemType
  PROVE  Stems(T, Written(T, it).rows, it)
<1>1. Stems(T, T, it)
  BY DEF Stems
<1>2. it.act \in Acts
  BY DEF ItemType
<1>3. CASE it.act = "reconcile"
  <2> DEFINE closed == Closed(T, it.id, it.ts)
             from == IF closed = T THEN FirstFrom(T, it) ELSE it.ts
             done == Inserted(closed, NewVersion(T, it, from))
  <2>1. Dispatched(T, it).rows = T \/ Dispatched(T, it).rows = done
    BY <1>3 DEF Dispatched, Reconciled, Result
  <2>2. from = it.ts \/ \A v \in T : v.entry.uuid # it.entry.uuid
    BY DEF FirstFrom
  <2> HIDE DEF from
  <2>3. Stems(T, done, it)
    BY <1>3, <2>2, InsertedStems DEF Writes
  <2>4. Stems(T, Dispatched(T, it).rows, it)
    BY <1>1, <2>1, <2>3
  <2> QED
    BY <1>1, <2>4 DEF Written, Result
<1>4. CASE it.act = "rename"
  <2>1. Dispatched(T, it).rows = Inserted(Closed(T, it.old, it.ts), NewVersion(T, it, it.ts))
    BY <1>4 DEF Dispatched, Renamed, Result
  <2>2. Stems(T, Inserted(Closed(T, it.old, it.ts), NewVersion(T, it, it.ts)), it)
    BY <1>4, InsertedStems DEF Writes
  <2>3. Stems(T, Dispatched(T, it).rows, it)
    BY <2>1, <2>2
  <2> QED
    BY <1>1, <2>3 DEF Written, Result
<1>5. CASE it.act = "remove"
  <2>1. Dispatched(T, it).rows = Closed(T, it.id, it.ts)
    BY <1>5 DEF Dispatched, Removed, Result
  <2>2. Stems(T, Dispatched(T, it).rows, it)
    BY <2>1, ClosedStems
  <2> QED
    BY <1>1, <2>2 DEF Written, Result
<1>6. CASE it.act = "sweep"
  <2> DEFINE stale == {v \in {w \in T : w.to = Open} : v.from < it.ts /\ v.id \notin it.live}
             swept == (T \ stale) \cup {[v EXCEPT !.to = it.ts] : v \in stale}
  <2>1. Dispatched(T, it).rows = T \/ Dispatched(T, it).rows = swept
    BY <1>6 DEF Dispatched, Swept, Result
  <2>2. stale \subseteq T
    OBVIOUS
  <2> HIDE DEF stale
  <2>3. ASSUME NEW x \in swept
        PROVE  \E v \in T : x.id = v.id /\ x.entry = v.entry /\ x.from = v.from
    <3>1. CASE x \in T \ stale
      BY <3>1
    <3>2. CASE x \in {[v EXCEPT !.to = it.ts] : v \in stale}
      BY <2>2, <3>2 DEF Version
    <3> QED
      BY <2>3, <3>1, <3>2
  <2>4. Stems(T, swept, it)
    BY <2>3 DEF Stems
  <2>5. Stems(T, Dispatched(T, it).rows, it)
    BY <1>1, <2>1, <2>4
  <2> QED
    BY <1>1, <2>5 DEF Written, Result
<1> QED
  BY <1>2, <1>3, <1>4, <1>5, <1>6 DEF Acts

\* The writing of the first pending item.
LEMMA OriginWrite ==
  ASSUME NEW r, NEW P \in Seq(ItemType), P # <<>>, NEW T, NEW last, NEW k,
         Origin(r, P, T, last, k), NEW R, Stems(T, R, P[1])
  PROVE  Origin(r, P, R, last, k)
<1> DEFINE it == P[1]
           old(x) == \E v \in T : x.id = v.id /\ x.entry = v.entry /\ x.from = v.from
           new(x) == /\ Writes(it) /\ x.id = it.id /\ x.entry = it.entry
                     /\ x.from = it.ts \/ \A v \in T : v.entry.uuid # it.entry.uuid
<1>1. Len(P) \in Nat /\ 1 \in 1..Len(P)
  OBVIOUS
<1>2. \A x \in R : old(x) \/ new(x)
  BY DEF Stems
<1>3. Writes(it) => it.entry \in Entries(r, P, T)
  BY <1>1 DEF Entries
<1>4. Entries(r, P, R) \subseteq Entries(r, P, T)
  <2>1. \A x \in R : x.entry \in Entries(r, P, T)
    BY <1>2, <1>3 DEF Entries
  <2> QED
    BY <2>1 DEF Entries
<1>5. \A v \in T : v.entry \in Entries(r, P, T)
  BY DEF Entries
<1>6. ASSUME NEW n \in 1..Len(P), NEW x \in R, Birth(P[n]), x.entry.uuid = P[n].entry.uuid
      PROVE  x.id = P[n].id
  <2>1. CASE old(x)
    BY <1>6, <2>1 DEF Origin
  <2>2. CASE new(x)
    <3>1. CASE n = 1
      BY <2>2, <3>1
    <3>2. CASE n # 1
      <4>1. 1 < n
        BY <1>1, <3>2
      <4> QED
        BY <1>1, <1>6, <2>2, <4>1 DEF Origin
    <3> QED
      BY <3>1, <3>2
  <2> QED
    BY <1>2, <2>1, <2>2
\* The new version starts with the entry: then its item is the registration, or the
\* first that is written of the entry.
<1>7. ASSUME NEW x \in R, NEW v \in T, new(x), x.entry.uuid = v.entry.uuid, x.from = x.entry.created
      PROVE  x.id = v.id
  <2>1. x.from = it.ts
    BY <1>7
  <2>2. Birth(it)
    BY <1>7, <2>1 DEF Birth
  <2> QED
    BY <1>1, <1>7, <2>2 DEF Origin
<1>8. ASSUME NEW x \in R, NEW y \in R, x.entry.uuid = y.entry.uuid, x.from = y.from,
             x.from = x.entry.created
      PROVE  x.id = y.id
  <2>1. x.entry \in Entries(r, P, R) /\ y.entry \in Entries(r, P, R)
    BY DEF Entries
  <2>2. y.entry.created = x.entry.created
    BY <1>4, <1>8, <2>1 DEF Origin
  <2>3. CASE old(x) /\ old(y)
    <3>1. PICK v \in T : x.id = v.id /\ x.entry = v.entry /\ x.from = v.from
      BY <2>3
    <3>2. PICK w \in T : y.id = w.id /\ y.entry = w.entry /\ y.from = w.from
      BY <2>3
    <3>3. Origins(T)
      BY DEF Origin
    <3> QED
      BY <1>8, <3>1, <3>2, <3>3 DEF Origins
  <2>4. CASE new(x) /\ old(y)
    BY <1>7, <1>8, <2>4
  <2>5. CASE old(x) /\ new(y)
    BY <1>7, <1>8, <2>2, <2>5
  <2>6. CASE new(x) /\ new(y)
    BY <2>6
  <2> QED
    BY <1>2, <2>3, <2>4, <2>5, <2>6
<1>9. Origins(R)
  BY <1>8 DEF Origins
<1> QED
  BY <1>4, <1>6, <1>9 DEF Origin

\* What is pending after the front item was taken off, or after the end was lost.
LEMMA OriginLess ==
  ASSUME NEW r, NEW P \in Seq(ItemType), NEW T, NEW last, NEW k, Origin(r, P, T, last, k),
         NEW Q \in Seq(ItemType), NEW d \in Nat, d + Len(Q) <= Len(P),
         \A n \in 1..Len(Q) : Q[n] = P[n + d]
  PROVE  Origin(r, Q, T, last, k)
<1>1. Len(Q) \in Nat /\ Len(P) \in Nat
  OBVIOUS
<1>2. \A n \in 1..Len(Q) : n + d \in 1..Len(P) /\ Q[n] = P[n + d]
  BY <1>1
<1>3. Entries(r, Q, T) \subseteq Entries(r, P, T)
  BY <1>2 DEF Entries
<1>4. ASSUME NEW m \in 1..Len(Q), NEW n \in 1..Len(Q), m < n, Writes(Q[m]), Birth(Q[n])
      PROVE  Q[m].entry.uuid # Q[n].entry.uuid
  <2>1. m + d < n + d
    BY <1>4
  <2> QED
    BY <1>2, <1>4, <2>1 DEF Origin
<1>5. \A n \in 1..Len(Q), v \in T :
        Birth(Q[n]) /\ v.entry.uuid = Q[n].entry.uuid => v.id = Q[n].id
  BY <1>2 DEF Origin
<1> QED
  BY <1>3, <1>4, <1>5 DEF Origin

\* The items Q stamped t fit the registry q after the step: they concern entries of E, which
\* are known, or a single one concerns the entry that gets the next uuid.
Fits(Q, q, t, E, k, j) ==
  /\ \A n \in 1..Len(Q) : Q[n].ts = t /\ (Writes(Q[n]) => \E i \in DOMAIN q : Q[n].entry = q[i])
  /\ \A i \in DOMAIN q :
       \/ \E e \in E : q[i].uuid = e.uuid /\ q[i].created = e.created
       \/ q[i].uuid = k + 1 /\ q[i].created = t /\ j = k + 1 /\ Len(Q) <= 1

\* New items, stamped later than what is pending.
LEMMA OriginMore ==
  ASSUME NEW r, NEW P \in Seq(ItemType), NEW T, NEW last \in Nat, NEW k \in Nat, Origin(r, P, T, last, k),
         NEW q, NEW Q \in Seq(ItemType), NEW t \in Nat, last < t,
         NEW l \in Nat, t <= l, NEW j \in Nat, k <= j, j <= MaxOps,
         Fits(Q, q, t, Entries(r, P, T), k, j)
  PROVE  Origin(q, P \o Q, T, l, j)
<1> DEFINE E == Entries(r, P, T)
           PQ == P \o Q
           known(e) == \E f \in E : e.uuid = f.uuid /\ e.created = f.created
           fresh(e) == e.uuid = k + 1 /\ e.created = t /\ j = k + 1 /\ Len(Q) <= 1
<1>fits. /\ \A n \in 1..Len(Q) : Q[n].ts = t /\ (Writes(Q[n]) => \E i \in DOMAIN q : Q[n].entry = q[i])
         /\ \A i \in DOMAIN q : known(q[i]) \/ fresh(q[i])
  BY DEF Fits
<1>1. /\ Len(P) \in Nat /\ Len(Q) \in Nat /\ Len(PQ) = Len(P) + Len(Q)
      /\ \A n \in 1..Len(PQ) : PQ[n] = IF n <= Len(P) THEN P[n] ELSE Q[n - Len(P)]
  BY ConcatProperties
<1> HIDE DEF PQ
<1>2. \A e \in E : e.uuid \in Ids \cup 1..k /\ e.created \in 0..last
  BY DEF Origin
<1>3. \A e, f \in E : e.uuid = f.uuid => e.created = f.created
  BY DEF Origin
<1>4. \A n \in 1..Len(PQ) :
        \/ n \in 1..Len(P) /\ PQ[n] = P[n] /\ (Writes(PQ[n]) => PQ[n].entry \in E)
        \/ /\ n > Len(P) /\ PQ[n].ts = t
           /\ Writes(PQ[n]) => known(PQ[n].entry) \/ fresh(PQ[n].entry)
  <2> SUFFICES ASSUME NEW n \in 1..Len(PQ)
               PROVE  \/ n \in 1..Len(P) /\ PQ[n] = P[n] /\ (Writes(PQ[n]) => PQ[n].entry \in E)
                      \/ /\ n > Len(P) /\ PQ[n].ts = t
                         /\ Writes(PQ[n]) => known(PQ[n].entry) \/ fresh(PQ[n].entry)
    OBVIOUS
  <2>1. CASE n <= Len(P)
    <3>1. n \in 1..Len(P) /\ PQ[n] = P[n]
      BY <1>1, <2>1
    <3> QED
      BY <3>1 DEF Entries
  <2>2. CASE n > Len(P)
    <3>1. n - Len(P) \in 1..Len(Q) /\ PQ[n] = Q[n - Len(P)]
      BY <1>1, <2>2
    <3> HIDE DEF known, fresh
    <3> QED
      BY <1>fits, <2>2, <3>1
  <2> QED
    BY <1>1, <2>1, <2>2
<1>5. \A e \in Entries(q, PQ, T) : known(e) \/ fresh(e)
  <2>1. \A v \in T : v.entry \in E
    BY DEF Entries
  <2>2. \A e \in E : known(e)
    OBVIOUS
  <2>3. \A n \in 1..Len(PQ) : Writes(PQ[n]) => known(PQ[n].entry) \/ fresh(PQ[n].entry)
    BY <1>4, <2>2
  <2> HIDE DEF known, fresh, E
  <2> QED
    BY <1>fits, <2>1, <2>2, <2>3 DEF Entries
<1>6. ASSUME NEW e, known(e)
      PROVE  e.uuid \in Ids \cup 1..k /\ e.created \in 0..last
  BY <1>2, <1>6
<1>7. k + 1 \notin 1..k /\ (j = k + 1 => k + 1 \notin Ids)
  BY MetaAssumption
<1>8. \A e, f : known(e) /\ fresh(f) => e.uuid # f.uuid
  BY <1>6, <1>7
<1>9. ASSUME NEW e, known(e) \/ fresh(e)
      PROVE  e.uuid \in Ids \cup 1..j /\ e.created \in 0..l
  <2>1. CASE known(e)
    BY <1>6, <2>1
  <2>2. CASE fresh(e)
    BY <2>2
  <2> QED
    BY <1>9, <2>1, <2>2
<1>10. ASSUME NEW e, NEW f, known(e) \/ fresh(e), known(f) \/ fresh(f), e.uuid = f.uuid
       PROVE  e.created = f.created
  <2>1. CASE known(e) /\ known(f)
    BY <1>3, <1>10, <2>1
  <2>2. CASE fresh(e) /\ fresh(f)
    BY <2>2
  <2> QED
    BY <1>8, <1>10, <2>1, <2>2
\* Only the item of a new entry is stamped at its creation.
<1>11. ASSUME NEW n \in 1..Len(PQ), n > Len(P), Birth(PQ[n])
       PROVE  fresh(PQ[n].entry)
  <2>1. PQ[n].ts = t /\ (known(PQ[n].entry) \/ fresh(PQ[n].entry))
    BY <1>1, <1>4, <1>11 DEF Birth
  <2>2. ~known(PQ[n].entry)
    <3>1. PQ[n].entry.created = t
      BY <1>11, <2>1 DEF Birth
    <3> HIDE DEF known
    <3> QED
      BY <1>6, <3>1
  <2> QED
    BY <2>1, <2>2
<1>12. ASSUME NEW m \in 1..Len(PQ), NEW n \in 1..Len(PQ), m < n, Writes(PQ[m]), Birth(PQ[n])
       PROVE  PQ[m].entry.uuid # PQ[n].entry.uuid
  <2>1. CASE n \in 1..Len(P)
    <3>1. m \in 1..Len(P) /\ PQ[m] = P[m] /\ PQ[n] = P[n]
      BY <1>1, <1>12, <2>1
    <3> QED
      BY <1>12, <2>1, <3>1 DEF Origin
  <2>2. CASE n > Len(P)
    <3>1. fresh(PQ[n].entry)
      BY <1>11, <1>12, <2>2
    <3>2. m \in 1..Len(P) /\ PQ[m].entry \in E
      <4>1. Len(Q) <= 1
        BY <3>1
      <4>2. m <= Len(P)
        BY <1>1, <1>12, <4>1
      <4> QED
        BY <1>1, <1>4, <1>12, <4>2
    <3>3. known(PQ[m].entry)
      BY <3>2
    <3> HIDE DEF known, fresh
    <3> QED
      BY <1>8, <3>1, <3>3
  <2> QED
    BY <1>1, <2>1, <2>2
<1>13. ASSUME NEW n \in 1..Len(PQ), NEW v \in T, Birth(PQ[n]), v.entry.uuid = PQ[n].entry.uuid
       PROVE  v.id = PQ[n].id
  <2>1. CASE n \in 1..Len(P)
    <3>1. PQ[n] = P[n]
      BY <1>1, <2>1
    <3> QED
      BY <1>13, <2>1, <3>1 DEF Origin
  <2>2. CASE n > Len(P)
    <3>1. fresh(PQ[n].entry)
      BY <1>11, <1>13, <2>2
    <3>2. known(v.entry)
      BY DEF Entries
    <3> HIDE DEF known, fresh
    <3> QED
      BY <1>8, <1>13, <3>1, <3>2
  <2> QED
    BY <1>1, <2>1, <2>2
<1>14. Origins(T)
  BY DEF Origin
<1> HIDE DEF known, fresh, E
<1>15. \A e \in Entries(q, PQ, T) : e.uuid \in Ids \cup 1..j /\ e.created \in 0..l
  BY <1>5, <1>9
<1>16. \A e, f \in Entries(q, PQ, T) : e.uuid = f.uuid => e.created = f.created
  BY <1>5, <1>10
<1> QED
  BY <1>12, <1>13, <1>14, <1>15, <1>16 DEF Origin, PQ

LEMMA OriginInit == Init => OriginInv
<1> SUFFICES ASSUME Init PROVE Origin(registry, queue \o buffer, table, latest, ops)
  BY DEF OriginInv
<1>1. queue \o buffer = <<>> /\ latest = 0 /\ ops = 0
  BY DEF Init
<1>2. PICK S \in SUBSET Ids : registry = [i \in S |-> [NoEntry EXCEPT !.uuid = i]]
  BY DEF Init
<1>3. \A i \in DOMAIN registry : i \in Ids /\ registry[i].uuid = i /\ registry[i].created = 0
  BY <1>2 DEF NoEntry
<1>4. \A v \in table : v.id \in DOMAIN registry /\ v.entry = registry[v.id]
  BY DEF Init
<1>5. \A e \in Entries(registry, <<>>, table) : e.uuid \in Ids /\ e.created = 0
  BY <1>3, <1>4 DEF Entries
<1>6. Origins(table)
  BY <1>3, <1>4 DEF Origins
<1> QED
  BY <1>1, <1>5, <1>6 DEF Origin

\* What the steps that stamp do, when no fault is among them.
LEMMA StampOrigin ==
  ASSUME Inv, Inv', OriginInv, NEW t \in Times, Stamp(t), UNCHANGED <<queue, table>>, faults' = 0,
         NEW Q \in Seq(ItemType), \A n \in 1..Len(Q) : Q[n].ts = t, buffer' = buffer \o Q,
         ops' \in {ops, ops + 1},
         \A i \in DOMAIN registry' :
           \/ \E j \in DOMAIN registry : /\ registry'[i].uuid = registry[j].uuid
                                         /\ registry'[i].created = registry[j].created
           \/ /\ registry'[i].uuid = ops + 1 /\ registry'[i].created = t
              /\ ops' = ops + 1 /\ Len(Q) <= 1,
         \A n \in 1..Len(Q) : Writes(Q[n]) => \E i \in DOMAIN registry' : Q[n].entry = registry'[i]
  PROVE  OriginInv'
<1>1. /\ latest' \in Times /\ latest <= latest' /\ t <= latest' /\ faults = 0 /\ t = latest + 1
  BY StampType
<1>2. /\ latest \in Nat /\ latest' \in Nat /\ t \in Nat /\ latest < t
      /\ queue \in Seq(ItemType) /\ buffer \in Seq(ItemType)
      /\ ops \in Nat /\ ops' \in Nat /\ ops <= ops' /\ ops' <= MaxOps
  BY <1>1, TimesFacts DEF Inv, TypeInv
<1> DEFINE P == queue \o buffer
           q == registry'
<1>3. P \in Seq(ItemType) /\ Origin(registry, P, table, latest, ops)
  BY <1>1, <1>2 DEF OriginInv
<1>4. queue \o (buffer \o Q) = P \o Q
  <2>1. queue \in Seq(ItemType) /\ buffer \in Seq(ItemType) /\ Q \in Seq(ItemType)
    BY <1>2
  <2> QED
    BY ONLY <2>1, ConcatAssociative
<1>5. Fits(Q, q, t, Entries(registry, P, table), ops, ops')
  <2>1. \A j \in DOMAIN registry : registry[j] \in Entries(registry, P, table)
    BY DEF Entries
  <2> QED
    BY <2>1 DEF Fits, q
<1>6. table' = table
  OBVIOUS
<1> HIDE DEF P, q
<1>7. Origin(q, P \o Q, table, latest', ops')
  BY <1>1, <1>2, <1>3, <1>5, OriginMore
<1>8. Origin(registry', queue' \o buffer', table', latest', ops')
  BY <1>4, <1>6, <1>7 DEF q
<1> QED
  BY <1>8 DEF OriginInv

\* The entries of the registry q were in r, perhaps with another payload, or are the next
\* one, created at t.
Grows(q, r, k, t) ==
  \A i \in DOMAIN q :
    \/ \E j \in DOMAIN r : q[i].uuid = r[j].uuid /\ q[i].created = r[j].created
    \/ q[i].uuid = k + 1 /\ q[i].created = t

LEMMA ChangeOrigin ==
  ASSUME Inv, Inv', OriginInv, NEW it \in ItemType, NEW t \in Times, NEW described,
         Change(it, t, described), it.ts = t, Grows(registry', registry, ops, t),
         Writes(it) => \E i \in DOMAIN registry' : it.entry = registry'[i]
  PROVE  OriginInv'
<1>1. /\ Stamp(t) /\ UNCHANGED <<queue, table>> /\ buffer \in Seq(ItemType)
      /\ ops' = ops + 1 /\ ops' \in {ops, ops + 1}
  BY DEF Change, Inv, TypeInv
<1>2. CASE faults' # 0
  BY <1>2 DEF OriginInv
<1>3. CASE faults' = 0 /\ ha = "down"
  <2> DEFINE Q == <<>>
  <2>1. /\ Q \in Seq(ItemType) /\ (\A n \in 1..Len(Q) : Q[n].ts = t) /\ Len(Q) <= 1 /\ buffer \o Q = buffer
        /\ \A n \in 1..Len(Q) : Writes(Q[n]) => \E i \in DOMAIN registry' : Q[n].entry = registry'[i]
    BY <1>1, ConcatEmptySeq
  <2>2. buffer' = buffer \o Q
    BY <1>3, <2>1 DEF Change, Observe
  <2> HIDE DEF Q
  <2> QED
    BY <1>1, <1>3, <2>1, <2>2, StampOrigin DEF Grows
<1>4. CASE faults' = 0 /\ ha # "down"
  <2> DEFINE Q == <<it>>
  <2>1. /\ Q \in Seq(ItemType) /\ (\A n \in 1..Len(Q) : Q[n].ts = t) /\ Len(Q) <= 1
        /\ buffer \o Q = Append(buffer, it)
        /\ \A n \in 1..Len(Q) : Writes(Q[n]) => \E i \in DOMAIN registry' : Q[n].entry = registry'[i]
    BY <1>1, AppendIsConcat
  <2>2. buffer' = buffer \o Q
    BY <1>4, <2>1 DEF Change, Observe
  <2> HIDE DEF Q
  <2> QED
    BY <1>1, <1>4, <2>1, <2>2, StampOrigin DEF Grows
<1> QED
  BY <1>2, <1>3, <1>4

LEMMA OriginStep == Inv /\ OriginInv /\ [Next]_vars => OriginInv'
<1> SUFFICES ASSUME Inv, OriginInv, [Next]_vars PROVE OriginInv'
  OBVIOUS
<1>inv. Inv /\ Inv'
  BY InvStep
<1>seq. /\ queue \in Seq(ItemType) /\ buffer \in Seq(ItemType) /\ faults \in Nat
        /\ table \subseteq Version
  BY <1>inv DEF Inv, TypeInv, Numbered
<1>reg. \A i \in DOMAIN registry : i \in Ids /\ registry[i] \in Entry
  BY <1>inv DEF Inv, TypeInv, TypeOK
<1>create. CASE RegCreate
  <2>1. PICK i \in Ids \ DOMAIN registry, p \in Payloads, t \in Times :
          LET e == [uuid |-> ops + 1, pay |-> p, created |-> t]
              it == Item("reconcile", i, NoId, e, t, {})
          IN /\ registry' = [j \in DOMAIN registry \cup {i} |-> IF j = i THEN e ELSE registry[j]]
             /\ Change(it, t, truth \cup {NewVersion(truth, it, t)})
    BY <1>create DEF RegCreate
  <2> DEFINE e == [uuid |-> ops + 1, pay |-> p, created |-> t]
             it == Item("reconcile", i, NoId, e, t, {})
  <2>2. ops + 1 \in 0..MaxOps
    BY <1>inv, <2>1, TimesFacts DEF Change, Inv, TypeInv
  <2>3. e \in Entry /\ e.uuid = ops + 1 /\ e.created = t
    BY <2>2 DEF Entry
  <2>4. it \in ItemType /\ it.ts = t /\ it.entry = e
    BY <2>3 DEF Item, ItemType, Acts
  <2>5. /\ Change(it, t, truth \cup {NewVersion(truth, it, t)})
        /\ registry' = [j \in DOMAIN registry \cup {i} |-> IF j = i THEN e ELSE registry[j]]
    BY <2>1
  <2> HIDE DEF it, e
  <2>6. Grows(registry', registry, ops, t)
    BY <2>3, <2>5 DEF Grows
  <2>7. i \in DOMAIN registry' /\ registry'[i] = e
    BY <2>5
  <2>8. Writes(it) => \E k \in DOMAIN registry' : it.entry = registry'[k]
    BY <2>4, <2>7
  <2>9. it \in ItemType /\ it.ts = t /\ t \in Times
    BY <2>4
  <2> QED
    BY <1>inv, <2>5, <2>6, <2>8, <2>9, ChangeOrigin
<1>update. CASE RegUpdate
  <2>1. PICK i \in DOMAIN registry, p \in Payloads, t \in Times :
          LET e == [registry[i] EXCEPT !.pay = p]
              it == Item("reconcile", i, NoId, e, t, {})
          IN /\ registry' = [registry EXCEPT ![i] = e]
             /\ Change(it, t, CloseTruth(i, t) \cup {NewVersion(truth, it, t)})
    BY <1>update DEF RegUpdate
  <2> DEFINE e == [registry[i] EXCEPT !.pay = p]
             it == Item("reconcile", i, NoId, e, t, {})
  <2>2. e \in Entry /\ e.uuid = registry[i].uuid /\ e.created = registry[i].created
    BY <1>reg DEF Entry
  <2>3. it \in ItemType /\ it.ts = t /\ it.entry = e
    BY <1>reg, <2>2 DEF Item, ItemType, Acts
  <2>4. /\ Change(it, t, CloseTruth(i, t) \cup {NewVersion(truth, it, t)})
        /\ registry' = [registry EXCEPT ![i] = e]
    BY <2>1
  <2> HIDE DEF it, e
  <2>5. Grows(registry', registry, ops, t)
    BY <2>2, <2>4 DEF Grows
  <2>6. i \in DOMAIN registry' /\ registry'[i] = e
    BY <2>4
  <2>7. Writes(it) => \E k \in DOMAIN registry' : it.entry = registry'[k]
    BY <2>3, <2>6
  <2> QED
    BY <1>inv, <2>3, <2>4, <2>5, <2>7, ChangeOrigin
<1>rename. CASE RegRename
  <2>1. PICK i \in DOMAIN registry, j \in Ids \ DOMAIN registry, t \in Times :
          LET it == Item("rename", j, i, registry[i], t, {})
          IN /\ registry' = [k \in (DOMAIN registry \ {i}) \cup {j} |->
                               IF k = j THEN registry[i] ELSE registry[k]]
             /\ Change(it, t, CloseTruth(i, t) \cup {NewVersion(truth, it, t)})
    BY <1>rename DEF RegRename
  <2> DEFINE it == Item("rename", j, i, registry[i], t, {})
  <2>2. it \in ItemType /\ it.ts = t /\ it.entry = registry[i]
    BY <1>reg DEF Item, ItemType, Acts
  <2>3. /\ Change(it, t, CloseTruth(i, t) \cup {NewVersion(truth, it, t)})
        /\ registry' = [k \in (DOMAIN registry \ {i}) \cup {j} |->
                          IF k = j THEN registry[i] ELSE registry[k]]
    BY <2>1
  <2> HIDE DEF it
  <2>4. Grows(registry', registry, ops, t)
    BY <2>3 DEF Grows
  <2>5. j \in DOMAIN registry' /\ registry'[j] = registry[i]
    BY <2>3
  <2>6. Writes(it) => \E k \in DOMAIN registry' : it.entry = registry'[k]
    BY <2>2, <2>5
  <2> QED
    BY <1>inv, <2>2, <2>3, <2>4, <2>6, ChangeOrigin
<1>remove. CASE RegRemove
  <2>1. PICK i \in DOMAIN registry, t \in Times :
          /\ registry' = Restrict(registry, DOMAIN registry \ {i})
          /\ Change(Item("remove", i, NoId, NoEntry, t, {}), t, CloseTruth(i, t))
    BY <1>remove DEF RegRemove
  <2> DEFINE it == Item("remove", i, NoId, NoEntry, t, {})
  <2>2. it \in ItemType /\ it.ts = t /\ ~Writes(it)
    BY <1>reg, NoEntryType DEF Item, ItemType, Acts, Writes
  <2>3. Change(it, t, CloseTruth(i, t))
    BY <2>1
  <2> HIDE DEF it
  <2>4. Grows(registry', registry, ops, t)
    BY <2>1 DEF Restrict, Grows
  <2> QED
    BY <1>inv, <2>2, <2>3, <2>4, ChangeOrigin
<1>snapshot. CASE Snapshot
  <2>1. PICK Q \in Seq(ItemType), t \in Times :
          /\ Stamp(t) /\ buffer' = buffer \o Q
          /\ \A n \in 1..Len(Q) : SnapshotItem(Q[n], registry, t)
    BY <1>inv, <1>snapshot, SnapshotItems DEF Lists
  <2>2. UNCHANGED <<queue, table, registry, ops>>
    BY <1>snapshot DEF Snapshot
  <2>3. \A n \in 1..Len(Q) :
          Q[n].ts = t /\ (Writes(Q[n]) => \E i \in DOMAIN registry' : Q[n].entry = registry'[i])
    BY <2>1, <2>2 DEF SnapshotItem, Writes
  <2>4. CASE faults' = 0
    BY <1>inv, <2>1, <2>2, <2>3, <2>4, StampOrigin
  <2> QED
    BY <2>4 DEF OriginInv
<1>drain. CASE Drain
  <2>1. PICK k \in 0..Len(buffer) :
          /\ queue' = queue \o SubSeq(buffer, 1, k) \o buffer
          /\ (k = 0 /\ faults' = faults) \/ faults' = faults + 1
    BY <1>drain DEF Drain
  <2>2. buffer' = <<>> /\ UNCHANGED <<table, latest, registry, ops>>
    BY <1>drain DEF Drain
  <2> SUFFICES ASSUME faults' = 0 PROVE Origin(registry', queue' \o buffer', table', latest', ops')
    BY DEF OriginInv
  <2>3. k = 0 /\ faults = 0
    BY <1>seq, <2>1
  <2>4. SubSeq(buffer, 1, k) = <<>>
    BY <2>3
  <2>5. queue' = queue \o buffer
    BY <1>seq, <2>1, <2>4, ConcatEmptySeq
  <2>6. queue \o buffer \in Seq(ItemType)
    BY <1>seq
  <2>7. queue' \o buffer' = queue \o buffer
    BY <2>2, <2>5, <2>6, ConcatEmptySeq
  <2> QED
    BY <2>2, <2>3, <2>7 DEF OriginInv
<1>write. CASE Write
  <2> DEFINE P == queue \o buffer
             R == Written(table, P[1]).rows
  <2>1. /\ queue # <<>> /\ UNCHANGED <<queue, buffer, latest, faults, registry, ops>>
        /\ table' = Written(table, Head(queue)).rows
    BY <1>write DEF Write, envVars
  <2>2. P \in Seq(ItemType) /\ P # <<>> /\ P[1] = Head(queue) /\ P[1] \in ItemType
    BY <1>seq, <2>1
  <2>3. Stems(table, R, P[1]) /\ table' = R
    BY <1>seq, <2>1, <2>2, WrittenStems
  <2> HIDE DEF P, R
  <2>4. faults = 0 => Origin(registry, P, table, latest, ops)
    BY DEF OriginInv, P
  <2>5. faults = 0 => Origin(registry, P, R, latest, ops)
    BY <2>2, <2>3, <2>4, OriginWrite
  <2> QED
    BY <2>1, <2>3, <2>5 DEF OriginInv, P
<1>less. ASSUME NEW Q \in Seq(ItemType), NEW d \in Nat, d + Len(Q) <= Len(queue \o buffer),
                \A n \in 1..Len(Q) : Q[n] = (queue \o buffer)[n + d], queue' \o buffer' = Q,
                UNCHANGED <<table, latest, faults, registry, ops>>
         PROVE  OriginInv'
  <2> DEFINE P == queue \o buffer
  <2>1. P \in Seq(ItemType) /\ (faults = 0 => Origin(registry, P, table, latest, ops))
    BY <1>seq DEF OriginInv
  <2>2. d + Len(Q) <= Len(P) /\ \A n \in 1..Len(Q) : Q[n] = P[n + d]
    BY <1>less
  <2> HIDE DEF P
  <2>3. faults = 0 => Origin(registry, Q, table, latest, ops)
    BY <2>1, <2>2, OriginLess
  <2> QED
    BY <1>less, <2>3 DEF OriginInv
<1>done. CASE TaskDone
  <2>1. queue # <<>> /\ queue' = Tail(queue) /\ UNCHANGED <<buffer, table, latest, faults, registry, ops>>
    BY <1>inv, <1>done DEF TaskDone, envVars, Inv, TypeInv, TypeOK
  <2> DEFINE Q == queue' \o buffer'
  <2>2. /\ Q \in Seq(ItemType) /\ 1 + Len(Q) <= Len(queue \o buffer)
        /\ \A n \in 1..Len(Q) : Q[n] = (queue \o buffer)[n + 1]
    BY <1>seq, <2>1
  <2>3. Q = queue' \o buffer'
    OBVIOUS
  <2> HIDE DEF Q
  <2> QED
    BY <1>less, <2>1, <2>2, <2>3
<1>stop. CASE Stop
  <2>1. buffer' = <<>> /\ UNCHANGED <<queue, table, latest, faults, registry, ops>>
    BY <1>stop DEF Stop
  <2>2. queue' \o buffer' = queue
    BY <1>seq, <2>1, ConcatEmptySeq
  <2>3. /\ 0 + Len(queue) <= Len(queue \o buffer)
        /\ \A n \in 1..Len(queue) : queue[n] = (queue \o buffer)[n + 0]
    BY <1>seq
  <2> QED
    BY <1>less, <1>seq, <2>1, <2>2, <2>3
<1>start. CASE StartUp
  BY <1>start DEF StartUp, OriginInv
<1>stutter. CASE UNCHANGED vars
  BY <1>stutter DEF vars, OriginInv
<1> QED
  BY <1>create, <1>update, <1>rename, <1>remove, <1>snapshot, <1>drain, <1>write, <1>done,
     <1>stop, <1>start, <1>stutter DEF Next

\* An entry is not described from its creation under two ids, whatever was renamed, lost or
\* replayed (const.py:512, SCD2_ANY_VERSION), as long as no batch is repeated and the clock
\* does not step back.
THEOREM EntriesHaveOneOrigin == Spec => []OneOrigin
<1>1. OriginInv => OneOrigin
  BY DEF OriginInv, Origin, Origins, OneOrigin
<1> QED
  BY <1>1, InitInv, InvStep, OriginInit, OriginStep, PTL DEF Spec
=============================================================================
