------------------------- MODULE Scd2HistoryProofs -------------------------
(***************************************************************************)
(* Theorems about the history Scd2Meta records: as long as every change of *)
(* the registry was stamped in order, queued and not repeated, the table   *)
(* is what happened once the queue is empty, and nothing is refused on the *)
(* way.  The invariant says that the pending items turn the table into the *)
(* history, one legal table after the other.                               *)
(*                                                                         *)
(* And where a change was missed, a startup snapshot heals: the invariant  *)
(* says that the pending items turn the table, whatever it is, into one    *)
(* that agrees with the registry.                                          *)
(***************************************************************************)
EXTENDS Scd2MetaProofs

-----------------------------------------------------------------------------
(* A history that tells how the registry came about.                       *)

Story(T, reg, last) ==
  /\ Numbered(T)
  /\ \A v \in T : v.from <= last /\ (v.to # Open => v.from <= v.to /\ v.to <= last)
  /\ \A v, w \in T : v # w => ~Overlap(v, w)
  /\ \A v \in T : v.to = Open => v.id \in DOMAIN reg /\ v.entry = reg[v.id]
  /\ \A i \in DOMAIN reg : \E v \in T : v.id = i /\ v.to = Open

\* Registries that differ in one entry: reg2 has j as e, lacks i, or has j as e instead of i.
With(reg, j, e, reg2) ==
  /\ j \notin DOMAIN reg /\ DOMAIN reg2 = DOMAIN reg \cup {j} /\ reg2[j] = e
  /\ \A k \in DOMAIN reg : reg2[k] = reg[k]
Without(reg, i, reg2) ==
  /\ i \in DOMAIN reg /\ DOMAIN reg2 = DOMAIN reg \ {i}
  /\ \A k \in DOMAIN reg2 : reg2[k] = reg[k]
Instead(reg, i, j, e, reg2) ==
  /\ i \in DOMAIN reg
  /\ j = i \/ j \notin DOMAIN reg
  /\ DOMAIN reg2 = (DOMAIN reg \ {i}) \cup {j} /\ reg2[j] = e
  /\ \A k \in DOMAIN reg \ {i} : reg2[k] = reg[k]

\* What is true of it after a later stamp.
LEMMA StoryLater ==
  ASSUME NEW T, NEW reg, NEW last \in Nat, NEW t \in Nat, last <= t, Story(T, reg, last)
  PROVE  Story(T, reg, t)
<1>1. \A v \in T : v.from \in Nat /\ v.to \in Nat
  BY TimesFacts DEF Story, Numbered, Version
<1> QED
  BY <1>1 DEF Story

\* The database accepts a table of one open version of an id, without overlaps where it
\* forbids them.
LEMMA ApartLegal ==
  ASSUME NEW r, NEW T, OneOpenOf(T),
         r = "exclusion" => \A v, w \in T : v.from <= v.to /\ (v # w => ~Overlap(v, w))
  PROVE  LegalUnder(r, T)
<1>1. \A i : Cardinality(OpenOf(T, i)) <= 1
  <2> SUFFICES ASSUME NEW i PROVE Cardinality(OpenOf(T, i)) <= 1
    OBVIOUS
  <2> DEFINE O == OpenOf(T, i)
  <2>1. \A v, w \in O : v = w
    BY DEF OneOpenOf, OpenOf
  <2> HIDE DEF O
  <2>2. CASE O = {}
    BY <2>2, FS_EmptySet DEF O
  <2>3. CASE O # {}
    <3>1. PICK v \in O : O = {v}
      BY <2>1, <2>3
    <3>2. Cardinality(O) = 1
      BY <3>1, FS_Singleton
    <3> QED
      BY <3>2 DEF O
  <2> QED
    BY <2>2, <2>3
<1> QED
  BY <1>1 DEF LegalUnder

\* The database accepts it, under either rule.
LEMMA StoryLegal ==
  ASSUME NEW T, NEW reg, NEW last \in Times, Story(T, reg, last), NEW r
  PROVE  LegalUnder(r, T) /\ OneOpenOf(T)
<1>1. \A v \in T : v.from \in Nat /\ v.to \in Nat /\ v.from < Open /\ v.from <= v.to
  <2> SUFFICES ASSUME NEW v \in T
               PROVE  v.from \in Nat /\ v.to \in Nat /\ v.from < Open /\ v.from <= v.to
    OBVIOUS
  <2>1. v.from \in Nat /\ v.to \in Nat /\ v.from < Open
    BY TimesFacts DEF Story, Numbered, Version
  <2>2. CASE v.to = Open
    BY <2>1, <2>2
  <2>3. CASE v.to # Open
    BY <2>1, <2>3 DEF Story
  <2> QED
    BY <2>1, <2>2, <2>3
<1>2. OneOpenOf(T)
  BY <1>1 DEF OneOpenOf, Overlap, Story
<1>3. \A v, w \in T : v.from <= v.to /\ (v # w => ~Overlap(v, w))
  BY <1>1 DEF Story
<1> QED
  BY <1>2, <1>3, ApartLegal

\* The entry of id i ends.
LEMMA StoryEnd ==
  ASSUME NEW T, NEW reg, NEW last \in Nat, NEW t \in Times, last < t, Story(T, reg, last),
         NEW i, NEW reg2, Without(reg, i, reg2), NEW C, C = Closed(T, i, t)
  PROVE  /\ Story(C, reg2, t)
         /\ Cardinality(C) = Cardinality(T) /\ C # T
         /\ C = {IF v.id = i /\ v.to = Open THEN [v EXCEPT !.to = t] ELSE v : v \in T}
<1> DEFINE O == {v \in OpenOf(T, i) : v.from < t}
           end(v) == IF v.id = i /\ v.to = Open THEN [v EXCEPT !.to = t] ELSE v
<1>1. t \in Nat /\ t # Open /\ Open \in Nat /\ t < Open
  BY TimesFacts
<1>2. \A v \in T : /\ v \in Version /\ v.from \in Nat /\ v.to \in Nat /\ v.from <= last /\ v.from < t
                   /\ v.to # Open => v.from <= v.to /\ v.to <= last
  BY TimesFacts DEF Story, Numbered, Version
<1>3. C = EndAt(T, O, t) /\ O \subseteq T
  BY ClosedIsEndAt DEF OpenOf
<1>4. Numbered(C) /\ Cardinality(C) = Cardinality(T)
  BY <1>3, EndAtNumbered DEF Story
<1>5. C = {end(v) : v \in T}
  BY <1>2 DEF Closed, OpenOf
<1>6. \A v \in T : /\ end(v).id = v.id /\ end(v).from = v.from /\ end(v).entry = v.entry
                   /\ end(v).to = IF v.id = i /\ v.to = Open THEN t ELSE v.to
  BY <1>2 DEF Version
<1> HIDE DEF O, end
<1>7. OpenOf(C, i) = {}
  BY <1>1, <1>5, <1>6 DEF OpenOf
<1>8. C # T
  BY <1>7 DEF OpenOf, Story, Without
<1>9. \A v \in C : v.from <= t /\ (v.to # Open => v.from <= v.to /\ v.to <= t)
  BY <1>1, <1>2, <1>5, <1>6
<1>10. \A v, w \in C : v # w => ~Overlap(v, w)
  <2> SUFFICES ASSUME NEW v \in T, NEW w \in T, end(v) # end(w) PROVE ~Overlap(end(v), end(w))
    BY <1>5
  <2>1. v # w /\ ~Overlap(v, w)
    BY DEF Story
  <2>2. end(v).to <= v.to /\ end(w).to <= w.to /\ end(v).to \in Nat /\ end(w).to \in Nat
    BY <1>1, <1>2, <1>6
  <2> QED
    BY <1>2, <1>6, <2>1, <2>2 DEF Overlap
<1>11. \A v \in C : v.to = Open => v.id \in DOMAIN reg2 /\ v.entry = reg2[v.id]
  BY <1>1, <1>5, <1>6 DEF Story, Without
<1>12. \A k \in DOMAIN reg2 : \E v \in C : v.id = k /\ v.to = Open
  <2> SUFFICES ASSUME NEW k \in DOMAIN reg2 PROVE \E v \in C : v.id = k /\ v.to = Open
    OBVIOUS
  <2>1. PICK v \in T : v.id = k /\ v.to = Open
    BY DEF Story, Without
  <2>2. end(v) \in C /\ end(v).id = k /\ end(v).to = Open
    BY <1>5, <1>6, <2>1 DEF Without
  <2> QED
    BY <2>2
<1>13. Story(C, reg2, t)
  BY <1>4, <1>9, <1>10, <1>11, <1>12 DEF Story
<1> QED
  BY <1>4, <1>5, <1>8, <1>13 DEF end

\* An entry of id j begins.
Fresh(T, j, e, t) == [row |-> Cardinality(T), id |-> j, entry |-> e, from |-> t, to |-> Open]

LEMMA StoryAdd ==
  ASSUME NEW T, NEW reg, NEW t \in Times, Story(T, reg, t), NEW j \in Ids, NEW e \in Entry,
         NEW reg2, With(reg, j, e, reg2),
         NEW new, new = Fresh(T, j, e, t)
  PROVE  /\ Story(T \cup {new}, reg2, t)
         /\ OpenOf(T, j) = {} /\ new \notin T
         /\ Inserted(T, new) = T \cup {new}
<1>1. t \in Nat /\ t # Open /\ Open \in Nat /\ t < Open
  BY TimesFacts
<1>0. new = [row |-> Cardinality(T), id |-> j, entry |-> e, from |-> t, to |-> Open]
  BY DEF Fresh
<1>2. IsFiniteSet(T) /\ Cardinality(T) \in Nat
  BY FS_CardinalityType DEF Story, Numbered
<1>3. \A v \in T : v \in Version /\ v.row \in Nat /\ v.row < Cardinality(T) /\ v.from \in Nat /\ v.to \in Nat
  BY TimesFacts DEF Story, Numbered, Version
<1>4. new \in Version /\ new \notin T
  BY <1>0, <1>2, <1>3 DEF Version
<1>5. OpenOf(T, j) = {}
  BY DEF OpenOf, Story, With
<1> DEFINE R == T \cup {new}
<1>6. Numbered(R)
  <2>1. IsFiniteSet(R) /\ Cardinality(R) = Cardinality(T) + 1
    BY <1>2, <1>4, FS_AddElement
  <2>2. \A v \in R : v.row < Cardinality(R)
    BY <1>0, <1>2, <1>3, <2>1
  <2>3. \A v, w \in R : v.row = w.row /\ v.id = w.id => v = w
    <3>1. \A v \in T : v.row # new.row
      BY <1>0, <1>2, <1>3
    <3> QED
      BY <3>1 DEF Story, Numbered
  <2>4. R \subseteq Version
    BY <1>3, <1>4
  <2> HIDE DEF R
  <2> QED
    BY <2>1, <2>2, <2>3, <2>4 DEF Numbered
<1>7. \A v \in R : v.from <= t /\ (v.to # Open => v.from <= v.to /\ v.to <= t)
  BY <1>0, <1>1 DEF Story
<1>8. \A v \in T : ~Overlap(v, new) /\ ~Overlap(new, v)
  BY <1>0, <1>1, <1>3, <1>5 DEF Overlap, OpenOf, Story
<1>9. \A v, w \in R : v # w => ~Overlap(v, w)
  BY <1>8 DEF Story
<1>10. \A v \in R : v.to = Open => v.id \in DOMAIN reg2 /\ v.entry = reg2[v.id]
  BY <1>0 DEF Story, With
<1>11. \A k \in DOMAIN reg2 : \E v \in R : v.id = k /\ v.to = Open
  <2> SUFFICES ASSUME NEW k \in DOMAIN reg2 PROVE \E v \in R : v.id = k /\ v.to = Open
    OBVIOUS
  <2>1. CASE k = j
    BY <1>0, <2>1
  <2>2. CASE k # j
    BY <2>2 DEF Story, With
  <2> QED
    BY <2>1, <2>2
<1>12. Inserted(T, new) = R
  BY <1>0, <1>5 DEF Inserted
<1> HIDE DEF R
<1>13. Story(R, reg2, t)
  BY <1>6, <1>7, <1>9, <1>10, <1>11 DEF Story
<1> QED
  BY <1>4, <1>5, <1>12, <1>13 DEF R

-----------------------------------------------------------------------------
(* Each event, applied to the history before it, gives the history after   *)
(* it, and nothing is dead-lettered.                                       *)

\* Item it makes the table R of the table T, under rule r.
Tells(r, T, it, R) == WrittenUnder(r, T, it) = Result(R, {})

\* The event of item it continues the history T with R, and the registry becomes reg.
Continues(r, T, it, R, reg, t) == Story(R, reg, t) /\ Tells(r, T, it, R)

\* The versions of T after the open one of id i ended at t.
EndOf(T, i, t) == {IF v.id = i /\ v.to = Open THEN [v EXCEPT !.to = t] ELSE v : v \in T}

LEMMA LegalTells ==
  ASSUME NEW r, NEW T, NEW it, NEW R, Dispatched(T, it) = Result(R, {}), LegalUnder(r, R)
  PROVE  Tells(r, T, it, R)
BY DEF Tells, WrittenUnder, Result

\* A transaction is told by its rows and the reasons of what it dead-letters.
LEMMA IsResult ==
  ASSUME NEW r, NEW T, NEW it \in ItemType
  PROVE  WrittenUnder(r, T, it) = Result(WrittenUnder(r, T, it).rows, WrittenUnder(r, T, it).why)
<1> DEFINE D == Dispatched(T, it)
<1>1. \E R, why : D = Result(R, why)
  <2>1. CASE it.act = "reconcile"
    BY <2>1 DEF Dispatched, Reconciled
  <2>2. CASE it.act = "rename"
    BY <2>2 DEF Dispatched, Renamed
  <2>3. CASE it.act = "remove"
    BY <2>3 DEF Dispatched, Removed
  <2>4. CASE it.act = "sweep"
    BY <2>4 DEF Dispatched, Swept
  <2> QED
    BY <2>1, <2>2, <2>3, <2>4 DEF ItemType, Acts
<1> HIDE DEF D
<1>2. \E R, why : WrittenUnder(r, T, it) = Result(R, why)
  BY <1>1 DEF WrittenUnder, D
<1> QED
  BY <1>2 DEF Result

\* A new id: its first version starts at the event, where the entry was created.
LEMMA CreateTells ==
  ASSUME NEW r, NEW T, NEW reg, NEW t \in Times, Story(T, reg, t),
         NEW i \in Ids, NEW e \in Entry, e.created = t, NEW reg2, With(reg, i, e, reg2),
         NEW it \in ItemType, it.act = "reconcile", it.id = i, it.entry = e, it.ts = t
  PROVE  Continues(r, T, it, T \cup {NewVersion(T, it, t)}, reg2, t)
<1> DEFINE new == NewVersion(T, it, t)
           R == T \cup {new}
<1>1. new = Fresh(T, i, e, t)
  BY DEF NewVersion, Fresh
<1>2. /\ Story(R, reg2, t) /\ OpenOf(T, i) = {} /\ new \notin T
      /\ Inserted(T, new) = R
  BY <1>1, StoryAdd
<1>3. Closed(T, i, t) = T
  BY <1>2 DEF Closed
<1>4. FirstFrom(T, it) = t
  BY TimesFacts DEF FirstFrom
<1> HIDE DEF new
<1>5. Dispatched(T, it) = Result(R, Skipped(T, R, it))
  BY <1>2, <1>3, <1>4 DEF Dispatched, Reconciled, new
<1>6. Skipped(T, R, it) = {}
  BY <1>2 DEF Skipped
<1>7. LegalUnder(r, R)
  BY <1>2, StoryLegal
<1>8. Tells(r, T, it, R)
  BY <1>5, <1>6, <1>7, LegalTells
<1> QED
  BY <1>2, <1>8 DEF Continues, new

\* A changed or renamed entry: the version of id i ends and one of id j begins, at the event.
LEMMA ReplaceTells ==
  ASSUME NEW r, NEW T, NEW reg, NEW last \in Nat, NEW t \in Times, last < t, Story(T, reg, last),
         NEW i, NEW j \in Ids, NEW e \in Entry, NEW reg2, Instead(reg, i, j, e, reg2),
         NEW it \in ItemType, it.id = j, it.entry = e, it.ts = t,
         \/ it.act = "reconcile" /\ j = i /\ ~SamePayload(reg[i], e)
         \/ it.act = "rename" /\ it.old = i
  PROVE  Continues(r, T, it, EndOf(T, i, t) \cup {NewVersion(T, it, t)}, reg2, t)
<1> DEFINE C == Closed(T, i, t)
           new == NewVersion(T, it, t)
           R == C \cup {new}
           left == [k \in DOMAIN reg \ {i} |-> reg[k]]
<1>0. Without(reg, i, left) /\ With(left, j, e, reg2)
  BY DEF Instead, Without, With
<1>1. /\ Story(C, left, t)
      /\ Cardinality(C) = Cardinality(T) /\ C # T
      /\ C = {IF v.id = i /\ v.to = Open THEN [v EXCEPT !.to = t] ELSE v : v \in T}
  <2> HIDE DEF left
  <2> QED
    BY <1>0, StoryEnd
<1>2. new = Fresh(C, j, e, t)
  BY <1>1 DEF NewVersion, Fresh
<1> HIDE DEF C, left, new
<1>4. /\ Story(R, reg2, t) /\ new \notin C
      /\ Inserted(C, new) = R
  <2>1. Story(C, left, t) /\ With(left, j, e, reg2) /\ new = Fresh(C, j, e, t)
    BY <1>1, <1>2, <1>0
  <2>2. Story(C \cup {new}, reg2, t) /\ new \notin C /\ Inserted(C, new) = C \cup {new}
    BY <2>1, StoryAdd
  <2> QED
    BY <2>2
<1>5. Dispatched(T, it) = Result(R, Skipped(C, R, it))
  <2>1. CASE it.act = "reconcile"
    <3>1. i = it.id /\ C = Closed(T, it.id, it.ts) /\ ~SamePayload(reg[i], it.entry)
      BY <2>1 DEF C
    <3>2. PICK v \in T : v.id = i /\ v.to = Open
      BY DEF Story, Instead
    <3>3. OpenOf(T, it.id) # {} /\ \A w \in OpenOf(T, it.id) : w.entry = reg[i]
      BY <3>1, <3>2 DEF OpenOf, Story
    <3>4. Differs(T, it)
      BY <3>1, <3>3 DEF Differs
    <3> QED
      BY <1>1, <1>4, <2>1, <3>1, <3>4 DEF Dispatched, Reconciled, new
  <2>2. CASE it.act = "rename"
    <3>1. it.old = i /\ C = Closed(T, it.old, it.ts)
      BY <2>2 DEF C
    <3> QED
      BY <1>4, <2>2, <3>1 DEF Dispatched, Renamed, new
  <2> QED
    BY <2>1, <2>2
<1>6. Skipped(C, R, it) = {}
  BY <1>4 DEF Skipped
<1>7. LegalUnder(r, R)
  BY <1>4, StoryLegal
<1>8. Tells(r, T, it, R)
  BY <1>5, <1>6, <1>7, LegalTells
<1>9. Story(R, reg2, t) /\ Tells(r, T, it, R)
  BY <1>4, <1>8
<1> QED
  BY <1>1, <1>9 DEF Continues, EndOf, new

\* A removed entry: its version ends.
LEMMA RemoveTells ==
  ASSUME NEW r, NEW T, NEW reg, NEW last \in Nat, NEW t \in Times, last < t, Story(T, reg, last),
         NEW i, NEW reg2, Without(reg, i, reg2),
         NEW it \in ItemType, it.act = "remove", it.id = i, it.ts = t
  PROVE  Continues(r, T, it, EndOf(T, i, t), reg2, t)
<1> DEFINE C == Closed(T, i, t)
<1>1. /\ Story(C, reg2, t) /\ C # T
      /\ C = {IF v.id = i /\ v.to = Open THEN [v EXCEPT !.to = t] ELSE v : v \in T}
  BY StoryEnd
<1> HIDE DEF C
<1>2. Dispatched(T, it) = Result(C, {})
  BY <1>1 DEF Dispatched, Removed, C
<1>3. LegalUnder(r, C)
  BY <1>1, StoryLegal
<1>4. Tells(r, T, it, C)
  BY <1>2, <1>3, LegalTells
<1> QED
  BY <1>1, <1>4 DEF Continues, EndOf

\* The items of a startup snapshot find the history as it is.
LEMMA SnapshotTells ==
  ASSUME NEW r, NEW T, NEW reg, NEW last \in Times, Story(T, reg, last),
         NEW t, NEW it \in ItemType, SnapshotItem(it, reg, t)
  PROVE  Tells(r, T, it, T)
<1>1. LegalUnder(r, T)
  BY StoryLegal
<1>2. CASE it.act = "reconcile" /\ it.id \in DOMAIN reg /\ it.entry = reg[it.id]
  <2>1. PICK v \in T : v.id = it.id /\ v.to = Open
    BY <1>2 DEF Story
  <2>2. v \in OpenOf(T, it.id) /\ v.entry = it.entry
    BY <1>2, <2>1 DEF OpenOf, Story
  <2>3. OpenOf(T, it.id) # {} /\ ~Differs(T, it)
    BY <2>2 DEF Differs, SamePayload
  <2>4. Dispatched(T, it) = Result(T, {})
    BY <1>2, <2>3 DEF Dispatched, Reconciled
  <2> QED
    BY <1>1, <2>4, LegalTells
<1>3. CASE it.act = "sweep" /\ it.live = DOMAIN reg
  <2> DEFINE open == {v \in T : v.to = Open}
             stale == {v \in open : v.from < it.ts /\ v.id \notin it.live}
  <2>1. stale = {} /\ (open # {} => it.live # {})
    BY <1>3 DEF Story
  <2>2. ~SweepRefused(Cardinality(stale), Cardinality(open))
    <3>1. Cardinality(stale) = 0 /\ FreeCloses \in Nat
      BY <2>1, FS_EmptySet, MetaAssumption
    <3> QED
      BY <3>1 DEF SweepRefused
  <2>3. (T \ stale) \cup {[v EXCEPT !.to = it.ts] : v \in stale} = T
    BY <2>1
  <2>4. Swept(T, it) = Result(T, {})
    BY <2>1, <2>2, <2>3 DEF Swept
  <2>5. Dispatched(T, it) = Result(T, {})
    BY <1>3, <2>4 DEF Dispatched
  <2> QED
    BY <1>1, <2>5, LegalTells
<1> QED
  BY <1>2, <1>3 DEF SnapshotItem

-----------------------------------------------------------------------------
(* A sequence of items tells how a table became another one.               *)

\* The items of P make the table to of the table from, through legal tables; if begun,
\* the first of them is applied to from already.
Told(r, P, begun, from, to) ==
  /\ begun => P # <<>>
  /\ \E h \in [1..(Len(P) + 1) -> SUBSET Version] :
       /\ from = h[IF begun THEN 2 ELSE 1] /\ to = h[Len(P) + 1]
       /\ \A n \in 1..(Len(P) + 1) : OneOpenOf(h[n])
       /\ \A n \in 1..Len(P) : Tells(r, h[n], P[n], h[n + 1])

\* Nothing is told by nothing.
LEMMA ToldNothing ==
  ASSUME NEW r, NEW T \in SUBSET Version, OneOpenOf(T)
  PROVE  Told(r, <<>>, FALSE, T, T)
<1> DEFINE h == [n \in 1..1 |-> T]
<1>1. h \in [1..(Len(<<>>) + 1) -> SUBSET Version] /\ h[1] = T /\ Len(<<>>) = 0
  OBVIOUS
<1> HIDE DEF h
<1> QED
  BY <1>1 DEF Told

LEMMA ToldEmpty ==
  ASSUME NEW r, NEW begun, NEW T, NEW R, Told(r, <<>>, begun, T, R)
  PROVE  T = R
BY DEF Told

\* One story after the other.
LEMMA ToldMore ==
  ASSUME NEW r, NEW P \in Seq(ItemType), NEW Q \in Seq(ItemType), NEW begun \in BOOLEAN,
         NEW T, NEW M, NEW R, Told(r, P, begun, T, M), Told(r, Q, FALSE, M, R)
  PROVE  Told(r, P \o Q, begun, T, R)
<1>1. PICK h \in [1..(Len(P) + 1) -> SUBSET Version] :
         /\ T = h[IF begun THEN 2 ELSE 1] /\ M = h[Len(P) + 1]
         /\ \A n \in 1..(Len(P) + 1) : OneOpenOf(h[n])
         /\ \A n \in 1..Len(P) : Tells(r, h[n], P[n], h[n + 1])
  BY DEF Told
<1>2. PICK g \in [1..(Len(Q) + 1) -> SUBSET Version] :
         /\ M = g[1] /\ R = g[Len(Q) + 1]
         /\ \A n \in 1..(Len(Q) + 1) : OneOpenOf(g[n])
         /\ \A n \in 1..Len(Q) : Tells(r, g[n], Q[n], g[n + 1])
  BY DEF Told
<1> DEFINE p == Len(P)
           q == Len(Q)
           PQ == P \o Q
           f == [n \in 1..(Len(PQ) + 1) |-> IF n <= p THEN h[n] ELSE g[n - p]]
<1>3. /\ p \in Nat /\ q \in Nat /\ PQ \in Seq(ItemType) /\ Len(PQ) = p + q
      /\ \A n \in 1..(p + q) : PQ[n] = IF n <= p THEN P[n] ELSE Q[n - p]
  BY ConcatProperties
<1>4. begun => P # <<>> /\ p >= 1
  BY DEF Told
<1> HIDE DEF p, q, PQ
<1>5. \A n \in 1..(Len(PQ) + 1) : (n <= p => n \in 1..(p + 1)) /\ (~(n <= p) => n - p \in 1..(q + 1))
  BY <1>3
<1>6. f \in [1..(Len(PQ) + 1) -> SUBSET Version]
  BY <1>1, <1>2, <1>5 DEF p, q
<1>7. \A n \in 1..(p + 1) : n \in 1..(Len(PQ) + 1) /\ f[n] = h[n]
  <2> SUFFICES ASSUME NEW n \in 1..(p + 1) PROVE n \in 1..(Len(PQ) + 1) /\ f[n] = h[n]
    OBVIOUS
  <2>1. n \in 1..(Len(PQ) + 1)
    BY <1>3
  <2>2. CASE n <= p
    BY <2>1, <2>2
  <2>3. CASE n = p + 1
    <3>1. ~(n <= p) /\ n - p = 1
      BY <1>3, <2>3
    <3>2. f[n] = g[1]
      BY <2>1, <3>1
    <3> QED
      BY <1>1, <1>2, <2>1, <2>3, <3>2 DEF p
  <2> QED
    BY <1>3, <2>2, <2>3
<1>8. \A n \in 1..(q + 1) : p + n \in 1..(Len(PQ) + 1) /\ f[p + n] = g[n]
  <2> SUFFICES ASSUME NEW n \in 1..(q + 1)
               PROVE  p + n \in 1..(Len(PQ) + 1) /\ f[p + n] = g[n]
    OBVIOUS
  <2>1. p + n \in 1..(Len(PQ) + 1) /\ ~(p + n <= p) /\ (p + n) - p = n
    BY <1>3
  <2> QED
    BY <2>1
<1> HIDE DEF f
<1>9. T = f[IF begun THEN 2 ELSE 1]
  <2>1. (IF begun THEN 2 ELSE 1) \in 1..(p + 1)
    BY <1>3, <1>4
  <2> QED
    BY <1>1, <1>7, <2>1
<1>10. R = f[Len(PQ) + 1]
  <2>1. q + 1 \in 1..(q + 1) /\ p + (q + 1) = Len(PQ) + 1
    BY <1>3
  <2> QED
    BY <1>2, <1>8, <2>1 DEF q
<1>11. \A n \in 1..(Len(PQ) + 1) : OneOpenOf(f[n])
  <2> SUFFICES ASSUME NEW n \in 1..(Len(PQ) + 1) PROVE OneOpenOf(f[n])
    OBVIOUS
  <2>1. CASE n <= p
    <3>1. n \in 1..(p + 1)
      BY <1>3, <2>1
    <3> QED
      BY <1>1, <1>7, <3>1 DEF p
  <2>2. CASE ~(n <= p)
    <3>1. n - p \in 1..(q + 1) /\ p + (n - p) = n
      BY <1>3, <2>2
    <3> QED
      BY <1>2, <1>8, <3>1 DEF q
  <2> QED
    BY <2>1, <2>2
<1>12. \A n \in 1..Len(PQ) : Tells(r, f[n], PQ[n], f[n + 1])
  <2> SUFFICES ASSUME NEW n \in 1..Len(PQ) PROVE Tells(r, f[n], PQ[n], f[n + 1])
    OBVIOUS
  <2>1. CASE n <= p
    <3>1. n \in 1..p /\ n \in 1..(p + 1) /\ n + 1 \in 1..(p + 1) /\ PQ[n] = P[n]
      BY <1>3, <2>1
    <3>2. f[n] = h[n] /\ f[n + 1] = h[n + 1]
      BY <1>7, <3>1
    <3> QED
      BY <1>1, <3>1, <3>2 DEF p
  <2>2. CASE ~(n <= p)
    <3>1. /\ n - p \in 1..q /\ n - p \in 1..(q + 1) /\ (n - p) + 1 \in 1..(q + 1)
          /\ p + (n - p) = n /\ p + ((n - p) + 1) = n + 1 /\ PQ[n] = Q[n - p]
      <4>1. n \in Nat /\ n <= p + q /\ p \in Nat /\ q \in Nat
        BY <1>3
      <4>2. PQ[n] = Q[n - p]
        BY <1>3, <2>2
      <4>3. n - p \in 1..q /\ (n - p) + 1 \in 1..(q + 1)
        BY ONLY <2>2, <4>1
      <4>4. n - p \in 1..(q + 1) /\ p + (n - p) = n /\ p + ((n - p) + 1) = n + 1
        BY ONLY <2>2, <4>1
      <4> QED
        BY <4>2, <4>3, <4>4
    <3>2. f[n] = g[n - p] /\ f[n + 1] = g[(n - p) + 1]
      BY <1>8, <3>1
    <3> QED
      BY <1>2, <3>1, <3>2 DEF q
  <2> QED
    BY <2>1, <2>2
<1>13. begun => PQ # <<>>
  BY <1>3, <1>4
<1>14. Told(r, PQ, begun, T, R)
  BY <1>6, <1>9, <1>10, <1>11, <1>12, <1>13 DEF Told
<1> QED
  BY <1>14 DEF PQ

\* One more item.
LEMMA ToldOne ==
  ASSUME NEW r, NEW it, NEW T \in SUBSET Version, NEW R \in SUBSET Version,
         OneOpenOf(T), OneOpenOf(R), Tells(r, T, it, R)
  PROVE  Told(r, <<it>>, FALSE, T, R)
<1> DEFINE P == <<it>>
           h == [n \in 1..2 |-> IF n = 1 THEN T ELSE R]
<1>1. Len(P) = 1 /\ P[1] = it
  OBVIOUS
<1>2. h \in [1..(Len(P) + 1) -> SUBSET Version] /\ h[1] = T /\ h[2] = R
  OBVIOUS
<1> HIDE DEF h, P
<1>3. \A n \in 1..(Len(P) + 1) : OneOpenOf(h[n])
  <2>1. \A n \in 1..2 : n = 1 \/ n = 2
    OBVIOUS
  <2> QED
    BY <1>1, <1>2, <2>1
<1>4. \A n \in 1..Len(P) : Tells(r, h[n], P[n], h[n + 1])
  <2>1. \A n \in 1..1 : n = 1
    OBVIOUS
  <2> QED
    BY <1>1, <1>2, <2>1
<1>5. Told(r, P, FALSE, T, R)
  BY <1>1, <1>2, <1>3, <1>4 DEF Told
<1> QED
  BY <1>5 DEF P

\* Items that change nothing.
LEMMA ToldStill ==
  ASSUME NEW r, NEW Q \in Seq(ItemType), NEW T \in SUBSET Version, OneOpenOf(T),
         \A n \in 1..Len(Q) : Tells(r, T, Q[n], T)
  PROVE  Told(r, Q, FALSE, T, T)
<1> DEFINE h == [n \in 1..(Len(Q) + 1) |-> T]
<1>1. Len(Q) \in Nat /\ 1 \in 1..(Len(Q) + 1) /\ Len(Q) + 1 \in 1..(Len(Q) + 1)
  OBVIOUS
<1>2. \A n \in 1..Len(Q) : n \in 1..(Len(Q) + 1) /\ n + 1 \in 1..(Len(Q) + 1)
  BY <1>1
<1>3. h \in [1..(Len(Q) + 1) -> SUBSET Version] /\ \A n \in 1..(Len(Q) + 1) : h[n] = T
  OBVIOUS
<1> HIDE DEF h
<1> QED
  BY <1>1, <1>2, <1>3 DEF Told

\* The first item is applied, and nothing of it is dead-lettered.
LEMMA ToldWrite ==
  ASSUME NEW r, NEW P \in Seq(ItemType), P # <<>>, NEW T, NEW R, Told(r, P, FALSE, T, R)
  PROVE  LET W == WrittenUnder(r, T, P[1])
         IN  W.why = {} /\ Told(r, P, TRUE, W.rows, R)
<1>1. PICK h \in [1..(Len(P) + 1) -> SUBSET Version] :
         /\ T = h[1] /\ R = h[Len(P) + 1]
         /\ \A n \in 1..(Len(P) + 1) : OneOpenOf(h[n])
         /\ \A n \in 1..Len(P) : Tells(r, h[n], P[n], h[n + 1])
  BY DEF Told
<1>2. 1 \in 1..Len(P) /\ 1 + 1 = 2
  OBVIOUS
<1>3. Tells(r, T, P[1], h[2])
  BY <1>1, <1>2
<1>4. WrittenUnder(r, T, P[1]).why = {} /\ WrittenUnder(r, T, P[1]).rows = h[2]
  BY <1>3 DEF Tells, Result
<1>5. Told(r, P, TRUE, h[2], R)
  BY <1>1 DEF Told
<1> QED
  BY <1>4, <1>5

\* The applied item is taken off.
LEMMA ToldDone ==
  ASSUME NEW r, NEW P \in Seq(ItemType), NEW T, NEW R, Told(r, P, TRUE, T, R)
  PROVE  Told(r, Tail(P), FALSE, T, R)
<1>1. PICK h \in [1..(Len(P) + 1) -> SUBSET Version] :
         /\ T = h[2] /\ R = h[Len(P) + 1]
         /\ \A n \in 1..(Len(P) + 1) : OneOpenOf(h[n])
         /\ \A n \in 1..Len(P) : Tells(r, h[n], P[n], h[n + 1])
  BY DEF Told
<1> DEFINE Q == Tail(P)
           g == [n \in 1..(Len(Q) + 1) |-> h[n + 1]]
<1>2. P # <<>>
  BY DEF Told
<1>3. /\ Len(P) \in Nat /\ Len(Q) = Len(P) - 1 /\ Len(Q) \in Nat
      /\ \A n \in 1..Len(Q) : Q[n] = P[n + 1]
  BY <1>2
<1> HIDE DEF Q
<1>4. \A n \in 1..(Len(Q) + 1) : n + 1 \in 1..(Len(P) + 1)
  BY <1>3
<1>5. \A n \in 1..Len(Q) : /\ n \in 1..(Len(Q) + 1) /\ n + 1 \in 1..(Len(Q) + 1)
                           /\ n + 1 \in 1..Len(P)
  BY <1>3
<1>6. g \in [1..(Len(Q) + 1) -> SUBSET Version] /\ \A n \in 1..(Len(Q) + 1) : g[n] = h[n + 1]
  BY <1>1, <1>4
<1> HIDE DEF g
<1>7. g[1] = T /\ g[Len(Q) + 1] = R
  <2>1. 1 \in 1..(Len(Q) + 1) /\ Len(Q) + 1 \in 1..(Len(Q) + 1) /\ (Len(Q) + 1) + 1 = Len(P) + 1 /\ 1 + 1 = 2
    BY <1>3
  <2> QED
    BY <1>1, <1>6, <2>1
<1>8. \A n \in 1..Len(Q) : Tells(r, g[n], Q[n], g[n + 1])
  BY <1>1, <1>3, <1>5, <1>6
<1>9. Told(r, Q, FALSE, T, R)
  BY <1>1, <1>4, <1>6, <1>7, <1>8 DEF Told
<1> QED
  BY <1>9 DEF Q

\* The applied item may be applied again: the same story is told from where it is.
LEMMA ToldAgain ==
  ASSUME NEW r, NEW P \in Seq(ItemType), NEW T, NEW R, Told(r, P, TRUE, T, R)
  PROVE  Told(r, P, FALSE, T, R)
<1>1. PICK h \in [1..(Len(P) + 1) -> SUBSET Version] :
         /\ T = h[2] /\ R = h[Len(P) + 1]
         /\ \A n \in 1..(Len(P) + 1) : OneOpenOf(h[n])
         /\ \A n \in 1..Len(P) : Tells(r, h[n], P[n], h[n + 1])
  BY DEF Told
<1> DEFINE g == [h EXCEPT ![1] = T]
<1>2. P # <<>> /\ Len(P) \in Nat /\ Len(P) >= 1 /\ 1 \in 1..(Len(P) + 1) /\ 2 \in 1..(Len(P) + 1)
  BY DEF Told
<1>3. /\ g \in [1..(Len(P) + 1) -> SUBSET Version] /\ g[1] = T
      /\ \A n \in 1..(Len(P) + 1) : n # 1 => g[n] = h[n]
  BY <1>1, <1>2
<1> HIDE DEF g
<1>4. Tells(r, T, P[1], T)
  <2>1. P[1] \in ItemType /\ 1 \in 1..Len(P) /\ 1 + 1 = 2
    BY <1>2
  <2>2. Tells(r, h[1], P[1], T)
    BY <1>1, <2>1
  <2>3. WrittenUnder(r, h[1], P[1]) = Result(T, {})
    BY <2>2 DEF Tells
  <2>4. h[1] \subseteq Version /\ OneOpenOf(h[1])
    BY <1>1, <1>2
  <2> DEFINE again == WrittenUnder(r, T, P[1])
  <2>5. again.rows = T /\ again.why \subseteq {}
    <3> DEFINE W == WrittenUnder(r, h[1], P[1])
    <3>1. /\ WrittenUnder(r, W.rows, P[1]).rows = W.rows
          /\ WrittenUnder(r, W.rows, P[1]).why \subseteq W.why
      BY <2>1, <2>4, WrittenTwice
    <3>2. W.rows = T /\ W.why = {}
      BY <2>3 DEF Result
    <3> QED
      BY <3>1, <3>2
  <2>6. again = Result(again.rows, again.why)
    BY <2>1, IsResult
  <2> QED
    BY <2>5, <2>6 DEF Tells
<1>5. \A n \in 1..(Len(P) + 1) : OneOpenOf(g[n])
  BY <1>1, <1>2, <1>3
<1>6. \A n \in 1..Len(P) : Tells(r, g[n], P[n], g[n + 1])
  <2> SUFFICES ASSUME NEW n \in 1..Len(P) PROVE Tells(r, g[n], P[n], g[n + 1])
    OBVIOUS
  <2>1. n \in 1..(Len(P) + 1) /\ n + 1 \in 1..(Len(P) + 1) /\ n + 1 # 1
    BY <1>2
  <2>2. CASE n = 1
    <3>1. n + 1 = 2
      BY <2>2
    <3> QED
      BY <1>1, <1>3, <1>4, <2>1, <2>2, <3>1
  <2>3. CASE n # 1
    BY <1>1, <1>3, <2>1, <2>3
  <2> QED
    BY <2>2, <2>3
<1>7. R = g[Len(P) + 1]
  <2>1. Len(P) + 1 \in 1..(Len(P) + 1) /\ Len(P) + 1 # 1
    BY <1>2
  <2> QED
    BY <1>1, <1>3, <2>1
<1> QED
  BY <1>3, <1>5, <1>6, <1>7 DEF Told

-----------------------------------------------------------------------------
(* The invariant: the pending items tell how the table becomes the history *)
(* of the registry, and nothing was dead-lettered.                         *)

HistoryInv ==
  witnessed =>
    /\ Story(truth, registry, latest)
    /\ Told(rule, queue \o buffer, written, table, truth)
    /\ \A r \in Reasons : letters[r] = 0

LEMMA HistoryInit == Init => HistoryInv
<1> SUFFICES ASSUME Init PROVE HistoryInv
  OBVIOUS
<1>1. Numbered(truth) /\ OneOpenOf(truth) /\ truth = table
  BY LogInvInit DEF LogInv, Inv, Init
<1>2. PICK S \in SUBSET Ids : registry = [i \in S |-> [NoEntry EXCEPT !.uuid = i]]
  BY DEF Init
<1>3. /\ DOMAIN registry = S /\ latest = 0
      /\ truth = {[row |-> 0, id |-> i, entry |-> registry[i], from |-> 0, to |-> Open] : i \in S}
  BY <1>2 DEF Init
<1>4. \A v \in truth : v.from = 0 /\ v.to = Open /\ v.id \in S /\ v.entry = registry[v.id]
  BY <1>3
<1>5. \A i \in S : \E v \in truth : v.id = i /\ v.to = Open
  <2> SUFFICES ASSUME NEW i \in S PROVE \E v \in truth : v.id = i /\ v.to = Open
    OBVIOUS
  <2> DEFINE v == [row |-> 0, id |-> i, entry |-> registry[i], from |-> 0, to |-> Open]
  <2>1. v \in truth /\ v.id = i /\ v.to = Open
    BY <1>3
  <2> QED
    BY <2>1
<1>6. \A v, w \in truth : v # w => ~Overlap(v, w)
  BY <1>1, <1>4 DEF Overlap, OneOpenOf
<1>7. Story(truth, registry, latest)
  BY <1>1, <1>3, <1>4, <1>5, <1>6 DEF Story
<1>8. queue \o buffer = <<>> /\ written = FALSE
  BY DEF Init
<1>9. Told(rule, <<>>, FALSE, truth, truth)
  BY <1>1, ToldNothing DEF Numbered
<1>10. \A r \in Reasons : letters[r] = 0
  BY DEF Init
<1> QED
  BY <1>1, <1>7, <1>8, <1>9, <1>10 DEF HistoryInv

\* A stamp later than the others is the latest.
LEMMA StampLater ==
  ASSUME LogInv, NEW t \in Times, Stamp(t), latest < t
  PROVE  latest' = t
<1>1. latest \in Nat /\ t \in Nat /\ latest' = Max({latest, t})
  BY TimesFacts DEF LogInv, Inv, TypeInv, Stamp
<1>2. \E x \in {latest, t} : \A y \in {latest, t} : x >= y
  BY <1>1
<1>3. Max({latest, t}) \in {latest, t} /\ \A y \in {latest, t} : Max({latest, t}) >= y
  BY <1>2 DEF Max
<1> QED
  BY <1>1, <1>3

\* An observed change continues the story.
LEMMA ObservedChange ==
  ASSUME LogInv, HistoryInv, witnessed', NEW it \in ItemType, NEW t \in Times, NEW described,
         Change(it, t, described),
         Story(truth, registry, latest) /\ latest < t =>
           Continues(rule, truth, it, described, registry', t)
  PROVE  HistoryInv'
<1>1. /\ queue \in Seq(ItemType) /\ buffer \in Seq(ItemType) /\ latest \in Times /\ t \in Nat
      /\ written \in BOOLEAN
  BY TimesFacts DEF LogInv, Inv, TypeInv, TypeOK
<1>2. /\ witnessed /\ t > latest /\ buffer' = Append(buffer, it) /\ truth' = described
      /\ UNCHANGED <<queue, written, table, rule, letters>>
  BY DEF Change, Observe
<1>3. /\ Story(truth, registry, latest)
      /\ Told(rule, queue \o buffer, written, table, truth)
      /\ \A r \in Reasons : letters[r] = 0
  BY <1>2 DEF HistoryInv
<1>4. latest < t
  BY <1>1, <1>2, TimesFacts
<1>5. Story(described, registry', t) /\ Tells(rule, truth, it, described)
  BY <1>3, <1>4 DEF Continues
<1>6. latest' = t
  BY <1>4, StampLater DEF Change
<1>7. /\ truth \in SUBSET Version /\ OneOpenOf(truth)
      /\ described \in SUBSET Version /\ OneOpenOf(described)
  <2>1. OneOpenOf(truth) /\ OneOpenOf(described)
    BY <1>1, <1>3, <1>5, StoryLegal
  <2>2. truth \in SUBSET Version /\ described \in SUBSET Version
    BY <1>3, <1>5 DEF Story, Numbered
  <2> QED
    BY <2>1, <2>2
<1>8. Told(rule, <<it>>, FALSE, truth, described)
  BY <1>5, <1>7, ToldOne
<1>9. queue \o buffer \in Seq(ItemType) /\ <<it>> \in Seq(ItemType)
  BY <1>1
<1>10. Told(rule, (queue \o buffer) \o <<it>>, written, table, described)
  BY <1>1, <1>3, <1>8, <1>9, ToldMore
<1>11. queue \o Append(buffer, it) = (queue \o buffer) \o <<it>>
  BY <1>1
<1>12. queue' \o buffer' = (queue \o buffer) \o <<it>>
  BY <1>2, <1>11
<1> QED
  BY <1>2, <1>3, <1>5, <1>6, <1>10, <1>12 DEF HistoryInv

LEMMA HistoryStep == LogInv /\ HistoryInv /\ [Next]_vars => HistoryInv'
<1> SUFFICES ASSUME LogInv, HistoryInv, [Next]_vars, witnessed' PROVE HistoryInv'
  BY DEF HistoryInv
<1>inv. /\ queue \in Seq(ItemType) /\ buffer \in Seq(ItemType) /\ latest \in Times
        /\ latest \in Nat /\ written \in BOOLEAN /\ (written => queue # <<>>)
        /\ DOMAIN registry \in SUBSET Ids /\ registry \in [DOMAIN registry -> Entry]
  BY TimesFacts, RegistryType DEF LogInv, Inv, TypeInv, TypeOK
<1>was. ASSUME witnessed
        PROVE  /\ Story(truth, registry, latest)
               /\ Told(rule, queue \o buffer, written, table, truth)
               /\ \A r \in Reasons : letters[r] = 0
  BY <1>was DEF HistoryInv
<1>create. CASE RegCreate
  <2>1. PICK i \in Ids \ DOMAIN registry, p \in Payloads, t \in Times :
          LET e == [uuid |-> ops + 1, pay |-> p, created |-> t]
              it == Item("reconcile", i, NoId, e, t, {})
          IN /\ registry' = [j \in DOMAIN registry \cup {i} |-> IF j = i THEN e ELSE registry[j]]
             /\ Change(it, t, truth \cup {NewVersion(truth, it, t)})
    BY <1>create DEF RegCreate
  <2> DEFINE e == [uuid |-> ops + 1, pay |-> p, created |-> t]
             it == Item("reconcile", i, NoId, e, t, {})
             reg2 == [j \in DOMAIN registry \cup {i} |-> IF j = i THEN e ELSE registry[j]]
             told == truth \cup {NewVersion(truth, it, t)}
  <2>2. ops + 1 \in 0..MaxOps
    BY <2>1, TimesFacts DEF Change, LogInv, Inv, TypeInv
  <2>3. e \in Entry /\ e.created = t
    BY <2>2 DEF Entry
  <2>4. it \in ItemType /\ it.act = "reconcile" /\ it.id = i /\ it.entry = e /\ it.ts = t
    BY <2>3 DEF Item, ItemType, Acts
  <2>5. registry' = reg2 /\ Change(it, t, told)
    BY <2>1
  <2>6. With(registry, i, e, reg2)
    BY DEF With
  <2> HIDE DEF e, it, reg2
  <2>7. ASSUME Story(truth, registry, latest), latest < t
        PROVE  Continues(rule, truth, it, told, reg2, t)
    <3>1. Story(truth, registry, t)
      BY <1>inv, <2>7, StoryLater, TimesFacts
    <3> QED
      BY <2>3, <2>4, <2>6, <3>1, CreateTells
  <2> HIDE DEF told
  <2> QED
    BY <2>4, <2>5, <2>7, ObservedChange
<1>update. CASE RegUpdate
  <2>1. PICK i \in DOMAIN registry, p \in Payloads, t \in Times :
          LET e == [registry[i] EXCEPT !.pay = p]
              it == Item("reconcile", i, NoId, e, t, {})
          IN /\ e # registry[i]
             /\ registry' = [registry EXCEPT ![i] = e]
             /\ Change(it, t, CloseTruth(i, t) \cup {NewVersion(truth, it, t)})
    BY <1>update DEF RegUpdate
  <2> DEFINE e == [registry[i] EXCEPT !.pay = p]
             it == Item("reconcile", i, NoId, e, t, {})
             reg2 == [registry EXCEPT ![i] = e]
             told == EndOf(truth, i, t) \cup {NewVersion(truth, it, t)}
  <2>2. registry[i] \in Entry /\ i \in Ids
    BY <1>inv
  <2>3. e \in Entry /\ ~SamePayload(registry[i], e)
    BY <2>1, <2>2 DEF Entry, SamePayload
  <2>4. it \in ItemType /\ it.act = "reconcile" /\ it.id = i /\ it.entry = e /\ it.ts = t
    BY <2>2, <2>3 DEF Item, ItemType, Acts
  <2>5. registry' = reg2 /\ Change(it, t, told)
    BY <2>1 DEF CloseTruth, EndOf
  <2>6. Instead(registry, i, i, e, reg2)
    BY <1>inv DEF Instead
  <2> HIDE DEF e, it, reg2
  <2>7. ASSUME Story(truth, registry, latest), latest < t
        PROVE  Continues(rule, truth, it, told, reg2, t)
    BY <1>inv, <2>2, <2>3, <2>4, <2>6, <2>7, ReplaceTells
  <2> HIDE DEF told
  <2> QED
    BY <2>4, <2>5, <2>7, ObservedChange
<1>rename. CASE RegRename
  <2>1. PICK i \in DOMAIN registry, j \in Ids \ DOMAIN registry, t \in Times :
          LET it == Item("rename", j, i, registry[i], t, {})
          IN /\ registry' = [k \in (DOMAIN registry \ {i}) \cup {j} |->
                               IF k = j THEN registry[i] ELSE registry[k]]
             /\ Change(it, t, CloseTruth(i, t) \cup {NewVersion(truth, it, t)})
    BY <1>rename DEF RegRename
  <2> DEFINE e == registry[i]
             it == Item("rename", j, i, e, t, {})
             reg2 == [k \in (DOMAIN registry \ {i}) \cup {j} |-> IF k = j THEN e ELSE registry[k]]
             told == EndOf(truth, i, t) \cup {NewVersion(truth, it, t)}
  <2>2. e \in Entry /\ i \in Ids
    BY <1>inv
  <2>3. it \in ItemType /\ it.act = "rename" /\ it.old = i /\ it.id = j /\ it.entry = e /\ it.ts = t
    BY <2>2 DEF Item, ItemType, Acts
  <2>4. registry' = reg2 /\ Change(it, t, told)
    BY <2>1 DEF CloseTruth, EndOf
  <2>5. Instead(registry, i, j, e, reg2)
    BY DEF Instead
  <2> HIDE DEF e, it, reg2
  <2>6. ASSUME Story(truth, registry, latest), latest < t
        PROVE  Continues(rule, truth, it, told, reg2, t)
    BY <1>inv, <2>2, <2>3, <2>5, <2>6, ReplaceTells
  <2> HIDE DEF told
  <2> QED
    BY <2>3, <2>4, <2>6, ObservedChange
<1>remove. CASE RegRemove
  <2>1. PICK i \in DOMAIN registry, t \in Times :
          /\ registry' = Restrict(registry, DOMAIN registry \ {i})
          /\ Change(Item("remove", i, NoId, NoEntry, t, {}), t, CloseTruth(i, t))
    BY <1>remove DEF RegRemove
  <2> DEFINE it == Item("remove", i, NoId, NoEntry, t, {})
             reg2 == Restrict(registry, DOMAIN registry \ {i})
             told == EndOf(truth, i, t)
  <2>2. it \in ItemType /\ it.act = "remove" /\ it.id = i /\ it.ts = t
    BY <1>inv, NoEntryType DEF Item, ItemType, Acts
  <2>3. registry' = reg2 /\ Change(it, t, told)
    BY <2>1 DEF CloseTruth, EndOf
  <2>4. Without(registry, i, reg2)
    BY DEF Restrict, Without
  <2> HIDE DEF it, reg2
  <2>5. ASSUME Story(truth, registry, latest), latest < t
        PROVE  Continues(rule, truth, it, told, reg2, t)
    BY <1>inv, <2>2, <2>4, <2>5, RemoveTells
  <2> HIDE DEF told
  <2> QED
    BY <2>2, <2>3, <2>5, ObservedChange
<1>snapshot. CASE Snapshot
  <2>1. PICK Q \in Seq(ItemType), t \in Times :
          /\ Stamp(t) /\ buffer' = buffer \o Q
          /\ \A n \in 1..Len(Q) : SnapshotItem(Q[n], registry, t)
          /\ witnessed' = (witnessed /\ t > latest)
    BY <1>snapshot, SnapshotItems DEF LogInv, Lists
  <2>2. UNCHANGED <<registry, queue, written, table, rule, letters, truth>>
    BY <1>snapshot DEF Snapshot
  <2>3. witnessed /\ latest < t /\ t \in Nat
    BY <1>inv, <2>1, TimesFacts
  <2>4. latest' = t
    BY <2>1, <2>3, StampLater
  <2>5. Story(truth, registry, t)
    BY <1>inv, <1>was, <2>3, StoryLater
  <2>6. truth \in SUBSET Version /\ OneOpenOf(truth)
    BY <2>5, StoryLegal DEF Story, Numbered
  <2>7. \A n \in 1..Len(Q) : Tells(rule, truth, Q[n], truth)
    <3> TAKE n \in 1..Len(Q)
    <3>1. Q[n] \in ItemType /\ SnapshotItem(Q[n], registry, t)
      BY <2>1
    <3> QED
      BY <2>5, <3>1, SnapshotTells
  <2>8. Told(rule, Q, FALSE, truth, truth)
    BY <2>6, <2>7, ToldStill
  <2>9. queue \o buffer \in Seq(ItemType)
    BY <1>inv
  <2>10. Told(rule, (queue \o buffer) \o Q, written, table, truth)
    BY <1>inv, <1>was, <2>3, <2>8, <2>9, ToldMore
  <2>11. queue' \o buffer' = (queue \o buffer) \o Q
    <3>1. queue \o (buffer \o Q) = (queue \o buffer) \o Q
      BY ONLY <1>inv, Q \in Seq(ItemType), ConcatAssociative
    <3> QED
      BY <2>1, <2>2, <3>1
  <2> QED
    BY <1>was, <2>2, <2>3, <2>4, <2>5, <2>10, <2>11 DEF HistoryInv
<1>same. ASSUME witnessed, UNCHANGED <<registry, latest, truth, rule, letters>>,
                Told(rule, queue' \o buffer', written', table', truth)
         PROVE  HistoryInv'
  BY <1>was, <1>same DEF HistoryInv
<1>drain. CASE Drain
  <2>1. PICK k \in 0..Len(buffer) :
          /\ queue' = queue \o SubSeq(buffer, 1, k) \o buffer
          /\ (k = 0 /\ witnessed' = witnessed) \/ witnessed' = FALSE
    BY <1>drain DEF Drain
  <2>2. buffer' = <<>> /\ UNCHANGED <<registry, latest, truth, rule, letters, written, table>>
    BY <1>drain DEF Drain
  <2>3. k = 0 /\ witnessed
    BY <2>1
  <2>4. SubSeq(buffer, 1, k) = <<>>
    BY <2>3
  <2>5. queue' \o buffer' = queue \o buffer
    <3>1. queue' = queue \o buffer /\ queue \o buffer \in Seq(ItemType)
      BY <1>inv, <2>1, <2>4, ConcatEmptySeq
    <3> QED
      BY <2>2, <3>1, ConcatEmptySeq
  <2> QED
    BY <1>same, <1>was, <2>2, <2>3, <2>5
<1>write. CASE Write
  <2> DEFINE P == queue \o buffer
             W == WrittenUnder(rule, table, P[1])
  <2>1. P \in Seq(ItemType) /\ P # <<>> /\ P[1] = Head(queue)
    BY <1>inv, <1>write DEF Write
  <2>2. /\ witnessed /\ written = FALSE /\ written' = TRUE
        /\ UNCHANGED <<registry, latest, truth, rule, queue, buffer>>
    BY <1>inv, <1>write DEF Write, envVars
  <2>3. Written(table, Head(queue)) = W
    BY <2>1 DEF Written, WrittenUnder, Legal, LegalUnder
  <2>4. table' = W.rows /\ letters' = [r \in Reasons |-> letters[r] + IF r \in W.why THEN 1 ELSE 0]
    BY <1>write, <2>3 DEF Write
  <2> HIDE DEF P, W
  <2>5. Told(rule, P, FALSE, table, truth)
    BY <1>was, <2>2 DEF P
  <2>6. W.why = {} /\ Told(rule, P, TRUE, W.rows, truth)
    BY <2>1, <2>5, ToldWrite DEF W
  <2>7. \A r \in Reasons : letters'[r] = 0
    BY <1>was, <2>2, <2>4, <2>6
  <2>8. Told(rule, queue' \o buffer', TRUE, table', truth)
    BY <2>2, <2>4, <2>6 DEF P
  <2> QED
    BY <1>was, <2>2, <2>7, <2>8 DEF HistoryInv
<1>done. CASE TaskDone
  <2>1. /\ written = TRUE /\ written' = FALSE /\ queue' = Tail(queue) /\ witnessed
        /\ UNCHANGED <<registry, latest, truth, rule, letters, table, buffer>>
    BY <1>inv, <1>done DEF TaskDone, envVars
  <2> DEFINE P == queue \o buffer
  <2>2. P \in Seq(ItemType) /\ queue' \o buffer' = Tail(P)
    <3>1. Tail(queue) \o buffer = Tail(queue \o buffer)
      BY <1>inv, <2>1
    <3> QED
      BY <1>inv, <2>1, <3>1
  <2> HIDE DEF P
  <2>3. Told(rule, P, TRUE, table, truth)
    BY <1>was, <2>1 DEF P
  <2>4. Told(rule, Tail(P), FALSE, table, truth)
    BY <2>2, <2>3, ToldDone
  <2> QED
    BY <1>same, <2>1, <2>2, <2>4
<1>stop. CASE Stop
  <2>1. /\ witnessed /\ buffer = <<>> /\ buffer' = <<>> /\ written' = FALSE
        /\ UNCHANGED <<registry, latest, truth, rule, letters, table, queue>>
    BY <1>stop DEF Stop
  <2> DEFINE P == queue \o buffer
  <2>2. queue' \o buffer' = P
    BY <2>1
  <2> HIDE DEF P
  <2>3. Told(rule, P, written, table, truth)
    BY <1>was, <2>1 DEF P
  <2>4. Told(rule, P, FALSE, table, truth)
    <3>1. CASE written = TRUE
      <4>1. P \in Seq(ItemType)
        BY <1>inv DEF P
      <4>2. Told(rule, P, TRUE, table, truth)
        BY <1>was, <2>1, <3>1 DEF P
      <4> QED
        BY <4>1, <4>2, ToldAgain
    <3>2. CASE written = FALSE
      BY <2>3, <3>2
    <3> QED
      BY <1>inv, <3>1, <3>2
  <2> QED
    BY <1>same, <2>1, <2>2, <2>4
<1>start. CASE StartUp
  BY <1>same, <1>was, <1>start DEF StartUp
<1>stutter. CASE UNCHANGED vars
  BY <1>same, <1>was, <1>stutter DEF vars
<1> QED
  BY <1>create, <1>update, <1>rename, <1>remove, <1>snapshot, <1>drain, <1>write, <1>done,
     <1>stop, <1>start, <1>stutter DEF Next

LEMMA HistoryHolds == Spec => [](LogInv /\ HistoryInv)
<1> QED
  BY LogInvInit, LogInvStep, HistoryInit, HistoryStep, PTL DEF Spec

\* While every change was stamped in order, queued and not repeated, the table tells exactly
\* what happened and when, once the queue is empty, whatever stops, replays and startup
\* snapshots lay in between (meta_worker.py:607, "always event time").
THEOREM TellsWhatHappened == Spec => []RecordedFaithfully
<1>1. LogInv /\ HistoryInv => RecordedFaithfully
  <2> SUFFICES ASSUME LogInv, HistoryInv, buffer = <<>>, queue = <<>>, witnessed
               PROVE  table = truth
    BY DEF RecordedFaithfully, Drained
  <2>1. Told(rule, <<>>, written, table, truth)
    BY DEF HistoryInv
  <2> QED
    BY <2>1, ToldEmpty
<1> QED
  BY <1>1, HistoryHolds, PTL

\* And no change is refused on the way: "Queue ordering should make this impossible"
\* (meta_worker.py:597) is true of a recorder that saw every change.
THEOREM RefusesNothing == Spec => []OrderedNothingLost
<1>1. HistoryInv => OrderedNothingLost
  BY DEF HistoryInv, OrderedNothingLost, Reasons
<1> QED
  BY <1>1, HistoryHolds, PTL
-----------------------------------------------------------------------------
(* What a snapshot leaves.  First: an item stamped no earlier than every   *)
(* version of the table begins and ends is accepted by the database.       *)

\* A table the database accepts, in which nothing is later than last.
Fit(r, T, last) ==
  /\ Numbered(T) /\ OneOpenOf(T)
  /\ \A v \in T : v.from <= last /\ (v.to # Open => v.to <= last)
  /\ r = "exclusion" => \A v, w \in T : v.from <= v.to /\ (v # w => ~Overlap(v, w))

LEMMA FitLater ==
  ASSUME NEW r, NEW T, NEW last \in Times, NEW t \in Times, last <= t, Fit(r, T, last)
  PROVE  Fit(r, T, t)
<1>1. \A v \in T : v.from \in Nat /\ v.to \in Nat
  BY TimesFacts DEF Fit, Numbered, Version
<1> QED
  BY <1>1, TimesFacts DEF Fit

\* What is written no later than last fits, whether it is accepted or not.
LEMMA FitWritten ==
  ASSUME NEW r, NEW T, NEW last \in Times, Fit(r, T, last), NEW it \in ItemType, it.ts <= last
  PROVE  Fit(r, WrittenUnder(r, T, it).rows, last)
<1> DEFINE D == Dispatched(T, it).rows
<1>1. CASE ~LegalUnder(r, D)
  BY <1>1 DEF WrittenUnder, Result
<1>2. CASE LegalUnder(r, D)
  <2>1. WrittenUnder(r, T, it).rows = D
    BY <1>2 DEF WrittenUnder
  <2>2. Effect(T, D, it)
    BY DispatchedEffect
  <2> HIDE DEF D
  <2>3. Numbered(D)
    BY <2>2, EffectNumbered DEF Fit
  <2>4. OneOpenOf(D)
    BY <1>2, <2>3, LegalOneOpen
  <2>5. PICK S \in SUBSET Endable(T, it.ts), N \in SUBSET {NewVersion(T, it, from) : from \in Times} :
           /\ D = EndAt(T, S, it.ts) \cup N
           /\ \A w \in N : w.from <= it.ts
    BY <2>2 DEF Effect
  <2>6. it.ts \in Nat /\ last \in Nat /\ \A v \in T : v \in Version
    BY TimesFacts DEF ItemType, Fit, Numbered
  <2>7. \A v \in D : v.from <= last /\ (v.to # Open => v.to <= last)
    <3> SUFFICES ASSUME NEW v \in D PROVE v.from <= last /\ (v.to # Open => v.to <= last)
      OBVIOUS
    <3>1. CASE v \in N
      <4>1. v.to = Open /\ v.from \in Times /\ v.from <= it.ts
        BY <2>5, <3>1 DEF NewVersion
      <4>2. v.from \in Nat /\ it.ts \in Nat /\ last \in Nat
        BY <2>6, <4>1, TimesFacts
      <4>3. v.from <= last
        BY ONLY <4>1, <4>2, it.ts <= last
      <4> QED
        BY <4>1, <4>3
    <3>2. CASE v \notin N
      <4>1. PICK u \in T : v = IF u \in S THEN [u EXCEPT !.to = it.ts] ELSE u
        BY <2>5, <3>2 DEF EndAt
      <4>2. u \in Version /\ u.from <= last /\ (u.to # Open => u.to <= last)
        BY <2>6 DEF Fit
      <4>3. CASE u \in S
        BY <4>1, <4>2, <4>3 DEF Version
      <4>4. CASE u \notin S
        BY <4>1, <4>2, <4>4
      <4> QED
        BY <4>3, <4>4
    <3> QED
      BY <3>1, <3>2
  <2>8. r = "exclusion" => \A v, w \in D : v.from <= v.to /\ (v # w => ~Overlap(v, w))
    BY <1>2 DEF LegalUnder
  <2> QED
    BY <2>1, <2>3, <2>4, <2>7, <2>8 DEF Fit
<1> QED
  BY <1>1, <1>2

\* The latest item is accepted.
LEMMA LatestAccepted ==
  ASSUME NEW r, NEW T, NEW it \in ItemType, Fit(r, T, it.ts)
  PROVE  WrittenUnder(r, T, it) = Dispatched(T, it)
<1> DEFINE D == Dispatched(T, it).rows
           ts == it.ts
<1>1. Effect(T, D, it)
  BY DispatchedEffect
<1>2. WrittenUnder(r, T, it) = IF LegalUnder(r, D) THEN Dispatched(T, it) ELSE Result(T, {"integrity"})
  BY DEF WrittenUnder
<1> HIDE DEF D
<1>3. PICK S \in SUBSET Endable(T, ts), N \in SUBSET {NewVersion(T, it, from) : from \in Times} :
         /\ D = EndAt(T, S, ts) \cup N
         /\ \A w \in N : /\ N = {w} /\ it.id \in Ids
                         /\ OpenOf(EndAt(T, S, ts), it.id) = {}
                         /\ w.from = ts \/ \A v \in T : v.id # it.id
                         /\ w.from <= ts
  BY <1>1 DEF Effect
<1>4. ts \in Nat /\ ts < Open /\ Open \in Nat /\ ts # Open
  BY TimesFacts DEF ItemType
<1>5. \A v \in T : /\ v \in Version /\ v.from \in Nat /\ v.to \in Nat
                   /\ v.from <= ts /\ (v.to # Open => v.to <= ts)
  BY TimesFacts DEF Fit, Numbered, Version
<1> DEFINE end(v) == IF v \in S THEN [v EXCEPT !.to = ts] ELSE v
           E == EndAt(T, S, ts)
<1>6. \A v \in T : /\ end(v).id = v.id /\ end(v).from = v.from /\ end(v).to \in Nat
                   /\ end(v).to = IF v \in S THEN ts ELSE v.to
                   /\ v \in S => v.from < ts /\ v.to = Open
  BY <1>4, <1>5 DEF Version, Endable
<1>7. E = {end(v) : v \in T}
  BY DEF EndAt
<1>8. \A w \in N : /\ w.id = it.id /\ w.to = Open /\ w.from \in Nat /\ w.from <= ts /\ N = {w}
                   /\ OpenOf(E, it.id) = {}
                   /\ w.from = ts \/ \A v \in T : v.id # it.id
  BY <1>3, TimesFacts DEF NewVersion
<1>9. D = E \cup N
  BY <1>3
<1> HIDE DEF end, E, ts
<1>10. OneOpenOf(D)
  <2>1. \A v, w \in E : v.id = w.id /\ v.to = Open /\ w.to = Open => v = w
    <3> SUFFICES ASSUME NEW v \in T, NEW w \in T, end(v).id = end(w).id, end(v).to = Open, end(w).to = Open
                 PROVE  v = w
      BY <1>7
    <3>1. v.to = Open /\ w.to = Open /\ v.id = w.id
      BY <1>4, <1>6
    <3> QED
      BY <3>1 DEF Fit, OneOpenOf
  <2>2. \A v \in E, w \in N : v.id = w.id => v.to # Open
    BY <1>8 DEF OpenOf
  <2>3. \A v, w \in N : v = w
    BY <1>8
  <2> QED
    BY <1>9, <2>1, <2>2, <2>3 DEF OneOpenOf
<1>11. ASSUME r = "exclusion" PROVE \A v, w \in D : v.from <= v.to /\ (v # w => ~Overlap(v, w))
  <2>1. \A v, w \in T : v.from <= v.to /\ (v # w => ~Overlap(v, w))
    BY <1>11 DEF Fit
  <2>2. \A v \in E : v.from <= v.to
    BY <1>5, <1>6, <1>7, <2>1
  <2>3. \A v \in N : v.from <= v.to
    BY <1>4, <1>8
  <2>4. \A v, w \in E : v # w => ~Overlap(v, w)
    <3> SUFFICES ASSUME NEW v \in T, NEW w \in T, v # w PROVE ~Overlap(end(v), end(w))
      BY <1>7
    <3>1. ~Overlap(v, w)
      BY <2>1
    <3>2. end(v).to <= v.to /\ end(w).to <= w.to
      BY <1>4, <1>5, <1>6
    <3> QED
      BY <1>5, <1>6, <3>1, <3>2 DEF Overlap
  <2>5. \A v \in E, w \in N : ~Overlap(v, w) /\ ~Overlap(w, v)
    <3> SUFFICES ASSUME NEW u \in T, NEW w \in N, end(u).id = w.id
                 PROVE  ~(w.from < end(u).to)
      BY <1>7 DEF Overlap
    <3>1. u.id = it.id /\ w.from = ts
      BY <1>6, <1>8
    <3>2. end(u).to # Open
      BY <1>7, <1>8, <1>6, <3>1 DEF OpenOf
    <3>3. end(u).to <= ts /\ end(u).to \in Nat
      BY <1>4, <1>5, <1>6, <3>2
    <3> QED
      BY <1>4, <3>1, <3>3
  <2>6. \A v, w \in N : v = w
    BY <1>8
  <2> QED
    BY <1>9, <2>2, <2>3, <2>4, <2>5, <2>6
<1>12. LegalUnder(r, D)
  BY <1>10, <1>11, ApartLegal
<1> QED
  BY <1>2, <1>12

-----------------------------------------------------------------------------
(* What an item does to the open versions of each id.                      *)

\* Id i is open with the payload of the entry e.
Covers(T, i, e) == \E v \in OpenOf(T, i) : SamePayload(v.entry, e)

LEMMA ClosedOpen ==
  ASSUME NEW T, T \subseteq Version, NEW i, NEW t \in Times
  PROVE  /\ OpenOf(Closed(T, i, t), i) = {v \in OpenOf(T, i) : ~(v.from < t)}
         /\ \A j : j # i => OpenOf(Closed(T, i, t), j) = OpenOf(T, j)
<1>1. t # Open
  BY TimesFacts
<1> DEFINE end(v) == IF v \in OpenOf(T, i) /\ v.from < t THEN [v EXCEPT !.to = t] ELSE v
           C == Closed(T, i, t)
<1>2. C = {end(v) : v \in T}
  BY DEF Closed
<1>3. \A v \in T : /\ end(v).id = v.id
                   /\ IF v.id = i /\ v.to = Open /\ v.from < t THEN end(v).to = t ELSE end(v) = v
  BY DEF Version, OpenOf
<1> HIDE DEF end, C
<1>4. \A v : v \in C /\ v.to = Open <=> v \in T /\ v.to = Open /\ ~(v.id = i /\ v.from < t)
  BY <1>1, <1>2, <1>3
<1>5. OpenOf(C, i) = {v \in OpenOf(T, i) : ~(v.from < t)}
  BY <1>4 DEF OpenOf
<1>6. \A j : j # i => OpenOf(C, j) = OpenOf(T, j)
  BY <1>4 DEF OpenOf
<1> QED
  BY <1>5, <1>6 DEF C

LEMMA InsertedOpen ==
  ASSUME NEW T, NEW w, w.to = Open
  PROVE  /\ OpenOf(Inserted(T, w), w.id) = IF OpenOf(T, w.id) = {} THEN {w} ELSE OpenOf(T, w.id)
         /\ \A j : j # w.id => OpenOf(Inserted(T, w), j) = OpenOf(T, j)
<1>1. CASE OpenOf(T, w.id) = {}
  <2>1. Inserted(T, w) = T \cup {w}
    BY <1>1 DEF Inserted
  <2>2. OpenOf(T \cup {w}, w.id) = {w}
    BY <1>1 DEF OpenOf
  <2>3. \A j : j # w.id => OpenOf(T \cup {w}, j) = OpenOf(T, j)
    BY DEF OpenOf
  <2> QED
    BY <1>1, <2>1, <2>2, <2>3
<1>2. CASE OpenOf(T, w.id) # {}
  BY <1>2 DEF Inserted
<1> QED
  BY <1>1, <1>2

\* The entry of an id is written, whatever the id had before.
LEMMA ReconcileWrites ==
  ASSUME NEW T, T \subseteq Version, NEW it \in ItemType, it.act = "reconcile",
         \A v \in OpenOf(T, it.id) : v.from < it.ts \/ SamePayload(v.entry, it.entry)
  PROVE  LET R == Dispatched(T, it).rows
         IN  Covers(R, it.id, it.entry) /\ \A j : j # it.id => OpenOf(R, j) = OpenOf(T, j)
<1> DEFINE i == it.id
           C == Closed(T, i, it.ts)
           new == NewVersion(T, it, IF C = T THEN FirstFrom(T, it) ELSE it.ts)
           done == Inserted(C, new)
<1>1. it.ts \in Times /\ Dispatched(T, it) = Reconciled(T, it)
  BY DEF Dispatched, ItemType
<1>2. CASE OpenOf(T, i) # {} /\ ~Differs(T, it)
  <2>1. Dispatched(T, it).rows = T
    BY <1>1, <1>2 DEF Reconciled, Result
  <2>2. Covers(T, i, it.entry)
    BY <1>2 DEF Differs, Covers
  <2> QED
    BY <2>1, <2>2
<1>3. CASE ~(OpenOf(T, i) # {} /\ ~Differs(T, it))
  <2>1. Dispatched(T, it).rows = done
    BY <1>1, <1>3 DEF Reconciled, Result
  <2>2. /\ OpenOf(C, i) = {v \in OpenOf(T, i) : ~(v.from < it.ts)}
        /\ \A j : j # i => OpenOf(C, j) = OpenOf(T, j)
    BY <1>1, ClosedOpen
  <2>3. OpenOf(C, i) = {}
    BY <1>3, <2>2 DEF Differs
  <2>4. new.id = i /\ new.to = Open /\ new.entry = it.entry
    BY DEF NewVersion
  <2> HIDE DEF C, new
  <2>5. OpenOf(done, i) = {new} /\ \A j : j # i => OpenOf(done, j) = OpenOf(C, j)
    <3>1. /\ OpenOf(done, new.id) = IF OpenOf(C, new.id) = {} THEN {new} ELSE OpenOf(C, new.id)
          /\ \A j : j # new.id => OpenOf(done, j) = OpenOf(C, j)
      BY <2>4, InsertedOpen
    <3> QED
      BY <2>3, <2>4, <3>1
  <2>6. Covers(done, i, it.entry)
    BY <2>4, <2>5 DEF Covers, SamePayload
  <2> QED
    BY <2>1, <2>2, <2>5, <2>6
<1> QED
  BY <1>2, <1>3

\* A renamed entry is written under the new id, which must have no open version.
LEMMA RenameWrites ==
  ASSUME NEW T, T \subseteq Version, NEW it \in ItemType, it.act = "rename", it.old # it.id,
         OpenOf(T, it.id) = {}, \A v \in OpenOf(T, it.old) : v.from < it.ts
  PROVE  LET R == Dispatched(T, it).rows
         IN  /\ Covers(R, it.id, it.entry) /\ OpenOf(R, it.old) = {}
             /\ \A j : j # it.id /\ j # it.old => OpenOf(R, j) = OpenOf(T, j)
<1> DEFINE C == Closed(T, it.old, it.ts)
           new == NewVersion(T, it, it.ts)
           done == Inserted(C, new)
<1>1. it.ts \in Times /\ Dispatched(T, it).rows = done
  BY DEF Dispatched, Renamed, Result, ItemType
<1>2. /\ OpenOf(C, it.old) = {}
      /\ \A j : j # it.old => OpenOf(C, j) = OpenOf(T, j)
  <2>1. OpenOf(C, it.old) = {v \in OpenOf(T, it.old) : ~(v.from < it.ts)}
    BY <1>1, ClosedOpen
  <2> QED
    BY <1>1, <2>1, ClosedOpen
<1>3. new.id = it.id /\ new.to = Open /\ new.entry = it.entry
  BY DEF NewVersion
<1> HIDE DEF C, new
<1>4. OpenOf(done, it.id) = {new} /\ \A j : j # it.id => OpenOf(done, j) = OpenOf(C, j)
  <2>1. OpenOf(C, it.id) = {}
    BY <1>2
  <2>2. /\ OpenOf(done, new.id) = IF OpenOf(C, new.id) = {} THEN {new} ELSE OpenOf(C, new.id)
        /\ \A j : j # new.id => OpenOf(done, j) = OpenOf(C, j)
    BY <1>3, InsertedOpen
  <2> QED
    BY <1>3, <2>1, <2>2
<1>5. Covers(done, it.id, it.entry)
  BY <1>3, <1>4 DEF Covers, SamePayload
<1> QED
  BY <1>1, <1>2, <1>4, <1>5

\* A removed entry is closed.
LEMMA RemoveWrites ==
  ASSUME NEW T, T \subseteq Version, NEW it \in ItemType, it.act = "remove",
         \A v \in OpenOf(T, it.id) : v.from < it.ts
  PROVE  LET R == Dispatched(T, it).rows
         IN  OpenOf(R, it.id) = {} /\ \A j : j # it.id => OpenOf(R, j) = OpenOf(T, j)
<1>1. it.ts \in Times /\ Dispatched(T, it).rows = Closed(T, it.id, it.ts)
  BY DEF Dispatched, Removed, Result, ItemType
<1>2. OpenOf(Closed(T, it.id, it.ts), it.id) = {v \in OpenOf(T, it.id) : ~(v.from < it.ts)}
  BY <1>1, ClosedOpen
<1> QED
  BY <1>1, <1>2, ClosedOpen

\* A sweep closes what is not listed, or is refused.
LEMMA SweepWrites ==
  ASSUME NEW T, T \subseteq Version, NEW it \in ItemType, it.act = "sweep", it.live # {},
         "sweep_refused" \notin Dispatched(T, it).why
  PROVE  \A j : OpenOf(Dispatched(T, it).rows, j) =
                  IF j \in it.live THEN OpenOf(T, j) ELSE {v \in OpenOf(T, j) : ~(v.from < it.ts)}
<1> DEFINE open == {v \in T : v.to = Open}
           stale == {v \in open : v.from < it.ts /\ v.id \notin it.live}
           ended == {[v EXCEPT !.to = it.ts] : v \in stale}
           R == (T \ stale) \cup ended
<1>1. it.ts \in Times /\ it.ts # Open
  BY TimesFacts DEF ItemType
<1>2. Dispatched(T, it) = Swept(T, it)
  BY DEF Dispatched
<1>3. Dispatched(T, it).rows = R
  <2>1. ~(open # {} /\ it.live = {})
    OBVIOUS
  <2>2. ~SweepRefused(Cardinality(stale), Cardinality(open))
    BY <1>2, <2>1 DEF Swept, Result
  <2> QED
    BY <1>2, <2>1, <2>2 DEF Swept, Result
<1>4. \A v \in ended : v.to # Open
  BY <1>1 DEF Version
<1> HIDE DEF ended
<1>5. \A j : OpenOf(R, j) = IF j \in it.live THEN OpenOf(T, j) ELSE {v \in OpenOf(T, j) : ~(v.from < it.ts)}
  BY <1>4 DEF OpenOf
<1> QED
  BY <1>3, <1>5

-----------------------------------------------------------------------------
(* A table that agrees with the registry goes on agreeing with it.         *)

\* The open versions are the entries of reg.
Agrees(T, reg) ==
  /\ \A i \in DOMAIN reg : Covers(T, i, reg[i])
  /\ \A v \in T : v.to = Open => v.id \in DOMAIN reg

\* The table after item it agrees with reg.
AgreesAfter(r, T, it, reg) == Agrees(WrittenUnder(r, T, it).rows, reg)

LEMMA AllEarlier ==
  ASSUME NEW r, NEW T, NEW last \in Times, Fit(r, T, last), NEW it \in ItemType, last < it.ts
  PROVE  /\ T \subseteq Version
         /\ \A v \in T : v.from < it.ts
         /\ WrittenUnder(r, T, it) = Dispatched(T, it)
<1>1. last \in Nat /\ it.ts \in Times /\ it.ts \in Nat /\ last <= it.ts
  BY TimesFacts DEF ItemType
<1>2. Fit(r, T, it.ts)
  BY <1>1, FitLater
<1>3. \A v \in T : v \in Version /\ v.from \in Nat /\ v.from <= last
  BY TimesFacts DEF Fit, Numbered, Version
<1>4. \A v \in T : v.from < it.ts
  BY <1>1, <1>3
<1> QED
  BY <1>2, <1>3, <1>4, LatestAccepted

LEMMA CreateAgrees ==
  ASSUME NEW r, NEW T, NEW last \in Times, Fit(r, T, last), NEW reg, Agrees(T, reg),
         NEW it \in ItemType, last < it.ts, it.act = "reconcile",
         NEW reg2, With(reg, it.id, it.entry, reg2)
  PROVE  AgreesAfter(r, T, it, reg2)
<1> DEFINE R == Dispatched(T, it).rows
<1>1. T \subseteq Version /\ WrittenUnder(r, T, it).rows = R /\ \A v \in T : v.from < it.ts
  BY AllEarlier
<1>2. \A v \in OpenOf(T, it.id) : v.from < it.ts
  BY <1>1 DEF OpenOf
<1>3. Covers(R, it.id, it.entry) /\ \A j : j # it.id => OpenOf(R, j) = OpenOf(T, j)
  BY <1>1, <1>2, ReconcileWrites
<1> HIDE DEF R
<1>4. \A i \in DOMAIN reg2 : Covers(R, i, reg2[i])
  BY <1>3 DEF With, Agrees, Covers
<1>5. \A v \in R : v.to = Open => v.id \in DOMAIN reg2
  BY <1>3 DEF With, Agrees, OpenOf
<1> QED
  BY <1>1, <1>4, <1>5 DEF AgreesAfter, Agrees

LEMMA ReplaceAgrees ==
  ASSUME NEW r, NEW T, NEW last \in Times, Fit(r, T, last), NEW reg, Agrees(T, reg),
         NEW it \in ItemType, last < it.ts, NEW i, NEW reg2, Instead(reg, i, it.id, it.entry, reg2),
         \/ it.act = "reconcile" /\ it.id = i
         \/ it.act = "rename" /\ it.old = i /\ it.id # i
  PROVE  AgreesAfter(r, T, it, reg2)
<1> DEFINE R == Dispatched(T, it).rows
<1>1. T \subseteq Version /\ WrittenUnder(r, T, it).rows = R /\ \A v \in T : v.from < it.ts
  BY AllEarlier
<1>2. \A j : \A v \in OpenOf(T, j) : v.from < it.ts
  BY <1>1 DEF OpenOf
<1>3. /\ Covers(R, it.id, it.entry) /\ (it.id # i => OpenOf(R, i) = {})
      /\ \A j : j # it.id /\ j # i => OpenOf(R, j) = OpenOf(T, j)
  <2>1. CASE it.act = "reconcile" /\ it.id = i
    <3>1. Covers(R, it.id, it.entry) /\ \A j : j # it.id => OpenOf(R, j) = OpenOf(T, j)
      BY <1>1, <1>2, <2>1, ReconcileWrites
    <3> HIDE DEF R
    <3> QED
      BY <2>1, <3>1
  <2>2. CASE it.act = "rename" /\ it.old = i /\ it.id # i
    <3>1. OpenOf(T, it.id) = {}
      BY <2>2 DEF OpenOf, Agrees, Instead
    <3>2. /\ Covers(R, it.id, it.entry) /\ OpenOf(R, it.old) = {}
          /\ \A j : j # it.id /\ j # it.old => OpenOf(R, j) = OpenOf(T, j)
      BY <1>1, <1>2, <2>2, <3>1, RenameWrites
    <3> HIDE DEF R
    <3> QED
      BY <2>2, <3>2
  <2> QED
    BY <2>1, <2>2
<1> HIDE DEF R
<1>4. \A k \in DOMAIN reg2 : Covers(R, k, reg2[k])
  <2> SUFFICES ASSUME NEW k \in DOMAIN reg2 PROVE Covers(R, k, reg2[k])
    OBVIOUS
  <2>1. CASE k = it.id
    BY <1>3, <2>1 DEF Instead
  <2>2. CASE k # it.id
    <3>1. k \in DOMAIN reg /\ k # i /\ reg2[k] = reg[k]
      BY <2>2 DEF Instead
    <3> QED
      BY <1>3, <2>2, <3>1 DEF Agrees, Covers
  <2> QED
    BY <2>1, <2>2
<1>5. \A v \in R : v.to = Open => v.id \in DOMAIN reg2
  <2> SUFFICES ASSUME NEW v \in R, v.to = Open PROVE v.id \in DOMAIN reg2
    OBVIOUS
  <2>1. CASE v.id = it.id
    BY <2>1 DEF Instead
  <2>2. CASE v.id # it.id
    <3>1. v.id # i /\ v \in OpenOf(R, v.id)
      BY <1>3, <2>2 DEF OpenOf
    <3>2. v \in T
      BY <1>3, <2>2, <3>1 DEF OpenOf
    <3> QED
      BY <3>1, <3>2 DEF Agrees, Instead
  <2> QED
    BY <2>1, <2>2
<1> QED
  BY <1>1, <1>4, <1>5 DEF AgreesAfter, Agrees

LEMMA RemoveAgrees ==
  ASSUME NEW r, NEW T, NEW last \in Times, Fit(r, T, last), NEW reg, Agrees(T, reg),
         NEW it \in ItemType, last < it.ts, it.act = "remove", NEW reg2, Without(reg, it.id, reg2)
  PROVE  AgreesAfter(r, T, it, reg2)
<1> DEFINE R == Dispatched(T, it).rows
<1>1. T \subseteq Version /\ WrittenUnder(r, T, it).rows = R /\ \A v \in T : v.from < it.ts
  BY AllEarlier
<1>2. \A v \in OpenOf(T, it.id) : v.from < it.ts
  BY <1>1 DEF OpenOf
<1>3. OpenOf(R, it.id) = {} /\ \A j : j # it.id => OpenOf(R, j) = OpenOf(T, j)
  BY <1>1, <1>2, RemoveWrites
<1> HIDE DEF R
<1>4. \A i \in DOMAIN reg2 : Covers(R, i, reg2[i])
  BY <1>3 DEF Without, Agrees, Covers
<1>5. \A v \in R : v.to = Open => v.id \in DOMAIN reg2
  BY <1>3 DEF Without, Agrees, OpenOf
<1> QED
  BY <1>1, <1>4, <1>5 DEF AgreesAfter, Agrees

-----------------------------------------------------------------------------
(* A snapshot makes any table agree with the registry, or its sweep is     *)
(* refused.                                                                *)

\* What is open at the snapshot of t is older, or is an entry of reg.
Half(T, reg, t) ==
  \A v \in T : v.to = Open => v.from < t \/ (v.id \in DOMAIN reg /\ SamePayload(v.entry, reg[v.id]))

\* The table after it is half healed, with the id of it, and those of T, covered.
HalfAfter(r, T, it, reg, t) ==
  LET R == WrittenUnder(r, T, it).rows
  IN  /\ Fit(r, R, t) /\ Half(R, reg, t) /\ Covers(R, it.id, reg[it.id])
      /\ \A j : Covers(T, j, reg[j]) => Covers(R, j, reg[j])

LEMMA ListedHalf ==
  ASSUME NEW r, NEW T, NEW t \in Times, Fit(r, T, t), NEW reg, Half(T, reg, t),
         NEW it \in ItemType, SnapshotItem(it, reg, t), it.act = "reconcile"
  PROVE  HalfAfter(r, T, it, reg, t)
<1> DEFINE R == Dispatched(T, it).rows
<1>1. it.ts = t /\ it.id \in DOMAIN reg /\ it.entry = reg[it.id] /\ T \subseteq Version /\ t <= t
  BY TimesFacts DEF SnapshotItem, Fit, Numbered
<1>2. WrittenUnder(r, T, it).rows = R
  BY <1>1, LatestAccepted
<1>3. Fit(r, R, t)
  BY <1>1, <1>2, FitWritten
<1>4. \A v \in OpenOf(T, it.id) : v.from < it.ts \/ SamePayload(v.entry, it.entry)
  BY <1>1 DEF Half, OpenOf
<1>5. Covers(R, it.id, it.entry) /\ \A j : j # it.id => OpenOf(R, j) = OpenOf(T, j)
  BY <1>1, <1>4, ReconcileWrites
<1> HIDE DEF R
<1>6. \A j : Covers(T, j, reg[j]) => Covers(R, j, reg[j])
  BY <1>1, <1>5 DEF Covers
<1>7. Half(R, reg, t)
  <2> SUFFICES ASSUME NEW v \in R, v.to = Open
               PROVE  v.from < t \/ (v.id \in DOMAIN reg /\ SamePayload(v.entry, reg[v.id]))
    BY DEF Half
  <2>1. CASE v.id = it.id
    <3>1. PICK w \in OpenOf(R, it.id) : SamePayload(w.entry, it.entry)
      BY <1>5 DEF Covers
    <3>2. w = v
      BY <1>3, <2>1 DEF Fit, OneOpenOf, OpenOf
    <3> QED
      BY <1>1, <2>1, <3>1, <3>2
  <2>2. CASE v.id # it.id
    <3>1. v \in OpenOf(R, v.id)
      BY DEF OpenOf
    <3>2. v \in T
      BY <1>5, <2>2, <3>1 DEF OpenOf
    <3> QED
      BY <3>2 DEF Half
  <2> QED
    BY <2>1, <2>2
<1> QED
  BY <1>1, <1>2, <1>3, <1>5, <1>6, <1>7 DEF HalfAfter

LEMMA SweptAgrees ==
  ASSUME NEW r, NEW T, NEW t \in Times, Fit(r, T, t), NEW reg, Half(T, reg, t),
         \A i \in DOMAIN reg : Covers(T, i, reg[i]), DOMAIN reg # {},
         NEW it \in ItemType, SnapshotItem(it, reg, t), it.act = "sweep",
         "sweep_refused" \notin WrittenUnder(r, T, it).why
  PROVE  AgreesAfter(r, T, it, reg)
<1> DEFINE R == Dispatched(T, it).rows
<1>1. it.ts = t /\ it.live = DOMAIN reg /\ T \subseteq Version
  BY DEF SnapshotItem, Fit, Numbered
<1>2. WrittenUnder(r, T, it) = Dispatched(T, it)
  BY <1>1, LatestAccepted
<1>3. \A j : OpenOf(R, j) = IF j \in it.live THEN OpenOf(T, j) ELSE {v \in OpenOf(T, j) : ~(v.from < it.ts)}
  BY <1>1, <1>2, SweepWrites
<1> HIDE DEF R
<1>4. \A i \in DOMAIN reg : Covers(R, i, reg[i])
  BY <1>1, <1>3 DEF Covers
<1>5. \A v \in R : v.to = Open => v.id \in DOMAIN reg
  <2> SUFFICES ASSUME NEW v \in R, v.to = Open, v.id \notin DOMAIN reg PROVE FALSE
    OBVIOUS
  <2>1. v \in OpenOf(R, v.id)
    BY DEF OpenOf
  <2>2. v \in OpenOf(T, v.id) /\ ~(v.from < t)
    BY <1>1, <1>3, <2>1
  <2> QED
    BY <2>2 DEF Half, OpenOf
<1> QED
  BY <1>2, <1>4, <1>5 DEF AgreesAfter, Agrees, R

-----------------------------------------------------------------------------
(* What the pending items will make of the table.                          *)

\* The items of P make the table to of the table from; if refused, a sweep among them is.
Leads(r, P, from, to, refused) ==
  \E h \in [1..(Len(P) + 1) -> SUBSET Version] :
    /\ from = h[1] /\ to = h[Len(P) + 1]
    /\ \A n \in 1..Len(P) : h[n + 1] = WrittenUnder(r, h[n], P[n]).rows
    /\ refused => \E n \in 1..Len(P) : "sweep_refused" \in WrittenUnder(r, h[n], P[n]).why

LEMMA LeadsNothing ==
  ASSUME NEW r, NEW T \in SUBSET Version
  PROVE  Leads(r, <<>>, T, T, FALSE)
<1> DEFINE h == [n \in 1..1 |-> T]
<1>1. h \in [1..(Len(<<>>) + 1) -> SUBSET Version] /\ h[1] = T /\ Len(<<>>) = 0
  OBVIOUS
<1> HIDE DEF h
<1> QED
  BY <1>1 DEF Leads

LEMMA LeadsEmpty ==
  ASSUME NEW r, NEW T, NEW R, NEW refused, Leads(r, <<>>, T, R, refused)
  PROVE  T = R /\ ~refused
BY DEF Leads

\* One more item.
LEMMA LeadsMore ==
  ASSUME NEW r, NEW P \in Seq(ItemType), NEW it \in ItemType, NEW T, NEW R, NEW refused,
         Leads(r, P, T, R, refused), WrittenUnder(r, R, it).rows \in SUBSET Version,
         NEW x, x => refused \/ "sweep_refused" \in WrittenUnder(r, R, it).why
  PROVE  Leads(r, Append(P, it), T, WrittenUnder(r, R, it).rows, x)
<1>1. PICK h \in [1..(Len(P) + 1) -> SUBSET Version] :
         /\ T = h[1] /\ R = h[Len(P) + 1]
         /\ \A n \in 1..Len(P) : h[n + 1] = WrittenUnder(r, h[n], P[n]).rows
         /\ refused => \E n \in 1..Len(P) : "sweep_refused" \in WrittenUnder(r, h[n], P[n]).why
  BY DEF Leads
<1> DEFINE p == Len(P)
           W == WrittenUnder(r, R, it)
           Q == Append(P, it)
           g == [n \in 1..(p + 2) |-> IF n <= p + 1 THEN h[n] ELSE W.rows]
<1>2. /\ p \in Nat /\ Q \in Seq(ItemType) /\ Len(Q) = p + 1 /\ Q[p + 1] = it
      /\ \A n \in 1..p : Q[n] = P[n]
  OBVIOUS
<1>3. W.rows \in SUBSET Version
  OBVIOUS
<1> HIDE DEF p, W, Q
<1>4. /\ \A n \in 1..(p + 1) : n \in 1..(p + 2) /\ n <= p + 1
      /\ p + 2 \in 1..(p + 2) /\ ~(p + 2 <= p + 1) /\ p + 1 \in 1..(p + 1) /\ 1 \in 1..(p + 1)
      /\ \A n \in 1..p : n \in 1..(p + 1) /\ n + 1 \in 1..(p + 1)
      /\ (p + 1) + 1 = p + 2 /\ \A n \in 1..(p + 1) : n \in 1..p \/ n = p + 1
  BY <1>2
<1>5. /\ g \in [1..(p + 2) -> SUBSET Version] /\ g[p + 2] = W.rows
      /\ \A n \in 1..(p + 1) : g[n] = h[n]
  BY <1>1, <1>3, <1>4 DEF p
<1> HIDE DEF g
<1>6. T = g[1] /\ R = g[p + 1]
  BY <1>1, <1>4, <1>5 DEF p
<1>7. \A n \in 1..(p + 1) : g[n + 1] = WrittenUnder(r, g[n], Q[n]).rows
  <2> SUFFICES ASSUME NEW n \in 1..(p + 1) PROVE g[n + 1] = WrittenUnder(r, g[n], Q[n]).rows
    OBVIOUS
  <2>1. CASE n \in 1..p
    BY <1>1, <1>2, <1>4, <1>5, <2>1 DEF p
  <2>2. CASE n = p + 1
    BY <1>2, <1>4, <1>5, <1>6, <2>2 DEF W
  <2> QED
    BY <1>4, <2>1, <2>2
<1>8. x => \E n \in 1..(p + 1) : "sweep_refused" \in WrittenUnder(r, g[n], Q[n]).why
  <2>1. CASE refused
    <3>1. PICK n \in 1..p : "sweep_refused" \in WrittenUnder(r, h[n], P[n]).why
      BY <1>1, <2>1 DEF p
    <3> QED
      BY <1>2, <1>4, <1>5, <3>1
  <2>2. CASE "sweep_refused" \in WrittenUnder(r, R, it).why
    BY <1>2, <1>4, <1>6, <2>2
  <2> QED
    BY <2>1, <2>2
<1>9. Leads(r, Q, T, W.rows, x)
  <2>1. Len(Q) + 1 = p + 2
    BY <1>2
  <2> QED
    BY <1>2, <1>5, <1>6, <1>7, <1>8, <2>1 DEF Leads
<1> QED
  BY <1>9 DEF Q, W

\* The first item is applied: the others lead on, or its sweep was refused.
LEMMA LeadsStep ==
  ASSUME NEW r, NEW P \in Seq(ItemType), P # <<>>, NEW T, NEW R, NEW refused,
         Leads(r, P, T, R, refused), "sweep_refused" \notin WrittenUnder(r, T, P[1]).why
  PROVE  Leads(r, Tail(P), WrittenUnder(r, T, P[1]).rows, R, refused)
<1>1. PICK h \in [1..(Len(P) + 1) -> SUBSET Version] :
         /\ T = h[1] /\ R = h[Len(P) + 1]
         /\ \A n \in 1..Len(P) : h[n + 1] = WrittenUnder(r, h[n], P[n]).rows
         /\ refused => \E n \in 1..Len(P) : "sweep_refused" \in WrittenUnder(r, h[n], P[n]).why
  BY DEF Leads
<1> DEFINE Q == Tail(P)
           q == Len(Q)
           g == [n \in 1..(q + 1) |-> h[n + 1]]
<1>2. Len(P) \in Nat /\ q \in Nat /\ Len(P) = q + 1 /\ \A n \in 1..q : Q[n] = P[n + 1]
  OBVIOUS
<1> HIDE DEF Q, q
<1>3. /\ \A n \in 1..(q + 1) : n + 1 \in 1..(Len(P) + 1)
      /\ \A n \in 1..q : n \in 1..(q + 1) /\ n + 1 \in 1..(q + 1) /\ n + 1 \in 1..Len(P)
      /\ 1 \in 1..Len(P) /\ 1 \in 1..(q + 1) /\ 1 + 1 = 2 /\ q + 1 \in 1..(q + 1)
      /\ \A n \in 1..Len(P) : n = 1 \/ (n - 1 \in 1..q /\ (n - 1) + 1 = n)
  BY <1>2
<1>4. g \in [1..(q + 1) -> SUBSET Version] /\ \A n \in 1..(q + 1) : g[n] = h[n + 1]
  BY <1>1, <1>3
<1> HIDE DEF g
<1>5. g[1] = WrittenUnder(r, T, P[1]).rows /\ R = g[q + 1]
  BY <1>1, <1>2, <1>3, <1>4
<1>6. \A n \in 1..q : g[n + 1] = WrittenUnder(r, g[n], Q[n]).rows
  BY <1>1, <1>2, <1>3, <1>4
<1>7. refused => \E n \in 1..q : "sweep_refused" \in WrittenUnder(r, g[n], Q[n]).why
  <2> SUFFICES ASSUME refused
               PROVE  \E n \in 1..q : "sweep_refused" \in WrittenUnder(r, g[n], Q[n]).why
    OBVIOUS
  <2>1. PICK n \in 1..Len(P) : "sweep_refused" \in WrittenUnder(r, h[n], P[n]).why
    BY <1>1
  <2>2. n - 1 \in 1..q /\ (n - 1) + 1 = n
    BY <1>1, <1>3, <2>1
  <2>3. g[n - 1] = h[n] /\ Q[n - 1] = P[n]
    BY <1>2, <1>3, <1>4, <2>2
  <2> QED
    BY <2>1, <2>2, <2>3
<1>8. Leads(r, Q, WrittenUnder(r, T, P[1]).rows, R, refused)
  BY <1>4, <1>5, <1>6, <1>7 DEF Leads, q
<1> QED
  BY <1>8 DEF Q

\* What holds at 0, and at k + 1 where it holds at k, holds at N.
LEMMA Climb ==
  ASSUME NEW N \in Nat, NEW S, 0 \in S, \A k \in 0..(N - 1) : k \in S => k + 1 \in S
  PROVE  N \in S
<1> SUFFICES ASSUME N \notin S PROVE FALSE
  OBVIOUS
<1> DEFINE B == {k \in 0..N : k \notin S}
           L == OpToRel(<, Nat)
<1>1. IsWellFoundedOn(L, Nat)
  BY NatLessThanWellFounded
<1>2. \A a, b \in Nat : <<a, b>> \in L <=> a < b
  BY DEF OpToRel
<1> HIDE DEF L
<1>3. B \subseteq Nat /\ B # {}
  OBVIOUS
<1>4. PICK m \in B : \A k \in B : ~(<<k, m>> \in L)
  BY <1>1, <1>3, WFMin
<1>5. m \in Nat /\ m # 0 /\ m - 1 \in 0..(N - 1) /\ (m - 1) + 1 = m /\ m - 1 \in Nat /\ m - 1 < m
  BY <1>4
<1>6. m - 1 \notin B
  BY <1>2, <1>4, <1>5
<1> QED
  BY <1>4, <1>5, <1>6

\* Prefixes of a sequence.
LEMMA PrefixFacts ==
  ASSUME NEW Q \in Seq(ItemType)
  PROVE  /\ SubSeq(Q, 1, 0) = <<>> /\ SubSeq(Q, 1, Len(Q)) = Q
         /\ \A k \in 0..Len(Q) : SubSeq(Q, 1, k) \in Seq(ItemType)
         /\ \A k \in 0..(Len(Q) - 1) :
              /\ k + 1 \in 1..Len(Q) /\ Q[k + 1] \in ItemType
              /\ SubSeq(Q, 1, k + 1) = Append(SubSeq(Q, 1, k), Q[k + 1])
<1>1. SubSeq(Q, 1, 0) = <<>>
  OBVIOUS
<1>2. SubSeq(Q, 1, Len(Q)) = Q
  OBVIOUS
<1>3. \A k \in 0..Len(Q) : SubSeq(Q, 1, k) \in Seq(ItemType)
  OBVIOUS
<1>4. ASSUME NEW k \in 0..(Len(Q) - 1)
      PROVE  /\ k + 1 \in 1..Len(Q) /\ Q[k + 1] \in ItemType
             /\ SubSeq(Q, 1, k + 1) = Append(SubSeq(Q, 1, k), Q[k + 1])
  OBVIOUS
<1> QED
  BY <1>1, <1>2, <1>3, <1>4

\* Any items lead somewhere.
LEMMA LeadsSomewhere ==
  ASSUME NEW r, NEW last \in Times, NEW P \in Seq(ItemType), \A n \in 1..Len(P) : P[n].ts <= last,
         NEW T, Fit(r, T, last)
  PROVE  \E R \in SUBSET Version : Leads(r, P, T, R, FALSE) /\ Fit(r, R, last)
<1> DEFINE S == {k \in 0..Len(P) :
                   \E R \in SUBSET Version : Leads(r, SubSeq(P, 1, k), T, R, FALSE) /\ Fit(r, R, last)}
<1>1. Len(P) \in Nat
  OBVIOUS
<1>2. 0 \in S
  <2>1. T \in SUBSET Version
    BY DEF Fit, Numbered
  <2>2. Leads(r, SubSeq(P, 1, 0), T, T, FALSE)
    BY <2>1, LeadsNothing, PrefixFacts
  <2>3. \E R \in SUBSET Version : Leads(r, SubSeq(P, 1, 0), T, R, FALSE) /\ Fit(r, R, last)
    BY <2>1, <2>2
  <2>4. 0 \in 0..Len(P)
    BY <1>1
  <2> QED
    BY <2>3, <2>4
<1>3. \A k \in 0..(Len(P) - 1) : k \in S => k + 1 \in S
  <2> SUFFICES ASSUME NEW k \in 0..(Len(P) - 1), k \in S PROVE k + 1 \in S
    OBVIOUS
  <2>1. PICK R \in SUBSET Version : Leads(r, SubSeq(P, 1, k), T, R, FALSE) /\ Fit(r, R, last)
    OBVIOUS
  <2> DEFINE it == P[k + 1]
             W == WrittenUnder(r, R, it).rows
  <2>2. /\ it \in ItemType /\ it.ts <= last /\ SubSeq(P, 1, k) \in Seq(ItemType)
        /\ SubSeq(P, 1, k + 1) = Append(SubSeq(P, 1, k), it)
        /\ k \in 0..Len(P) /\ k + 1 \in 0..Len(P)
    BY <1>1, PrefixFacts
  <2> HIDE DEF it
  <2>3. Fit(r, W, last)
    BY <2>1, <2>2, FitWritten
  <2>4. W \in SUBSET Version
    BY <2>3 DEF Fit, Numbered
  <2>5. Leads(r, Append(SubSeq(P, 1, k), it), T, W, FALSE)
    BY <2>1, <2>2, <2>4, LeadsMore
  <2> HIDE DEF W
  <2> QED
    BY <2>2, <2>3, <2>4, <2>5
<1> HIDE DEF S
<1>4. Len(P) \in S
  BY <1>1, <1>2, <1>3, Climb
<1> QED
  BY <1>4, PrefixFacts DEF S

\* The pending items P make the table T agree with reg, or a sweep among them is refused.
Heals(r, P, T, reg, last) ==
  \E R \in SUBSET Version, refused \in BOOLEAN :
    /\ Leads(r, P, T, R, refused) /\ Fit(r, R, last)
    /\ refused \/ Agrees(R, reg)

\* The first k items of a snapshot Q, after P, lead to R.
ListedTo(r, P, Q, T, R, reg, t, k) ==
  /\ Leads(r, P \o SubSeq(Q, 1, k), T, R, FALSE)
  /\ Fit(r, R, t) /\ Half(R, reg, t)
  /\ \A n \in 1..k : Covers(R, Q[n].id, reg[Q[n].id])

LEMMA AppendAfter ==
  ASSUME NEW P \in Seq(ItemType), NEW Q \in Seq(ItemType), NEW it \in ItemType
  PROVE  P \o Append(Q, it) = Append(P \o Q, it) /\ P \o Q \in Seq(ItemType)
OBVIOUS

LEMMA SnapshotLeads ==
  ASSUME NEW r, NEW last \in Times, NEW t \in Times, last < t,
         NEW P \in Seq(ItemType), \A n \in 1..Len(P) : P[n].ts <= last,
         NEW T, Fit(r, T, last), NEW reg, DOMAIN reg # {},
         NEW Q \in Seq(ItemType), Lists(Q, reg, t)
  PROVE  Heals(r, P \o Q, T, reg, t)
<1> DEFINE q == Len(Q)
           S == {k \in 0..(q - 1) : \E R \in SUBSET Version : ListedTo(r, P, Q, T, R, reg, t, k)}
<1>1. q \in Nat /\ q - 1 \in Nat /\ (q - 1) + 1 = q /\ q - 1 \in 0..(q - 1) /\ q \in 1..q
  BY DEF Lists
<1>2. last \in Nat /\ t \in Nat /\ last <= t
  BY TimesFacts
<1> HIDE DEF q
<1>3. 0 \in S
  <2>1. PICK R \in SUBSET Version : Leads(r, P, T, R, FALSE) /\ Fit(r, R, last)
    BY LeadsSomewhere
  <2>2. Fit(r, R, t)
    BY <1>2, <2>1, FitLater
  <2>3. Half(R, reg, t)
    <3>1. \A v \in R : v.from \in Nat /\ v.from <= last
      BY <2>1, TimesFacts DEF Fit, Version
    <3> QED
      BY <1>2, <3>1 DEF Half
  <2>4. P \o SubSeq(Q, 1, 0) = P
    BY PrefixFacts
  <2>5. \A n \in 1..0 : FALSE
    OBVIOUS
  <2>6. ListedTo(r, P, Q, T, R, reg, t, 0)
    BY <2>1, <2>2, <2>3, <2>4, <2>5 DEF ListedTo
  <2> QED
    BY <1>1, <2>6
<1>4. \A k \in 0..((q - 1) - 1) : k \in S => k + 1 \in S
  <2> SUFFICES ASSUME NEW k \in 0..((q - 1) - 1), k \in S PROVE k + 1 \in S
    OBVIOUS
  <2>1. PICK R \in SUBSET Version : ListedTo(r, P, Q, T, R, reg, t, k)
    OBVIOUS
  <2> DEFINE it == Q[k + 1]
             W == WrittenUnder(r, R, it).rows
             F == SubSeq(Q, 1, k)
  <2>2. /\ k \in Nat /\ k \in 0..(q - 1) /\ k \in 0..q /\ k + 1 \in 1..q /\ k + 1 \in 0..(q - 1)
        /\ k + 1 \in 1..(q - 1) /\ \A n \in 1..(k + 1) : n \in 1..k \/ n = k + 1
    BY <1>1
  <2>3. /\ it \in ItemType /\ F \in Seq(ItemType) /\ SubSeq(Q, 1, k + 1) = Append(F, it)
    BY <2>2, PrefixFacts DEF q
  <2>4. SnapshotItem(it, reg, t) /\ it.act = "reconcile"
    BY <2>2 DEF Lists, q
  <2> HIDE DEF it, F
  <2>5. HalfAfter(r, R, it, reg, t)
    BY <2>1, <2>3, <2>4, ListedHalf DEF ListedTo
  <2>6. /\ Fit(r, W, t) /\ Half(W, reg, t) /\ Covers(W, it.id, reg[it.id])
        /\ \A j : Covers(R, j, reg[j]) => Covers(W, j, reg[j])
    BY <2>5 DEF HalfAfter
  <2>7. W \in SUBSET Version
    BY <2>6 DEF Fit, Numbered
  <2>8. P \o Append(F, it) = Append(P \o F, it) /\ P \o F \in Seq(ItemType)
    BY <2>3, AppendAfter
  <2>9. Leads(r, P \o F, T, R, FALSE)
    BY <2>1 DEF ListedTo, F
  <2>10. Leads(r, P \o SubSeq(Q, 1, k + 1), T, W, FALSE)
    BY <2>3, <2>7, <2>8, <2>9, LeadsMore
  <2> HIDE DEF W
  <2>11. \A n \in 1..(k + 1) : Covers(W, Q[n].id, reg[Q[n].id])
    BY <2>1, <2>2, <2>6 DEF ListedTo, it
  <2>12. ListedTo(r, P, Q, T, W, reg, t, k + 1)
    BY <2>6, <2>10, <2>11 DEF ListedTo
  <2> QED
    BY <2>2, <2>7, <2>12
<1> HIDE DEF S
<1>5. q - 1 \in S
  BY <1>1, <1>3, <1>4, Climb
<1>6. PICK R \in SUBSET Version : ListedTo(r, P, Q, T, R, reg, t, q - 1)
  BY <1>5 DEF S
\* The sweep.
<1> DEFINE it == Q[q]
           W == WrittenUnder(r, R, it)
           F == SubSeq(Q, 1, q - 1)
<1>7. it \in ItemType /\ F \in Seq(ItemType) /\ Q = Append(F, it)
  <2>1. q - 1 \in 0..(q - 1) /\ q - 1 \in 0..q
    BY <1>1
  <2>2. SubSeq(Q, 1, (q - 1) + 1) = Append(F, Q[(q - 1) + 1]) /\ Q[(q - 1) + 1] \in ItemType
    BY <2>1, PrefixFacts DEF q
  <2>3. SubSeq(Q, 1, q) = Q /\ F \in Seq(ItemType)
    BY <2>1, PrefixFacts DEF q
  <2> QED
    BY <1>1, <2>2, <2>3
<1>8. SnapshotItem(it, reg, t) /\ it.act = "sweep" /\ it.ts = t
  BY <1>1 DEF Lists, q, SnapshotItem
<1> HIDE DEF it, F
<1>9. Fit(r, W.rows, t)
  BY <1>2, <1>6, <1>7, <1>8, FitWritten DEF ListedTo
<1>10. W.rows \in SUBSET Version
  BY <1>9 DEF Fit, Numbered
<1>11. \A i \in DOMAIN reg : Covers(R, i, reg[i])
  <2> SUFFICES ASSUME NEW i \in DOMAIN reg PROVE Covers(R, i, reg[i])
    OBVIOUS
  <2>1. PICK n \in 1..(q - 1) : Q[n].id = i
    BY DEF Lists, q
  <2> QED
    BY <1>6, <2>1 DEF ListedTo
<1> DEFINE x == "sweep_refused" \in W.why
<1>12. Leads(r, P \o Q, T, W.rows, x)
  <2>1. Leads(r, P \o F, T, R, FALSE)
    BY <1>6 DEF ListedTo, F
  <2>2. P \o Append(F, it) = Append(P \o F, it) /\ P \o F \in Seq(ItemType)
    BY <1>7, AppendAfter
  <2>3. Leads(r, Append(P \o F, it), T, W.rows, x)
    BY <1>7, <1>10, <2>1, <2>2, LeadsMore
  <2> QED
    BY <1>7, <2>2, <2>3
<1>13. x \/ Agrees(W.rows, reg)
  <2> SUFFICES ASSUME ~x PROVE Agrees(W.rows, reg)
    OBVIOUS
  <2>1. AgreesAfter(r, R, it, reg)
    BY <1>6, <1>7, <1>8, <1>11, SweptAgrees DEF ListedTo
  <2> QED
    BY <2>1 DEF AgreesAfter
<1>14. x \in BOOLEAN
  OBVIOUS
<1> HIDE DEF x, W
<1> QED
  BY <1>9, <1>10, <1>12, <1>13, <1>14 DEF Heals

\* A later change, after which the registry is reg2, is told by item it.
LEMMA ChangeHeals ==
  ASSUME NEW r, NEW last \in Times, NEW P \in Seq(ItemType), NEW T, NEW reg, Heals(r, P, T, reg, last),
         NEW it \in ItemType, last < it.ts, NEW reg2,
         \A R : Fit(r, R, last) /\ Agrees(R, reg) => AgreesAfter(r, R, it, reg2)
  PROVE  Heals(r, Append(P, it), T, reg2, it.ts)
<1>1. PICK R \in SUBSET Version, refused \in BOOLEAN :
         /\ Leads(r, P, T, R, refused) /\ Fit(r, R, last)
         /\ refused \/ Agrees(R, reg)
  BY DEF Heals
<1> DEFINE W == WrittenUnder(r, R, it).rows
<1>2. it.ts \in Times /\ last <= it.ts /\ it.ts <= it.ts
  BY TimesFacts DEF ItemType
<1>3. Fit(r, R, it.ts)
  BY <1>1, <1>2, FitLater
<1>4. Fit(r, W, it.ts)
  BY <1>2, <1>3, FitWritten
<1>5. W \in SUBSET Version
  BY <1>4 DEF Fit, Numbered
<1>6. Leads(r, Append(P, it), T, W, refused)
  BY <1>1, <1>5, LeadsMore
<1>7. refused \/ Agrees(W, reg2)
  BY <1>1 DEF AgreesAfter
<1> HIDE DEF W
<1> QED
  BY <1>4, <1>5, <1>6, <1>7 DEF Heals

\* The first item is applied.
LEMMA WriteHeals ==
  ASSUME NEW r, NEW P \in Seq(ItemType), P # <<>>, NEW T, NEW reg, NEW last,
         Heals(r, P, T, reg, last), "sweep_refused" \notin WrittenUnder(r, T, P[1]).why
  PROVE  Heals(r, Tail(P), WrittenUnder(r, T, P[1]).rows, reg, last)
<1>1. PICK R \in SUBSET Version, refused \in BOOLEAN :
         /\ Leads(r, P, T, R, refused) /\ Fit(r, R, last)
         /\ refused \/ Agrees(R, reg)
  BY DEF Heals
<1>2. Leads(r, Tail(P), WrittenUnder(r, T, P[1]).rows, R, refused)
  BY <1>1, LeadsStep
<1> QED
  BY <1>1, <1>2 DEF Heals

-----------------------------------------------------------------------------
(* The invariants: nothing in the table or pending is later than the       *)
(* latest stamp; and since the last snapshot the pending items heal.       *)

Past(last) == {it \in ItemType : it.ts <= last}
FitInv ==
  /\ Fit(rule, table, latest)
  /\ queue \in Seq(Past(latest)) /\ buffer \in Seq(Past(latest))

\* What is still to be written.
Rest(q, b, w) == IF w THEN Tail(q \o b) ELSE q \o b

HealInv ==
  healed /\ ha = "running" /\ letters["sweep_refused"] = 0 =>
    Heals(rule, Rest(queue, buffer, written), table, registry, latest)

\* What is buffered comes last.
Extends(d, c, s) == d = c \o s

LEMMA RestMore ==
  ASSUME NEW S, NEW q \in Seq(S), NEW b \in Seq(S), NEW s \in Seq(S), NEW w \in BOOLEAN, w => q # <<>>,
         NEW c, Extends(c, b, s)
  PROVE  Rest(q, b, w) \in Seq(S) /\ Extends(Rest(q, c, w), Rest(q, b, w), s)
<1>1. c = b \o s /\ q \o (b \o s) = (q \o b) \o s /\ q \o b \in Seq(S) /\ (w => q \o b # <<>>)
  BY DEF Extends
<1> DEFINE qb == q \o b
<1> HIDE DEF qb
<1>2. CASE w
  <2>1. qb \in Seq(S) /\ qb # <<>>
    BY <1>1, <1>2 DEF qb
  <2>2. Tail(qb \o s) = Tail(qb) \o s /\ Tail(qb) \in Seq(S)
    BY <2>1
  <2> QED
    BY <1>1, <1>2, <2>2 DEF Rest, Extends, qb
<1>3. CASE ~w
  BY <1>1, <1>3 DEF Rest, Extends
<1> QED
  BY <1>2, <1>3

LEMMA RestAppend ==
  ASSUME NEW S, NEW q \in Seq(S), NEW b \in Seq(S), NEW it \in S, NEW w \in BOOLEAN, w => q # <<>>
  PROVE  Rest(q, Append(b, it), w) = Append(Rest(q, b, w), it)
<1> DEFINE P == Rest(q, b, w)
           R == Rest(q, Append(b, it), w)
           s == <<it>>
<1>1. s \in Seq(S) /\ Extends(Append(b, it), b, s)
  BY DEF Extends
<1> HIDE DEF s
<1>2. P \in Seq(S) /\ Extends(R, P, s)
  BY <1>1, RestMore
<1> HIDE DEF P, R
<1>3. R = Append(P, it)
  BY <1>2 DEF Extends, s
<1> QED
  BY <1>3 DEF P, R

LEMMA PastMore ==
  ASSUME NEW a \in Times, NEW b \in Times, a <= b, NEW s \in Seq(Past(a))
  PROVE  s \in Seq(Past(b)) /\ s \in Seq(ItemType)
<1>1. \A it \in Past(a) : it \in Past(b) /\ it \in ItemType
  <2> SUFFICES ASSUME NEW it \in Past(a) PROVE it \in Past(b) /\ it \in ItemType
    OBVIOUS
  <2>1. it \in ItemType /\ it.ts <= a /\ it.ts \in Nat /\ a \in Nat /\ b \in Nat
    BY TimesFacts DEF Past, ItemType
  <2> QED
    BY <2>1 DEF Past
<1> QED
  BY <1>1

LEMMA FitInit == Init => FitInv
<1> SUFFICES ASSUME Init PROVE FitInv
  OBVIOUS
<1>1. Numbered(table) /\ OneOpenOf(table)
  BY LogInvInit DEF LogInv, Inv
<1>2. latest = 0 /\ queue = <<>> /\ buffer = <<>> /\ \A v \in table : v.from = 0 /\ v.to = Open
  BY DEF Init
<1>3. \A v, w \in table : v.from <= v.to /\ (v # w => ~Overlap(v, w))
  BY <1>1, <1>2, TimesFacts DEF Overlap, OneOpenOf
<1> QED
  BY <1>1, <1>2, <1>3 DEF FitInv, Fit

LEMMA FitStep == LogInv /\ FitInv /\ [Next]_vars => FitInv'
<1> SUFFICES ASSUME LogInv, FitInv, [Next]_vars PROVE FitInv'
  OBVIOUS
<1>inv. /\ queue \in Seq(ItemType) /\ buffer \in Seq(ItemType) /\ latest \in Times /\ latest \in Nat
        /\ Fit(rule, table, latest) /\ queue \in Seq(Past(latest)) /\ buffer \in Seq(Past(latest))
        /\ DOMAIN registry \in SUBSET Ids /\ registry \in [DOMAIN registry -> Entry]
  BY TimesFacts, RegistryType DEF LogInv, Inv, TypeInv, TypeOK, FitInv
\* A new stamp and what it is given to.
<1>stamp. ASSUME NEW t \in Times, Stamp(t), UNCHANGED <<rule, table, queue>>,
                 NEW Q \in Seq(Past(t)), buffer' = buffer \o Q
          PROVE  FitInv'
  <2>1. latest' \in Times /\ latest <= latest' /\ t <= latest'
    BY <1>stamp, StampType DEF LogInv
  <2>2. queue \in Seq(Past(latest')) /\ buffer \in Seq(Past(latest')) /\ Q \in Seq(Past(latest'))
    BY <1>inv, <2>1, PastMore
  <2>3. Fit(rule, table, latest')
    BY <1>inv, <2>1, FitLater
  <2>4. buffer \o Q \in Seq(Past(latest'))
    BY <2>2
  <2> QED
    BY <1>stamp, <2>2, <2>3, <2>4 DEF FitInv
<1>change. ASSUME NEW t \in Times, NEW it \in ItemType, it.ts = t, NEW described,
                  Change(it, t, described)
           PROVE  FitInv'
  <2>1. Stamp(t) /\ UNCHANGED <<rule, table, queue>>
    BY <1>change DEF Change
  <2>2. it \in Past(t)
    BY <1>change, TimesFacts DEF Past
  <2>3. CASE buffer' = Append(buffer, it)
    <3>1. <<it>> \in Seq(Past(t)) /\ buffer' = buffer \o <<it>>
      BY <1>inv, <2>2, <2>3
    <3> QED
      BY <1>stamp, <2>1, <3>1
  <2>4. CASE buffer' = buffer
    <3>1. <<>> \in Seq(Past(t)) /\ buffer' = buffer \o <<>>
      BY <1>inv, <2>4
    <3> QED
      BY <1>stamp, <2>1, <3>1
  <2> QED
    BY <1>change, <2>3, <2>4 DEF Change, Observe
<1>same. ASSUME latest' = latest, rule' = rule, Fit(rule, table', latest),
                queue' \in Seq(Past(latest)), buffer' \in Seq(Past(latest))
         PROVE  FitInv'
  BY <1>same DEF FitInv
<1>create. CASE RegCreate
  <2>1. PICK i \in Ids \ DOMAIN registry, p \in Payloads, t \in Times :
          LET e == [uuid |-> ops + 1, pay |-> p, created |-> t]
              it == Item("reconcile", i, NoId, e, t, {})
          IN  Change(it, t, truth \cup {NewVersion(truth, it, t)})
    BY <1>create DEF RegCreate
  <2> DEFINE e == [uuid |-> ops + 1, pay |-> p, created |-> t]
             it == Item("reconcile", i, NoId, e, t, {})
  <2>2. ops + 1 \in 0..MaxOps
    BY <2>1, TimesFacts DEF Change, LogInv, Inv, TypeInv
  <2>3. e \in Entry
    BY <2>2 DEF Entry
  <2>4. it \in ItemType /\ it.ts = t
    BY <2>3 DEF Item, ItemType, Acts
  <2>5. \E described : Change(it, t, described)
    BY <2>1
  <2> HIDE DEF it
  <2> QED
    BY <1>change, <2>4, <2>5
<1>update. CASE RegUpdate
  <2>1. PICK i \in DOMAIN registry, p \in Payloads, t \in Times :
          LET e == [registry[i] EXCEPT !.pay = p]
              it == Item("reconcile", i, NoId, e, t, {})
          IN  Change(it, t, CloseTruth(i, t) \cup {NewVersion(truth, it, t)})
    BY <1>update DEF RegUpdate
  <2> DEFINE e == [registry[i] EXCEPT !.pay = p]
             it == Item("reconcile", i, NoId, e, t, {})
  <2>2. e \in Entry /\ i \in Ids
    BY <1>inv DEF Entry
  <2>3. it \in ItemType /\ it.ts = t
    BY <2>2 DEF Item, ItemType, Acts
  <2>4. \E described : Change(it, t, described)
    BY <2>1
  <2> HIDE DEF it
  <2> QED
    BY <1>change, <2>3, <2>4
<1>rename. CASE RegRename
  <2>1. PICK i \in DOMAIN registry, j \in Ids \ DOMAIN registry, t \in Times :
          LET it == Item("rename", j, i, registry[i], t, {})
          IN  Change(it, t, CloseTruth(i, t) \cup {NewVersion(truth, it, t)})
    BY <1>rename DEF RegRename
  <2> DEFINE it == Item("rename", j, i, registry[i], t, {})
  <2>2. it \in ItemType /\ it.ts = t
    BY <1>inv DEF Item, ItemType, Acts
  <2>3. \E described : Change(it, t, described)
    BY <2>1
  <2> HIDE DEF it
  <2> QED
    BY <1>change, <2>2, <2>3
<1>remove. CASE RegRemove
  <2>1. PICK i \in DOMAIN registry, t \in Times :
          Change(Item("remove", i, NoId, NoEntry, t, {}), t, CloseTruth(i, t))
    BY <1>remove DEF RegRemove
  <2> DEFINE it == Item("remove", i, NoId, NoEntry, t, {})
  <2>2. it \in ItemType /\ it.ts = t
    BY <1>inv, NoEntryType DEF Item, ItemType, Acts
  <2>3. \E described : Change(it, t, described)
    BY <2>1
  <2> HIDE DEF it
  <2> QED
    BY <1>change, <2>2, <2>3
<1>snapshot. CASE Snapshot
  <2>1. PICK Q \in Seq(ItemType), t \in Times :
          Stamp(t) /\ buffer' = buffer \o Q /\ Lists(Q, registry, t)
    BY <1>snapshot, SnapshotItems DEF LogInv
  <2>2. \A n \in 1..Len(Q) : Q[n] \in Past(t)
    BY <2>1, TimesFacts DEF Lists, SnapshotItem, Past
  <2>3. Q \in Seq(Past(t))
    BY <2>2
  <2>4. UNCHANGED <<rule, table, queue>>
    BY <1>snapshot DEF Snapshot
  <2> QED
    BY <1>stamp, <2>1, <2>3, <2>4
<1>drain. CASE Drain
  <2>1. PICK k \in 0..Len(buffer) : queue' = queue \o SubSeq(buffer, 1, k) \o buffer
    BY <1>drain DEF Drain
  <2>2. SubSeq(buffer, 1, k) \in Seq(Past(latest))
    BY <1>inv
  <2>3. queue' \in Seq(Past(latest)) /\ <<>> \in Seq(Past(latest))
    BY <1>inv, <2>1, <2>2
  <2>4. buffer' = <<>> /\ UNCHANGED <<latest, rule, table>>
    BY <1>drain DEF Drain
  <2> QED
    BY <1>inv, <1>same, <2>3, <2>4
<1>write. CASE Write
  <2> DEFINE it == Head(queue)
             R == WrittenUnder(rule, table, it).rows
  <2>1. queue # <<>> /\ UNCHANGED <<latest, rule, queue, buffer>>
    BY <1>write DEF Write, envVars
  <2>2. it \in Past(latest)
    BY <1>inv, <2>1
  <2>3. table' = R
    BY <1>write DEF Write, Written, WrittenUnder, Legal, LegalUnder
  <2> HIDE DEF it
  <2>4. Fit(rule, R, latest)
    BY <1>inv, <2>2, FitWritten DEF Past
  <2> HIDE DEF R
  <2> QED
    BY <1>inv, <1>same, <2>1, <2>3, <2>4
<1>done. CASE TaskDone
  <2>1. queue # <<>> /\ queue' = Tail(queue) /\ UNCHANGED <<latest, rule, table, buffer>>
    BY <1>done DEF TaskDone, envVars, LogInv, Inv, TypeInv, TypeOK
  <2>2. queue' \in Seq(Past(latest))
    BY <1>inv, <2>1
  <2> QED
    BY <1>inv, <1>same, <2>1, <2>2
<1>stop. CASE Stop
  <2>1. buffer' = <<>> /\ UNCHANGED <<latest, rule, table, queue>> /\ <<>> \in Seq(Past(latest))
    BY <1>stop DEF Stop
  <2> QED
    BY <1>inv, <1>same, <2>1
<1>start. CASE StartUp
  BY <1>inv, <1>same, <1>start DEF StartUp
<1>stutter. CASE UNCHANGED vars
  BY <1>inv, <1>same, <1>stutter DEF vars
<1> QED
  BY <1>create, <1>update, <1>rename, <1>remove, <1>snapshot, <1>drain, <1>write, <1>done,
     <1>stop, <1>start, <1>stutter DEF Next

LEMMA HealInit == Init => HealInv
<1> SUFFICES ASSUME Init PROVE Heals(rule, Rest(queue, buffer, written), table, registry, latest)
  BY DEF HealInv
<1>1. PICK S \in SUBSET Ids : registry = [i \in S |-> [NoEntry EXCEPT !.uuid = i]]
  BY DEF Init
<1>2. /\ DOMAIN registry = S /\ queue \o buffer = <<>> /\ written = FALSE
      /\ table = {[row |-> 0, id |-> i, entry |-> registry[i], from |-> 0, to |-> Open] : i \in S}
  BY <1>1 DEF Init
<1>3. Rest(queue, buffer, written) = <<>>
  BY <1>2 DEF Rest
<1>4. Fit(rule, table, latest)
  BY FitInit DEF FitInv
<1>5. table \in SUBSET Version
  BY <1>4 DEF Fit, Numbered
<1>6. Leads(rule, <<>>, table, table, FALSE)
  BY <1>5, LeadsNothing
<1>7. \A i \in S : Covers(table, i, registry[i])
  <2> SUFFICES ASSUME NEW i \in S PROVE Covers(table, i, registry[i])
    OBVIOUS
  <2> DEFINE v == [row |-> 0, id |-> i, entry |-> registry[i], from |-> 0, to |-> Open]
  <2>1. v \in table /\ v.id = i /\ v.to = Open /\ v.entry = registry[i]
    BY <1>2
  <2> HIDE DEF v
  <2> QED
    BY <2>1 DEF Covers, OpenOf, SamePayload
<1>8. \A v \in table : v.id \in S
  BY <1>2
<1>9. Agrees(table, registry)
  BY <1>2, <1>7, <1>8 DEF Agrees
<1> QED
  BY <1>3, <1>4, <1>5, <1>6, <1>9 DEF Heals

\* An observed change, of the registry that agrees to the one after it.
LEMMA ObservedHeals ==
  ASSUME LogInv, FitInv, HealInv, healed', ha' = "running", letters'["sweep_refused"] = 0,
         NEW it \in ItemType, NEW t \in Times, it.ts = t, NEW described, Change(it, t, described),
         latest < t =>
           \A R : Fit(rule, R, latest) /\ Agrees(R, registry) => AgreesAfter(rule, R, it, registry')
  PROVE  HealInv'
<1>1. /\ queue \in Seq(ItemType) /\ buffer \in Seq(ItemType) /\ latest \in Times /\ latest \in Nat
      /\ t \in Nat /\ written \in BOOLEAN /\ (written => queue # <<>>)
  BY TimesFacts DEF LogInv, Inv, TypeInv, TypeOK
<1>2. /\ healed /\ t > latest /\ buffer' = Append(buffer, it)
      /\ UNCHANGED <<ha, queue, written, table, rule, letters>>
  <2>1. UNCHANGED <<ha, queue, written, table, rule, letters>>
    BY DEF Change
  <2> QED
    BY <2>1 DEF Change, Observe
<1>3. latest < t /\ latest' = t
  BY <1>1, <1>2, StampLater DEF Change
<1> DEFINE P == Rest(queue, buffer, written)
<1>4. Heals(rule, P, table, registry, latest)
  BY <1>2 DEF HealInv
<1>5. P \in Seq(ItemType) /\ Rest(queue, buffer', written) = Append(P, it)
  <2>1. <<>> \in Seq(ItemType) /\ Extends(buffer, buffer, <<>>)
    BY <1>1 DEF Extends
  <2>2. P \in Seq(ItemType)
    BY <1>1, <2>1, RestMore
  <2>3. Rest(queue, Append(buffer, it), written) = Append(Rest(queue, buffer, written), it)
    BY ONLY <1>1, RestAppend
  <2> QED
    BY ONLY <1>2, <2>2, <2>3
<1> HIDE DEF P
<1>6. Heals(rule, Append(P, it), table, registry', t)
  BY <1>1, <1>3, <1>4, <1>5, ChangeHeals
<1> QED
  BY <1>2, <1>3, <1>5, <1>6 DEF HealInv

LEMMA HealStep == LogInv /\ FitInv /\ HealInv /\ [Next]_vars => HealInv'
<1> SUFFICES ASSUME LogInv, FitInv, HealInv, [Next]_vars, healed', ha' = "running",
                    letters'["sweep_refused"] = 0
             PROVE  HealInv'
  BY DEF HealInv
<1>inv. /\ queue \in Seq(ItemType) /\ buffer \in Seq(ItemType) /\ latest \in Times /\ latest \in Nat
        /\ written \in BOOLEAN /\ (written => queue # <<>>) /\ letters \in [Reasons -> Nat]
        /\ DOMAIN registry \in SUBSET Ids /\ registry \in [DOMAIN registry -> Entry]
  BY TimesFacts, RegistryType DEF LogInv, Inv, TypeInv, TypeOK
<1>create. CASE RegCreate
  <2>1. PICK i \in Ids \ DOMAIN registry, p \in Payloads, t \in Times :
          LET e == [uuid |-> ops + 1, pay |-> p, created |-> t]
              it == Item("reconcile", i, NoId, e, t, {})
          IN /\ registry' = [j \in DOMAIN registry \cup {i} |-> IF j = i THEN e ELSE registry[j]]
             /\ Change(it, t, truth \cup {NewVersion(truth, it, t)})
    BY <1>create DEF RegCreate
  <2> DEFINE e == [uuid |-> ops + 1, pay |-> p, created |-> t]
             it == Item("reconcile", i, NoId, e, t, {})
             reg2 == [j \in DOMAIN registry \cup {i} |-> IF j = i THEN e ELSE registry[j]]
             told == truth \cup {NewVersion(truth, it, t)}
  <2>2. ops + 1 \in 0..MaxOps
    BY <2>1, TimesFacts DEF Change, LogInv, Inv, TypeInv
  <2>3. e \in Entry
    BY <2>2 DEF Entry
  <2>4. it \in ItemType /\ it.act = "reconcile" /\ it.id = i /\ it.entry = e /\ it.ts = t
    BY <2>3 DEF Item, ItemType, Acts
  <2>5. registry' = reg2 /\ Change(it, t, told)
    BY <2>1
  <2>6. With(registry, i, e, reg2)
    BY DEF With
  <2> HIDE DEF e, it, reg2, told
  <2>7. latest < t =>
          \A R : Fit(rule, R, latest) /\ Agrees(R, registry) => AgreesAfter(rule, R, it, reg2)
    BY <1>inv, <2>4, <2>6, CreateAgrees
  <2> QED
    BY <2>4, <2>5, <2>7, ObservedHeals
<1>update. CASE RegUpdate
  <2>1. PICK i \in DOMAIN registry, p \in Payloads, t \in Times :
          LET e == [registry[i] EXCEPT !.pay = p]
              it == Item("reconcile", i, NoId, e, t, {})
          IN /\ registry' = [registry EXCEPT ![i] = e]
             /\ Change(it, t, CloseTruth(i, t) \cup {NewVersion(truth, it, t)})
    BY <1>update DEF RegUpdate
  <2> DEFINE e == [registry[i] EXCEPT !.pay = p]
             it == Item("reconcile", i, NoId, e, t, {})
             reg2 == [registry EXCEPT ![i] = e]
             told == CloseTruth(i, t) \cup {NewVersion(truth, it, t)}
  <2>2. e \in Entry /\ i \in Ids
    BY <1>inv DEF Entry
  <2>3. it \in ItemType /\ it.act = "reconcile" /\ it.id = i /\ it.entry = e /\ it.ts = t
    BY <2>2 DEF Item, ItemType, Acts
  <2>4. registry' = reg2 /\ Change(it, t, told)
    BY <2>1
  <2>5. Instead(registry, i, i, e, reg2)
    BY <1>inv DEF Instead
  <2> HIDE DEF e, it, reg2, told
  <2>6. latest < t =>
          \A R : Fit(rule, R, latest) /\ Agrees(R, registry) => AgreesAfter(rule, R, it, reg2)
    BY <1>inv, <2>3, <2>5, ReplaceAgrees
  <2> QED
    BY <2>3, <2>4, <2>6, ObservedHeals
<1>rename. CASE RegRename
  <2>1. PICK i \in DOMAIN registry, j \in Ids \ DOMAIN registry, t \in Times :
          LET it == Item("rename", j, i, registry[i], t, {})
          IN /\ registry' = [k \in (DOMAIN registry \ {i}) \cup {j} |->
                               IF k = j THEN registry[i] ELSE registry[k]]
             /\ Change(it, t, CloseTruth(i, t) \cup {NewVersion(truth, it, t)})
    BY <1>rename DEF RegRename
  <2> DEFINE e == registry[i]
             it == Item("rename", j, i, e, t, {})
             reg2 == [k \in (DOMAIN registry \ {i}) \cup {j} |-> IF k = j THEN e ELSE registry[k]]
             told == CloseTruth(i, t) \cup {NewVersion(truth, it, t)}
  <2>2. it \in ItemType /\ it.act = "rename" /\ it.old = i /\ it.id = j /\ it.entry = e /\ it.ts = t /\ j # i
    BY <1>inv DEF Item, ItemType, Acts
  <2>3. registry' = reg2 /\ Change(it, t, told)
    BY <2>1
  <2>4. Instead(registry, i, j, e, reg2)
    BY DEF Instead
  <2> HIDE DEF e, it, reg2, told
  <2>5. latest < t =>
          \A R : Fit(rule, R, latest) /\ Agrees(R, registry) => AgreesAfter(rule, R, it, reg2)
    BY <1>inv, <2>2, <2>4, ReplaceAgrees
  <2> QED
    BY <2>2, <2>3, <2>5, ObservedHeals
<1>remove. CASE RegRemove
  <2>1. PICK i \in DOMAIN registry, t \in Times :
          /\ registry' = Restrict(registry, DOMAIN registry \ {i})
          /\ Change(Item("remove", i, NoId, NoEntry, t, {}), t, CloseTruth(i, t))
    BY <1>remove DEF RegRemove
  <2> DEFINE it == Item("remove", i, NoId, NoEntry, t, {})
             reg2 == Restrict(registry, DOMAIN registry \ {i})
             told == CloseTruth(i, t)
  <2>2. it \in ItemType /\ it.act = "remove" /\ it.id = i /\ it.ts = t
    BY <1>inv, NoEntryType DEF Item, ItemType, Acts
  <2>3. registry' = reg2 /\ Change(it, t, told)
    BY <2>1
  <2>4. Without(registry, i, reg2)
    BY DEF Restrict, Without
  <2> HIDE DEF it, reg2, told
  <2>5. latest < t =>
          \A R : Fit(rule, R, latest) /\ Agrees(R, registry) => AgreesAfter(rule, R, it, reg2)
    BY <1>inv, <2>2, <2>4, RemoveAgrees
  <2> QED
    BY <2>2, <2>3, <2>5, ObservedHeals
<1>snapshot. CASE Snapshot
  <2>1. PICK Q \in Seq(ItemType), t \in Times :
          /\ Stamp(t) /\ buffer' = buffer \o Q /\ Lists(Q, registry, t)
          /\ healed' = (t > latest /\ registry # <<>>)
    BY <1>snapshot, SnapshotItems DEF LogInv
  <2>2. UNCHANGED <<registry, queue, written, table, rule, letters>>
    BY <1>snapshot DEF Snapshot
  <2>3. latest < t /\ registry # <<>>
    BY <1>inv, <2>1, TimesFacts
  <2>4. latest' = t
    BY <2>1, <2>3, StampLater
  <2>5. DOMAIN registry # {}
    <3> SUFFICES ASSUME DOMAIN registry = {} PROVE FALSE
      OBVIOUS
    <3>1. registry = [i \in {} |-> registry[i]]
      BY <1>inv
    <3>2. <<>> = [i \in {} |-> registry[i]]
      OBVIOUS
    <3> QED
      BY <2>3, <3>1, <3>2
  <2> DEFINE P == Rest(queue, buffer, written)
  <2>6. P \in Seq(Past(latest))
    <3>1. queue \in Seq(Past(latest)) /\ buffer \in Seq(Past(latest)) /\ <<>> \in Seq(Past(latest))
          /\ Extends(buffer, buffer, <<>>)
      BY <1>inv DEF FitInv, Extends
    <3> QED
      BY <1>inv, <3>1, RestMore
  <2>7. Rest(queue, buffer', written) = P \o Q
    <3> DEFINE R == Rest(queue, buffer', written)
    <3>1. Extends(buffer', buffer, Q)
      BY <2>1 DEF Extends
    <3>2. Extends(R, P, Q)
      BY <1>inv, <3>1, RestMore
    <3> HIDE DEF P, R
    <3> QED
      BY <3>2 DEF Extends, R
  <2> HIDE DEF P
  <2>8. P \in Seq(ItemType) /\ \A n \in 1..Len(P) : P[n].ts <= latest
    <3>1. latest <= latest
      BY <1>inv
    <3>2. P \in Seq(ItemType)
      BY <1>inv, <2>6, <3>1, PastMore
    <3>3. \A n \in 1..Len(P) : P[n] \in Past(latest)
      BY <2>6
    <3> QED
      BY <3>2, <3>3 DEF Past
  <2>9. Heals(rule, P \o Q, table, registry, t)
    BY <1>inv, <2>1, <2>3, <2>5, <2>8, SnapshotLeads DEF FitInv
  <2> QED
    BY <2>1, <2>2, <2>4, <2>7, <2>9 DEF HealInv
\* The other steps of the recorder leave the registry and the stamps.
<1>same. ASSUME UNCHANGED <<registry, latest, rule, table>>,
                Rest(queue', buffer', written') = Rest(queue, buffer, written),
                healed, ha = "running", letters' = letters
         PROVE  HealInv'
  BY <1>same DEF HealInv
<1>drain. CASE Drain
  <2>1. PICK k \in 0..Len(buffer) :
          /\ queue' = queue \o SubSeq(buffer, 1, k) \o buffer
          /\ (k = 0 /\ healed' = healed) \/ healed' = FALSE
    BY <1>drain DEF Drain
  <2>2. buffer' = <<>> /\ UNCHANGED <<registry, latest, rule, table, written, ha, letters>>
    BY <1>drain DEF Drain
  <2>3. k = 0 /\ healed
    BY <2>1
  <2>4. SubSeq(buffer, 1, k) = <<>>
    BY <2>3
  <2>5. queue' \o buffer' = queue \o buffer
    <3>1. queue' = queue \o buffer /\ queue \o buffer \in Seq(ItemType)
      BY <1>inv, <2>1, <2>4, ConcatEmptySeq
    <3> QED
      BY <2>2, <3>1, ConcatEmptySeq
  <2> QED
    BY <1>same, <2>2, <2>3, <2>5 DEF Rest
<1>write. CASE Write
  <2> DEFINE P == queue \o buffer
             W == WrittenUnder(rule, table, P[1])
             sr == "sweep_refused"
  <2>1. P \in Seq(ItemType) /\ P # <<>> /\ P[1] = Head(queue)
    BY <1>inv, <1>write DEF Write
  <2>2. /\ written = FALSE /\ written' = TRUE
        /\ UNCHANGED <<registry, latest, rule, queue, buffer, healed, ha>>
    BY <1>inv, <1>write DEF Write, envVars
  <2>3. Written(table, Head(queue)) = W
    BY <2>1 DEF Written, WrittenUnder, Legal, LegalUnder
  <2>4. table' = W.rows /\ letters' = [r \in Reasons |-> letters[r] + IF r \in W.why THEN 1 ELSE 0]
    BY <1>write, <2>3 DEF Write
  <2> HIDE DEF P, W
  <2>5. letters[sr] \in Nat /\ letters'[sr] = letters[sr] + IF sr \in W.why THEN 1 ELSE 0
    BY <1>inv, <2>4 DEF Reasons
  <2>6. letters[sr] = 0 /\ sr \notin W.why
    BY <2>5
  <2>7. Heals(rule, P, table, registry, latest)
    BY <2>2, <2>6 DEF HealInv, Rest, P
  <2>8. Heals(rule, Tail(P), W.rows, registry, latest)
    BY <2>1, <2>6, <2>7, WriteHeals DEF W
  <2>9. Rest(queue', buffer', written') = Tail(P)
    BY <2>2 DEF Rest, P
  <2> QED
    BY <2>2, <2>4, <2>8, <2>9 DEF HealInv
<1>done. CASE TaskDone
  <2>1. /\ written = TRUE /\ written' = FALSE /\ queue' = Tail(queue)
        /\ UNCHANGED <<registry, latest, rule, table, buffer, healed, ha, letters>>
    BY <1>inv, <1>done DEF TaskDone, envVars
  <2>2. Tail(queue) \o buffer = Tail(queue \o buffer)
    BY <1>inv, <2>1
  <2> QED
    BY <1>same, <2>1, <2>2 DEF Rest
<1>stop. CASE Stop
  BY <1>stop DEF Stop
<1>start. CASE StartUp
  BY <1>start DEF StartUp
<1>stutter. CASE UNCHANGED vars
  BY <1>same, <1>stutter DEF vars
<1> QED
  BY <1>create, <1>update, <1>rename, <1>remove, <1>snapshot, <1>drain, <1>write, <1>done,
     <1>stop, <1>start, <1>stutter DEF Next

\* Whatever happened before it, once a startup snapshot and its sweep are written, and all that
\* came after them, the open versions are the entries of the registry, unless a sweep was refused
\* (registry_listener.py:206, meta_worker.py:768).
THEOREM SnapshotsHeal == Spec => []SnapshotHeals
<1>1. LogInv /\ HealInv => SnapshotHeals
  <2> SUFFICES ASSUME LogInv, HealInv, buffer = <<>>, queue = <<>>, ha = "running", healed,
                      letters["sweep_refused"] = 0
               PROVE  /\ {v.id : v \in {w \in table : w.to = Open}} = DOMAIN registry
                      /\ \A v \in table : v.to = Open => SamePayload(v.entry, registry[v.id])
    BY DEF SnapshotHeals, Drained
  <2>1. Rest(queue, buffer, written) = <<>>
    BY DEF Rest, LogInv, Inv, TypeInv, TypeOK
  <2>2. Heals(rule, <<>>, table, registry, latest)
    BY <2>1 DEF HealInv
  <2>3. Agrees(table, registry) /\ OneOpenOf(table)
    BY <2>2, LeadsEmpty DEF Heals, Fit
  <2>4. \A i \in DOMAIN registry : \E w \in table : w.to = Open /\ w.id = i /\ SamePayload(w.entry, registry[i])
    BY <2>3 DEF Agrees, Covers, OpenOf
  <2>5. \A v \in table : v.to = Open => v.id \in DOMAIN registry
    BY <2>3 DEF Agrees
  <2>6. \A v \in table : v.to = Open => SamePayload(v.entry, registry[v.id])
    BY <2>3, <2>4, <2>5 DEF OneOpenOf
  <2> QED
    BY <2>4, <2>5, <2>6
<1> QED
  BY <1>1, LogInvInit, LogInvStep, FitInit, FitStep, HealInit, HealStep, PTL DEF Spec
=============================================================================
