------------------------------ MODULE Scd2Meta ------------------------------
(***************************************************************************)
(* The history of the registries as the metadata worker writes it: slowly  *)
(* changing dimension rows of type 2, one version per change of an entry.  *)
(* Registry events are stamped in the event loop, buffered, appended to    *)
(* the durable queue and applied by the worker one at a time, each as one  *)
(* transaction.  MetaPipeline has the queue in detail; here it is what     *)
(* that module shows it to be: first in first out, an interrupted append   *)
(* repeats the front of its batch, and the front item is applied again     *)
(* when the process ends between the write and task_done.                  *)
(*                                                                         *)
(* The entity registry is modelled.  Devices, areas and labels go through  *)
(* the same code without renames.  NULL in valid_to is Open.               *)
(***************************************************************************)
EXTENDS Naturals, FiniteSets, Sequences, SequencesExt, FiniteSetsExt, Functions

CONSTANTS
  Ids,          \* entity ids
  NoId,         \* none of them
  Payloads,     \* distinguishable contents of a registry entry
  MaxOps,       \* changes of the registry
  MaxFaults,    \* repeated batches and irregular clock readings
  MaxRestarts,  \* stops of Home Assistant
  MaxTime,      \* last instant
  FreeCloses    \* SCD2_SWEEP_FREE_CLOSES

ASSUME MetaAssumption ==
  /\ IsFiniteSet(Ids) /\ NoId \notin Ids /\ Payloads # {}
  /\ \A i \in Ids : i \notin 0..MaxOps  \* see NoEntry and RegCreate: uuids are unique
  /\ {MaxOps, MaxFaults, MaxRestarts, MaxTime, FreeCloses} \subseteq Nat

Times == 0..MaxTime
Open == MaxTime + 1

VARIABLES
  registry,   \* the entries of the live ids: entity_id -> entry
  ha,         \* "down", "starting" (before the snapshot) or "running"
  now,        \* the last reading of the clock
  buffer,     \* _buffer of the registry listener
  queue,      \* the items in the metadata queue
  written,    \* the front item is in the database and task_done is to come
  table,      \* the dimension table: a set of versions
  rule,       \* what the database enforces: "exclusion", or "unique" on open rows
  letters,    \* metadata_deadletter: rows by reason
  ops, faults, restarts,
  latest,     \* history: the latest stamp given so far
  healed,     \* history: the last snapshot listed an entry, and since it stamps grew
              \* and nothing was repeated
  witnessed,  \* history: every change so far was stamped in order, queued, and not repeated
  truth       \* history: the versions the stamped events describe

vars == <<registry, ha, now, buffer, queue, written, table, rule, letters, ops, faults,
          restarts, latest, healed, witnessed, truth>>
envVars == <<registry, ha, now, buffer, ops, faults, restarts, latest, healed, witnessed, truth>>

Reasons == {"integrity", "out_of_order", "sweep_refused"}
Entry == [uuid : Ids \cup 0..MaxOps, pay : Payloads, created : Times]
Version == [row : Nat, id : Ids, entry : Entry, from : Times, to : Times \cup {Open}]
-----------------------------------------------------------------------------
(* The statements. *)

OpenOf(T, i) == {v \in T : v.id = i /\ v.to = Open}

\* A mutation of Closed: the row ends when the item is processed, as it did before issue 17.
Closed_DequeueTime(T, i, t) ==
  {IF v \in OpenOf(T, i) /\ v.from < now THEN [v EXCEPT !.to = now] ELSE v : v \in T}

\* A mutation of Closed: without the guard on valid_from.
Closed_Unguarded(T, i, t) ==
  {IF v \in OpenOf(T, i) THEN [v EXCEPT !.to = t] ELSE v : v \in T}

\* SCD2_CLOSE: the open row ends at t, unless it starts there or later.
Closed(T, i, t) ==
  {IF v \in OpenOf(T, i) /\ v.from < t THEN [v EXCEPT !.to = t] ELSE v : v \in T}

\* SCD2_SNAPSHOT: insert unless the id has an open row.
Inserted(T, v) == IF OpenOf(T, v.id) = {} THEN T \cup {v} ELSE T

\* The change detection: the uuid is not compared, created_at is a part of extra.
SamePayload(e, f) == e.pay = f.pay /\ e.created = f.created
Differs(T, it) == \A v \in OpenOf(T, it.id) : ~SamePayload(v.entry, it.entry)

\* A mutation of FirstFrom: a version of the entry under another id is not looked for.
FirstFrom_IdOnly(T, it) ==
  IF (\E v \in T : v.id = it.id) \/ it.entry.created >= it.ts THEN it.ts ELSE it.entry.created

\* SCD2_ANY_VERSION: the first version of an id and an entry starts with the entry.
FirstFrom(T, it) ==
  IF \/ \E v \in T : v.id = it.id \/ v.entry.uuid = it.entry.uuid
     \/ it.entry.created >= it.ts
    THEN it.ts ELSE it.entry.created

\* Rows are told apart by the order of their insertion.
NewVersion(T, it, from) == [row |-> Cardinality(T), id |-> it.id, entry |-> it.entry, from |-> from, to |-> Open]

\* SCD2_OPEN_VERSION_AT and the payload: the row this item would have written is there.
AlreadyApplied(T, it) == \E v \in OpenOf(T, it.id) : v.from = it.ts /\ SamePayload(v.entry, it.entry)

\* What a transaction leaves: the table and the reasons of what it dead-letters.
Result(T, reasons) == [rows |-> T, why |-> reasons]
Skipped(before, after, it) ==
  IF after # before \/ AlreadyApplied(after, it) THEN {} ELSE {"out_of_order"}

\* _process_reconcile of create, update and snapshot.
Reconciled(T, it) ==
  LET closed == Closed(T, it.id, it.ts)
      done == Inserted(closed, NewVersion(T, it, IF closed = T THEN FirstFrom(T, it) ELSE it.ts))
  IN IF OpenOf(T, it.id) # {} /\ ~Differs(T, it) THEN Result(T, {})
     ELSE Result(done, Skipped(closed, done, it))

\* _process_rename: close the old id, open the new one, always at event time.
Renamed(T, it) ==
  LET closed == Closed(T, it.old, it.ts)
      done == Inserted(closed, NewVersion(T, it, it.ts))
  IN Result(done, Skipped(closed, done, it))

\* A mutation of Removed: a removal that closed nothing always counts as lost.
Removed_NoProbe(T, it) ==
  LET closed == Closed(T, it.id, it.ts)
  IN Result(closed, IF closed = T THEN {"out_of_order"} ELSE {})

\* _process_remove: an open row that survives is a lost removal, none is a replay.
Removed(T, it) ==
  LET closed == Closed(T, it.id, it.ts)
  IN Result(closed, IF closed = T /\ OpenOf(T, it.id) # {} THEN {"out_of_order"} ELSE {})

\* More than half of the open rows, and more than a few.
SweepRefused(stale, open) == stale > FreeCloses /\ 2 * stale > open

\* A mutation of Swept: nothing is swept.
Swept_None(T, it) == Result(T, {})

\* _process_sweep: close what the registry no longer lists, unless that is implausible.
Swept(T, it) ==
  LET open == {v \in T : v.to = Open}
      stale == {v \in open : v.from < it.ts /\ v.id \notin it.live}
  IN IF open # {} /\ it.live = {} THEN Result(T, {})
     ELSE IF SweepRefused(Cardinality(stale), Cardinality(open)) THEN Result(T, {"sweep_refused"})
     ELSE Result((T \ stale) \cup {[v EXCEPT !.to = it.ts] : v \in stale}, {})

\* What the database accepts: never an inverted interval once it is indexed.
Overlap(v, w) == v.id = w.id /\ v.from < w.to /\ w.from < v.to
Legal(T) ==
  IF rule = "exclusion"
    THEN \A v, w \in T : v.from <= v.to /\ (v # w => ~Overlap(v, w))
    ELSE \A i \in Ids : Cardinality(OpenOf(T, i)) <= 1

Dispatched(T, it) ==
  CASE it.act = "reconcile" -> Reconciled(T, it)
    [] it.act = "rename" -> Renamed(T, it)
    [] it.act = "remove" -> Removed(T, it)
    [] it.act = "sweep" -> Swept(T, it)

\* _write_item_raw: what the constraint refuses is rolled back and dead-lettered.
Written(T, it) ==
  LET done == Dispatched(T, it)
  IN IF Legal(done.rows) THEN done ELSE Result(T, {"integrity"})
-----------------------------------------------------------------------------
(* The registry and its events. *)

NoEntry == [uuid |-> 0, pay |-> CHOOSE p \in Payloads : TRUE, created |-> 0]
Item(act, id, old, entry, ts, live) ==
  [act |-> act, id |-> id, old |-> old, entry |-> entry, ts |-> ts, live |-> live]

\* Before the behaviour begins the entries of some ids are recorded as they are.
Init ==
  /\ \E S \in SUBSET Ids : registry = [i \in S |-> [NoEntry EXCEPT !.uuid = i]]
  /\ table = {[row |-> 0, id |-> i, entry |-> registry[i], from |-> 0, to |-> Open] : i \in DOMAIN registry}
  /\ truth = table
  /\ ha = "running" /\ now = 0 /\ latest = 0
  /\ buffer = <<>> /\ queue = <<>> /\ written = FALSE
  /\ rule \in {"exclusion", "unique"}
  /\ letters = [r \in Reasons |-> 0]
  /\ ops = 0 /\ faults = 0 /\ restarts = 0
  /\ healed = TRUE /\ witnessed = TRUE

\* A reading of the clock for a stamp: later than every other, or, as a fault, the
\* same instant or an earlier one.
Stamp(t) ==
  /\ t \in Times
  /\ \/ t = latest + 1 /\ UNCHANGED faults
     \/ t \in {now, now - 1} /\ faults < MaxFaults /\ faults' = faults + 1
  /\ now' = t /\ latest' = Max({latest, t})

\* The event of a change: its handler stamps and buffers it, if Home Assistant is up.
Observe(item, t, described) ==
  IF ha = "down"
    THEN /\ witnessed' = FALSE
         /\ UNCHANGED <<buffer, healed, truth>>
    ELSE /\ buffer' = Append(buffer, item)
         /\ healed' = (healed /\ t > latest)
         /\ witnessed' = (witnessed /\ t > latest)
         /\ truth' = described

Change(item, t, described) ==
  /\ ops < MaxOps /\ ops' = ops + 1
  /\ Stamp(t) /\ Observe(item, t, described)
  /\ UNCHANGED <<ha, queue, written, table, rule, letters, restarts>>

CloseTruth(i, t) == {IF v.id = i /\ v.to = Open THEN [v EXCEPT !.to = t] ELSE v : v \in truth}

RegCreate ==
  \E i \in Ids \ DOMAIN registry, p \in Payloads, t \in Times :
    LET e == [uuid |-> ops + 1, pay |-> p, created |-> t]
        it == Item("reconcile", i, NoId, e, t, {})
    IN /\ registry' = [j \in DOMAIN registry \cup {i} |-> IF j = i THEN e ELSE registry[j]]
       /\ Change(it, t, truth \cup {NewVersion(truth, it, t)})

RegUpdate ==
  \E i \in DOMAIN registry, p \in Payloads, t \in Times :
    LET e == [registry[i] EXCEPT !.pay = p]
        it == Item("reconcile", i, NoId, e, t, {})
    IN /\ e # registry[i]
       /\ registry' = [registry EXCEPT ![i] = e]
       /\ Change(it, t, CloseTruth(i, t) \cup {NewVersion(truth, it, t)})

RegRename ==
  \E i \in DOMAIN registry, j \in Ids \ DOMAIN registry, t \in Times :
    LET it == Item("rename", j, i, registry[i], t, {})
    IN /\ registry' = [k \in (DOMAIN registry \ {i}) \cup {j} |->
                         IF k = j THEN registry[i] ELSE registry[k]]
       /\ Change(it, t, CloseTruth(i, t) \cup {NewVersion(truth, it, t)})

RegRemove ==
  \E i \in DOMAIN registry, t \in Times :
    /\ registry' = Restrict(registry, DOMAIN registry \ {i})
    /\ Change(Item("remove", i, NoId, NoEntry, t, {}), t, CloseTruth(i, t))

\* enqueue_snapshot, once Home Assistant has started: every entry, then the sweep.
\* Whatever went wrong before, the table must agree with the registry afterwards.
Snapshot ==
  /\ ha = "starting" /\ ha' = "running"
  /\ \E t \in Times :
       /\ Stamp(t)
       /\ buffer' = buffer \o
            [n \in 1..Cardinality(DOMAIN registry) |->
               LET i == SetToSeq(DOMAIN registry)[n]
               IN Item("reconcile", i, NoId, registry[i], t, {})]
            \o <<Item("sweep", NoId, NoId, NoEntry, t, DOMAIN registry)>>
       /\ healed' = (t > latest /\ registry # <<>>)
       /\ witnessed' = (witnessed /\ t > latest)
  /\ UNCHANGED <<registry, queue, written, table, rule, letters, ops, restarts, truth>>

\* The drain task appends the buffer; an append that failed half way has left k items
\* in the file before the batch is appended again.
Drain ==
  /\ ha # "down" /\ buffer # <<>> /\ buffer' = <<>>
  /\ \E k \in 0..Len(buffer) :
       /\ queue' = queue \o SubSeq(buffer, 1, k) \o buffer
       /\ \/ k = 0 /\ UNCHANGED <<faults, healed, witnessed>>
          \/ /\ k > 0 /\ faults < MaxFaults /\ faults' = faults + 1
             /\ healed' = FALSE /\ witnessed' = FALSE
  /\ UNCHANGED <<registry, ha, now, written, table, rule, letters, ops, restarts, latest, truth>>

\* The worker writes the front item and dead-letters what it had to give up.
Write ==
  /\ ha # "down" /\ queue # <<>> /\ ~written
  /\ table' = Written(table, Head(queue)).rows
  /\ letters' = [r \in Reasons |->
       letters[r] + IF r \in Written(table, Head(queue)).why THEN 1 ELSE 0]
  /\ written' = TRUE
  /\ UNCHANGED <<queue, rule, envVars>>

\* A mutation of TaskDone: the flag is not reset.
TaskDone_KeepsFlag ==
  /\ ha # "down" /\ written /\ queue' = Tail(queue)
  /\ UNCHANGED <<written, table, rule, letters, envVars>>

TaskDone ==
  /\ ha # "down" /\ written /\ written' = FALSE
  /\ queue' = Tail(queue)
  /\ UNCHANGED <<table, rule, letters, envVars>>

\* Home Assistant ends, at any point: what is buffered is lost, what is queued is kept,
\* and an item that was written but not taken off the queue will be written again.
Stop ==
  /\ ha # "down" /\ ha' = "down" /\ restarts < MaxRestarts /\ restarts' = restarts + 1
  /\ buffer' = <<>> /\ written' = FALSE
  /\ witnessed' = (witnessed /\ buffer = <<>>)
  /\ UNCHANGED <<registry, now, queue, table, rule, letters, ops, faults, latest, healed, truth>>

StartUp ==
  /\ ha = "down" /\ ha' = "starting"
  /\ UNCHANGED <<registry, now, buffer, queue, written, table, rule, letters, ops, faults,
                 restarts, latest, healed, witnessed, truth>>

Next == \/ RegCreate \/ RegUpdate \/ RegRename \/ RegRemove \/ Snapshot
        \/ Drain \/ Write \/ TaskDone \/ Stop \/ StartUp

Spec == Init /\ [][Next]_vars
-----------------------------------------------------------------------------
(* Properties. *)

TypeOK ==
  /\ \E S \in SUBSET Ids : registry \in [S -> Entry]
  /\ ha \in {"down", "starting", "running"} /\ now \in Times
  /\ written \in BOOLEAN /\ (written => queue # <<>>) /\ (ha = "down" => ~written)
  /\ table \subseteq Version /\ rule \in {"exclusion", "unique"}
  /\ letters \in [Reasons -> Nat]

Drained == buffer = <<>> /\ queue = <<>>

\* Whatever happened before it (removals, renames and creations while the integration was
\* not loaded, lost buffers, repeated batches, clocks that went back), once a startup snapshot
\* and its sweep are written, and everything after them, the open versions are the entries of
\* the registry (registry_listener.py:206, meta_worker.py:768).
SnapshotHeals ==
  Drained /\ ha = "running" /\ healed /\ letters["sweep_refused"] = 0 =>
    /\ {v.id : v \in {w \in table : w.to = Open}} = DOMAIN registry
    /\ \A v \in table : v.to = Open => SamePayload(v.entry, registry[v.id])

\* As long as every change was stamped in order, queued and not repeated, the table tells
\* exactly what happened and when, whatever stops and replays lay in between
\* (meta_worker.py:607, "always event time").
RecordedFaithfully == Drained /\ witnessed => table = truth

\* and nothing is refused on the way: "Queue ordering should make this impossible"
\* (meta_worker.py:597) is true of a recorder that saw every change.
OrderedNothingLost == witnessed => letters["out_of_order"] = 0 /\ letters["integrity"] = 0

\* Writing the front item again, after a stop before task_done, changes no row, and is
\* not counted as a lost change when no change was lost (meta_worker.py:509).
ReplayNoOp ==
  written => LET again == Written(table, Head(queue))
             IN /\ again.rows = table
                /\ letters["out_of_order"] = 0 => "out_of_order" \notin again.why

\* An entry is not described from its creation under two ids: after a rename nobody saw,
\* the new id does not start with the entry (const.py:512, SCD2_ANY_VERSION).
OneOrigin ==
  \A v, w \in table :
    v.entry.uuid = w.entry.uuid /\ v.from = w.from /\ v.from = v.entry.created /\ faults = 0 =>
      v.id = w.id

\* The table is a log of versions, see VersionLog.  The database forbids overlaps with the
\* exclusion constraint; without it they are excluded while nothing is repeated and the clock
\* does not step back (schema.py:60, const.py:652).
Log == INSTANCE VersionLog WITH log <- table, disjoint <- (rule = "exclusion" \/ faults = 0)
LogSpec == Log!Spec
=============================================================================
