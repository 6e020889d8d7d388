---------------------------- MODULE MinuteRollup ----------------------------
(***************************************************************************)
(* The per-minute rollup of one entity: the job inside the database, the   *)
(* writers that store readings late, and the queue of dirty ranges between *)
(* them.  Writers are the states worker, live or in backfill, and the      *)
(* script backfill_gaps.py.                                                *)
(*                                                                         *)
(* Time is counted in ticks, MinuteTicks of them in a minute, and a        *)
(* reading is the tick it was taken at, at most one each.  states_minute   *)
(* is held tick by tick, as the reading in force: integral and             *)
(* covered_seconds of a minute are sums over it.  zero_hold and            *)
(* non-numeric states are left out.  A transaction of the job is two       *)
(* steps, the snapshot it computes from and the commit: in between, rows   *)
(* are stored and marked, while a sync waits for the lock on the row.      *)
(***************************************************************************)
EXTENDS Integers, FiniteSetsExt

CONSTANTS
  MinuteTicks, Lookback, Day,   \* of the job, in ticks
  Bucket,       \* --bucket-minutes of the script, in ticks
  Holds,        \* the values of hold that may be configured, in ticks
  MaxTime,      \* the last tick
  MaxRows,      \* readings
  MaxOps        \* restarts of the states worker and runs of the script, together

ASSUME RollupAssumption ==
  /\ {MinuteTicks, Bucket, MaxTime} \cup Holds \subseteq Nat \ {0}
  /\ {Lookback, Day} \subseteq {n * MinuteTicks : n \in 1..MaxTime}
  /\ Lookback <= Day
  /\ {MaxRows, MaxOps} \subseteq Nat

VARIABLES
  now,
  events,     \* the readings Home Assistant's own recorder has
  samples,    \* those in states
  hold,       \* hold_seconds of the entity's row; 0 when the entity has none
  frontier,   \* filled_until, or None
  rollup,     \* tick -> the reading in force that states_minute has for it, or None
  dirty,      \* states_minute_dirty, without the range that a unit works on
  job,        \* the running job: [pc, end |-> v_end, from |-> v_from, unit |-> the range
              \* d of its unit, seen |-> the samples in its snapshot]
  noted,      \* the states worker's configuration has the entity (_rollup_entity_ids)
  pending,    \* _backfill_rollup_from of the states worker, or None
  tool,       \* the script: [on, cursor, end, from |-> inserted_from, to |-> inserted_to]
  syncedAt,   \* history: when the entity's row was last written by a sync
  lost,       \* history: ticks changed by rows that nothing will make the job look at
  ops

jobVars == <<job, frontier, rollup>>
configVars == <<hold, syncedAt, noted>>
vars == <<now, events, samples, jobVars, configVars, dirty, pending, tool, lost, ops>>

None == -1
Ticks == 0..MaxTime - 1
Trunc(t) == t - (t % MinuteTicks)

NoRange == [from |-> None, to |-> None]
NoJob == [pc |-> "idle", end |-> None, from |-> None, unit |-> NoRange, seen |-> {}]
NoTool == [on |-> FALSE, cursor |-> None, end |-> None, from |-> None, to |-> None]

\* The reading that holds at tick k.
InForce(rows, k) ==
  LET before == {t \in rows : t <= k}
  IN IF before # {} /\ k < Max(before) + hold THEN Max(before) ELSE None

-----------------------------------------------------------------------------
(* states_minute_refresh *)

Recomputed(from, to) == Trunc(from)..Min({Trunc(to), Trunc(now)}) - 1

\* A mutation of CarryIn: the range is computed from its own readings alone.
CarryIn_None(from) == {}

\* The last reading before the range, if its hold can reach it.
CarryIn(from) ==
  LET old == {t \in job.seen : from - hold <= t /\ t < from}
  IN IF old = {} THEN {} ELSE {Max(old)}

\* The table as the snapshot gives it.
Refreshed(from, to) ==
  LET span == Recomputed(from, to)
      points == CarryIn(Trunc(from)) \cup (job.seen \cap span)
  IN [k \in Ticks |-> IF k \in span THEN InForce(points, k) ELSE rollup[k]]

-----------------------------------------------------------------------------
(* What a transaction of the job covers, and what is left once it has committed. *)

\* A mutation of TailSpan: the whole of it in one transaction.
TailSpan_Whole == job.from

\* Where the recomputation of the tail starts: at most a day back.
TailSpan == Max({job.from, job.end - Day})

\* What exceeds a day of the tail is only queued.
Excess == IF job.from < TailSpan THEN {[from |-> job.from, to |-> TailSpan]} ELSE {}

UnitFrom == Max({job.unit.from, job.unit.to - Day})

\* A mutation of Rest: the range is deleted after its first unit.
Rest_None(d) == {}

\* A mutation of Rest: the range is kept as it is until one unit covers it.
Rest_Whole(d) == IF d.to - Day <= d.from THEN {} ELSE {d}

Rest(d) == IF d.to - Day <= d.from THEN {} ELSE {[d EXCEPT !.to = d.to - Day]}

\* The ticks that the running transaction rewrites.
Working ==
  CASE job.pc = "tail" -> Recomputed(TailSpan, job.end)
    [] job.pc = "unit" -> Recomputed(UnitFrom, job.unit.to)
    [] OTHER           -> {}

TailFrom ==
  LET next == IF job.pc = "tail" THEN job.end ELSE frontier
  IN Trunc(IF next = None THEN syncedAt ELSE next - Lookback)

Queue ==
  CASE job.pc = "tail" -> dirty \cup Excess
    [] job.pc = "unit" -> dirty \cup Rest(job.unit)
    [] OTHER           -> dirty

Queued(k) == \E d \in Queue : Trunc(d.from) <= k /\ k < Trunc(d.to)

\* Those of the ticks that neither the tail nor the queue covers.
Unseen(ticks) == {k \in ticks \cap Ticks : hold # 0 /\ k < TailFrom /\ ~Queued(k)}

\* The ticks that rows from..to can change.
Reach(from, to) == IF from = None THEN {} ELSE from..to + hold - 1

-----------------------------------------------------------------------------
(* Readings, and the states worker. *)

\* Time passes, with or without a reading.
Tick ==
  /\ now < MaxTime
  /\ now' = now + 1
  /\ \/ UNCHANGED events
     \/ Cardinality(events) < MaxRows /\ events' = events \cup {now}
  /\ UNCHANGED <<samples, jobVars, configVars, dirty, pending, tool, lost, ops>>

\* A live row is stored, however late: after an outage the live queue still holds it.
StoreLive(t) ==
  /\ pending = None
  /\ samples' = samples \cup {t}
  /\ lost' = lost \cup Unseen(Reach(t, t))
  /\ UNCHANGED <<now, events, jobVars, configVars, dirty, pending, tool, ops>>

\* A chunk of a backfill slice is stored, its earliest row noted.
StoreBackfill(t) ==
  /\ samples' = samples \cup {t}
  /\ pending' = IF noted /\ (pending = None \/ t < pending) THEN t ELSE pending
  /\ lost' = IF noted THEN lost ELSE lost \cup Unseen(Reach(t, t))
  /\ UNCHANGED <<now, events, jobVars, configVars, dirty, tool, ops>>

\* A mutation of MarkedTo: the range is not capped at the present.
MarkedTo_Uncapped(to) == IF to = None THEN now ELSE to + hold

\* A mutation of MarkedTo: the last row's hold is forgotten.
MarkedTo_NoHold(to) == IF to = None THEN now ELSE Min({now, to})

MarkedTo(to) == IF to = None THEN now ELSE Min({now, to + hold})

Marks(from) == frontier # None /\ from < frontier

Mark(from, to) ==
  dirty' = IF Marks(from) THEN dirty \cup {[from |-> from, to |-> MarkedTo(to)]} ELSE dirty

\* BACKFILL_DONE: the minutes from the earliest row on are queued, unless the entity has
\* no frontier yet or the frontier that the statement reads is not past that row.
BackfillDone ==
  /\ pending # None
  /\ Mark(pending, None)
  /\ pending' = None
  /\ lost' = lost \cup (IF Marks(pending) THEN {} ELSE Unseen(Reach(pending, now)))
  /\ UNCHANGED <<now, events, samples, jobVars, configVars, tool, ops>>

\* _rollup_dirty_failed: the statement keeps failing, and the worker goes on without it.
MarkFails ==
  /\ pending # None
  /\ pending' = None
  /\ lost' = lost \cup Unseen(Reach(pending, now))
  /\ UNCHANGED <<now, events, samples, jobVars, configVars, dirty, tool, ops>>

\* A mutation of History: the range starts at the present.
History_Empty == {}

\* The range a sync queues for an entity that is new or has another hold.
History == IF samples = {} THEN {} ELSE {[from |-> Min(samples), to |-> now]}

\* The states worker ends, in the middle of a backfill or not, and another one starts.
NewWorker(h) ==
  /\ ops < MaxOps /\ ops' = ops + 1
  /\ pending' = None /\ noted' = (h # 0)
  /\ UNCHANGED <<now, events, samples, job, tool>>

\* The entity's row is as configured, or making it so fails and is only logged.
KeepRow ==
  /\ lost' = lost \cup Unseen(Reach(pending, now))
  /\ UNCHANGED <<rollup, dirty, frontier, hold, syncedAt>>

\* Its schema setup makes the entity's row match the configuration, once it has the lock.
Restart(h) ==
  /\ NewWorker(h)
  /\ IF h = hold
       THEN KeepRow
       ELSE /\ job.pc \notin {"tail", "unit"}
            /\ hold' = h /\ syncedAt' = now
            /\ rollup' = [k \in Ticks |-> None]
            /\ dirty' = IF h = 0 THEN {} ELSE History
            /\ frontier' = None
            /\ lost' = {}

RestartUnsynced(h) == h # hold /\ NewWorker(h) /\ KeepRow

-----------------------------------------------------------------------------
(* states_minute_job *)

JobStart ==
  /\ job.pc = "idle" /\ hold # 0
  /\ job' = [NoJob EXCEPT !.pc = "started", !.end = Trunc(now)]
  /\ UNCHANGED <<now, events, samples, frontier, rollup, configVars, dirty, pending, tool, lost, ops>>

\* A mutation of JobRead: rows that arrived late are not looked for.
TailStart_NoLookback == IF frontier = None THEN job.end ELSE frontier

TailStart == (IF frontier = None THEN job.end ELSE frontier) - Lookback

\* filled_until is read before the refresh locks the row: a sync may come between.
JobRead ==
  /\ job.pc = "started" /\ hold # 0
  /\ job' = [job EXCEPT !.pc = "read", !.from = TailStart]
  /\ UNCHANGED <<now, events, samples, frontier, rollup, configVars, dirty, pending, tool, lost, ops>>

\* The tail is recomputed from one snapshot of the samples ...
TailRefresh ==
  /\ job.pc = "read" /\ hold # 0
  /\ job' = [job EXCEPT !.pc = "tail", !.seen = samples]
  /\ UNCHANGED <<now, events, samples, frontier, rollup, configVars, dirty, pending, tool, ops>>
  /\ lost' = (lost \cup {k \in Ticks : frontier = None /\ TailFrom <= k /\ k < Trunc(job.from)})
               \ Working'

\* ... and committed with the frontier.
TailCommit ==
  /\ job.pc = "tail"
  /\ rollup' = Refreshed(TailSpan, job.end)
  /\ dirty' = Queue
  /\ frontier' = job.end
  /\ job' = [NoJob EXCEPT !.pc = "dirty"]
  /\ UNCHANGED <<now, events, samples, configVars, pending, tool, lost, ops>>

\* The row has gone: the job has nothing to do, or fails on its foreign key.
JobFindsNothing ==
  /\ job.pc \in {"started", "read"} /\ hold = 0
  /\ job' = NoJob
  /\ UNCHANGED <<now, events, samples, frontier, rollup, configVars, dirty, pending, tool, lost, ops>>

\* The last day of a range that ends last.
UnitRefresh ==
  /\ job.pc \in {"dirty", "more"}
  /\ \E d \in dirty :
       /\ \A e \in dirty : e.to <= d.to
       /\ dirty' = dirty \ {d}
       /\ job' = [job EXCEPT !.pc = "unit", !.unit = d, !.seen = samples]
  /\ UNCHANGED <<now, events, samples, frontier, rollup, configVars, pending, tool, ops>>
  /\ lost' = lost \ Working'

UnitCommit ==
  /\ job.pc = "unit"
  /\ rollup' = Refreshed(UnitFrom, job.unit.to)
  /\ dirty' = Queue
  /\ job' = [NoJob EXCEPT !.pc = "more"]
  /\ UNCHANGED <<now, events, samples, frontier, configVars, pending, tool, lost, ops>>

\* Nothing is dirty, or the budget is spent.
JobEnd ==
  /\ job.pc = "more" \/ (job.pc = "dirty" /\ dirty = {})
  /\ job' = NoJob
  /\ UNCHANGED <<now, events, samples, frontier, rollup, configVars, dirty, pending, tool, lost, ops>>

-----------------------------------------------------------------------------
(* backfill_gaps.py, with its default window and no dry run. *)

WindowEnd == Max(events) + 1

ToolStart ==
  /\ ~tool.on /\ events # {}
  /\ ops < MaxOps /\ ops' = ops + 1
  /\ tool' = [NoTool EXCEPT !.on = TRUE, !.cursor = Min(events), !.end = WindowEnd]
  /\ UNCHANGED <<now, events, samples, jobVars, configVars, dirty, pending, lost>>

BucketEnd == Min({tool.cursor + Bucket, tool.end})

Missing == {t \in events : tool.cursor <= t /\ t < BucketEnd} \ samples

Widened(rows) ==
  IF rows = {} THEN tool
  ELSE [tool EXCEPT !.from = IF tool.from = None THEN Min(rows) ELSE Min(rows \cup {tool.from}),
                    !.to = Max(rows \cup {tool.to})]

ToolBucket ==
  /\ tool.on /\ tool.cursor < tool.end
  /\ samples' = samples \cup Missing
  /\ tool' = [Widened(Missing) EXCEPT !.cursor = BucketEnd]
  /\ UNCHANGED <<now, events, jobVars, configVars, dirty, pending, lost, ops>>

\* The range that the rows changed is queued.  It ends where the last row's hold does, but the
\* refresh leaves out the minute it ends in.
ToolEnd ==
  /\ tool.on /\ tool.cursor = tool.end
  /\ IF tool.from = None THEN UNCHANGED dirty ELSE Mark(tool.from, tool.to)
  /\ lost' = lost \cup Unseen(IF tool.from # None /\ Marks(tool.from)
                                 THEN Trunc(tool.to + hold)..tool.to + hold - 1
                                 ELSE Reach(tool.from, tool.to))
  /\ tool' = NoTool
  /\ UNCHANGED <<now, events, samples, jobVars, configVars, pending, ops>>

\* The script fails between two batches: nothing is marked.
ToolFails ==
  /\ tool.on
  /\ \E rows \in SUBSET Missing :
       /\ samples' = samples \cup rows
       /\ lost' = lost \cup Unseen(Reach(Widened(rows).from, Widened(rows).to))
  /\ tool' = NoTool
  /\ UNCHANGED <<now, events, jobVars, configVars, dirty, pending, ops>>

-----------------------------------------------------------------------------

Init ==
  /\ now = 0 /\ events = {} /\ samples = {}
  /\ hold \in Holds \cup {0} /\ noted = (hold # 0) /\ syncedAt = 0
  /\ frontier = None /\ rollup = [k \in Ticks |-> None]
  /\ dirty = {} /\ job = NoJob
  /\ pending = None /\ tool = NoTool
  /\ lost = {} /\ ops = 0

Job ==
  \/ JobStart \/ JobRead \/ TailRefresh \/ TailCommit \/ JobFindsNothing
  \/ UnitRefresh \/ UnitCommit \/ JobEnd
Tool == ToolStart \/ ToolBucket \/ ToolEnd \/ ToolFails

Next ==
  \/ Tick
  \/ \E t \in events \ samples : StoreLive(t) \/ StoreBackfill(t)
  \/ BackfillDone \/ MarkFails
  \/ \E h \in Holds \cup {0} : Restart(h) \/ RestartUnsynced(h)
  \/ Job
  \/ Tool

Spec == Init /\ [][Next]_vars

\* The database schedules the job again and again; nothing is assumed of the writers.  This is
\* WF_job(Job) written out, which spares TLC the evaluation of ENABLED: Job is enabled unless
\* the job is idle and there is no entity, and only its steps change job.
Fairness == []<>(job.pc = "idle" /\ hold = 0) \/ []<><<job' # job>>_job

FairSpec == Spec /\ Fairness

-----------------------------------------------------------------------------
(* Properties *)

Wrong == {k \in 0..Trunc(now) - 1 : hold # 0 /\ rollup[k] # InForce(samples, k)}

\* What the backfill and the script have changed and not yet marked.
Unmarked == (IF pending = None THEN {} ELSE pending..now) \cup Reach(tool.from, tool.to)

DirtyRange == [from : -Lookback..now, to : -Lookback..now]

TypeOK ==
  /\ now \in 0..MaxTime /\ samples \subseteq events /\ events \subseteq 0..now - 1
  /\ hold \in Holds \cup {0} /\ syncedAt \in 0..now
  /\ frontier \in 0..Trunc(now) \cup {None}
  /\ rollup \in [Ticks -> Ticks \cup {None}]
  /\ dirty \subseteq DirtyRange
  /\ job.pc \in {"idle", "started", "read", "tail", "dirty", "unit", "more"}
  /\ job.end \in 0..Trunc(now) \cup {None} /\ job.from \in -Lookback..now
  /\ job.unit \in DirtyRange /\ job.seen \subseteq samples /\ noted \in BOOLEAN
  /\ pending \in samples \cup {None} /\ tool.from \in samples \cup {None}
  /\ lost \subseteq Ticks

(* A closed minute that states_minute has wrong is being recomputed or will be: it is in the   *)
(* tail of the next job or in the queue, or the writer that changed it still runs and will     *)
(* queue it - also when the row is stored between the snapshot and the commit of a transaction *)
(* of the job.  The only exceptions are the ticks in lost: those of a live row that came later *)
(* than the lookback, of rows that were never marked because their writer stopped, its sync    *)
(* or its mark failed, those marked against a frontier that the job was just moving or against *)
(* none, those between a sync and a first job more than the lookback after it, and the minute  *)
(* in which the hold of the script's last row ends.  (const.py:1697 "picks up rows that        *)
(* arrived late", states_worker.py:408, backfill_gaps.py:344.)                                 *)
WrongIsOwed ==
  \A k \in Wrong : k >= TailFrom \/ Queued(k) \/ k \in Working \cup Unmarked \cup lost

(* "Minutes before it are final unless states_minute_dirty holds a range for them"             *)
(* (const.py:1572; README.md:194): a minute before the frontier that is right stays right, or  *)
(* its recomputation is assured, even if the lookback before the frontier, what the job is     *)
(* recomputing and what a running writer will still mark are left out.                         *)
FinalUnlessDirty ==
  [][\A k \in Wrong' \ Wrong : frontier # None /\ k < frontier =>
       k >= TailFrom' \/ Queued(k)' \/ k \in (Working \cup Unmarked)']_vars

(* One transaction of the job rewrites at most a day, however long the database was down or    *)
(* the history is, and wherever in a minute a dirty range starts or ends (const.py:1700 "so    *)
(* one run stays bounded").                                                                    *)
BoundedUnits ==
  [][hold' = hold =>
       LET changed == {k \in Ticks : rollup'[k] # rollup[k]}
       IN \A k, l \in changed : l - k < Day]_rollup

(* The job catches up: in the end only the ticks in lost are wrong, or those of a writer that  *)
(* never finishes, though each run of the job may have time for one unit only (const.py:1702   *)
(* "so a tiny budget still makes progress").                                                   *)
EventuallyRight == <>[](Wrong \subseteq Unmarked \cup lost)
=============================================================================
