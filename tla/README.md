# Formal model of the TimescaleDB recorder

TLA+ specifications, TLC configurations and TLAPS proofs for the Home Assistant
integration in `custom_components/timescaledb_recorder/`. Paths below are relative
to that directory.

## 1. The system

The integration copies two things from Home Assistant (HA) into TimescaleDB: every
state change, as a row of the hypertable `states`, and every change of the entity,
device, area and label registries, as versions of SCD2 dimension tables. Its
sources of concurrency are the HA event loop (callbacks and tasks, one step at a time
between awaits), two worker threads, executor jobs, and the loss of any of them.

| Component | Files | State | Operations |
|---|---|---|---|
| State listener, live queue | `state_listener.py`, `overflow_queue.py`, `worker.py` | bounded FIFO, overflow flag, drop and peak counters | put (drop newest when full), get, clear and reset |
| States worker (thread) | `states_worker.py`, `retry.py`, `db.py` | mode INIT / BACKFILL / LIVE, buffer, connection, rollup mark | request a backfill, consume either queue, flush in chunks, row-by-row fallback, dead-letter |
| Backfill orchestrator (task) | `backfill.py` | request event, t_clear, slice cursor | clear the live queue, read the watermark, fetch slices from HA's recorder, BACKFILL_DONE |
| Registry listener | `registry_listener.py` | buffer, drain task, in-flight append | buffer an event, flush, requeue, settle, flush at unload |
| Persistent queue | `persistent_queue.py` | JSONL file, in-flight item, depth, condition | put, put_many, get, task_done, wake_consumer |
| Metadata worker (thread) | `meta_worker.py`, `const.py` | connection, counters | get / write / task_done, SCD2 writes, sweep, rename, dead-letter |
| Watchdog and lifecycle | `watchdog.py`, `__init__.py` | threads, tasks, stop events, stall tracker | setup, respawn, relaunch, unload |
| Minute rollup | `const.py`, `schema.py` | dirty ranges | mark, claim, refresh (SQL procedures) |
| Repair and offline tools | `repair_scd2.py`, `backfill_gaps.py` | none of their own | verify, repair, merge, insert missing rows |
| Health | `sensor.py`, `binary_sensor.py`, `issues.py`, `notifications.py` | repair issues, counters | raise, clear, poll |
| Configuration, encodings | `config_flow.py`, `entity_filter.py`, `canonical.py` | none | validate, format |

How they interact:

* The listener puts into `live_queue` on the event loop; the states worker takes from
  it. The worker asks the loop for a cycle with `call_soon_threadsafe`; the orchestrator
  answers through `backfill_queue` (maxsize 2), the last item being `BACKFILL_DONE`.
  The orchestrator alone empties `live_queue`, and reads the watermark through the
  worker's connection.
* The only durable state of the first pipeline is the table. After any loss, the next
  cycle starts at `max(last_updated)` less a ten-minute grace.
* Registry handlers append to a list; one drain task appends batches to the file in an
  executor; the metadata worker takes the front line, writes it, and then removes it.
* The watchdog replaces a dead thread on the same queues. Unload sets the stop events,
  cancels the watchdog and the orchestrator, stops the listeners, wakes and joins the threads.

What is hard in this code is the list "hazards" of `PROJECT.json`: a request that
is consumed by a task that crashes, a worker that dies between taking an item and
storing it, half-open intervals that must meet, an append that is cut short, a wake-up that
is not remembered, an overflow during the cycle that answers an earlier one.

What makes each component correct:

* *State pipeline*: no event is out of reach of the next cycle; none stays unsettled for
  ever; a live row keeps its attributes; one request, one cycle, one answer.
* *Metadata pipeline*: changes are applied in the order they happened, each at least once,
  and an interruption costs only what only memory held.
* *SCD2 writes*: at most one open version per id; intervals do not overlap; a replay changes nothing; the
  startup snapshot brings the table back to the registry whatever was missed.
* *Retry policy*: an issue is shown while, and only while, the operation fails; a row is
  given up on only after enough consecutive permanent errors.
* *Minute rollup*: a minute whose rows changed is recomputed after the change.
* *Repair*: its result satisfies every check, invents no history, archives what it takes away, and converges.
* *Watchdog and issues*: a worker that does not record is shown to the user, and a report does not outlive its reason.

## 2. Modules

| Module | Models |
|---|---|
| `StatesIngest` | listener, live queue, states worker, orchestrator, backfill queue, HA's recorder as seen through `_fetch_slice_raw`, watchdog respawn, unload, reload, process kill |
| `IngestContract` | what the state pipeline promises, without queues, threads or cycles |
| `MCStatesIngest` | constants for TLC |
| `StatesIngestProofs`, `StatesIngestGapProofs` | theorems about `StatesIngest`: types, the handshake of a cycle; what may be missing from the table |
| `PersistentQueue` | the file-backed queue |
| `RegistryListener` | buffer and drain task; extends `PersistentQueue` |
| `MetaPipeline` | metadata worker, unload, reload and crash; extends `RegistryListener` |
| `MetaPipelineProofs` | theorems about `MetaPipeline`: types, the front of the file, losses, order |
| `MCMetaPipeline` | constants for TLC |
| `Scd2Meta` | the entity registry, its events and snapshot, and the dimension rows the metadata worker writes |
| `VersionLog` | what a reader of a dimension table may rely on; `Scd2Meta` implements it |
| `Scd2MetaProofs`, `Scd2HistoryProofs` | theorems about `Scd2Meta`: types, the refinement of `VersionLog`, replays, origins; the recorded history |
| `Scd2Repair` | the repair script on the two tables whose starts depend on each other |
| `Scd2RepairProofs` | theorems about `Scd2Repair`: every property of its run |
| `Retry` | `retry_until_success`: the bookkeeping of one wrapped call |
| `Health` | both workers' hooks, the issues, the watchdog with its stall tracker, the liveness sensors; extends `Retry` |
| `HealthProofs` | theorems about `Health`: types, stalled issues, drops |
| `MinuteRollup` | the rollup job, the refresh, the sync of an entity, the dirty marks, the late writers and `backfill_gaps.py` |
| `MinuteRollupProofs` | theorems about `MinuteRollup`: types, bounded transactions, wrong minutes |
| `MCScd2Meta`, `MCScd2Repair`, `MCHealth`, `MCMinuteRollup` | constants for TLC |

Operators whose name is a definition of the code plus a suffix (`FetchFrom_NoGrace`) are
mutations: versions of that definition with a plausible bug, which a property has to detect.
They are used by no specification.

### StatesIngest

An event is a natural number, its instant and at once its place in the order of the event
bus. `stored`, `rich` and `dead` are the events with a row, with a row that
carries the attributes of the live event, and with a dead letter. `raw` marks what in the worker's hands came from a
slice: the statement a chunk is written with follows the mode alone (`RichAfter`), so that a batch which outlived its mode would
be written with the wrong one, and `LiveRowsKept` says that none does. The FIFO queues whose content
is always in this order (`liveQ`, `buffer`) are sets of which the smallest element comes first.

The worker is a program counter over `_run_main_loop`: `top` (loop condition, `NeedsBackfill`),
`get` (blocked on the queue of its mode), `flush` (`_flush`, one chunk at a time; `after`
says where the caller continues). `InsertRows` stores any non-empty part of a
chunk at a time, which covers the whole-chunk statement as well as the row-by-row fallback
with its probes; a poison row goes to `dead` instead. `RequestBackfill` flushes first
when something is buffered, as the code does.
The orchestrator is a second program counter, with one action between any two awaits:
`BeginCycle` consumes the request, takes t_clear and empties the live queue in one event-loop
step; `ReadWatermark`, `FetchSlice`, `PutSlice`, `EndSlices`, `PutDone` follow. Blocking
`put`s are guards on the queue's length. `posted` is the pending `call_soon_threadsafe`,
`request` the asyncio event. `OrchestratorCrash` and `Relaunch` are the done-callback
and `_relaunch`. `Stop`, `CancelOrchestrator`, `StopListener`, `Restart` are the unload
and the next setup. An unload that awaits an orchestrator task which has crashed and is not relaunched yet
ends there with the task's exception (`__init__.py:508-513`): no action follows (`UnloadAborted`), and the liveness properties except it. `Kill` loses everything but the table, and also what HA's recorder had not committed.

Two timing facts of the code are assumptions of the model. `CommitLagElapsed`: five seconds after the end
of a slice HA's recorder has committed it. `GraceAssumption`: the grace is at least
a slice window (10 min against 5 min) and at least the span of one live batch. The second half is
a property of the load, not of the code: in normal operation `FLUSH_INTERVAL` cuts a batch after
seconds, but after an outage the worker drains up to 200 queued events at once, and on a quiet
installation these span more than ten minutes. Rows of one flush can then be stored out of order only
when they are retried row by row or a chunk is abandoned at shutdown, so a hole out of reach
takes a process loss in exactly that situation; the model excludes it by the assumption and does not refute it.

### PersistentQueue, RegistryListener, MetaPipeline

An item is the number of its registry event. `file` is the sequence of lines; a line that
`json.loads` refuses is `Malformed`; `openTail` says that the last line has no newline.
`WriteTorn` is an append that an error or a crash cut short: some of its lines, and perhaps part of the next
or all of it but the newline. `Appended` is the next append, which continues an open line.
Every method under the queue's lock is one action; `blocked` is the consumer in `_cond.wait`.
`append` is the executor job, which runs on when its awaiter is cancelled; `Settle` is its outcome reaching whoever
awaits it, the drain task or `_settle_inflight`. `phase` follows `async_unload_entry` and
`async_stop` to the join. `WriteItem` stands for the write of the item, which the retry policy repeats
until it succeeds or is dead-lettered; `Acknowledge` treats a None under stop_event as an
interruption, so a successful write may be repeated after the restart. `dropped` collects the items that
only memory held when it was lost, which nothing can bring back.

### Scd2Meta, VersionLog

A version is a record with the order of its insertion, an id, the registry entry it describes and
`[from, to)`. The statements of `const.py` are functions from table to table (`Closed`, `Inserted`), the
`_process_*` methods compose them (`Reconciled`, `Renamed`, `Removed`, `Swept`), and `Written` adds what the database
refuses: with the exclusion constraint any overlap, with the fallback index a second open row. A
transaction of the worker is the action `Write`; `TaskDone` follows, and a `Stop` between them replays the item.
The queue is what `MetaPipeline` shows it to be: first in first out, the front of a batch repeated after an
interrupted append (`Drain`). A stamp is later than every other unless the one fault goes to an equal or earlier
reading of the clock. While Home Assistant is down the registry changes without events; `Snapshot` is
`enqueue_snapshot` with its sweep. `truth` is the history the stamped events describe; `witnessed` and `healed` say when the table
has to equal it, or the registry.

`VersionLog` is the abstract specification: a transaction ends some open versions at one instant, adds at most one, and touches
nothing that is closed; ids have one open version, and disjoint ones under the exclusion constraint, or while
nothing was repeated and the clock did not go back. `LogSpec` is the refinement.

What the model showed on the way, all without a fault. The comment at `meta_worker.py:597`, "Queue
ordering should make this impossible", is true of a recorder that saw every change (`OrderedNothingLost`) but not
when an id was removed offline and another entry is renamed onto it before the first sweep: the rename's close hits nothing and
its insert finds the stale open row. After an offline rename followed by a second one during bootstrap two ids are open for one
entry until the sweep. A registry that is empty at the snapshot is never swept (the guard against a registry
that failed to load), so `healed` asks for an entry.

### Scd2Repair

A row is a version with its ctid; ids do not interact, so one entity and one device stand for all. The
window order, the plans and the checks are operators named after their SQL; `Normalised`, `AlignPlan`, `ExtendPlan`, `DevicePlan`
and `Merged` are the statements of one transaction, and `RepairEntities`, `RepairDevices`, `MergeGaps`, `Enforce` the transactions.
`LegacyVersion` builds every table of at most `MaxRows` rows, inverted, touching and tied intervals included. `Abort` ends the first run between two
transactions. Properties compare the tables with `backup`, which is what the script itself keeps.

`README.md:567`, "A second `--apply` changes nothing", is not true (`SecondRunChangesNothing`, run `scd2_second_run`): when the first
run moves a device's start back after the entities were aligned, the second aligns an entity to it;
and when its merge deletes a version of another payload that shared its start with two twins, the second collapses the twins. `LaterRunsSettle` is what holds instead:
there is no third way, and the third run finds nothing to do. `const.py:1247-1250`, the preview and the run "give the same answer", does not hold either
when an alignment is pending. Simplified: an entry has one `created_at`, that of its first version, while the SQL reads it from each version's `extra`; and
payloads are equal or not, while the merge leaves `modified_at` out of the comparison that the collapse makes with it. Left out: `valid_from_sanity`, which stops the script before it starts; the canonicalization guard; the
fallback of `add_constraints` without btree_gist; `--no-constraints`; what the metadata worker writes between the transactions of a run; areas and labels, which are `RepairDevices` without its plan.

### Retry, Health

`Retry` is a record of the wrapper's local variables and what each attempt makes of it; ages are counted in ticks up to the
threshold they are compared with. In `Health` the action `Fail` is one iteration of the loop that raised: the counters, then `on_poison`
(for a chunk: the rows one by one, or a veto of the probe; for a row or an item: the drop), then
the hooks and the sleep. Inside a chunk's `on_poison` every row is a wrapped call with the same hooks, which
is why `chunk` remembers whether the outer call had stalled. Hooks post to the event loop in order (`posted`, pairs of what to do and the issue); `Deliver` creates or
deletes the issue. The watchdog is `WatchdogTick`, `Respawn` after its sleep, and `CheckStalls`. The age of a call is
`DbCallTracker`'s, that of the wait for backfill data `backfill_wait_since`.

`kind` is what a worker's call is: its setup (for the metadata worker the migration), a write, or the mark of the minutes a backfill touched. The states worker's
setup and its mark have no hooks (`Hooked`, `states_worker.py:175-210`): they may fail for ever without an issue, and the properties about issues are about the others.
The metadata worker drops an item that a constraint refuses at once, without an exception (`Succeed` with `refused`), so `DropAfterSteadyFailures` is about the states worker.

`orphans` names the issues whose raiser is gone: a worker that dies or an entry that is reloaded while stalled leaves
`<worker>_worker_stalled`, or `ingestion_stalled`, behind, and what comes after it does not know of the issue. `StallShown` and `ReportIsWithdrawn` are about a raiser
that lives on. `README.md:423-425` promises more, that each issue clears on the next success or when the worker moves again: that is `IssuesClear`, which
the run `health_issues` refutes.
The shared `db_unreachable` is cleared by the recovery of either worker.

### MinuteRollup

Time is in ticks, a reading is the tick it was taken at, and the rollup keeps for every tick the reading in force,
which is what `integral` and `covered_seconds` sum. `Refreshed` is `states_minute_refresh` with its carry-in and both truncations. The job
reads `filled_until` (`JobRead`) before the refresh locks the row; the tail and each dirty unit are transactions of two steps, the snapshot
the refresh reads (`TailRefresh`, `UnitRefresh`) and the commit (`TailCommit`, `UnitCommit`), between which rows are stored and marked while a sync waits
for the lock; after any unit the budget may be spent (`JobEnd`). `Restart` is the end of one states
worker and the sync of the next, which may change the hold, add or remove the entity; `RestartUnsynced` is a sync that fails and is only logged, after which `noted`, the worker's
configuration, and the entity's row differ. `BackfillDone` marks what the backfill touched; `MarkFails` is the worker giving up on that. `ToolBucket` is one bucket of `backfill_gaps.py`.

`lost` collects the ticks nothing will make the job look at again. They are: a live row stored more than the 15 minutes of the lookback
after it was taken (an outage of the connection: the live queue is flushed without a mark while the job kept running); rows
whose writer stopped before its mark, whose mark failed, or that the worker did not know it had to mark; rows marked while `filled_until` was NULL or not yet moved past them by the job that
was just running; a first job run later than the lookback after a
sync; and the minute in which the hold of the script's last row ends, since the refresh truncates the end of a range. `WrongIsOwed` says
that there are no others. `README.md:194` of the repository says that minutes before `filled_until` "are final" (and `const.py:1572` that they are unless a range is queued for them): that is
`FinalUnlessDirty`, which has no such exception, and the run `minute_final` refutes it.

## 3. Runs

| Run | Configuration | States | Shows |
|---|---|---|---|
| `ingest` | `MCStatesIngest.cfg` | 200 thousand | the safety properties, `LiveRowsKept`, the refinement of `IngestContract`, and under `FairSpec` `EventuallySettled` and `OverflowCleared` |
| `ingest_death` | `MCStatesIngestDeath.cfg` | violation | a death in MODE_BACKFILL breaks `GapWithinGrace` |
| `ingest_fresh` | `MCStatesIngestFresh.cfg` | violation | the first cycle on an empty table breaks `LiveHoldsUnsettled` |
| `meta_pipeline` | `MCMetaPipeline.cfg` | 450 thousand | order, bounded loss, and delivery of registry changes |
| `meta_torn` | `MCMetaPipelineTorn.cfg` | violation | a retried append loses an item (`NothingLost`) |
| `scd2_meta` | `MCScd2Meta.cfg` | 320 thousand | faithful history, harmless replay, healing snapshot, refinement of `VersionLog` |
| `scd2_repair` | `MCScd2Repair.cfg` | 1.9 million | a repaired table is clean, keeps its labels and archives its losses; the third run changes nothing |
| `scd2_second_run` | `MCScd2RepairSecond.cfg` | violation | the second run moves a start (`SecondRunChangesNothing`) |
| `minute_rollup` | `MCMinuteRollup.cfg` | 1.7 million | wrong minutes are owed or named, transactions are bounded, the job catches up |
| `minute_final` | `MCMinuteRollupFinal.cfg` | violation | a live row that comes late changes a final minute (`FinalUnlessDirty`) |
| `health` | `MCHealth.cfg` | 280 thousand | issues, stall reports and sensors follow the workers; no row is dropped by an outage |
| `health_issues` | `MCHealthIssues.cfg` | violation | a reload lets an issue outlive its reason (`IssuesClear`) |

**Bounds.** `ingest`: five events of which three precede the start and one is stored, a live queue of one, a
backfill queue of two, chunks of one row, batches and slices of two, a grace of one, one poison row, and any two of a
worker death, an orchestrator crash, a reload, a kill and a purge in the same behaviour, or the first three of them. That is the
smallest instance in which a cycle has several slices, a batch several chunks, the live queue
overflows during a cycle, the grace is shorter than what a cycle fetches and a hole within it meets a later cycle and a later row, and a fault can hit a
cycle that answers another fault. `meta_pipeline`: three items, so that a batch of two can meet a file or a buffer that
is not empty, and one fault of every kind; FIFO order and a merged line need no more than three.
The counters of faults, `MaxEvent` and `MaxItems` are the only bounds on behaviours.

`scd2_meta`: two ids are what a rename needs; two changes, one fault and one stop, in any order, contain
an offline change and its snapshot, or an event and its replay; `FreeCloses` 0 lets the sweep be refused. `scd2_repair`: three rows at three
instants and infinity hold every relation of two intervals and a third that intervenes, and an entity with its device. Both entries are
registered at the middle instant, so that the first run can move a device back and the second an entity after it, and convergence needs
a third; the first may be aborted. `minute_rollup`: two ticks a minute, a lookback and a
"day" of one minute and a hold of one minute or one and a half, so that carry-in, day cap, unaligned ends and the lookback all bite
within five ticks, around one restart or one run of the script. `health`: thresholds of
three attempts for a stall and two for poison, one tick each for the others, so that they can be reached in either order; the
worker with the chunk is the one with more behaviour, and the theorems hold for both. An attempt ends
there only when the jobs of the attempt before have run (`MaxPosted` 0); what a slower event loop can do to
the issues is covered by `StallsAreShown` and `DropsAreSteady` for every `MaxPosted`.

The runs are sized to finish within minutes on a slow machine. The properties were also checked by hand on larger instances:
`ingest` for safety with all five faults in one behaviour (1 million states), `scd2_meta` with three changes (6.1 million), with three ids and with `FreeCloses` 1, `scd2_repair`
with every other order of the two registrations (5.7 million) and over four rows at two instants (670 thousand), `minute_rollup` for safety with six ticks (8.3 million),
`health` with a waiting job (1 million).

**Deadlock** is checked in `ingest_death`, `ingest_fresh` and the two runs of `Health`. In `ingest` an unload that runs into a crashed orchestrator leaves nothing more
to run (`EventuallySettled` shows that everything else goes on). In the metadata runs the system comes to rest when no registry event is
left to fire and the worker waits in `get()`; in `scd2_meta`, `scd2_repair` and `minute_rollup` when changes, runs of the script, or time are used up.

**Fairness.** Weak fairness for each thread, each task and each event-loop callback: the operating
system schedules the worker, the loop runs what is ready, the watchdog polls every ten
seconds, `_relaunch` sleeps five. HA's recorder commits what it has queued. An unload is followed
by another setup (otherwise nothing more is promised). A database write is retried for ever, and the fairness of
`InsertRows` and `WriteItem` says that it succeeds in the end, that is, that outages end. Faults, purges, registry
events and state changes have no fairness. In `Health` the event loop, the watchdog's cadence, time and the end of a sleep are
fair; a database call is not, it may last for ever, and the wait for backfill data too. In `MinuteRollup` only the job is fair,
which TimescaleDB schedules every minute; its formula is the weak fairness of `Job` written without ENABLED.

**Violations.** The six violation runs are disagreements between the code and its documentation or comments,
each quoted in "findings". In `ingest` the worker may therefore die in any mode but BACKFILL
(`DeathModes`), and the table is not empty at the start; `LiveHoldsUnsettled` is about that case.
`FirstWriteInOrder` is only promised while at most one append was interrupted: after a torn line, a second append that fails
in turn has its first item swallowed by the open line and retried behind the others.

## 4. Proofs

All theorems hold for every value of the constants that the module's ASSUME allows, so for real queue sizes, grace, thresholds and
days, and for any number of events, faults and restarts. Each inductive invariant was checked with TLC before it was proved.

`StatesIngestProofs`:

* `TypeCorrect`: `Spec => []TypeOK`. `Types` is inductive by itself. Its hard parts are the bounds of the
  queues, for which `PutLiveBound` and `LiveQueueShrinks` reason about cardinalities, and `Least` and
  `Greatest`, which exist by well-foundedness (`LeastInSet`, `GreatestInSet`). The sizes of a batch and a chunk (`BatchesFit`) are not: that a buffer is
  below the threshold whenever the worker takes another event depends on where the thread is and in which mode. `HandsInv` says what it can hold at each place.
* `CyclesAreOwned`: if no worker dies in MODE_BACKFILL then `Spec => []CycleOwnership`. The property is not
  inductive: a request can only stay unique if a worker that is about to post one is known
  not to have one already. `HandshakeInv` adds this for each place a cycle can be (posted, requested, running,
  crashed, done), together with what the worker's `after` and a dead worker's mode say.
* `LiveRowsStay`: `Spec => LiveRowsKept`, also from `HandsInv`: what a worker holds in MODE_BACKFILL are rows of slices only, and elsewhere it holds none of these, so the statement
  that the mode selects is the right one for every row of the chunk (`RichStep`).

`StatesIngestGapProofs`, about what may be missing from the table: `NoGapBeyondGrace` (`GapWithinGrace`), `CursorCovers` (`CursorCoverage`),
`LiveEventsHeld` (`LiveHoldsUnsettled`) and `ImplementsContract` (`RefinesContract`). They assume what the violation runs show to be
necessary: no worker dies in MODE_BACKFILL, and the table has a row at the start. The four share one inductive
invariant, `GapInv`, because each needs the others: that a hole is within the grace of the watermark must also be true of the rows in the worker's hands (`Reach`), hence of every
queued slice with respect to what does not come before it (`QueueReach`) and of the slice being fetched (`FetchReach`); these follow from
where the cursor stands (`Cursor`), and that from the fact that the live queue holds everything since t_clear unless it overflowed (`Cleared`, `DoneHolds`), which
is what a worker that goes LIVE starts from (`LiveHolds`). A queue that overflows drops the newest, so what a worker takes from it is
older than what is lost (`LiveGet`, and the contiguity of queue and batch). One lemma per action and part; `GapInvariant` combines them.

`MetaPipelineProofs`:

* `TypeCorrect` and `FrontStaysInFlight`: `TypeOK` and `FrontIsInFlight` are inductive together with what the worker holds (`HandInv`) and what a
  flush does (`FlushInv`). `PartOf` describes the file after an append that was cut short.
* `LossIsBounded`: `Spec => []LossBounded`. `Effect` sums up each step as one of seven changes to the items (an item arrives, is taken, written or
  finished, a batch lands or is torn, ...), so that the invariants after it need seven cases and not thirty. `AccountInv` counts: an item that is in no place any more has its own
  interrupted write, besides the one that left the open line.
* `FirstWritesAreInOrder`: `Spec => FirstWriteInOrder`. `OrderInv`: while at most one append was cut short, before a line still to be written stand all older items that
  are pending. `MemoryInv` orders buffer and append.

`Scd2MetaProofs`, for any finite set of ids:

* `TypeCorrect`: `Spec => []TypeOK`, through `TypeInv`, which types the pending items and the history variables.
* `ImplementsLog`: `Spec => LogSpec`. Every transaction is an `Effect` on the table: it ends some open versions at the item's stamp and adds at most one. Row numbers are dense
  (`Numbered`), so that a new version is really new; without faults the stamps of the pending items rise and no version ended after any of them (`Ordered`), from which
  the fallback index, which does not look at overlaps, keeps them out all the same.
* `ReplaysChangeNothing`: `Spec => []ReplayNoOp`. One idempotence lemma for each kind of item, under either rule.
* `EntriesHaveOneOrigin`: `Spec => []OneOrigin`. `OriginInv`: a uuid has one time of creation, in the registry, in the table and in what is pending; only a registration is stamped
  at that time (`Birth`), nothing pending comes before it, and while it is pending the table knows the entry by its id alone. A version that starts at the creation without being
  stamped then is the first of its entry (`Stems`). Rests on `MetaAssumption` keeping ids and numbers apart, which makes the uuids of `Init` and `RegCreate` distinct.

`Scd2HistoryProofs`: `TellsWhatHappened` (`RecordedFaithfully`) and `RefusesNothing` (`OrderedNothingLost`). While `witnessed`, the history
is a `Story`: non-overlapping versions, the open ones being the registry. `Told` says that the pending items lead from the table to that history through legal tables,
nothing dead-lettered on the way. A change of the registry appends one item that tells the story's next step (`With`, `Instead`, `Without` are
the ways a registry changes); `Write` takes the first step of the chain, which a replay repeats without effect; a snapshot appends items that tell nothing new.
`SnapshotsHeal` (`SnapshotHeals`) needs none of that history, since it is about a table that may be wrong. `FitInv`: nothing in table or queue is later than the
latest stamp, so the items of a snapshot stamped in order are later than all of them and the database accepts what they do (`LatestAccepted`).
`HealInv`: since the last snapshot, writing the pending items (`Leads`) turns the table into one that agrees with the registry, or refuses a sweep. A snapshot
establishes it: the items before it may do anything, each reconcile then makes the open version of its entry right and leaves the others (`SnapshotLeads`, by
induction over the entries with `Climb`), and the sweep closes what no entry covers. A later change keeps it
because its item turns a table that agrees with the old registry into one that agrees with the new.

`Scd2RepairProofs`, for any number of rows, runs, states and merge passes; every property of `scd2_repair` is a theorem:

* `TypeCorrect`, `RepairsAreClean`, `ConstraintIsKept`: `Spec => []Inv`. The four checks of the verification, window functions among them, hold together exactly if the versions are `Apart`
  (`CleanIsApart`): none ends before it starts, each ends before the next start, and of several with one start all but one are empty. What the rebuild and the clamp
  do to a row is one function of its table (`Cut`), so any table becomes apart (`NormalisedApart`); a plan that moves a first version to a start before its end and before the next start keeps that
  (`MovedApart`), and so does a pass of the merge (`PassApart`). The recursion of `Merged` is unfolded once, in `MergedPasses`: a sequence of passes exists for every bound (`PassesExist`, by
  `Climb`) and ends in it, so that what one pass keeps all of them keep.
* `LossesAreArchived`, `LossIsReported`, `LabelsAreKept`, `NothingIsInvented`: `Spec => [](Inv /\ HistInv)`. `HistInv` relates the tables to the backup at each step of a run: which versions are
  accounted for, which payload a state lies under, where each version stems from, and what is covered that was not. Each transaction composes with it: `EntitiesShape` shows that of the two moves of a first version at most one
  happens and that nothing is left to extend, `MergeKept` what a merged version covers.
* `RerunsSettle`: `Spec => LaterRunsSettle`. `SettleInv`: a complete run leaves tables that are `Steady`, the next one makes them `Still`. Steady looks at the table after the collapse that
  a later run would do; that a collapse brings no new pair to merge (`KeptPairs`) and that no pass touches the versions of the earliest start (`MergedFirsts`) is what makes the argument close.
  The proof replaced an earlier form of the property, true of three rows only, which overlooked the twins.

`HealthProofs`:

* `TypeCorrect`: `Spec => []TypeOK`.
* `StallsAreShown`: `Spec => []StallShown`. The invariant looks past the event loop: `Visible` is whether the issue will exist once the posted jobs
  have run, and `ShowInv` ties it to the streak of the worker, its stalled call or the chunk around its row calls. `ShowStep` reduces a step of one worker to what it posts and
  what its call and its chunk become.
* `DropsAreSteady`: `Spec => DropAfterSteadyFailures`, with the metadata worker beside the states worker. `SteadyInv`: the age of a streak of permanent failures is at most the time since the last transient one.

`MinuteRollupProofs`:

* `TypeCorrect`: `Spec => []TypeOK`, through `Typed`, which adds that a started job has an end.
* `UnitsAreBounded`: `Spec => BoundedUnits`. A refresh changes only what it recomputes (`RefreshChanges`), `Trunc` is monotone (`TruncMonotone`), a day back is a
  whole number of minutes back (`DayBack`), and both transactions of the job start at most a day before they end.
* `WrongIsAlwaysOwed`: `Spec => []WrongIsOwed`. The inductive invariant is `Kept`. It looks past the running transaction: `Planned` is the table as its commit will
  leave it, from the snapshot it has taken, and `PlannedIsOwed` says that what will be wrong then is in the tail, the queue, a writer's range or `lost` all the same, so rows stored between
  snapshot and commit cannot slip through. Beside it, what a job has read of
  the frontier is still true when it uses it (or the frontier has been reset), and no range is left from an ended script. The argument rests on two
  lemmas about the reading in force. `RefreshIsRight`: in the range it recomputes, the refresh finds the same reading with one
  carried-in reading as with all of its snapshot, since an earlier one is either hidden by it or out of its hold. `InForceChanges`: more readings change it only
  from the first of them to the end of the last one's hold. `KeptNext` then has one case per action: a writer's rows are in its
  range or in `lost`, and the tail or the unit of a job leaves behind only what it queues again.

So every safety property of the passing runs is a theorem. Only model-checked: liveness (`EventuallySettled`, `OverflowCleared`, `EventuallyWritten`, `EventuallyRight` and the last four properties of `Health`), which
needs ENABLED or fairness and is out of the prover's reach.

## 5. Not modelled

* A zombie worker: `join(30)` that times out leaves a thread behind. The wake-up of an unload can be lost: the metadata worker looks at `stop_event` (`meta_worker.py:340`),
  `wake_consumer` runs, and only then does the worker enter `get()`, which waits without looking again (`persistent_queue.py:170`), so the unload waits its 30 s.
  The model reaches that state; `JoinWorker` lets the unload go on without the
  worker blocked in `get()`, which touches nothing afterwards; a states worker stuck in a database call is taken to end.
* A slice fetch that the shutdown interrupts returns None and is put as a slice; the worker may fail on it while it stops.
* The worker's connection, which executor threads of the orchestrator share.
* The other tasks an unload awaits (`__init__.py:501-522`: watchdog, overflow and recorder watcher); if one of them had crashed, its exception would end the unload like the orchestrator's.
* Metadata writes while the repair script runs: its transactions lock the tables, but what the worker writes between two of them is not in `Scd2Repair`.
* Events whose `last_updated` lies behind others already fired (clock steps), and the entity set of a cycle.
* The overflow watcher (`__init__.py:164`), which polls the flag and can miss one that was set, cleared and set again, and the recorder watcher.
* Rollback of a failed setup.
* The polled sensors, the drop counters, the wording of issues and notifications.
* The probe's choice of rows, and statistics of the states worker.
* DDL, the one-time canonicalization of two columns (`migrations.py`), configuration and formatting: sequential, without state between
  calls, and covered by unit tests.
* The read-only reports and the command line of the two scripts; `backfill_gaps.py` with an explicit window, a filter or `--dry-run`.

## 6. Plan

Done: the two pipelines, the SCD2 writes and their repair, retry and health, the minute rollup; the theorems of section 4. Next, in this order:

1. `Lifecycle`: setup rollback and the two watchers.
2. The states worker's connection, shared with the orchestrator's executor reads.
