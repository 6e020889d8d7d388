--------------------------- MODULE StatesIngest ---------------------------
(***************************************************************************)
(* The state-history pipeline of the recorder: the state_changed listener, *)
(* the bounded live queue, the states worker thread with its three modes,  *)
(* the backfill orchestrator task on the event loop, the backfill queue    *)
(* between them, Home Assistant's own recorder as the source of a          *)
(* backfill, and the watermark max(last_updated) of the states table.      *)
(*                                                                         *)
(* An event is a natural number: the instant it was last updated, which is *)
(* also its position in the order of the event bus.  Its row is identified *)
(* by that number, as a row of the table is by its unique index.  Queues   *)
(* that are FIFO in this order (live_queue, a worker's buffer) are sets    *)
(* whose next element is the smallest one.                                 *)
(***************************************************************************)
EXTENDS Naturals, Sequences, FiniteSets

CONSTANTS
  MaxEvent,        \* bound: events fired in a behaviour
  InitialStored,   \* events 1..InitialStored are in the table at the start
  InitialNow,      \* events 1..InitialNow were fired before the start
  LiveMax,         \* LIVE_QUEUE_MAXSIZE
  BackfillMax,     \* BACKFILL_QUEUE_MAXSIZE
  BatchMax,        \* BATCH_FLUSH_SIZE
  ChunkSize,       \* INSERT_CHUNK_SIZE
  SliceWindow,     \* _SLICE_WINDOW, in instants
  Grace,           \* _LATE_ARRIVAL_GRACE, in instants
  Poison,          \* events whose row the database never accepts
  DeathModes,      \* modes in which the worker thread may die
  FaultCounts      \* bound: how often each kind of fault may strike in a behaviour

Event == 1..MaxEvent
Modes == {"INIT", "BACKFILL", "LIVE"}
FaultKinds == {"death", "orchestrator", "stop", "kill", "purge"}

ASSUME BoundsAssumption ==
  /\ MaxEvent \in Nat
  /\ InitialNow \in 0..MaxEvent
  /\ InitialStored \in 0..InitialNow
  /\ LiveMax \in Nat \ {0}
  /\ BackfillMax \in Nat \ {0}
  /\ ChunkSize \in Nat \ {0}
  /\ SliceWindow \in Nat \ {0}
  /\ BatchMax \in Nat \ {0}
  /\ Grace \in Nat
  /\ Poison \subseteq Event
  /\ DeathModes \subseteq Modes
  /\ FaultCounts \subseteq [FaultKinds -> Nat]

\* The late-arrival grace spans a slice (10 min against 5 min) and a live batch:
\* rows of one flush may land in any order, so a shutdown in the middle of it
\* leaves holes anywhere inside it.
ASSUME GraceAssumption == SliceWindow <= Grace + 1 /\ BatchMax <= Grace + 1

VARIABLES
  now,          \* events 1..now were fired
  committed,    \* events 1..committed were committed by HA's recorder
  oldest,       \* the recorder has purged the events before this one
  gone,         \* events HA's recorder lost in a crash of the process
  stored,       \* events with a row in the states table
  rich,         \* those whose row has the attributes of the live event
  dead,         \* rows given up on and dead-lettered
  liveQ,        \* live_queue
  overflowed,   \* live_queue.overflowed
  backfillQ,    \* backfill_queue: raw slices and BACKFILL_DONE
  posted,       \* a call_soon_threadsafe(backfill_request.set) is pending
  request,      \* backfill_request
  wpc,          \* where the worker thread is in its loop
  mode,         \* mode / _last_mode of the current worker thread
  buffer,       \* rows of the worker's buffer not yet handed to a chunk
  chunk,        \* rows of the chunk being inserted
  raw,          \* events whose row in the worker's hands was made from a recorder slice
  after,        \* what the worker does once its flush is complete
  opc,          \* where the orchestrator task is
  tClear,       \* t_clear of the running cycle (0 when none runs)
  sliceStart,   \* slice_start of the running cycle (0 when none runs)
  fetched,      \* raw: the slice fetched and not yet put
  listening,    \* the state_changed listener is registered
  stop,         \* stop_event and loop_stop_event
  faults        \* how often each kind of fault struck

recorderVars == <<now, committed, oldest, gone>>
tableVars    == <<stored, rich, dead>>
queueVars    == <<liveQ, overflowed, backfillQ>>
requestVars  == <<posted, request>>
workerVars   == <<wpc, mode, buffer, chunk, raw, after>>
orchVars     == <<opc, tClear, sliceStart, fetched>>
controlVars  == <<listening, stop, faults>>
vars == <<recorderVars, tableVars, queueVars, requestVars, workerVars, orchVars,
          controlVars>>

Done == [kind |-> "done", rows |-> {}]
Slice(S) == [kind |-> "slice", rows |-> S]
Items == {Done} \union [kind : {"slice"}, rows : SUBSET Event]

Least(S) == CHOOSE n \in S : \A m \in S : n <= m
Greatest(S) == CHOOSE n \in S : \A m \in S : m <= n
Lower(a, b) == IF a < b THEN a ELSE b
Higher(a, b) == IF a < b THEN b ELSE a

\* SELECT max(last_updated) FROM states, 0 for the NULL of an empty table.
Watermark == IF stored = {} THEN 0 ELSE Greatest(stored)

\* rows[i : i + INSERT_CHUNK_SIZE] of a buffer in time order.
FirstRows(rows) ==
  {n \in rows : Cardinality({m \in rows : m <= n}) <= ChunkSize}

-----------------------------------------------------------------------------
(* The event bus, the listener and HA's recorder.                          *)

\* A mutation of PutLive: the size check is off by one.
PutLive_OffByOne(n) ==
  IF Cardinality(liveQ) <= LiveMax
  THEN liveQ' = liveQ \union {n} /\ UNCHANGED overflowed
  ELSE overflowed' = TRUE /\ UNCHANGED liveQ

\* OverflowQueue.put_nowait: a full queue drops the newest event and raises the flag.
PutLive(n) ==
  IF Cardinality(liveQ) < LiveMax
  THEN liveQ' = liveQ \union {n} /\ UNCHANGED overflowed
  ELSE overflowed' = TRUE /\ UNCHANGED liveQ

\* A state changes; the listener's callback runs within the same event-loop step.
FireEvent ==
  /\ now < MaxEvent
  /\ now' = now + 1
  /\ IF listening THEN PutLive(now + 1) ELSE UNCHANGED <<liveQ, overflowed>>
  /\ UNCHANGED <<committed, oldest, gone, tableVars, backfillQ, requestVars,
                 workerVars, orchVars, controlVars>>

\* HA's recorder commits what it has queued, in order.
RecorderCommit ==
  /\ committed < now
  /\ committed' = committed + 1
  /\ UNCHANGED <<now, oldest, gone, tableVars, queueVars, requestVars, workerVars,
                 orchVars, controlVars>>

Strike(kind) ==
  /\ faults' = [faults EXCEPT ![kind] = @ + 1]
  /\ faults' \in FaultCounts

\* HA's nightly purge of the recorder's oldest history.
RecorderPurge ==
  /\ Strike("purge")
  /\ oldest <= committed
  /\ oldest' = oldest + 1
  /\ UNCHANGED <<now, committed, gone, tableVars, queueVars, requestVars, workerVars,
                 orchVars, listening, stop>>

-----------------------------------------------------------------------------
(* The states worker thread.                                               *)

WorkerAt(l) == wpc = l
Goto(l) == wpc' = l

\* _setup_schema, retried until it succeeds or the shutdown interrupts it.
SetupSchema ==
  /\ WorkerAt("setup")
  /\ Goto("top")
  /\ UNCHANGED <<recorderVars, tableVars, queueVars, requestVars, mode, buffer, chunk,
                 raw, after, orchVars, controlVars>>

\* Loop top after stop_event: one last flush of the buffer, then the thread ends.
LeaveLoop ==
  /\ WorkerAt("top") /\ stop
  /\ IF buffer = {} THEN Goto("exited") /\ UNCHANGED after
                    ELSE Goto("flush") /\ after' = "exit"
  /\ UNCHANGED <<recorderVars, tableVars, queueVars, requestVars, mode, buffer, chunk,
                 raw, orchVars, controlVars>>

\* A mutation of NeedsBackfill: only a new thread asks for a cycle.
NeedsBackfill_OnlyAtStart == mode = "INIT"

NeedsBackfill == mode = "INIT" \/ (mode = "LIVE" /\ overflowed)

\* Ask the event loop for a backfill cycle and wait for it in MODE_BACKFILL.
PostRequest ==
  /\ posted' = TRUE
  /\ mode' = "BACKFILL"
  /\ Goto("top")

\* Loop top in MODE_INIT or on an overflow: flush what is buffered, then request.
RequestBackfill ==
  /\ WorkerAt("top") /\ ~stop /\ NeedsBackfill
  /\ IF buffer = {}
     THEN PostRequest /\ UNCHANGED after
     ELSE /\ Goto("flush") /\ after' = "request"
          /\ UNCHANGED <<posted, mode>>
  /\ UNCHANGED <<recorderVars, tableVars, queueVars, request, buffer, chunk, raw,
                 orchVars, controlVars>>

\* Loop top otherwise: block on the queue of the current mode.
EnterGet ==
  /\ WorkerAt("top") /\ ~stop /\ ~NeedsBackfill
  /\ Goto("get")
  /\ UNCHANGED <<recorderVars, tableVars, queueVars, requestVars, mode, buffer, chunk,
                 raw, after, orchVars, controlVars>>

\* A mutation of TimeoutFlushes: a batch is only flushed at its size threshold.
TimeoutFlushes_Never == FALSE

\* A get that times out flushes what MODE_LIVE has buffered.
TimeoutFlushes == mode = "LIVE" /\ buffer # {}

\* backfill_queue.get(timeout=5) and live_queue.get(timeout=remaining) on an empty
\* queue.
GetTimeout ==
  /\ WorkerAt("get")
  /\ IF mode = "BACKFILL" THEN backfillQ = <<>> ELSE liveQ = {}
  /\ IF TimeoutFlushes
     THEN Goto("flush") /\ after' = "loop"
     ELSE Goto("top") /\ UNCHANGED after
  /\ UNCHANGED <<recorderVars, tableVars, queueVars, requestVars, mode, buffer, chunk,
                 raw, orchVars, controlVars>>

\* MODE_BACKFILL, a raw slice: convert, sort and flush its rows.
GetSlice ==
  /\ WorkerAt("get") /\ mode = "BACKFILL"
  /\ backfillQ # <<>> /\ Head(backfillQ).kind = "slice"
  /\ backfillQ' = Tail(backfillQ)
  /\ buffer' = buffer \union Head(backfillQ).rows
  /\ raw' = raw \union Head(backfillQ).rows
  /\ Goto("flush") /\ after' = "loop"
  /\ UNCHANGED <<recorderVars, tableVars, liveQ, overflowed, requestVars, mode, chunk,
                 orchVars, controlVars>>

\* MODE_BACKFILL, BACKFILL_DONE: the cycle is over, resume the live queue.
GetDone ==
  /\ WorkerAt("get") /\ mode = "BACKFILL"
  /\ backfillQ # <<>> /\ Head(backfillQ).kind = "done"
  /\ backfillQ' = Tail(backfillQ)
  /\ mode' = "LIVE"
  /\ Goto("top")
  /\ UNCHANGED <<recorderVars, tableVars, liveQ, overflowed, requestVars, buffer, chunk,
                 raw, after, orchVars, controlVars>>

\* MODE_LIVE: buffer one event; flush at the size threshold, or because the flush
\* interval has elapsed, which may be so at any get.
GetLive ==
  /\ WorkerAt("get") /\ mode = "LIVE"
  /\ liveQ # {}
  /\ liveQ' = liveQ \ {Least(liveQ)}
  /\ buffer' = buffer \union {Least(liveQ)}
  /\ \/ Goto("flush") /\ after' = "loop"
     \/ /\ Cardinality(buffer') < BatchMax
        /\ Goto("top") /\ UNCHANGED after
  /\ UNCHANGED <<recorderVars, tableVars, overflowed, backfillQ, requestVars, mode, chunk,
                 raw, orchVars, controlVars>>

\* _flush takes the next chunk of the buffer.
TakeChunk ==
  /\ WorkerAt("flush") /\ chunk = {} /\ buffer # {}
  /\ chunk' = FirstRows(buffer)
  /\ buffer' = buffer \ FirstRows(buffer)
  /\ UNCHANGED <<recorderVars, tableVars, queueVars, requestVars, wpc, mode, raw, after,
                 orchVars, controlVars>>

\* A mutation of RichAfter: both modes write with DO UPDATE.
RichAfter_BackfillOverwrites(S) == (rich \ (raw \intersect S)) \union (S \ raw)

\* The statement is chosen by _last_mode, not by where a row came from: INSERT_LIVE_SQL (DO
\* UPDATE) replaces the row in the table by whatever row it is given; INSERT_SQL (DO NOTHING)
\* only adds rows.
RichAfter(S) ==
  IF mode = "LIVE" THEN (rich \ (raw \intersect S)) \union (S \ raw)
                   ELSE rich \union (S \ (raw \union stored))

\* _insert_chunk: rows of the chunk reach the table, all at once or, when the chunk
\* is retried row by row, some before the others in an order the probe chooses.
\* A poison row is dead-lettered.
InsertRows ==
  /\ WorkerAt("flush") /\ chunk # {}
  /\ \E S \in SUBSET chunk \ {{}} :
       /\ chunk' = chunk \ S
       /\ stored' = stored \union (S \ Poison)
       /\ rich' = RichAfter(S \ Poison)
       /\ dead' = dead \union (S \intersect Poison)
  /\ UNCHANGED <<recorderVars, queueVars, requestVars, wpc, mode, buffer, raw, after,
                 orchVars, controlVars>>

\* A chunk that fails after stop_event is abandoned; _flush still tries the next one
\* (all of them fail when the connection is gone).
AbandonChunk ==
  /\ WorkerAt("flush") /\ chunk # {} /\ stop
  /\ chunk' = {}
  /\ UNCHANGED <<recorderVars, tableVars, queueVars, requestVars, wpc, mode, buffer, raw, after,
                 orchVars, controlVars>>

\* The flush is complete: continue as the caller of _flush does.
EndFlush ==
  /\ WorkerAt("flush") /\ chunk = {} /\ buffer = {}
  /\ after' = "loop" /\ raw' = {}
  /\ CASE after = "request" -> PostRequest
       [] after = "exit"    -> Goto("exited") /\ UNCHANGED <<posted, mode>>
       [] OTHER             -> Goto("top") /\ UNCHANGED <<posted, mode>>
  /\ UNCHANGED <<recorderVars, tableVars, queueVars, request, buffer, chunk, orchVars,
                 controlVars>>

\* An exception outside the retry scope ends the thread; its buffer dies with it.
WorkerDies ==
  /\ wpc \in {"setup", "top", "get", "flush"}
  /\ mode \in DeathModes
  /\ Strike("death")
  /\ Goto("dead")
  /\ buffer' = {} /\ chunk' = {} /\ raw' = {} /\ after' = "loop"
  /\ UNCHANGED <<recorderVars, tableVars, queueVars, requestVars, mode, orchVars, listening,
                 stop>>

\* watchdog_loop finds the thread dead and starts another on the same queues.
Respawn ==
  /\ WorkerAt("dead") /\ ~stop
  /\ Goto("setup")
  /\ mode' = "INIT"
  /\ UNCHANGED <<recorderVars, tableVars, queueVars, requestVars, buffer, chunk, raw, after,
                 orchVars, controlVars>>

WorkerStep ==
  \/ SetupSchema \/ LeaveLoop \/ RequestBackfill \/ EnterGet \/ GetTimeout
  \/ GetSlice \/ GetDone \/ GetLive \/ TakeChunk \/ InsertRows \/ AbandonChunk
  \/ EndFlush

-----------------------------------------------------------------------------
(* The event loop: the request event and the backfill orchestrator.        *)

\* The pending call_soon_threadsafe callback runs.
DeliverRequest ==
  /\ posted
  /\ posted' = FALSE /\ request' = TRUE
  /\ UNCHANGED <<recorderVars, tableVars, queueVars, workerVars, orchVars, controlVars>>

\* HA has started: spawn the orchestrator task.
StartOrchestrator ==
  /\ opc = "off" /\ ~stop
  /\ opc' = "waiting"
  /\ UNCHANGED <<recorderVars, tableVars, queueVars, requestVars, workerVars, tClear,
                 sliceStart, fetched, controlVars>>

\* A mutation of ClearTime: the newest event is both cleared and not fetched.
ClearTime_OffByOne == now

\* t_clear: every event fired so far is older.
ClearTime == now + 1

\* Consume the request, take t_clear and empty the live queue in one event-loop step.
\* (Under stop_event the task returns instead: it does nothing until it is cancelled.)
BeginCycle ==
  /\ opc = "waiting" /\ request /\ ~stop
  /\ request' = FALSE
  /\ tClear' = ClearTime
  /\ liveQ' = {} /\ overflowed' = FALSE
  /\ opc' = "watermark"
  /\ UNCHANGED <<recorderVars, tableVars, backfillQ, posted, workerVars, sliceStart,
                 fetched, controlVars>>

\* A mutation of FetchFrom: the late-arrival grace is forgotten.
FetchFrom_NoGrace(known) ==
  IF known THEN Higher(Watermark, oldest) ELSE Watermark

\* The first instant a cycle fetches: the watermark less the grace, but nothing the
\* recorder is known to have purged.
FetchFrom(known) ==
  LET from == Higher(IF Watermark > Grace THEN Watermark - Grace ELSE 0, 1)
  IN  IF known THEN Higher(from, oldest) ELSE from

\* read_watermark in the executor.  An empty table ends the cycle at once (so does a
\* read that the shutdown interrupts); otherwise fetching starts, clamped to
\* oldest_ts unless the recorder does not know it yet.
ReadWatermark ==
  /\ opc = "watermark"
  /\ \/ /\ stored = {} \/ stop
        /\ opc' = "putDone" /\ UNCHANGED sliceStart
     \/ /\ stored # {}
        /\ \E known \in BOOLEAN : sliceStart' = FetchFrom(known)
        /\ opc' = "slice"
  /\ UNCHANGED <<recorderVars, tableVars, queueVars, requestVars, workerVars, tClear,
                 fetched, controlVars>>

SliceEnd == Lower(sliceStart + SliceWindow, tClear)

\* A mutation of RecorderRows: the start of the window is exclusive.
RecorderRows_OpenStart(a, b) ==
  {n \in Event : a < n /\ n < b /\ oldest <= n /\ n <= committed /\ n \notin gone}

\* Rows HA's recorder holds for [a, b).
RecorderRows(a, b) ==
  {n \in Event : a <= n /\ n < b /\ oldest <= n /\ n <= committed /\ n \notin gone}

\* A mutation of CommitLagElapsed: the slice is read at once.
CommitLagElapsed_NoWait == TRUE

\* _RECORDER_COMMIT_LAG past slice_end, HA's recorder has committed the slice.
CommitLagElapsed == committed >= SliceEnd - 1

\* Wait out the recorder's commit lag, then fetch one slice.
FetchSlice ==
  /\ opc = "slice" /\ sliceStart < tClear
  /\ CommitLagElapsed
  /\ fetched' = RecorderRows(sliceStart, SliceEnd)
  /\ sliceStart' = SliceEnd
  /\ opc' = "put"
  /\ UNCHANGED <<recorderVars, tableVars, queueVars, requestVars, workerVars, tClear,
                 controlVars>>

\* backfill_queue.put of the slice, blocking while the queue is full.
PutSlice ==
  /\ opc = "put" /\ Len(backfillQ) < BackfillMax
  /\ backfillQ' = Append(backfillQ, Slice(fetched))
  /\ fetched' = {}
  /\ opc' = "slice"
  /\ UNCHANGED <<recorderVars, tableVars, liveQ, overflowed, requestVars, workerVars,
                 tClear, sliceStart, controlVars>>

\* The slice loop ends at t_clear, or early because of the shutdown.
EndSlices ==
  /\ opc = "slice"
  /\ sliceStart >= tClear \/ stop
  /\ opc' = "putDone"
  /\ UNCHANGED <<recorderVars, tableVars, queueVars, requestVars, workerVars, tClear,
                 sliceStart, fetched, controlVars>>

\* backfill_queue.put(BACKFILL_DONE), blocking while the queue is full.
PutDone ==
  /\ opc = "putDone" /\ Len(backfillQ) < BackfillMax
  /\ backfillQ' = Append(backfillQ, Done)
  /\ opc' = "waiting" /\ tClear' = 0 /\ sliceStart' = 0
  /\ UNCHANGED <<recorderVars, tableVars, liveQ, overflowed, requestVars, workerVars,
                 fetched, controlVars>>

\* An exception ends the orchestrator task in the middle of a cycle.
OrchestratorCrash ==
  /\ opc \in {"watermark", "slice"}
  /\ Strike("orchestrator")
  /\ opc' = "crashed" /\ tClear' = 0 /\ sliceStart' = 0
  /\ UNCHANGED <<recorderVars, tableVars, queueVars, requestVars, workerVars, fetched,
                 listening, stop>>

\* A mutation of InBackfill: the relaunch forgets the waiting worker.
InBackfill_Ignored == FALSE

\* The worker's in_backfill: it waits for a BACKFILL_DONE.
InBackfill == mode = "BACKFILL"

\* _relaunch, 5 s later: a new task, and a fresh request for a worker that still
\* waits for the cycle the crashed task had taken.
Relaunch ==
  /\ opc = "crashed" /\ ~stop
  /\ opc' = "waiting"
  /\ request' = (request \/ InBackfill)
  /\ UNCHANGED <<recorderVars, tableVars, queueVars, posted, workerVars, tClear,
                 sliceStart, fetched, controlVars>>

OrchestratorStep ==
  BeginCycle \/ ReadWatermark \/ FetchSlice \/ PutSlice \/ EndSlices \/ PutDone

-----------------------------------------------------------------------------
(* Unload, restart and the loss of the process.                            *)

\* async_unload_entry sets the stop events.
Stop ==
  /\ ~stop /\ Strike("stop")
  /\ stop' = TRUE
  /\ UNCHANGED <<recorderVars, tableVars, queueVars, requestVars, workerVars, orchVars,
                 listening>>

\* ... cancels the orchestrator task and awaits it.  A task that has crashed and was not
\* relaunched yet raises its own exception there, which nothing catches: the unload ends, with
\* the listener registered and the entry never set up again.
CancelOrchestrator ==
  /\ stop /\ opc \notin {"off", "crashed"}
  /\ opc' = "off" /\ tClear' = 0 /\ sliceStart' = 0 /\ fetched' = {}
  /\ UNCHANGED <<recorderVars, tableVars, queueVars, requestVars, workerVars, controlVars>>

\* After that it removes the listeners, before it joins the worker threads.
StopListener ==
  /\ stop /\ opc = "off" /\ listening
  /\ listening' = FALSE
  /\ UNCHANGED <<recorderVars, tableVars, queueVars, requestVars, workerVars, orchVars,
                 stop, faults>>

\* async_setup_entry builds everything anew.
FreshRuntime ==
  /\ liveQ' = {} /\ overflowed' = FALSE /\ backfillQ' = <<>>
  /\ posted' = FALSE /\ request' = FALSE
  /\ wpc' = "setup" /\ mode' = "INIT" /\ after' = "loop"
  /\ buffer' = {} /\ chunk' = {} /\ raw' = {}
  /\ opc' = "off" /\ tClear' = 0 /\ sliceStart' = 0 /\ fetched' = {}
  /\ listening' = TRUE /\ stop' = FALSE

\* The entry is set up again after the unload joined the worker thread.
Restart ==
  /\ stop /\ wpc \in {"exited", "dead"} /\ ~listening
  /\ FreshRuntime
  /\ UNCHANGED <<recorderVars, tableVars, faults>>

\* The process dies.  What HA's recorder had not committed is lost to it, too.
Kill ==
  /\ Strike("kill")
  /\ FreshRuntime
  /\ gone' = gone \union (committed + 1)..now
  /\ committed' = now
  /\ UNCHANGED <<now, oldest, tableVars>>

Init ==
  /\ now = InitialNow /\ committed = InitialNow /\ oldest = 1 /\ gone = {}
  /\ stored = (1..InitialStored) \ Poison /\ rich = {}
  /\ dead = (1..InitialStored) \intersect Poison
  /\ liveQ = {} /\ overflowed = FALSE /\ backfillQ = <<>>
  /\ posted = FALSE /\ request = FALSE
  /\ wpc = "setup" /\ mode = "INIT" /\ after = "loop"
  /\ buffer = {} /\ chunk = {} /\ raw = {}
  /\ opc = "off" /\ tClear = 0 /\ sliceStart = 0 /\ fetched = {}
  /\ listening = TRUE /\ stop = FALSE
  /\ faults = [k \in FaultKinds |-> 0]

Next ==
  \/ FireEvent \/ RecorderCommit \/ RecorderPurge
  \/ WorkerStep \/ WorkerDies \/ Respawn
  \/ DeliverRequest \/ StartOrchestrator \/ OrchestratorStep
  \/ OrchestratorCrash \/ Relaunch
  \/ Stop \/ CancelOrchestrator \/ StopListener \/ Restart \/ Kill

Spec == Init /\ [][Next]_vars

\* Threads and tasks that can run do run: the OS schedules the worker thread, the
\* event loop its callbacks and tasks, the watchdog polls, HA's recorder commits, an
\* unload that completes is followed by another setup, and the database accepts a
\* retried write.
Fairness ==
  /\ WF_vars(WorkerStep) /\ WF_vars(Respawn)
  /\ WF_vars(DeliverRequest) /\ WF_vars(StartOrchestrator)
  /\ WF_vars(OrchestratorStep) /\ WF_vars(Relaunch)
  /\ WF_vars(RecorderCommit) /\ WF_vars(CancelOrchestrator)
  /\ WF_vars(StopListener) /\ WF_vars(Restart)

FairSpec == Spec /\ Fairness

-----------------------------------------------------------------------------
(* Properties.                                                             *)

\* No live batch and no chunk outgrows its size; the rows of a slice are flushed at once,
\* however many they are.
BatchesFit ==
  /\ mode = "LIVE" => Cardinality(buffer) <= BatchMax
  /\ Cardinality(chunk) <= ChunkSize

Types ==
  /\ now \in 0..MaxEvent /\ committed \in 0..now /\ oldest \in 1..(MaxEvent + 1)
  /\ gone \subseteq Event /\ stored \subseteq Event /\ dead \subseteq Event
  /\ rich \subseteq stored
  /\ liveQ \subseteq Event /\ Cardinality(liveQ) <= LiveMax
  /\ overflowed \in BOOLEAN
  /\ backfillQ \in Seq(Items) /\ Len(backfillQ) <= BackfillMax
  /\ posted \in BOOLEAN /\ request \in BOOLEAN
  /\ wpc \in {"setup", "top", "get", "flush", "exited", "dead"}
  /\ mode \in Modes
  /\ buffer \subseteq Event
  /\ chunk \subseteq Event /\ raw \subseteq Event
  /\ after \in {"loop", "request", "exit"}
  /\ opc \in {"off", "waiting", "watermark", "slice", "put", "putDone", "crashed"}
  /\ tClear \in 0..(MaxEvent + 1) /\ sliceStart \in Nat
  /\ fetched \subseteq Event
  /\ listening \in BOOLEAN /\ stop \in BOOLEAN
  /\ faults \in [FaultKinds -> Nat]

\* Types and bounds of the state: no queue outgrows its maxsize, no live batch and no
\* chunk its size, and only rows that exist have a live event's attributes.
TypeOK == Types /\ BatchesFit

\* The event needs no more work: it has a row, was dead-lettered, or HA's recorder
\* no longer has it.
Settled(n) == n \in stored \union dead \union gone \/ n < oldest

\* What a restart relies on (backfill.py: from_ = wm - _LATE_ARRIVAL_GRACE): whatever
\* the interleaving, an event missing from the table is at most the grace behind its
\* watermark, so that the next cycle's window always reaches back to it.
GapWithinGrace ==
  \A n \in 1..now : n + Grace < Watermark => Settled(n)

CycleRunning == opc \in {"watermark", "slice", "put", "putDone"}
DoneQueued == \E i \in 1..Len(backfillQ) : backfillQ[i].kind = "done"

\* What the pending cycle of a worker in MODE_BACKFILL can be: a request on its way to
\* the event, the event set, a cycle running, one that crashed and will be relaunched,
\* or one whose BACKFILL_DONE is queued.
Tokens == <<posted, request, CycleRunning, opc = "crashed", DoneQueued>>

\* The handshake between worker and orchestrator (states_worker.py 372-403, backfill.py
\* 98-204, __init__.py 276-281): a worker outside MODE_BACKFILL leaves no cycle, request
\* or item behind, so no cycle can empty the live queue under it; a worker in
\* MODE_BACKFILL has exactly one pending cycle, so it cannot wait forever for a
\* BACKFILL_DONE nobody will send, nor take the one of an earlier cycle.
CycleOwnership ==
  /\ mode # "BACKFILL" => backfillQ = <<>> /\ \A i \in 1..5 : ~Tokens[i]
  /\ \A i, j \in 1..5 : Tokens[i] /\ Tokens[j] => i = j
  /\ mode = "BACKFILL" /\ ~stop => \E i \in 1..5 : Tokens[i]
  /\ \A i \in 1..Len(backfillQ) : backfillQ[i].kind = "done" => i = Len(backfillQ)

InFlight == buffer \union chunk \union fetched
              \union UNION {backfillQ[i].rows : i \in 1..Len(backfillQ)}

\* Emptying the live queue loses nothing (backfill.py 105-201): while a cycle fetches,
\* every event older than t_clear is settled, on its way to the table, or still ahead
\* of the slice cursor.
CursorCoverage ==
  opc \in {"slice", "put", "putDone"} /\ ~stop /\ stored # {} =>
    \A n \in 1..now : n < tClear => Settled(n) \/ n \in InFlight \/ n >= sliceStart

\* An event that was neither dropped nor cleared is not forgotten (overflow_queue.py
\* 52-90, states_worker.py 372-437): in MODE_LIVE with no overflow pending, an
\* unsettled event is in the live queue or in the worker's hands.
LiveHoldsUnsettled ==
  mode = "LIVE" /\ ~overflowed /\ ~stop /\ wpc # "dead" =>
    \A n \in 1..now : Settled(n) \/ n \in liveQ \union buffer \union chunk

\* The row of a live event has its attributes once it is written, and keeps them, though
\* every cycle's grace fetches such events again and a chunk is written as _last_mode says,
\* not as its rows were obtained (states_worker.py:466, const.py 154-171): no flush of a
\* slice is left to MODE_LIVE, and no batch of live events to MODE_BACKFILL.
LiveRowsKept ==
  [][/\ rich \subseteq rich'
     /\ InsertRows => (chunk \ chunk') \ (raw \union Poison) \subseteq rich']_vars

\* The pipeline as its users see it: the rows of the table and the events given up on.
Contract == INSTANCE IngestContract
  WITH fired <- now, stored <- stored,
       excused <- (dead \union gone \union 1..(oldest - 1)) \intersect 1..now

\* Every step of the pipeline is a step its contract allows, or invisible to it: rows
\* only appear, only for events that were fired, and leave no hole out of reach.
RefinesContract == Contract!Spec

\* The unload found the orchestrator task crashed: nothing runs until Home Assistant is
\* restarted (__init__.py 508-513).
UnloadAborted == stop /\ opc = "crashed"

\* Every event fired is settled in the end (backfill.py, states_worker.py): whatever
\* was dropped, cleared or lost with a thread comes back with a later cycle, unless an
\* unload ran into a crashed orchestrator.
EventuallySettled == \A n \in Event : n <= now ~> Settled(n) \/ UnloadAborted

\* An overflow always leads to a catch-up cycle that accepts live events again
\* (backfill.py 108-114, the buffer_dropping issue of README.md 426), with the same exception.
OverflowCleared == overflowed ~> ~overflowed \/ UnloadAborted
=============================================================================
