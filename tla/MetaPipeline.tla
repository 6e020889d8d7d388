---------------------------- MODULE MetaPipeline ----------------------------
(***************************************************************************)
(* The metadata pipeline: the registry listener and its drain task, the    *)
(* persistent queue, the metadata worker thread, and the unload, reload    *)
(* and crash of what holds them.  What an item does to the dimension       *)
(* tables is not modelled here: writing it is one idempotent step.         *)
(***************************************************************************)
EXTENDS RegistryListener, FiniteSets

CONSTANTS
  MaxFaults           \* bound: how often each kind of fault strikes

FaultKinds == {"append", "death", "crash", "unload"}

ASSUME PipelineAssumption == MaxFaults \in [FaultKinds -> Nat]

VARIABLES
  worker,     \* the metadata worker: "check", "get", "got", "write", "ack",
              \* "exited" or "dead"
  written,    \* items written to the database or dead-lettered
  phase,      \* async_unload_entry: "up" when it is not running
  dropped,    \* items only memory held when it was lost
  faults      \* how often each kind of fault struck

vars == <<pqVars, listenerVars, worker, written, phase, dropped, faults>>

\* stop_event
stop == phase # "up"

Strike(kind) ==
  /\ faults[kind] < MaxFaults[kind]
  /\ faults' = [faults EXCEPT ![kind] = @ + 1]

Held(s) == ToSet(s) \ {Malformed}

\* Items that only memory holds for certain: buffered, or in an append that has not
\* succeeded.
Memory == Held(buffer) \union (IF append = "done" THEN {} ELSE Held(batch))

-----------------------------------------------------------------------------
(* The metadata worker thread.                                             *)

\* The loop condition.
CheckStop ==
  /\ worker = "check"
  /\ worker' = IF stop THEN "exited" ELSE "get"
  /\ UNCHANGED <<pqVars, listenerVars, written, phase, dropped, faults>>

\* meta_queue.get(): an item, or a wait, or None after a wake-up without an item.
GetItem ==
  /\ worker = "get"
  /\ \/ Get /\ worker' = "got"
     \/ GetBlocks /\ UNCHANGED worker
     \/ GetNone /\ worker' = "exited"
  /\ UNCHANGED <<listenerVars, written, phase, dropped, faults>>

\* The second look at stop_event, with the item in hand.
CheckItem ==
  /\ worker = "got"
  /\ worker' = IF stop THEN "exited" ELSE "write"
  /\ UNCHANGED <<pqVars, listenerVars, written, phase, dropped, faults>>

\* _write_item: written, or given up on and dead-lettered ...
WriteItem ==
  /\ worker = "write"
  /\ written' = written \union {inFlight}
  /\ worker' = "ack"
  /\ UNCHANGED <<pqVars, listenerVars, phase, dropped, faults>>

\* ... or its retries are interrupted by the shutdown.
InterruptWrite ==
  /\ worker = "write" /\ stop
  /\ worker' = "exited"
  /\ UNCHANGED <<pqVars, listenerVars, written, phase, dropped, faults>>

\* Back from _write_item, whose None says success or interruption alike: under
\* stop_event the item stays in the file, else task_done removes it.
Acknowledge ==
  /\ worker = "ack"
  /\ IF stop THEN worker' = "exited" /\ UNCHANGED pqVars
             ELSE worker' = "check" /\ TaskDone
  /\ UNCHANGED <<listenerVars, written, phase, dropped, faults>>

\* An exception outside the retry scope, as from task_done on a full disk.
WorkerDies ==
  /\ worker \in {"check", "got", "write", "ack"} /\ Strike("death")
  /\ worker' = "dead"
  /\ UNCHANGED <<pqVars, listenerVars, written, phase, dropped>>

\* The watchdog starts another worker on the same queue.
Respawn ==
  /\ worker \in {"exited", "dead"} /\ ~stop
  /\ worker' = "check"
  /\ UNCHANGED <<pqVars, listenerVars, written, phase, dropped, faults>>

WorkerStep ==
  CheckStop \/ GetItem \/ CheckItem \/ WriteItem \/ InterruptWrite \/ Acknowledge

-----------------------------------------------------------------------------
(* The listener while it is subscribed.                                    *)

RegistryEvent ==
  /\ phase \in {"up", "stopping"}
  /\ Enqueue
  /\ UNCHANGED <<worker, written, phase, dropped, faults>>

DrainStep ==
  /\ StartFlush \/ FinishFlush \/ EndBackoff
  /\ UNCHANGED <<worker, written, phase, dropped, faults>>

AppendReturns ==
  /\ AppendSucceeds
  /\ UNCHANGED <<worker, written, phase, dropped, faults>>

AppendRaises ==
  /\ AppendFails /\ Strike("append")
  /\ UNCHANGED <<worker, written, phase, dropped>>

-----------------------------------------------------------------------------
(* Unload, reload and crash.                                               *)

\* async_unload_entry sets stop_event, then awaits the tasks it cancels.
BeginUnload ==
  /\ phase = "up" /\ Strike("unload")
  /\ phase' = "stopping"
  /\ UNCHANGED <<pqVars, listenerVars, worker, written, dropped>>

\* async_stop: unsubscribe and cancel the drain task ...
StopListener ==
  /\ phase = "stopping"
  /\ CancelDrain
  /\ phase' = "settle"
  /\ UNCHANGED <<pqVars, worker, written, dropped, faults>>

\* ... _settle_inflight awaits an append left running ...
SettleInflight ==
  /\ phase = "settle"
  /\ Settle
  /\ phase' = "flush"
  /\ UNCHANGED <<pqVars, fired, drain, worker, written, dropped, faults>>

\* ... and a last _flush_buffer takes what is left.
FinalFlush ==
  /\ phase = "flush"
  /\ IF buffer = <<>>
     THEN phase' = "wake" /\ UNCHANGED <<buffer, batch, append>>
     ELSE SwapBuffer /\ phase' = "flushing"
  /\ UNCHANGED <<pqVars, fired, drain, worker, written, dropped, faults>>

FinalFlushReturns ==
  /\ phase = "flushing"
  /\ Settle
  /\ phase' = IF append = "failed" THEN "blocking" ELSE "wake"
  /\ UNCHANGED <<pqVars, fired, drain, worker, written, dropped, faults>>

\* _flush_buffer_blocking, the last resort: what it cannot write is lost.
FlushBlocking ==
  /\ phase = "blocking"
  /\ \/ PutMany(buffer) /\ UNCHANGED <<dropped, faults>>
     \/ /\ PutManyFails(buffer) /\ Strike("append")
        /\ dropped' = dropped \union Held(buffer)
  /\ buffer' = <<>>
  /\ phase' = "wake"
  /\ UNCHANGED <<fired, batch, append, drain, worker, written>>

\* wake_consumer, so that a worker blocked in get() looks at stop_event.
WakeConsumer ==
  /\ phase = "wake"
  /\ NotifyAll
  /\ phase' = "join"
  /\ UNCHANGED <<file, openTail, inFlight, size, listenerVars, worker, written, dropped,
                 faults>>

\* join(30): the worker has ended, or it is stuck in get() and abandoned.
JoinWorker ==
  /\ phase = "join"
  /\ worker \in {"exited", "dead"} \/ blocked = "waiting"
  /\ phase' = "down"
  /\ UNCHANGED <<pqVars, listenerVars, worker, written, dropped, faults>>

\* async_setup_entry: a new queue object on the same file, a new listener and worker.
Setup(lines, open) ==
  /\ Open(lines, open)
  /\ buffer' = <<>> /\ batch' = <<>> /\ append' = "none" /\ drain' = "ready"
  /\ worker' = "check" /\ phase' = "up"

Reload ==
  /\ phase = "down"
  /\ Setup(file, openTail)
  /\ UNCHANGED <<fired, written, dropped, faults>>

\* The process or the machine dies, perhaps in the middle of an append.  What no
\* append had acknowledged is given up.
Crash ==
  /\ Strike("crash")
  /\ dropped' = dropped \union Memory
  /\ IF append = "running" THEN WriteTorn(batch) ELSE UNCHANGED fileVars
  /\ Setup(file', openTail')
  /\ UNCHANGED <<fired, written>>

Init ==
  /\ PQInit /\ ListenerInit
  /\ worker = "check" /\ written = {} /\ phase = "up" /\ dropped = {}
  /\ faults = [k \in FaultKinds |-> 0]

Next ==
  \/ WorkerStep \/ WorkerDies \/ Respawn
  \/ RegistryEvent \/ DrainStep \/ AppendReturns \/ AppendRaises
  \/ BeginUnload \/ StopListener \/ SettleInflight \/ FinalFlush \/ FinalFlushReturns
  \/ FlushBlocking \/ WakeConsumer \/ JoinWorker \/ Reload \/ Crash

Spec == Init /\ [][Next]_vars

UnloadStep ==
  \/ StopListener \/ SettleInflight \/ FinalFlush \/ FinalFlushReturns
  \/ FlushBlocking \/ WakeConsumer \/ JoinWorker \/ Reload

\* Threads, tasks and executor jobs that can run do run, an append that is retried
\* succeeds in the end, and an entry that was unloaded is set up again.
Fairness ==
  /\ WF_vars(WorkerStep) /\ WF_vars(Respawn)
  /\ WF_vars(DrainStep) /\ WF_vars(AppendReturns) /\ WF_vars(UnloadStep)

FairSpec == Spec /\ Fairness

-----------------------------------------------------------------------------
(* Properties.                                                             *)

Pending == Held(file) \union Memory
Items == 1..fired

\* Types of the pipeline's state; the queue depth never goes below zero.
TypeOK ==
  /\ file \in Seq(0..MaxItems) /\ openTail \in BOOLEAN /\ (openTail => file # <<>>)
  /\ inFlight \in 0..MaxItems /\ size \in Nat
  /\ blocked \in {"no", "waiting", "woken"}
  /\ fired \in 0..MaxItems
  /\ buffer \in Seq(1..MaxItems) /\ batch \in Seq(1..MaxItems)
  /\ append \in {"none", "running", "done", "failed"}
  /\ drain \in {"off", "ready", "appending", "backoff"}
  /\ worker \in {"check", "get", "got", "write", "ack", "exited", "dead"}
  /\ written \subseteq 1..MaxItems /\ dropped \subseteq 1..MaxItems
  /\ phase \in {"up", "stopping", "settle", "flush", "flushing", "blocking", "wake",
                "join", "down"}
  /\ faults \in [FaultKinds -> Nat]

\* task_done trusts that the front line is the item it acknowledges
\* (persistent_queue.py 179-192), over every append, failure, death and respawn in
\* between.  Only an append that continues an open line can have spoilt that line.
FrontIsInFlight ==
  inFlight # NoInFlight =>
    file # <<>> /\ Head(file) \in {inFlight, Malformed}

\* Registry changes are not forgotten (registry_listener.py 309-366, 714-772): each is
\* written, in the file, in memory, or was in memory when that was lost; a write that
\* was cut short costs at most one more item, the one whose line it spoilt.
LossBounded ==
  Cardinality(Items \ (written \union Pending \union dropped))
    <= faults["append"] + faults["crash"]

\* The order of the events survives to the database (registry_listener.py 155-165),
\* whatever was retried, requeued or replayed: when an item is written for the first
\* time, no older item is still to be written.  An append that was cut short can leave
\* an open line that swallows the first line of the next one; if that append fails as
\* well, its first item is retried behind the others, so the order is only promised
\* while at most one append has been interrupted.
FirstWriteInOrder ==
  [][faults["append"] + faults["crash"] <= 1 =>
       \A n \in written' \ written : \A m \in 1..(n - 1) : m \in Pending => m \in written']_vars

\* What is recorded is applied in the end (meta_worker.py 340-355): again and again nothing
\* in memory or in the file is still to be written, over deaths, reloads and crashes.  The
\* events are finitely many, so none of them waits for ever.
EventuallyWritten == []<>(Pending \subseteq written)

\* The stronger promise of the listener, which puts a failed batch back and retries
\* it, and of the queue, whose fsynced lines survive a crash: nothing else is lost.
NothingLost == Items \subseteq written \union Pending \union dropped
=============================================================================
