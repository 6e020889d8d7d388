-------------------------- MODULE RegistryListener --------------------------
(***************************************************************************)
(* The registry listener: event handlers append to a buffer, and a drain   *)
(* task hands the whole buffer to the metadata queue, one batch at a time, *)
(* through an append that runs in an executor thread.                      *)
(*                                                                         *)
(* An item is numbered in the order of its registry event.                 *)
(***************************************************************************)
EXTENDS PersistentQueue

CONSTANT MaxItems     \* bound: registry events in a behaviour

ASSUME ListenerAssumption == MaxItems \in Nat

VARIABLES
  fired,      \* items 1..fired were buffered
  buffer,     \* _buffer
  batch,      \* the batch of _inflight, <<>> when none is recorded
  append,     \* its executor job: "none", "running", "done" or "failed"
  drain       \* the drain task: "off", "ready", "appending" or "backoff"

listenerVars == <<fired, buffer, batch, append, drain>>

\* A registry event: its handler appends to the buffer in one event-loop step.
Enqueue ==
  /\ fired < MaxItems
  /\ fired' = fired + 1
  /\ buffer' = Append(buffer, fired + 1)
  /\ UNCHANGED <<batch, append, drain, pqVars>>

\* _flush_buffer up to its await: swap the buffer, start the append.
SwapBuffer ==
  /\ buffer # <<>>
  /\ batch' = buffer /\ buffer' = <<>>
  /\ append' = "running"

\* The drain task wakes on _buffer_ready.
StartFlush ==
  /\ drain = "ready"
  /\ SwapBuffer
  /\ drain' = "appending"
  /\ UNCHANGED <<fired, pqVars>>

\* The executor runs put_many for the batch.
AppendSucceeds ==
  /\ append = "running"
  /\ PutMany(batch)
  /\ append' = "done"
  /\ UNCHANGED <<fired, buffer, batch, drain>>

AppendFails ==
  /\ append = "running"
  /\ PutManyFails(batch)
  /\ append' = "failed"
  /\ UNCHANGED <<fired, buffer, batch, drain>>

\* A mutation of Requeued: the batch goes behind the events that came meanwhile.
Requeued_AtTheBack == buffer \o batch

\* _requeue: the batch goes back to the front.
Requeued == batch \o buffer

\* A mutation of AfterAppend: a failed batch is forgotten.
AfterAppend_Forgets == buffer

\* The buffer once the outcome of the append is known.
AfterAppend == IF append = "failed" THEN Requeued ELSE buffer

\* The outcome of the append reaches whoever awaits it.
Settle ==
  /\ append # "running"
  /\ buffer' = AfterAppend
  /\ batch' = <<>> /\ append' = "none"

\* _flush_buffer resumes in the drain task; a failure is followed by a backoff.
FinishFlush ==
  /\ drain = "appending"
  /\ Settle
  /\ drain' = IF append = "failed" THEN "backoff" ELSE "ready"
  /\ UNCHANGED <<fired, pqVars>>

EndBackoff ==
  /\ drain = "backoff"
  /\ drain' = "ready"
  /\ UNCHANGED <<fired, buffer, batch, append, pqVars>>

\* async_stop cancels the drain task; an append it was awaiting runs on.
CancelDrain == drain' = "off" /\ UNCHANGED <<fired, buffer, batch, append>>

ListenerInit ==
  /\ fired = 0 /\ buffer = <<>> /\ batch = <<>> /\ append = "none" /\ drain = "ready"
=============================================================================
