------------------------------- MODULE Health -------------------------------
(***************************************************************************)
(* How the recorder tells the user that it is not recording.  Two worker   *)
(* threads write through retry wrappers, whose hooks post the creation and *)
(* deletion of repair issues to the event loop; the watchdog coroutine     *)
(* respawns dead workers, looks for workers stuck in a database call or in *)
(* the wait for backfill data, and drives the sensors that show whether a  *)
(* worker lives.                                                           *)
(*                                                                         *)
(* The states worker writes chunks; when it gives up on a chunk it inserts *)
(* the rows one by one, each a wrapped call with the same hooks.  Two of   *)
(* its calls have no hook that raises an issue: the setup of the schema,   *)
(* with which its thread begins, and the mark of the minutes that backfill *)
(* data touched.                                                           *)
(***************************************************************************)
EXTENDS Retry, FiniteSets, Sequences

CONSTANTS
  Workers,      \* the worker threads: "states", "meta" or both
  StuckAfter,   \* INGESTION_STALL_THRESHOLD_S, in ticks
  MaxDeaths,    \* workers that die
  MaxReloads,   \* reloads of the entry
  MaxPosted     \* jobs that wait for the event loop when an attempt ends

ASSUME HealthAssumption ==
  /\ Workers \subseteq {"states", "meta"}
  /\ StuckAfter \in Nat \ {0}
  /\ {MaxDeaths, MaxReloads, MaxPosted} \subseteq Nat

VARIABLES
  alive,     \* worker -> is_alive()
  doing,     \* worker -> "free", "trying", "asleep", "rows" or "waiting" for backfill
  kind,      \* worker -> what its wrapped call is, or its next one: "setup" of the schema,
             \* "migrate", "write" or "mark"
  call,      \* worker -> the locals of the wrapped call in progress
  chunk,     \* the chunk whose rows are inserted one by one: "none", or "stalled" or
             \* "moving" as its own call was when it gave up
  steady,    \* history: worker -> time since the last transient failure of the call, up to
             \* PoisonSeconds, which it also is when there was none
  age,       \* worker -> how long it has been trying or waiting, up to StuckAfter
  posted,    \* the jobs of hass.add_job, in order: <<"create" or "clear", issue>>
  issues,    \* the repair issues that exist
  running,   \* Home Assistant is running
  tracker,   \* _StallTracker: [seen |-> running_since is set, stalled |-> reported workers]
  dog,       \* the watchdog: "asleep", or the dead worker it is about to respawn
  shown,     \* worker -> what its sensor shows
  deaths, reloads,
  orphans    \* history: issues whose raiser died or was unloaded before it cleared them

workerVars == <<doing, kind, call, chunk, age, steady>>
dogVars == <<tracker, dog, shown>>
boundVars == <<deaths, reloads>>
vars == <<alive, workerVars, posted, issues, running, dogVars, boundVars, orphans>>

\* The repair issues, named by whose they are and what they say.
StalledIssue(w) == <<w, "worker_stalled">>
Unreachable == <<"db", "unreachable">>
IngestionStalled == <<"ingestion", "stalled">>
Dropped(w) == <<w, "dropped">>
Issues == {StalledIssue(w) : w \in Workers} \cup {Dropped(w) : w \in Workers}
            \cup {Unreachable, IngestionStalled}

\* The first wrapped call of a thread.
FirstCall(w) == IF w = "states" THEN "setup" ELSE "migrate"

Init ==
  /\ alive = [w \in Workers |-> TRUE] /\ shown = alive
  /\ doing = [w \in Workers |-> "free"]
  /\ kind = [w \in Workers |-> FirstCall(w)]
  /\ call = [w \in Workers |-> Fresh] /\ chunk = "none"
  /\ age = [w \in Workers |-> 0] /\ steady = [w \in Workers |-> PoisonSeconds]
  /\ posted = <<>> /\ issues = {} /\ running = FALSE
  /\ tracker = [seen |-> FALSE, stalled |-> {}]
  /\ dog = "asleep"
  /\ deaths = 0 /\ reloads = 0 /\ orphans = {}
-----------------------------------------------------------------------------
(* The workers. *)

\* A wrapped call starts; in rows, the call for the next row.
Begin(w) ==
  /\ alive[w] /\ doing[w] \in {"free", "rows"}
  /\ doing' = [doing EXCEPT ![w] = "trying"] /\ age' = [age EXCEPT ![w] = 0]
  /\ UNCHANGED <<alive, kind, call, chunk, steady, posted, issues, running, dogVars, boundVars, orphans>>

Retried(w) ==
  /\ doing[w] = "asleep"
  /\ doing' = [doing EXCEPT ![w] = "trying"] /\ age' = [age EXCEPT ![w] = 0]
  /\ UNCHANGED <<alive, kind, call, chunk, steady, posted, issues, running, dogVars, boundVars, orphans>>

\* The setup and the mark are wrapped without notify_stall, on_recovery and
\* on_sustained_fail: what such a call notes of its failures raises nothing.
Hooked(w) == kind[w] \in {"write", "migrate"}

\* The call has raised the stalled issue of its worker.
Raised(w) == Hooked(w) /\ call[w].stalled

\* A mutation of Recovery: only the issue of the database is cleared.
Recovery_Shared(w) == <<<<"clear", Unreachable>>>>

\* _recovery_hook.
Recovery(w) == <<<<"clear", StalledIssue(w)>>, <<"clear", Unreachable>>>>
RecoveryIf(w, stalled) == IF stalled THEN Recovery(w) ELSE <<>>

\* The note of an input that is dropped; its call may end a stall after it.
DropNote(w, dropped) == IF dropped THEN <<<<"create", Dropped(w)>>>> ELSE <<>>

\* _stall_hook and _sustained_fail_hook.
Alarms(w, c) ==
  (IF Stalls(c) THEN <<<<"create", StalledIssue(w)>>>> ELSE <<>>)
    \o (IF Sustains(c) THEN <<<<"create", Unreachable>>>> ELSE <<>>)

Over(w) == steady' = [steady EXCEPT ![w] = PoisonSeconds]
Ended(w) ==
  /\ Over(w) /\ call' = [call EXCEPT ![w] = Fresh] /\ age' = [age EXCEPT ![w] = 0]
  /\ kind' = [kind EXCEPT ![w] = "write"]
  /\ doing' = [doing EXCEPT ![w] = IF w = "states" /\ chunk # "none" THEN "rows" ELSE "free"]

\* The call returns; the metadata worker's also when the database refuses the item for good
\* (ExclusionViolation, UniqueViolation), which it drops at once.
Succeed(w, refused) ==
  /\ doing[w] = "trying" /\ Len(posted) <= MaxPosted
  /\ refused => w = "meta" /\ kind[w] = "write"
  /\ Ended(w)
  /\ posted' = posted \o DropNote(w, refused) \o RecoveryIf(w, Raised(w))
  /\ UNCHANGED <<alive, chunk, issues, running, dogVars, boundVars, orphans>>

Sleep(w, c) ==
  /\ posted' = posted \o (IF Hooked(w) THEN Alarms(w, c) ELSE <<>>)
  /\ call' = [call EXCEPT ![w] = Notified(c)] /\ age' = [age EXCEPT ![w] = 0]
  /\ doing' = [doing EXCEPT ![w] = "asleep"]
  /\ UNCHANGED <<alive, kind, chunk, deaths, orphans>>

\* _insert_rows_individually: a probe of several entities either vetoes, or the rows follow.
IsChunk(w) == w = "states" /\ kind[w] = "write" /\ chunk = "none"
InsertRows(w) ==
  /\ IsChunk(w) /\ Over(w)
  /\ chunk' = (IF Raised(w) THEN "stalled" ELSE "moving")
  /\ call' = [call EXCEPT ![w] = Fresh] /\ age' = [age EXCEPT ![w] = 0]
  /\ doing' = [doing EXCEPT ![w] = "rows"]
  /\ UNCHANGED <<alive, kind, posted, deaths, orphans>>
Veto(w, c) == IsChunk(w) /\ Sleep(w, Refused(c)) /\ UNCHANGED steady

\* _drop_row and _drop_poison_item; _migration_failed and _rollup_dirty_failed, which give
\* up on work that is no input, and only log it.
Drop(w) ==
  /\ ~IsChunk(w)
  /\ Ended(w)
  /\ posted' = posted \o DropNote(w, kind[w] = "write") \o RecoveryIf(w, Raised(w))
  /\ UNCHANGED <<alive, chunk, deaths, orphans>>

\* An error that run() does not expect ends the thread: outside a call, or in on_poison.
Dies(w) ==
  /\ deaths < MaxDeaths /\ deaths' = deaths + 1 /\ Over(w)
  /\ alive' = [alive EXCEPT ![w] = FALSE]
  /\ doing' = [doing EXCEPT ![w] = "free"] /\ age' = [age EXCEPT ![w] = 0]
  /\ kind' = [kind EXCEPT ![w] = FirstCall(w)] /\ call' = [call EXCEPT ![w] = Fresh]
  /\ chunk' = IF w = "states" THEN "none" ELSE chunk
  /\ orphans' = orphans \cup
       (IF Raised(w) \/ (w = "states" /\ chunk = "stalled") THEN {StalledIssue(w)} ELSE {})
  /\ UNCHANGED posted

\* The setup has no on_poison: it is tried until it succeeds.
Fail(w, permanent) ==
  LET c == Failed(call[w], permanent)
  IN /\ doing[w] = "trying" /\ Len(posted) <= MaxPosted
     /\ IF kind[w] # "setup" /\ GivesUp(c)
          THEN InsertRows(w) \/ Veto(w, c) \/ Drop(w) \/ Dies(w)
          ELSE /\ Sleep(w, c)
               /\ steady' = IF permanent THEN steady ELSE [steady EXCEPT ![w] = 0]
     /\ UNCHANGED <<issues, running, dogVars, reloads>>

\* A mutation of RowsDone: the wrapper still takes the chunk for the call in progress.
RowsDone_KeepsChunk ==
  /\ "states" \in Workers /\ doing["states"] = "rows"
  /\ posted' = posted \o RecoveryIf("states", chunk = "stalled")
  /\ doing' = [doing EXCEPT !["states"] = "free"]
  /\ UNCHANGED <<alive, kind, chunk, call, age, steady, issues, running, dogVars, boundVars, orphans>>

\* All rows of the chunk have been tried: the chunk call returns.
RowsDone ==
  /\ "states" \in Workers /\ doing["states"] = "rows"
  /\ posted' = posted \o RecoveryIf("states", chunk = "stalled")
  /\ chunk' = "none" /\ doing' = [doing EXCEPT !["states"] = "free"]
  /\ UNCHANGED <<alive, kind, call, age, steady, issues, running, dogVars, boundVars, orphans>>

Crash(w) ==
  /\ alive[w] /\ doing[w] \in {"free", "rows"}
  /\ Dies(w)
  /\ UNCHANGED <<issues, running, dogVars, reloads>>

\* The states worker waits for the orchestrator's data and gets it: a slice, which it writes,
\* or the end of the cycle, at which it marks the minutes the slices touched.
AwaitBackfill ==
  /\ "states" \in Workers /\ alive["states"]
  /\ doing["states"] = "free" /\ kind["states"] = "write"
  /\ doing' = [doing EXCEPT !["states"] = "waiting"] /\ age' = [age EXCEPT !["states"] = 0]
  /\ UNCHANGED <<alive, kind, call, chunk, steady, posted, issues, running, dogVars, boundVars, orphans>>
BackfillArrives ==
  /\ "states" \in Workers /\ running /\ doing["states"] = "waiting"
  /\ doing' = [doing EXCEPT !["states"] = "free"] /\ age' = [age EXCEPT !["states"] = 0]
  /\ \E next \in {"write", "mark"} : kind' = [kind EXCEPT !["states"] = next]
  /\ UNCHANGED <<alive, call, chunk, steady, posted, issues, running, dogVars, boundVars, orphans>>
-----------------------------------------------------------------------------
(* The event loop. *)

Deliver ==
  /\ posted # <<>> /\ posted' = Tail(posted)
  /\ LET job == Head(posted)
     IN issues' = IF job[1] = "create" THEN issues \cup {job[2]} ELSE issues \ {job[2]}
  /\ UNCHANGED <<alive, workerVars, running, dogVars, boundVars, orphans>>

Started ==
  /\ ~running /\ running' = TRUE
  /\ UNCHANGED <<alive, workerVars, posted, issues, dogVars, boundVars, orphans>>

\* _stall_details.
Stuck(w) ==
  /\ alive[w] /\ age[w] = StuckAfter
  /\ doing[w] = "trying" \/ (doing[w] = "waiting" /\ tracker.seen)

\* A mutation of CheckStalls: the issue of a set that becomes empty is left as it is.
CheckStalls_NoClear ==
  LET stuck == {w \in Workers : Stuck(w)}
  IN /\ tracker' = [seen |-> tracker.seen \/ running, stalled |-> stuck]
     /\ issues' = IF stuck # {} THEN issues \cup {IngestionStalled} ELSE issues

\* A mutation of CheckStalls: running_since is forgotten, nothing is remembered as seen.
CheckStalls_NeverSeen ==
  LET stuck == {w \in Workers : Stuck(w)}
  IN /\ tracker' = [seen |-> tracker.seen, stalled |-> stuck]
     /\ issues' = IF stuck = tracker.stalled THEN issues
                  ELSE IF stuck # {} THEN issues \cup {IngestionStalled}
                  ELSE issues \ {IngestionStalled}

\* _check_stalls: the issue is written only when the set of stuck workers changes.
CheckStalls ==
  LET stuck == {w \in Workers : Stuck(w)}
  IN /\ tracker' = [seen |-> tracker.seen \/ running, stalled |-> stuck]
     /\ issues' = IF stuck = tracker.stalled THEN issues
                  ELSE IF stuck # {} THEN issues \cup {IngestionStalled}
                  ELSE issues \ {IngestionStalled}

\* The rest of a tick, with the workers in living alive: a dead worker is signalled to the
\* sensors and respawned after a sleep; when there is none left the stalls are checked.
LookAt(candidates, living) ==
  LET dead == {w \in candidates : ~living[w]}
  IN IF dead = {}
       THEN /\ dog' = "asleep" /\ CheckStalls
       ELSE /\ dog' = IF "states" \in dead THEN "states" ELSE "meta"
            /\ UNCHANGED <<tracker, issues>>

WatchdogTick ==
  /\ dog = "asleep" /\ LookAt(Workers, alive)
  /\ shown' = IF \A w \in Workers : alive[w] THEN shown ELSE alive
  /\ UNCHANGED <<alive, workerVars, posted, running, boundVars, orphans>>

\* A mutation of Respawn: no signal after the respawn.
Respawn_Silent ==
  /\ dog # "asleep"
  /\ alive' = [alive EXCEPT ![dog] = TRUE] /\ UNCHANGED shown
  /\ LookAt(Workers \ {"states", dog}, alive')
  /\ UNCHANGED <<workerVars, posted, running, boundVars, orphans>>

\* The signal after the respawn reads the workers alive then.
Respawn ==
  /\ dog # "asleep"
  /\ alive' = [alive EXCEPT ![dog] = TRUE] /\ shown' = alive'
  /\ LookAt(Workers \ {"states", dog}, alive')
  /\ UNCHANGED <<workerVars, posted, running, boundVars, orphans>>

\* The wait for backfill data only counts from when the watchdog saw Home Assistant running.
Counting(w) == doing[w] = "trying" \/ (doing[w] = "waiting" /\ tracker.seen)
Tick ==
  /\ age' = [w \in Workers |-> IF Counting(w) THEN UpTo(age[w], StuckAfter) ELSE age[w]]
  /\ call' = [w \in Workers |-> Aged(call[w])]
  /\ steady' = [w \in Workers |-> UpTo(steady[w], PoisonSeconds)]
  /\ <<age, call, steady>>' # <<age, call, steady>>
  /\ UNCHANGED <<alive, doing, kind, chunk, posted, issues, running, dogVars, boundVars, orphans>>

\* The entry is reloaded.  Workers leave their sleep or their wait at once (a worker in a
\* database call keeps the unload waiting); everything but the issues is built anew.
Reload ==
  /\ reloads < MaxReloads /\ reloads' = reloads + 1
  /\ \A w \in Workers : doing[w] # "trying"
  /\ orphans' = orphans \cup {StalledIssue(w) : w \in {v \in Workers : Raised(v)}}
       \cup (IF chunk = "stalled" THEN {StalledIssue("states")} ELSE {})
       \cup (IF tracker.stalled # {} THEN {IngestionStalled} ELSE {})
  /\ alive' = [w \in Workers |-> TRUE] /\ shown' = alive'
  /\ doing' = [w \in Workers |-> "free"]
  /\ kind' = [w \in Workers |-> FirstCall(w)] /\ call' = [w \in Workers |-> Fresh]
  /\ chunk' = "none" /\ age' = [w \in Workers |-> 0]
  /\ steady' = [w \in Workers |-> PoisonSeconds]
  /\ tracker' = [seen |-> FALSE, stalled |-> {}] /\ dog' = "asleep"
  /\ UNCHANGED <<posted, issues, running, deaths>>

Next ==
  \/ \E w \in Workers : \/ Begin(w) \/ Retried(w) \/ Crash(w)
                        \/ \E refused \in BOOLEAN : Succeed(w, refused)
                        \/ \E permanent \in BOOLEAN : Fail(w, permanent)
  \/ RowsDone \/ AwaitBackfill \/ BackfillArrives
  \/ Deliver \/ Started \/ WatchdogTick \/ Respawn \/ Tick \/ Reload

Spec == Init /\ [][Next]_vars

\* The event loop runs its jobs, the watchdog keeps its cadence, time passes and a worker
\* goes on after its sleep.  A database call may last for ever.
Fairness ==
  /\ WF_vars(Deliver) /\ WF_vars(WatchdogTick) /\ WF_vars(Respawn) /\ WF_vars(Tick)
  /\ \A w \in Workers : WF_vars(Retried(w))
FairSpec == Spec /\ Fairness
-----------------------------------------------------------------------------
(* Properties. *)

TypeOK ==
  /\ alive \in [Workers -> BOOLEAN] /\ shown \in [Workers -> BOOLEAN]
  /\ doing \in [Workers -> {"free", "trying", "asleep", "rows", "waiting"}]
  /\ kind \in [Workers -> {"setup", "migrate", "write", "mark"}]
  /\ call \in [Workers -> Call] /\ chunk \in {"none", "moving", "stalled"}
  /\ age \in [Workers -> 0..StuckAfter] /\ steady \in [Workers -> 0..PoisonSeconds]
  /\ posted \in Seq({"create", "clear"} \X Issues)
  /\ issues \subseteq Issues /\ orphans \subseteq Issues
  /\ tracker \in [seen : BOOLEAN, stalled : SUBSET Workers]
  /\ dog \in Workers \cup {"asleep"}
  /\ chunk # "none" => doing["states"] \in {"rows", "trying", "asleep"}

\* Once the event loop has caught up, a worker with a call that has stalled is shown as
\* stalled, and a worker shown as stalled has such a call (retry.py:234, states_worker.py:269
\* "auto-clears on recovery"): over rows inserted one by one inside a chunk that had stalled
\* itself, drops that end a stalled streak and streaks that are stalled again.  It is about
\* the calls with a stall hook, and about the thread and the entry that raised the issue:
\* what is left behind when one of these goes is the question of IssuesClear.
StallShown ==
  posted = <<>> => \A w \in Workers :
    /\ Raised(w) => StalledIssue(w) \in issues
    /\ StalledIssue(w) \in issues \ orphans => Raised(w) \/ (w = "states" /\ chunk = "stalled")

\* A state row is dropped only when no transient failure fell into the last minute: an outage
\* does not cost data (retry.py:186, "A transient failure resets the count and the clock").
\* Metadata is another matter: an item that a constraint refuses is dropped at once.
DropAfterSteadyFailures ==
  [][\A w \in Workers \cap {"states"} :
       <<"create", Dropped(w)>> \in {posted'[n] : n \in DOMAIN posted'} =>
         \/ <<"create", Dropped(w)>> \in {posted[n] : n \in DOMAIN posted}
         \/ steady[w] = PoisonSeconds]_vars

\* A worker that fails to write is not held up for ever unseen: the call ends, or one of the
\* issues is raised, whatever transient failures, permanent failures, vetoes and attempts that
\* do not return alternate (retry.py:226 holds the notification back, watchdog.py:13).  The
\* setup and the mark have no such hook and may fail for ever unseen (states_worker.py:176).
NeverSilent ==
  \A w \in Workers :
    doing[w] = "asleep" /\ Hooked(w) ~>
      (call[w].attempts = 0 \/ {StalledIssue(w), IngestionStalled} \cap issues # {})

\* A worker that stays in a database call, or in the wait for backfill data, is reported
\* (watchdog.py:181, issue 14), and a watchdog that lives on withdraws its report when nothing
\* is stuck any more; the one that a reload starts does not know of it (IssuesClear).
StuckIsReported ==
  \A w \in Workers :
    running /\ doing[w] \in {"trying", "waiting"} ~>
      (doing[w] \notin {"trying", "waiting"} \/ IngestionStalled \in issues)
ReportIsWithdrawn ==
  IngestionStalled \in issues ~>
    (IngestionStalled \notin issues \/ IngestionStalled \in orphans \/ \E w \in Workers : Stuck(w))

\* The connectivity sensors come to show which workers are alive (watchdog.py:124).
SensorsCatchUp == []<>(shown = alive)

\* "Clears: on next success", "when the worker moves again" (README.md:423-425; and
\* states_worker.py:289, "cleared by _recovery_hook on next success"): a write that succeeds
\* when the event loop has run every job, no other worker is cut off from the database and
\* the watchdog sees nothing stuck leaves neither the worker's own issue nor the two others.
IssuesClear ==
  [][\A w \in Workers :
       /\ Succeed(w, FALSE) /\ kind[w] = "write" /\ chunk = "none"
       /\ posted' = <<>> /\ tracker.stalled = {}
       /\ \A v \in Workers \ {w} : ~call[v].sustained
       => issues \cap {StalledIssue(w), Unreachable, IngestionStalled} = {}]_vars
=============================================================================
