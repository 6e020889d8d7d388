---------------------- MODULE StatesIngestGapProofs ----------------------
(***************************************************************************)
(* No hole out of reach: the theorems about what StatesIngest may have     *)
(* missing from the table, for every value of its constants.  The argument *)
(* is an order between what is missing and what is on its way: whatever    *)
(* reaches the table next is at most the grace ahead of everything that is *)
(* still missing and not on its way before it.                             *)
(***************************************************************************)
EXTENDS StatesIngestProofs

-----------------------------------------------------------------------------
(* The inductive invariant.                                                *)

Missing == {n \in 1..now : ~Settled(n)}
Hands == buffer \union chunk
Queued == UNION {backfillQ[i].rows : i \in 1..Len(backfillQ)}

\* The event n is at most the grace behind every event of S.
Within(n, S) == \A m \in S : m <= n + Grace

\* The worker may still take a slice: after stop_event only from the get it waits in.
Attentive == ~stop \/ wpc = "get"

\* Which buffers may be filled where, and that the listener goes last.
Shape ==
  /\ wpc # "flush" => chunk = {}
  /\ wpc # "flush" /\ mode # "LIVE" => buffer = {}
  /\ wpc \in {"setup", "exited", "dead"} => buffer = {}
  /\ wpc \in {"get", "flush"} => mode # "INIT"
  /\ wpc = "setup" => mode = "INIT"
  /\ mode = "LIVE" /\ wpc \in {"top", "get"} => Cardinality(buffer) < BatchMax
  /\ opc # "put" => fetched = {}
  /\ ~listening => stop /\ opc = "off"

\* Nothing is stored, given up on or on its way that was not fired.
Fired ==
  /\ stored \subseteq 1..now /\ dead \subseteq 1..now /\ gone \subseteq 1..now
  /\ liveQ \subseteq 1..now /\ Hands \subseteq 1..now
  /\ fetched \subseteq 1..now /\ Queued \subseteq 1..now
  /\ oldest <= committed + 1

\* No cycle looks past the present.
Clock == tClear <= now + 1 /\ sliceStart <= now + 1

\* GapWithinGrace, also for the rows in the worker's hands.
Reach == \A n \in Missing : Within(n, stored \union Hands)

\* A queued slice is at most the grace ahead of what does not come before it ...
QueueReach ==
  Attentive =>
    \A i \in 1..Len(backfillQ), n \in Missing :
      \/ Within(n, backfillQ[i].rows)
      \/ n \in Hands
      \/ \E j \in 1..(i - 1) : n \in backfillQ[j].rows

\* ... and so is a slice about to be queued.
FetchReach ==
  Attentive /\ opc = "put" =>
    \A n \in Missing : Within(n, fetched) \/ n \in Hands \union Queued

\* A cycle that fetches has everything missing on its way or ahead of its cursor,
Cursor ==
  Attentive /\ opc \in {"slice", "put"} =>
    \A n \in Missing : n \in InFlight \/ n >= sliceStart

\* and one that has fetched has come to t_clear.
CursorEnd ==
  ~stop /\ opc = "putDone" =>
    /\ sliceStart >= tClear
    /\ \A n \in Missing : n \in InFlight \/ n >= sliceStart

\* From t_clear on the live queue holds the events of the cycle, unless it overflows.
Cleared ==
  CycleRunning => \A n \in 1..now : n >= tClear => overflowed \/ n \in liveQ

DoneHolds ==
  DoneQueued /\ ~stop =>
    \A n \in Missing : overflowed \/ n \in Hands \union Queued \union liveQ

CycleInv == QueueReach /\ FetchReach /\ Cursor /\ CursorEnd /\ Cleared /\ DoneHolds

\* LiveHoldsUnsettled, and its counterpart for a worker that takes from a queue that
\* has overflowed: what was dropped is newer than what it takes.
LiveHolds ==
  mode = "LIVE" /\ ~overflowed /\ ~stop /\ wpc # "dead" =>
    \A n \in Missing : n \in liveQ \union Hands
LiveGet ==
  mode = "LIVE" /\ wpc = "get" =>
    \A n \in Missing : n \in buffer \/ (\E l \in liveQ : l <= n) \/ (~listening /\ liveQ = {})

\* Live events are queued, and batched, without a gap.
QueueContiguous ==
  ~overflowed /\ listening => \A b \in liveQ : \A k \in b..now : k \in liveQ
BatchContiguous ==
  mode = "LIVE" /\ wpc \in {"top", "get"} /\ ~overflowed /\ listening =>
    \A b \in buffer : \A k \in b..now : k \in buffer \union liveQ
GetContiguous ==
  mode = "LIVE" /\ wpc = "get" =>
    \A b \in buffer : \A k \in b..now :
      k \in buffer \/ (\E l \in liveQ : l <= k) \/ (~listening /\ liveQ = {})

LiveInv == LiveHolds /\ LiveGet /\ QueueContiguous /\ BatchContiguous /\ GetContiguous

GapInv == Shape /\ Fired /\ Clock /\ stored # {} /\ Reach /\ CycleInv /\ LiveInv
-----------------------------------------------------------------------------
(* What is missing.                                                        *)

\* A missing event has no row, and HA's recorder still has it or will have it.
LEMMA MissingEvents ==
  ASSUME Types
  PROVE  /\ \A n \in Missing : /\ n \in Event /\ n \in Nat /\ n <= now
                               /\ n \notin stored /\ n \notin dead /\ n \notin gone
                               /\ oldest <= n
         /\ now \in Nat /\ Grace \in Nat /\ 1..now \subseteq Event
BY BoundsAssumption DEF Missing, Settled, Types, Event

\* The table, the dead letters, the recorder's losses and its purge only grow.
LEMMA SettledGrows ==
  ASSUME Types, [Next]_vars
  PROVE  /\ stored \subseteq stored' /\ dead \subseteq dead' /\ gone \subseteq gone'
         /\ oldest <= oldest'
<1> USE DEF recorderVars, tableVars, queueVars, requestVars, workerVars, orchVars,
        controlVars, Types
<1>insert. CASE InsertRows
  BY <1>insert DEF InsertRows
<1>worker. CASE WorkerStep /\ ~InsertRows
  <2>1. UNCHANGED <<recorderVars, tableVars>>
    BY <1>worker DEF WorkerStep, SetupSchema, LeaveLoop, RequestBackfill, EnterGet,
       GetTimeout, GetSlice, GetDone, GetLive, TakeChunk, AbandonChunk, EndFlush
  <2> QED
    BY <2>1
<1>orchestrator. CASE OrchestratorStep
  <2>1. UNCHANGED <<recorderVars, tableVars>>
    BY <1>orchestrator DEF OrchestratorStep, BeginCycle, ReadWatermark, FetchSlice,
       PutSlice, EndSlices, PutDone
  <2> QED
    BY <2>1
<1>outside. CASE FireEvent \/ RecorderCommit \/ RecorderPurge \/ WorkerDies \/ Respawn
                 \/ DeliverRequest \/ StartOrchestrator \/ OrchestratorCrash \/ Relaunch
  <2>1. UNCHANGED <<tableVars, gone>> /\ (oldest' = oldest \/ oldest' = oldest + 1)
    BY <1>outside DEF FireEvent, RecorderCommit, RecorderPurge, WorkerDies, Respawn,
       DeliverRequest, StartOrchestrator, OrchestratorCrash, Relaunch
  <2> QED
    BY <2>1
<1>lifecycle. CASE Stop \/ CancelOrchestrator \/ StopListener \/ Restart \/ Kill
  <2>1. UNCHANGED <<tableVars, oldest>> /\ (gone' = gone \/ gone' = gone \union (committed + 1)..now)
    BY <1>lifecycle DEF Stop, CancelOrchestrator, StopListener, Restart, Kill
  <2> QED
    BY <2>1
<1>stutter. CASE UNCHANGED vars
  BY <1>stutter DEF vars
<1> QED
  BY <1>insert, <1>worker, <1>orchestrator, <1>outside, <1>lifecycle, <1>stutter DEF Next

\* What is settled stays so; only a new event can be newly missing.
LEMMA MissingShrinks ==
  ASSUME Types, Types', [Next]_vars
  PROVE  /\ \A n \in Missing' : n \in Missing \/ now < n
         /\ now' = now => Missing' \subseteq Missing
<1>1. /\ stored \subseteq stored' /\ dead \subseteq dead' /\ gone \subseteq gone'
      /\ oldest <= oldest'
  BY SettledGrows
<1>2. now \in Nat /\ now' \in Nat /\ oldest \in Nat /\ oldest' \in Nat
  BY BoundsAssumption DEF Types
<1>3. \A n \in Missing' : n \in 1..now' /\ n \notin (stored' \union dead' \union gone') /\ ~(n < oldest')
  BY DEF Missing, Settled
<1>4. ASSUME NEW n \in Missing', n <= now PROVE n \in Missing
  <2>1. n \in 1..now /\ n \notin (stored \union dead \union gone) /\ ~(n < oldest)
    BY <1>1, <1>2, <1>3, <1>4
  <2> QED
    BY <2>1 DEF Missing, Settled
<1> QED
  BY <1>2, <1>3, <1>4

-----------------------------------------------------------------------------
(* The backfill queue.                                                     *)

\* Taking the first item moves its rows out of the queue.
LEMMA QueuedTail ==
  ASSUME NEW q \in Seq(Items), q # <<>>
  PROVE  /\ Len(q) \in Nat \ {0} /\ Len(Tail(q)) = Len(q) - 1
         /\ \A i \in 1..Len(Tail(q)) : Tail(q)[i] = q[i + 1]
         /\ Head(q) = q[1] /\ Head(q).rows \subseteq Event
         /\ UNION {q[i].rows : i \in 1..Len(q)}
              = Head(q).rows \union UNION {Tail(q)[i].rows : i \in 1..Len(Tail(q))}
<1>1. /\ Len(q) \in Nat \ {0} /\ Len(Tail(q)) = Len(q) - 1
      /\ \A i \in 1..Len(Tail(q)) : Tail(q)[i] = q[i + 1]
      /\ Head(q) = q[1] /\ q[1] \in Items
  OBVIOUS
<1>2. Head(q).rows \subseteq Event
  BY <1>1 DEF Items, Done
<1>3. ASSUME NEW n
      PROVE  (\E i \in 1..Len(q) : n \in q[i].rows)
               <=> n \in Head(q).rows \/ \E i \in 1..Len(Tail(q)) : n \in Tail(q)[i].rows
  <2>1. ASSUME NEW i \in 1..Len(q), n \in q[i].rows, i # 1
        PROVE  i - 1 \in 1..Len(Tail(q)) /\ n \in Tail(q)[i - 1].rows
    <3>1. i - 1 \in 1..Len(Tail(q)) /\ (i - 1) + 1 = i
      BY <1>1, <2>1
    <3> QED
      BY <1>1, <2>1, <3>1
  <2>2. ASSUME NEW i \in 1..Len(Tail(q)), n \in Tail(q)[i].rows
        PROVE  i + 1 \in 1..Len(q) /\ n \in q[i + 1].rows
    BY <1>1, <2>2
  <2>3. 1 \in 1..Len(q)
    BY <1>1
  <2> QED
    BY <1>1, <2>1, <2>2, <2>3
<1>4. UNION {q[i].rows : i \in 1..Len(q)}
        = Head(q).rows \union UNION {Tail(q)[i].rows : i \in 1..Len(Tail(q))}
  BY <1>3
<1> QED
  BY <1>1, <1>2, <1>4

\* Appending an item adds its rows.
LEMMA QueuedAppend ==
  ASSUME NEW q \in Seq(Items), NEW item \in Items
  PROVE  /\ Len(q) \in Nat /\ Len(Append(q, item)) = Len(q) + 1
         /\ \A i \in 1..Len(q) : Append(q, item)[i] = q[i]
         /\ Append(q, item)[Len(q) + 1] = item
         /\ UNION {Append(q, item)[i].rows : i \in 1..Len(Append(q, item))}
              = item.rows \union UNION {q[i].rows : i \in 1..Len(q)}
<1>1. /\ Len(q) \in Nat /\ Len(Append(q, item)) = Len(q) + 1
      /\ \A i \in 1..Len(q) : Append(q, item)[i] = q[i]
      /\ Append(q, item)[Len(q) + 1] = item
  OBVIOUS
<1>2. ASSUME NEW n
      PROVE  (\E i \in 1..Len(Append(q, item)) : n \in Append(q, item)[i].rows)
               <=> n \in item.rows \/ \E i \in 1..Len(q) : n \in q[i].rows
  <2>1. \A i \in 1..(Len(q) + 1) : i \in 1..Len(q) \/ i = Len(q) + 1
    BY <1>1
  <2>2. Len(q) + 1 \in 1..(Len(q) + 1) /\ \A i \in 1..Len(q) : i \in 1..(Len(q) + 1)
    BY <1>1
  <2> QED
    BY <1>1, <2>1, <2>2
<1> QED
  BY <1>1, <1>2

\* An empty queue holds no rows.
LEMMA QueuedEmpty == backfillQ = <<>> => Queued = {}
BY DEF Queued

\* A batch without gaps that is not full spans less than the grace.
LEMMA BatchSpan ==
  ASSUME NEW S, S \subseteq Event, Cardinality(S) < BatchMax,
         NEW b \in Nat, NEW l \in Nat, \A k \in b..(l - 1) : k \in S
  PROVE  l <= b + Grace
<1>1. CASE l <= b
  BY <1>1, BoundsAssumption
<1>2. CASE b < l
  <2>1. IsFiniteSet(S) /\ Cardinality(S) \in Nat
    BY EventsAreFinite
  <2>2. b..(l - 1) \subseteq S
    OBVIOUS
  <2>3. Cardinality(b..(l - 1)) <= Cardinality(S)
    BY <2>1, <2>2, FS_Subset
  <2>4. Cardinality(b..(l - 1)) = l - b
    <3>1. b \in Int /\ l - 1 \in Int /\ ~(b > l - 1)
      BY <1>2
    <3>2. Cardinality(b..(l - 1)) = (l - 1) - b + 1
      BY <3>1, FS_Interval
    <3> QED
      BY <3>2
  <2> QED
    BY <2>1, <2>3, <2>4, BoundsAssumption, GraceAssumption
<1> QED
  BY <1>1, <1>2
-----------------------------------------------------------------------------
(* Where the buffers may be filled.                                        *)

LEMMA ShapeStep ==
  ASSUME Types, Shape, [Next]_vars
  PROVE  Shape'
<1> USE DEF recorderVars, tableVars, queueVars, requestVars, workerVars, orchVars,
        controlVars, WorkerAt, Goto, Shape
<1>none. Cardinality({}) < BatchMax
  BY FS_EmptySet, BoundsAssumption
<1>worker. CASE WorkerStep
  <2>0. opc' = opc /\ fetched' = fetched /\ listening' = listening /\ stop' = stop
    BY <1>worker DEF WorkerStep, SetupSchema, LeaveLoop, RequestBackfill, EnterGet,
       GetTimeout, GetSlice, GetDone, GetLive, TakeChunk, InsertRows, AbandonChunk, EndFlush
  <2>1. CASE SetupSchema \/ LeaveLoop
    BY <1>none, <2>0, <2>1 DEF SetupSchema, LeaveLoop
  <2>2. CASE RequestBackfill
    BY <1>none, <2>0, <2>2 DEF RequestBackfill, NeedsBackfill, PostRequest
  <2>3. CASE EnterGet \/ GetTimeout
    BY <2>0, <2>3 DEF EnterGet, NeedsBackfill, GetTimeout, TimeoutFlushes, Types, Modes
  <2>4. CASE GetSlice
    BY <2>0, <2>4 DEF GetSlice
  <2>5. CASE GetDone
    <3>1. buffer' = {} /\ chunk' = {} /\ wpc' = "top" /\ mode' = "LIVE"
      BY <2>5 DEF GetDone
    <3> QED
      BY <1>none, <2>0, <3>1
  <2>6. CASE GetLive
    BY <2>0, <2>6 DEF GetLive
  <2>7. CASE TakeChunk \/ AbandonChunk \/ InsertRows
    BY <2>0, <2>7 DEF TakeChunk, AbandonChunk, InsertRows
  <2>8. CASE EndFlush
    BY <1>none, <2>0, <2>8 DEF EndFlush, PostRequest
  <2> QED
    BY <1>worker, <2>1, <2>2, <2>3, <2>4, <2>5, <2>6, <2>7, <2>8 DEF WorkerStep
<1>thread. CASE WorkerDies \/ Respawn
  BY <1>thread DEF WorkerDies, Respawn, Strike
<1>orchestrator. CASE StartOrchestrator \/ OrchestratorStep \/ OrchestratorCrash
                      \/ Relaunch \/ CancelOrchestrator
  <2>1. UNCHANGED <<workerVars, listening, stop>>
    BY <1>orchestrator DEF StartOrchestrator, OrchestratorStep, BeginCycle, ReadWatermark,
       FetchSlice, PutSlice, EndSlices, PutDone, OrchestratorCrash, Relaunch,
       CancelOrchestrator
  <2>2. opc' # "put" => fetched' = {}
    BY <1>orchestrator DEF StartOrchestrator, OrchestratorStep, BeginCycle, ReadWatermark,
       FetchSlice, PutSlice, EndSlices, PutDone, OrchestratorCrash, Relaunch,
       CancelOrchestrator
  <2>3. listening \/ (stop /\ opc' = "off")
    BY <1>orchestrator DEF StartOrchestrator, OrchestratorStep, BeginCycle, ReadWatermark,
       FetchSlice, PutSlice, EndSlices, PutDone, OrchestratorCrash, Relaunch,
       CancelOrchestrator
  <2> QED
    BY <2>1, <2>2, <2>3
<1>outside. CASE FireEvent \/ RecorderCommit \/ RecorderPurge \/ DeliverRequest
  BY <1>outside DEF FireEvent, RecorderCommit, RecorderPurge, DeliverRequest
<1>stop. CASE Stop \/ StopListener
  BY <1>stop DEF Stop, StopListener
<1>fresh. CASE Restart \/ Kill
  BY <1>fresh DEF Restart, Kill, FreshRuntime
<1>stutter. CASE UNCHANGED vars
  BY <1>stutter DEF vars
<1> QED
  BY <1>worker, <1>thread, <1>orchestrator, <1>outside, <1>stop, <1>fresh, <1>stutter DEF Next

-----------------------------------------------------------------------------
(* Only events that were fired are anywhere.                               *)

\* A step that moves events between the buffers, or drops them, keeps Fired.
LEMMA FiredKept ==
  ASSUME Types, Fired, UNCHANGED <<now, committed, oldest, gone>>,
         stored' \subseteq stored \union Hands, dead' \subseteq dead \union Hands,
         liveQ' \subseteq liveQ,
         Hands' \subseteq Hands \union liveQ \union Queued,
         fetched' \subseteq fetched \union 1..committed,
         Queued' \subseteq Queued \union fetched
  PROVE  Fired'
<1>1. 1..committed \subseteq 1..now
  BY BoundsAssumption DEF Types
<1>2. now' = now /\ gone' = gone /\ oldest' = oldest /\ committed' = committed
  OBVIOUS
<1> QED
  BY <1>1, <1>2 DEF Fired

LEMMA FiredStep ==
  ASSUME Types, Types', Fired, [Next]_vars
  PROVE  Fired'
<1> USE DEF recorderVars, tableVars, queueVars, requestVars, workerVars, orchVars,
        controlVars
<1>fire. CASE FireEvent
  <2>1. /\ now \in Nat /\ now' = now + 1 /\ liveQ' \subseteq liveQ \union {now + 1}
        /\ UNCHANGED <<committed, oldest, gone, stored, dead, backfillQ, buffer, chunk, fetched>>
    BY <1>fire DEF FireEvent, PutLive, Types
  <2>2. 1..now \subseteq 1..now' /\ now + 1 \in 1..now'
    BY <2>1
  <2>3. Hands' = Hands /\ Queued' = Queued
    BY <2>1 DEF Hands, Queued
  <2> QED
    BY <2>1, <2>2, <2>3 DEF Fired
<1>recorder. CASE RecorderCommit \/ RecorderPurge
  <2>1. UNCHANGED <<now, gone, stored, dead, liveQ, backfillQ, buffer, chunk, fetched>>
    BY <1>recorder DEF RecorderCommit, RecorderPurge
  <2>3. oldest' <= committed' + 1
    <3>1. committed \in Int /\ oldest \in Int /\ oldest <= committed + 1
      BY DEF Fired, Types
    <3> QED
      BY <1>recorder, <3>1 DEF RecorderCommit, RecorderPurge
  <2>2. Hands' = Hands /\ Queued' = Queued
    BY <2>1 DEF Hands, Queued
  <2> QED
    BY <2>1, <2>2, <2>3 DEF Fired
<1>kept. ASSUME UNCHANGED <<now, committed, oldest, gone>>,
                UNCHANGED <<stored, dead, liveQ, backfillQ, buffer, chunk, fetched>>
         PROVE  Fired'
  BY <1>kept DEF Fired, Hands, Queued
<1>worker. CASE WorkerStep
  <2>0. fetched' = fetched /\ UNCHANGED <<now, committed, oldest, gone>>
    BY <1>worker DEF WorkerStep, SetupSchema, LeaveLoop, RequestBackfill, EnterGet,
       GetTimeout, GetSlice, GetDone, GetLive, TakeChunk, InsertRows, AbandonChunk, EndFlush
  <2>1. CASE SetupSchema \/ LeaveLoop \/ RequestBackfill \/ EnterGet \/ GetTimeout \/ EndFlush
    BY <2>0, <2>1, <1>kept DEF SetupSchema, LeaveLoop, RequestBackfill, EnterGet, GetTimeout,
       EndFlush
  <2>2. CASE GetSlice
    <3>1. backfillQ \in Seq(Items) /\ backfillQ # <<>> /\ backfillQ' = Tail(backfillQ)
            /\ buffer' = buffer \union Head(backfillQ).rows
            /\ UNCHANGED <<stored, dead, liveQ, chunk>>
      BY <2>2 DEF GetSlice, Types
    <3>4. Queued' = UNION {Tail(backfillQ)[i].rows : i \in 1..Len(Tail(backfillQ))}
      BY <3>1 DEF Queued
    <3>2. Queued = Head(backfillQ).rows \union Queued'
      BY <3>1, <3>4, QueuedTail DEF Queued
    <3>3. Hands' = Hands \union Head(backfillQ).rows
      BY <3>1 DEF Hands
    <3> QED
      BY <2>0, <3>1, <3>2, <3>3, FiredKept
  <2>3. CASE GetDone
    <3>1. backfillQ \in Seq(Items) /\ backfillQ # <<>> /\ backfillQ' = Tail(backfillQ)
            /\ UNCHANGED <<stored, dead, liveQ, buffer, chunk>>
      BY <2>3 DEF GetDone, Types
    <3>4. Queued' = UNION {Tail(backfillQ)[i].rows : i \in 1..Len(Tail(backfillQ))}
      BY <3>1 DEF Queued
    <3>2. Queued = Head(backfillQ).rows \union Queued'
      BY <3>1, <3>4, QueuedTail DEF Queued
    <3>3. Hands' = Hands
      BY <3>1 DEF Hands
    <3> QED
      BY <2>0, <3>1, <3>2, <3>3, FiredKept
  <2>4. CASE GetLive
    <3>1. /\ liveQ \subseteq Nat /\ liveQ # {} /\ liveQ' = liveQ \ {Least(liveQ)}
          /\ buffer' = buffer \union {Least(liveQ)}
          /\ UNCHANGED <<stored, dead, backfillQ, chunk>>
      BY <2>4 DEF GetLive, Types, Event
    <3>2. Least(liveQ) \in liveQ
      BY <3>1, LeastInSet
    <3>3. Queued' = Queued /\ Hands' \subseteq Hands \union liveQ
      BY <3>1, <3>2 DEF Hands, Queued
    <3> QED
      BY <2>0, <3>1, <3>3, FiredKept
  <2>5. CASE TakeChunk \/ AbandonChunk
    <3>1. /\ UNCHANGED <<stored, dead, liveQ, backfillQ>>
          /\ buffer' \union chunk' \subseteq buffer \union chunk
      BY <2>5 DEF TakeChunk, AbandonChunk, FirstRows
    <3>2. Queued' = Queued /\ Hands' \subseteq Hands
      BY <3>1 DEF Hands, Queued
    <3> QED
      BY <2>0, <3>1, <3>2, FiredKept
  <2>6. CASE InsertRows
    <3>1. /\ UNCHANGED <<liveQ, backfillQ, buffer>> /\ chunk' \subseteq chunk
          /\ stored' \subseteq stored \union chunk /\ dead' \subseteq dead \union chunk
      BY <2>6 DEF InsertRows
    <3>2. Queued' = Queued /\ Hands' \subseteq Hands /\ chunk \subseteq Hands
      BY <3>1 DEF Hands, Queued
    <3> QED
      BY <2>0, <3>1, <3>2, FiredKept
  <2> QED
    BY <1>worker, <2>1, <2>2, <2>3, <2>4, <2>5, <2>6 DEF WorkerStep
<1>thread. CASE WorkerDies
  <2>1. /\ UNCHANGED <<now, committed, oldest, gone, stored, dead, liveQ, backfillQ, fetched>>
        /\ buffer' = {} /\ chunk' = {}
    BY <1>thread DEF WorkerDies
  <2>2. Queued' = Queued /\ Hands' = {}
    BY <2>1 DEF Hands, Queued
  <2> QED
    BY <2>1, <2>2, FiredKept
<1>quiet. CASE Respawn \/ DeliverRequest \/ StartOrchestrator \/ OrchestratorCrash \/ Relaunch
               \/ Stop \/ StopListener
  BY <1>quiet, <1>kept DEF Respawn, DeliverRequest, StartOrchestrator, OrchestratorCrash,
     Relaunch, Stop, StopListener
<1>orchestrator. CASE OrchestratorStep \/ CancelOrchestrator
  <2>0. UNCHANGED <<now, committed, oldest, gone, stored, dead, buffer, chunk>> /\ Hands' = Hands
    BY <1>orchestrator DEF OrchestratorStep, BeginCycle, ReadWatermark, FetchSlice, PutSlice,
       EndSlices, PutDone, CancelOrchestrator, Hands
  <2>1. CASE ReadWatermark \/ EndSlices
    BY <2>0, <2>1, <1>kept DEF ReadWatermark, EndSlices
  <2>2. CASE BeginCycle \/ CancelOrchestrator
    <3>1. liveQ' \subseteq liveQ /\ fetched' \subseteq fetched /\ backfillQ' = backfillQ
      BY <2>2 DEF BeginCycle, CancelOrchestrator
    <3>2. Queued' = Queued
      BY <3>1 DEF Queued
    <3> QED
      BY <2>0, <3>1, <3>2, FiredKept
  <2>3. CASE FetchSlice
    <3>1. UNCHANGED <<liveQ, backfillQ>>
      BY <2>3 DEF FetchSlice
    <3>2. fetched' \subseteq 1..committed
      BY <2>3, BoundsAssumption DEF FetchSlice, RecorderRows, Event, Types
    <3>3. Queued' = Queued
      BY <3>1 DEF Queued
    <3> QED
      BY <2>0, <3>1, <3>2, <3>3, FiredKept
  <2>4. CASE PutSlice \/ PutDone
    <3>1. PICK item \in {Slice(fetched), Done} : backfillQ' = Append(backfillQ, item)
      BY <2>4 DEF PutSlice, PutDone
    <3>2. backfillQ \in Seq(Items) /\ item \in Items /\ item.rows \subseteq fetched
      BY <3>1 DEF Types, Slice, Done, Items
    <3>3. Queued' = item.rows \union Queued
      BY <3>1, <3>2, QueuedAppend DEF Queued
    <3>4. liveQ' = liveQ /\ fetched' \subseteq fetched
      BY <2>4 DEF PutSlice, PutDone
    <3> QED
      BY <2>0, <3>2, <3>3, <3>4, FiredKept
  <2> QED
    BY <1>orchestrator, <2>1, <2>2, <2>3, <2>4 DEF OrchestratorStep
<1>fresh. FreshRuntime => Hands' = {} /\ Queued' = {} /\ liveQ' = {} /\ fetched' = {}
  BY DEF FreshRuntime, Hands, Queued
<1>restart. CASE Restart
  <2>1. UNCHANGED <<now, committed, oldest, gone, stored, dead>>
    BY <1>restart DEF Restart
  <2> QED
    BY <1>restart, <1>fresh, <2>1 DEF Restart, Fired
<1>kill. CASE Kill
  <2>1. /\ UNCHANGED <<now, oldest, stored, dead>> /\ committed' = now
        /\ gone' = gone \union (committed + 1)..now
    BY <1>kill DEF Kill
  <2>2. (committed + 1)..now \subseteq 1..now /\ committed <= now
        /\ now \in Int /\ committed \in Int /\ oldest \in Int
    BY BoundsAssumption DEF Types
  <2> QED
    BY <1>kill, <1>fresh, <2>1, <2>2 DEF Kill, Fired
<1>stutter. CASE UNCHANGED vars
  BY <1>stutter, <1>kept DEF vars
<1> QED
  BY <1>fire, <1>recorder, <1>worker, <1>thread, <1>quiet, <1>orchestrator, <1>restart,
     <1>kill, <1>stutter DEF Next
-----------------------------------------------------------------------------
(* The cursor of a cycle.                                                  *)

\* What is missing when a cycle reads the watermark is not behind the first instant it
\* fetches, whether or not the recorder knows its oldest event; nor is that instant in
\* the future.
LEMMA FetchFromReaches ==
  ASSUME Types, Fired, Reach, stored # {}, NEW known \in BOOLEAN
  PROVE  FetchFrom(known) <= now + 1 /\ \A n \in Missing : FetchFrom(known) <= n
<1>1. Watermark \in stored /\ Watermark \in Nat
  BY WatermarkType, BoundsAssumption DEF Types
<1>2. Watermark <= now /\ now \in Nat /\ Grace \in Nat /\ oldest \in Nat /\ oldest <= now + 1
  BY <1>1, BoundsAssumption DEF Fired, Types
<1>3. ASSUME NEW n \in Missing PROVE n \in Nat /\ Watermark <= n + Grace /\ 1 <= n /\ oldest <= n
  <2>1. n \in Nat /\ 1 <= n /\ oldest <= n
    BY MissingEvents DEF Event
  <2>2. Watermark <= n + Grace
    BY <1>1 DEF Reach, Within
  <2> QED
    BY <2>1, <2>2
<1> DEFINE from == IF Watermark > Grace THEN Watermark - Grace ELSE 0
<1>4. from \in Nat /\ from <= now /\ \A n \in Missing : from <= n
  BY <1>1, <1>2, <1>3
<1> HIDE DEF from
<1>5. Higher(from, 1) \in Nat /\ Higher(from, 1) <= now + 1 /\ \A n \in Missing : Higher(from, 1) <= n
  BY <1>2, <1>3, <1>4 DEF Higher
<1>6. FetchFrom(known) = IF known THEN Higher(Higher(from, 1), oldest) ELSE Higher(from, 1)
  BY DEF FetchFrom, from
<1>7. FetchFrom(known) = oldest \/ FetchFrom(known) = Higher(from, 1)
  BY <1>6 DEF Higher
<1> QED
  BY <1>2, <1>3, <1>5, <1>7

LEMMA ClockStep ==
  ASSUME Types, Types', Fired, Reach, stored # {}, Clock, [Next]_vars
  PROVE  Clock'
<1> USE DEF recorderVars, tableVars, queueVars, requestVars, workerVars, orchVars,
        controlVars
<1>1. now \in Nat /\ tClear \in Nat /\ sliceStart \in Nat
  BY BoundsAssumption DEF Types
<1>kept. (tClear' = tClear \/ tClear' = 0) /\ (sliceStart' = sliceStart \/ sliceStart' = 0)
           /\ (now' = now \/ now' = now + 1) => Clock'
  BY <1>1 DEF Clock
<1>worker. CASE WorkerStep
  <2>1. UNCHANGED <<now, tClear, sliceStart>>
    BY <1>worker DEF WorkerStep, SetupSchema, LeaveLoop, RequestBackfill, EnterGet,
       GetTimeout, GetSlice, GetDone, GetLive, TakeChunk, InsertRows, AbandonChunk, EndFlush
  <2> QED
    BY <1>kept, <2>1
<1>orchestrator. CASE OrchestratorStep
  <2>1. CASE BeginCycle
    BY <1>1, <2>1 DEF BeginCycle, ClearTime, Clock
  <2>2. CASE ReadWatermark
    <3>1. /\ UNCHANGED <<now, tClear>>
          /\ sliceStart' = sliceStart \/ \E known \in BOOLEAN : sliceStart' = FetchFrom(known)
      BY <2>2 DEF ReadWatermark
    <3> QED
      BY <1>1, <3>1, FetchFromReaches DEF Clock
  <2>3. CASE FetchSlice
    <3>1. UNCHANGED <<now, tClear>> /\ sliceStart' = SliceEnd
      BY <2>3 DEF FetchSlice
    <3>2. SliceEnd <= tClear
      BY <1>1, BoundsAssumption DEF SliceEnd, Lower
    <3>3. SliceEnd \in Int
      BY <1>1, BoundsAssumption DEF SliceEnd, Lower
    <3> QED
      BY <1>1, <3>1, <3>2, <3>3 DEF Clock
  <2>4. CASE PutSlice \/ EndSlices \/ PutDone
    BY <1>kept, <2>4 DEF PutSlice, EndSlices, PutDone
  <2> QED
    BY <1>orchestrator, <2>1, <2>2, <2>3, <2>4 DEF OrchestratorStep
<1>outside. CASE FireEvent \/ RecorderCommit \/ RecorderPurge \/ WorkerDies \/ Respawn
                 \/ DeliverRequest \/ StartOrchestrator \/ OrchestratorCrash \/ Relaunch
  BY <1>kept, <1>outside DEF FireEvent, RecorderCommit, RecorderPurge, WorkerDies, Respawn,
     DeliverRequest, StartOrchestrator, OrchestratorCrash, Relaunch
<1>lifecycle. CASE Stop \/ CancelOrchestrator \/ StopListener \/ Restart \/ Kill
  BY <1>kept, <1>lifecycle DEF Stop, CancelOrchestrator, StopListener, Restart, Kill,
     FreshRuntime
<1>stutter. CASE UNCHANGED vars
  BY <1>kept, <1>stutter DEF vars
<1> QED
  BY <1>worker, <1>orchestrator, <1>outside, <1>lifecycle, <1>stutter DEF Next

-----------------------------------------------------------------------------
(* The order between what is missing and what is in the worker's hands.    *)

LEMMA ReachKept ==
  ASSUME Reach, Missing' \subseteq Missing, stored' \union Hands' \subseteq stored \union Hands
  PROVE  Reach'
BY DEF Reach, Within

LEMMA ReachStep ==
  ASSUME Types, Types', GapInv, [Next]_vars
  PROVE  Reach'
<1> USE DEF recorderVars, tableVars, queueVars, requestVars, workerVars, orchVars,
        controlVars
<1>1. Reach
  BY DEF GapInv
<1>2. now' = now => Missing' \subseteq Missing
  BY MissingShrinks
<1>kept. now' = now /\ stored' \union Hands' \subseteq stored \union Hands => Reach'
  BY <1>1, <1>2, ReachKept
<1>same. UNCHANGED <<now, stored, buffer, chunk>> => Reach'
  BY <1>kept DEF Hands
<1>fire. CASE FireEvent
  <2>1. stored' = stored /\ Hands' = Hands
    BY <1>fire DEF FireEvent, Hands
  <2>2. stored \union Hands \subseteq 1..now
    BY DEF GapInv, Fired
  <2>3. ASSUME NEW n \in Missing', NEW m \in stored \union Hands PROVE m <= n + Grace
    <3>1. CASE n \in Missing
      BY <1>1, <2>3, <3>1 DEF Reach, Within
    <3>2. CASE n \notin Missing
      <4>1. now < n /\ m \in 1..now
        BY <2>2, <2>3, <3>2, MissingShrinks
      <4>2. n \in Nat
        BY <2>3, MissingEvents, BoundsAssumption DEF Missing, Types
      <4> QED
        BY <4>1, <4>2, MissingEvents
    <3> QED
      BY <3>1, <3>2
  <2> QED
    BY <2>1, <2>3 DEF Reach, Within
<1>worker. CASE WorkerStep
  <2>1. CASE SetupSchema \/ LeaveLoop \/ RequestBackfill \/ EnterGet \/ GetTimeout \/ EndFlush
             \/ GetDone
    BY <1>same, <2>1 DEF SetupSchema, LeaveLoop, RequestBackfill, EnterGet, GetTimeout,
       EndFlush, GetDone
  <2>2. CASE GetSlice
    <3>1. /\ wpc = "get" /\ mode = "BACKFILL" /\ backfillQ \in Seq(Items) /\ backfillQ # <<>>
          /\ buffer' = buffer \union Head(backfillQ).rows /\ UNCHANGED <<now, stored, chunk>>
      BY <2>2 DEF GetSlice, WorkerAt, Types
    <3>2. 1 \in 1..Len(backfillQ) /\ Head(backfillQ) = backfillQ[1] /\ Hands = {}
      BY <3>1, QueuedTail DEF GapInv, Shape, Hands
    <3>3. \A n \in Missing : Within(n, backfillQ[1].rows)
      BY <3>1, <3>2 DEF GapInv, CycleInv, QueueReach, Attentive
    <3>4. stored' \union Hands' = stored \union backfillQ[1].rows
      BY <3>1, <3>2 DEF Hands
    <3> QED
      BY <1>1, <1>2, <3>1, <3>3, <3>4 DEF Reach, Within
  <2>3. CASE GetLive
    <3> DEFINE l == Least(liveQ)
    <3>1. /\ wpc = "get" /\ mode = "LIVE" /\ liveQ # {} /\ liveQ \subseteq 1..now
          /\ buffer' = buffer \union {l} /\ UNCHANGED <<now, stored, chunk>>
      BY <2>3 DEF GetLive, WorkerAt, GapInv, Fired
    <3>2. l \in liveQ /\ \A m \in liveQ : l <= m
      <4>1. liveQ \subseteq Nat
        BY <3>1
      <4> QED
        BY <3>1, <4>1, LeastInSet
    <3> HIDE DEF l
    <3>3. l \in Nat /\ l <= now
      <4>1. l \in 1..now
        BY <3>1, <3>2
      <4> QED
        BY <4>1, MissingEvents
    <3>4. ASSUME NEW n \in Missing PROVE l <= n + Grace
      <4>1. n \in buffer \/ (\E m \in liveQ : m <= n)
        BY <3>1 DEF GapInv, LiveInv, LiveGet
      <4>2. CASE \E m \in liveQ : m <= n
        <5>1. PICK m \in liveQ : m <= n
          BY <4>2
        <5>2. l <= m /\ m \in Nat /\ n \in Nat
          BY <3>1, <3>2, <5>1, MissingEvents
        <5> QED
          BY <3>3, <5>1, <5>2, MissingEvents
      <4>3. CASE n \in buffer
        <5>1. \A k \in n..now : k \in buffer \/ (\E m \in liveQ : m <= k)
          BY <3>1, <4>3 DEF GapInv, LiveInv, GetContiguous
        <5>2. n \in Nat
          BY MissingEvents
        <5>3. ASSUME NEW k \in n..(l - 1) PROVE k \in buffer
          <6>1. k \in n..now /\ k \in Int /\ k < l
            BY <3>3, <5>2, MissingEvents
          <6>2. ASSUME NEW m \in liveQ, m <= k PROVE FALSE
            BY <3>1, <3>2, <3>3, <6>1, <6>2
          <6> QED
            BY <5>1, <6>1, <6>2
        <5>4. Cardinality(buffer) < BatchMax /\ buffer \subseteq Event
          BY <3>1 DEF GapInv, Shape, Types
        <5> QED
          BY <3>3, <5>2, <5>3, <5>4, BatchSpan
      <4> QED
        BY <4>1, <4>2, <4>3
    <3>5. stored' \union Hands' \subseteq (stored \union Hands) \union {l}
      BY <3>1 DEF Hands
    <3>6. ASSUME NEW n \in Missing', NEW m \in stored' \union Hands' PROVE m <= n + Grace
      <4>1. n \in Missing
        BY <1>2, <3>1, <3>6
      <4>2. CASE m \in stored \union Hands
        BY <1>1, <4>1, <4>2 DEF Reach, Within
      <4>3. CASE m = l
        BY <3>4, <4>1, <4>3
      <4> QED
        BY <3>5, <3>6, <4>2, <4>3
    <3> QED
      BY <3>6 DEF Reach, Within
  <2>4. CASE TakeChunk \/ AbandonChunk
    <3>1. /\ UNCHANGED <<now, stored>>
          /\ buffer' \union chunk' \subseteq buffer \union chunk
      BY <2>4 DEF TakeChunk, AbandonChunk, FirstRows
    <3> QED
      BY <1>kept, <3>1 DEF Hands
  <2>5. CASE InsertRows
    <3>1. /\ UNCHANGED <<now, buffer>> /\ chunk' \subseteq chunk /\ stored' \subseteq stored \union chunk
      BY <2>5 DEF InsertRows
    <3> QED
      BY <1>kept, <3>1 DEF Hands
  <2> QED
    BY <1>worker, <2>1, <2>2, <2>3, <2>4, <2>5 DEF WorkerStep
<1>orchestrator. CASE OrchestratorStep
  BY <1>same, <1>orchestrator DEF OrchestratorStep, BeginCycle, ReadWatermark, FetchSlice,
     PutSlice, EndSlices, PutDone
<1>outside. CASE RecorderCommit \/ RecorderPurge \/ Respawn \/ DeliverRequest
                 \/ StartOrchestrator \/ OrchestratorCrash \/ Relaunch
  BY <1>same, <1>outside DEF RecorderCommit, RecorderPurge, Respawn,
     DeliverRequest, StartOrchestrator, OrchestratorCrash, Relaunch
<1>lifecycle. CASE Stop \/ CancelOrchestrator \/ StopListener
  BY <1>same, <1>lifecycle DEF Stop, CancelOrchestrator, StopListener
<1>empty. CASE WorkerDies \/ Restart \/ Kill
  <2>1. UNCHANGED <<now, stored>> /\ buffer' = {} /\ chunk' = {}
    BY <1>empty DEF WorkerDies, Restart, Kill, FreshRuntime
  <2> QED
    BY <1>kept, <2>1 DEF Hands
<1>stutter. CASE UNCHANGED vars
  BY <1>same, <1>stutter DEF vars
<1> QED
  BY <1>fire, <1>worker, <1>orchestrator, <1>outside, <1>lifecycle, <1>empty, <1>stutter
     DEF Next
-----------------------------------------------------------------------------
(* What a cycle owes.                                                      *)

\* After a step that leaves no item queued and no cycle running nothing is owed.
LEMMA CycleIdle ==
  ASSUME backfillQ' = <<>>, ~CycleRunning'
  PROVE  CycleInv'
<1>1. ~DoneQueued'
  BY DEF DoneQueued
<1>2. opc' \notin {"slice", "put", "putDone"}
  BY DEF CycleRunning
<1>3. \A i \in 1..Len(backfillQ') : FALSE
  OBVIOUS
<1> QED
  BY <1>1, <1>2, <1>3 DEF CycleInv, QueueReach, FetchReach, Cursor, CursorEnd, Cleared, DoneHolds

\* A step in which only settled rows leave the worker's hands, or after which it takes no
\* further slice, and which leaves the cycle as it is or ends it.
LEMMA CycleKept ==
  ASSUME CycleInv, now' = now, Missing' \subseteq Missing,
         liveQ' = liveQ, overflowed' = overflowed, backfillQ' = backfillQ,
         Attentive' => Attentive, ~stop' => ~stop,
         Attentive' => \A n \in Missing' : n \in Hands => n \in Hands',
         ~CycleRunning' \/ (opc' = opc /\ tClear' = tClear /\ sliceStart' = sliceStart /\ fetched' = fetched)
  PROVE  CycleInv'
<1>1. Queued' = Queued /\ (DoneQueued' <=> DoneQueued)
  BY DEF Queued, DoneQueued
<1>2. InFlight = Hands \union fetched \union Queued /\ InFlight' = Hands' \union fetched' \union Queued'
  BY DEF InFlight, Hands, Queued
<1>3. ~stop' => Attentive'
  BY DEF Attentive
<1>4. QueueReach'
  BY DEF CycleInv, QueueReach, Within
<1>5. FetchReach'
  BY <1>1 DEF CycleInv, FetchReach, Within, CycleRunning
<1>6. Cursor'
  BY <1>1, <1>2 DEF CycleInv, Cursor, CycleRunning
<1>7. CursorEnd'
  BY <1>1, <1>2, <1>3 DEF CycleInv, CursorEnd, CycleRunning
<1>8. Cleared'
  BY DEF CycleInv, Cleared, CycleRunning
<1>9. DoneHolds'
  BY <1>1, <1>3 DEF CycleInv, DoneHolds
<1> QED
  BY <1>4, <1>5, <1>6, <1>7, <1>8, <1>9 DEF CycleInv

\* The rows of a chunk that a transaction, or the dead letters, have taken are settled.
LEMMA InsertedIsSettled ==
  ASSUME Types, Types', InsertRows
  PROVE  \A n \in Missing' : n \in Hands => n \in Hands'
<1>1. PICK S \in SUBSET chunk \ {{}} :
        /\ chunk' = chunk \ S
        /\ stored' = stored \union (S \ Poison)
        /\ dead' = dead \union (S \intersect Poison)
  BY DEF InsertRows
<1>2. buffer' = buffer
  BY DEF InsertRows
<1>3. S \subseteq stored' \union dead'
  BY <1>1
<1>4. \A n \in Missing' : n \notin stored' \union dead'
  BY DEF Missing, Settled
<1> QED
  BY <1>1, <1>2, <1>3, <1>4 DEF Hands

\* An event is fired: the live queue takes it, or overflows.
LEMMA LiveTakes ==
  ASSUME Types, FireEvent, listening
  PROVE  /\ liveQ \subseteq liveQ' /\ (overflowed => overflowed')
         /\ now' \in liveQ' \/ overflowed'
BY DEF FireEvent, PutLive, Types

LEMMA CycleFireStep ==
  ASSUME Types, Types', GapInv, FireEvent
  PROVE  CycleInv'
<1>0. FireEvent => [Next]_vars
  BY DEF Next
<1>1. /\ now' = now + 1 /\ now \in Nat /\ Grace \in Nat
      /\ UNCHANGED <<backfillQ, buffer, chunk, fetched, opc, tClear, sliceStart, stop, wpc, listening>>
  BY MissingEvents DEF FireEvent, workerVars, orchVars, controlVars
<1>2. Hands' = Hands /\ Queued' = Queued /\ InFlight' = InFlight /\ (DoneQueued' <=> DoneQueued)
        /\ (CycleRunning' <=> CycleRunning) /\ (Attentive' <=> Attentive)
  BY <1>1 DEF Hands, Queued, InFlight, DoneQueued, CycleRunning, Attentive
<1>3. \A n \in Missing' : n \in Missing \/ n = now + 1
  <2> TAKE n \in Missing'
  <2>1. n \in Missing \/ now < n
    BY <1>0, MissingShrinks
  <2>2. n \in 1..(now + 1)
    BY <1>1 DEF Missing
  <2> QED
    BY <1>1, <2>1, <2>2
<1>4. \A m \in Queued \union fetched : m <= (now + 1) + Grace
  <2>1. Queued \union fetched \subseteq 1..now
    BY DEF GapInv, Fired
  <2> QED
    BY <1>1, <2>1
<1>5. QueueReach'
  <2> SUFFICES ASSUME Attentive, NEW i \in 1..Len(backfillQ), NEW n \in Missing'
               PROVE  \/ Within(n, backfillQ[i].rows)
                      \/ n \in Hands
                      \/ \E j \in 1..(i - 1) : n \in backfillQ[j].rows
    BY <1>1, <1>2 DEF QueueReach, Within
  <2>1. CASE n \in Missing
    BY <2>1 DEF GapInv, CycleInv, QueueReach
  <2>2. CASE n = now + 1
    <3>1. backfillQ[i].rows \subseteq Queued
      BY DEF Queued
    <3> QED
      BY <1>4, <2>2, <3>1 DEF Within
  <2> QED
    BY <1>3, <2>1, <2>2
<1>6. FetchReach'
  BY <1>1, <1>2, <1>3, <1>4 DEF GapInv, CycleInv, FetchReach, Within
<1>7. sliceStart <= now + 1
  BY DEF GapInv, Clock
<1>8. Cursor'
  BY <1>1, <1>2, <1>3, <1>7 DEF GapInv, CycleInv, Cursor
<1>9. CursorEnd'
  BY <1>1, <1>2, <1>3, <1>7 DEF GapInv, CycleInv, CursorEnd
<1>10. ASSUME listening
       PROVE  (now + 1 \in liveQ' \/ overflowed') /\ liveQ \subseteq liveQ' /\ (overflowed => overflowed')
  BY <1>1, <1>10, LiveTakes
<1>11. Cleared'
  <2> SUFFICES ASSUME CycleRunning, NEW n \in 1..(now + 1), n >= tClear
               PROVE  overflowed' \/ n \in liveQ'
    BY <1>1, <1>2 DEF Cleared
  <2>1. listening
    BY DEF GapInv, Shape, CycleRunning
  <2>2. n = now + 1 \/ n \in 1..now
    BY <1>1
  <2> QED
    BY <1>10, <2>1, <2>2 DEF GapInv, CycleInv, Cleared
<1>12. DoneHolds'
  <2> SUFFICES ASSUME DoneQueued, ~stop, NEW n \in Missing'
               PROVE  overflowed' \/ n \in Hands \union Queued \union liveQ'
    BY <1>1, <1>2 DEF DoneHolds
  <2>1. listening
    BY DEF GapInv, Shape
  <2> QED
    BY <1>3, <1>10, <2>1 DEF GapInv, CycleInv, DoneHolds
<1> QED
  BY <1>5, <1>6, <1>8, <1>9, <1>11, <1>12 DEF CycleInv

LEMMA CycleWorkerStep ==
  ASSUME Types, Types', HandshakeInv, HandshakeInv', GapInv, WorkerStep
  PROVE  CycleInv'
<1> USE DEF recorderVars, tableVars, queueVars, requestVars, workerVars, orchVars,
        controlVars, WorkerAt, Goto
<1>0. WorkerStep => [Next]_vars
  BY DEF Next
<1>1. UNCHANGED <<now, opc, tClear, sliceStart, fetched, stop, overflowed>>
  BY DEF WorkerStep, SetupSchema, LeaveLoop, RequestBackfill, EnterGet,
     GetTimeout, GetSlice, GetDone, GetLive, TakeChunk, InsertRows, AbandonChunk, EndFlush
<1>2. Missing' \subseteq Missing /\ CycleInv
  BY <1>0, <1>1, MissingShrinks DEF GapInv
\* Outside MODE_BACKFILL nothing is owed.
<1>idle. CASE mode' # "BACKFILL"
  <2>1. backfillQ' = <<>> /\ ~CycleRunning'
    BY <1>idle DEF HandshakeInv
  <2> QED
    BY <2>1, CycleIdle
<1>fresh. CASE mode # "BACKFILL" /\ backfillQ' = backfillQ
  <2>1. backfillQ' = <<>> /\ ~CycleRunning'
    BY <1>1, <1>fresh DEF HandshakeInv, CycleRunning
  <2> QED
    BY <2>1, CycleIdle
<1>kept. ASSUME liveQ' = liveQ, backfillQ' = backfillQ, Attentive' => Attentive,
                Attentive' => \A n \in Missing' : n \in Hands => n \in Hands'
         PROVE  CycleInv'
  BY <1>1, <1>2, <1>kept, CycleKept
<1>3. CASE SetupSchema \/ LeaveLoop \/ EnterGet \/ GetTimeout
  <2>1. UNCHANGED <<liveQ, backfillQ, buffer, chunk>> /\ (wpc' = "get" => ~stop)
    BY <1>3 DEF SetupSchema, LeaveLoop, EnterGet, GetTimeout
  <2>2. Hands' = Hands /\ (Attentive' => Attentive)
    BY <1>1, <2>1 DEF Hands, Attentive
  <2> QED
    BY <1>kept, <2>1, <2>2
<1>4. CASE RequestBackfill
  <2>1. mode # "BACKFILL" /\ backfillQ' = backfillQ
    BY <1>4 DEF RequestBackfill, NeedsBackfill
  <2> QED
    BY <1>fresh, <2>1
<1>5. CASE GetSlice
  <2>1. /\ wpc = "get" /\ mode = "BACKFILL" /\ backfillQ \in Seq(Items) /\ backfillQ # <<>>
        /\ backfillQ' = Tail(backfillQ) /\ backfillQ[1].kind = "slice"
        /\ buffer' = buffer \union Head(backfillQ).rows
        /\ UNCHANGED <<liveQ, chunk>> /\ wpc' = "flush"
    BY <1>5 DEF GetSlice, Types
  <2>2. /\ Len(backfillQ) \in Nat \ {0} /\ Len(backfillQ') = Len(backfillQ) - 1
        /\ \A i \in 1..Len(backfillQ') : backfillQ'[i] = backfillQ[i + 1]
        /\ Head(backfillQ) = backfillQ[1]
    BY <2>1, QueuedTail
  <2>3. Queued = Head(backfillQ).rows \union Queued'
    <3>1. Queued' = UNION {Tail(backfillQ)[i].rows : i \in 1..Len(Tail(backfillQ))}
      BY <2>1 DEF Queued
    <3> QED
      BY <2>1, <3>1, QueuedTail DEF Queued
  <2>4. Hands' = Hands \union Head(backfillQ).rows
    BY <2>1 DEF Hands
  <2>5. InFlight' = InFlight
    <3>1. /\ InFlight = Hands \union fetched \union Queued
          /\ InFlight' = Hands' \union fetched' \union Queued'
      BY DEF InFlight, Hands, Queued
    <3> QED
      BY <1>1, <2>3, <2>4, <3>1
  <2>6. Attentive /\ (DoneQueued' => DoneQueued) /\ (CycleRunning' <=> CycleRunning)
    <3>1. ASSUME DoneQueued' PROVE DoneQueued
      <4>1. PICK i \in 1..Len(backfillQ') : backfillQ'[i].kind = "done"
        BY <3>1 DEF DoneQueued
      <4>2. i + 1 \in 1..Len(backfillQ) /\ backfillQ[i + 1].kind = "done"
        BY <2>2, <4>1
      <4> QED
        BY <4>2 DEF DoneQueued
    <3> QED
      BY <1>1, <2>1, <3>1 DEF Attentive, CycleRunning
  <2>7. QueueReach'
    <3> SUFFICES ASSUME NEW i \in 1..Len(backfillQ'), NEW n \in Missing
                 PROVE  \/ Within(n, backfillQ'[i].rows)
                        \/ n \in Hands'
                        \/ \E j \in 1..(i - 1) : n \in backfillQ'[j].rows
      BY <1>2 DEF QueueReach, Within
    <3>1. i + 1 \in 1..Len(backfillQ) /\ backfillQ'[i] = backfillQ[i + 1] /\ i \in Nat
      BY <2>2
    <3>2. \/ Within(n, backfillQ[i + 1].rows)
          \/ n \in Hands
          \/ \E j \in 1..((i + 1) - 1) : n \in backfillQ[j].rows
      BY <1>2, <2>6, <3>1 DEF CycleInv, QueueReach
    <3>3. ASSUME NEW j \in 1..((i + 1) - 1), n \in backfillQ[j].rows
          PROVE  n \in Hands' \/ \E k \in 1..(i - 1) : n \in backfillQ'[k].rows
      <4>1. CASE j = 1
        BY <2>2, <2>4, <3>3, <4>1
      <4>2. CASE j # 1
        <5>1. j - 1 \in 1..(i - 1) /\ j - 1 \in 1..Len(backfillQ') /\ (j - 1) + 1 = j
          BY <2>2, <3>1, <3>3, <4>2
        <5> QED
          BY <2>2, <3>3, <5>1
      <4> QED
        BY <4>1, <4>2
    <3> QED
      BY <2>4, <3>1, <3>2, <3>3
  <2>8. FetchReach'
    BY <1>1, <1>2, <2>3, <2>4, <2>6 DEF CycleInv, FetchReach, Within
  <2>9. Cursor' /\ CursorEnd'
    BY <1>1, <1>2, <2>5, <2>6 DEF CycleInv, Cursor, CursorEnd
  <2>10. Cleared'
    BY <1>1, <1>2, <2>1, <2>6 DEF CycleInv, Cleared
  <2>11. DoneHolds'
    BY <1>1, <1>2, <2>1, <2>3, <2>4, <2>6 DEF CycleInv, DoneHolds
  <2> QED
    BY <2>7, <2>8, <2>9, <2>10, <2>11 DEF CycleInv
<1>6. CASE GetDone
  <2>1. mode' # "BACKFILL"
    BY <1>6 DEF GetDone
  <2> QED
    BY <1>idle, <2>1
<1>7. CASE GetLive
  <2>1. mode' # "BACKFILL"
    BY <1>7 DEF GetLive
  <2> QED
    BY <1>idle, <2>1
<1>8. CASE TakeChunk
  <2>1. UNCHANGED <<liveQ, backfillQ, wpc>> /\ buffer' \union chunk' = buffer \union chunk
    BY <1>8 DEF TakeChunk, FirstRows
  <2>2. Hands' = Hands /\ (Attentive' => Attentive)
    BY <1>1, <2>1 DEF Hands, Attentive
  <2> QED
    BY <1>kept, <2>1, <2>2
<1>9. CASE InsertRows
  <2>1. UNCHANGED <<liveQ, backfillQ, wpc>>
    BY <1>9 DEF InsertRows
  <2>2. Attentive' => Attentive
    BY <1>1, <2>1 DEF Attentive
  <2> QED
    BY <1>9, <1>kept, <2>1, <2>2, InsertedIsSettled
<1>10. CASE AbandonChunk
  <2>1. UNCHANGED <<liveQ, backfillQ, wpc>> /\ wpc = "flush" /\ stop
    BY <1>10 DEF AbandonChunk
  <2>2. ~Attentive'
    BY <1>1, <2>1 DEF Attentive
  <2> QED
    BY <1>kept, <2>1, <2>2
<1>11. CASE EndFlush
  <2>1. UNCHANGED <<liveQ, backfillQ>> /\ wpc' # "get" /\ Hands' = Hands
    BY <1>11 DEF EndFlush, PostRequest, Hands
  <2>2. Attentive' => Attentive
    BY <1>1, <2>1 DEF Attentive
  <2> QED
    BY <1>kept, <2>1, <2>2
<1> QED
  BY <1>3, <1>4, <1>5, <1>6, <1>7, <1>8, <1>9, <1>10, <1>11 DEF WorkerStep

\* The orchestrator: it clears, reads the watermark, fetches slice by slice, puts each of
\* them, and puts BACKFILL_DONE after the last.
LEMMA CycleOrchestratorStep ==
  ASSUME Types, Types', HandshakeInv, HandshakeInv', GapInv, OrchestratorStep
  PROVE  CycleInv'
<1> USE DEF recorderVars, tableVars, queueVars, requestVars, workerVars, orchVars,
        controlVars
<1>0. OrchestratorStep => [Next]_vars
  BY DEF Next
<1>1. UNCHANGED <<now, stored, buffer, chunk, wpc, stop>>
  BY DEF OrchestratorStep, BeginCycle, ReadWatermark, FetchSlice, PutSlice, EndSlices, PutDone
<1>2. Missing' \subseteq Missing /\ CycleInv
  BY <1>0, <1>1, MissingShrinks DEF GapInv
<1>3. Hands' = Hands /\ (Attentive' <=> Attentive) /\ (~stop => Attentive)
  BY <1>1 DEF Hands, Attentive
<1>4. InFlight = Hands \union fetched \union Queued /\ InFlight' = Hands' \union fetched' \union Queued'
  BY DEF InFlight, Hands, Queued
<1>5. opc # "put" => fetched = {}
  BY DEF GapInv, Shape
<1>6. backfillQ' = backfillQ => Queued' = Queued /\ QueueReach'
  BY <1>2, <1>3 DEF Queued, CycleInv, QueueReach, Within
<1>7. CycleRunning' => ~DoneQueued' /\ DoneHolds'
  BY DEF HandshakeInv, DoneHolds
<1>8. CycleRunning /\ UNCHANGED <<liveQ, overflowed, tClear>> => Cleared'
  BY <1>1, <1>2 DEF CycleInv, Cleared
<1>begin. CASE BeginCycle
  <2>1. opc' = "watermark" /\ backfillQ' = backfillQ /\ tClear' = now + 1
    BY <1>begin DEF BeginCycle, ClearTime
  <2>2. Cleared'
    <3>1. now \in Nat
      BY MissingEvents
    <3> QED
      BY <1>1, <2>1, <3>1 DEF Cleared
  <2> QED
    BY <1>6, <1>7, <2>1, <2>2 DEF CycleInv, FetchReach, Cursor, CursorEnd, CycleRunning
<1>read. CASE ReadWatermark
  <2>1. /\ opc = "watermark" /\ UNCHANGED <<liveQ, overflowed, backfillQ, tClear, fetched>>
        /\ \/ opc' = "putDone" /\ stop
           \/ opc' = "slice" /\ \E known \in BOOLEAN : sliceStart' = FetchFrom(known)
    BY <1>read DEF ReadWatermark, GapInv
  <2>2. FetchReach' /\ CursorEnd'
    BY <1>1, <2>1 DEF FetchReach, CursorEnd
  <2>3. Cursor'
    <3>1. CASE opc' = "putDone"
      BY <3>1 DEF Cursor
    <3>2. CASE opc' = "slice"
      <4>1. PICK known \in BOOLEAN : sliceStart' = FetchFrom(known)
        BY <2>1, <3>2
      <4>2. \A n \in Missing : n \in Nat /\ FetchFrom(known) <= n /\ FetchFrom(known) \in Nat
        <5>1. Fired /\ Reach /\ stored # {}
          BY DEF GapInv
        <5>2. stored \subseteq Event /\ oldest \in Nat
          BY DEF Types
        <5>3. FetchFrom(known) \in Nat
          BY <5>2, FetchFromType
        <5> QED
          BY <5>1, <5>3, FetchFromReaches, MissingEvents
      <4>3. \A n \in Missing' : n >= sliceStart'
        BY <1>2, <4>1, <4>2
      <4> QED
        BY <4>3 DEF Cursor
    <3> QED
      BY <2>1, <3>1, <3>2
  <2> QED
    BY <1>6, <1>7, <1>8, <2>1, <2>2, <2>3 DEF CycleInv, CycleRunning
<1>fetch. CASE FetchSlice
  <2>1. /\ opc = "slice" /\ opc' = "put" /\ UNCHANGED <<liveQ, overflowed, backfillQ, tClear>>
        /\ fetched' = RecorderRows(sliceStart, SliceEnd) /\ sliceStart' = SliceEnd
        /\ committed >= SliceEnd - 1
    BY <1>fetch DEF FetchSlice, CommitLagElapsed
  <2>2. /\ SliceEnd \in Nat /\ SliceEnd <= sliceStart + SliceWindow /\ sliceStart \in Nat
        /\ committed \in Nat /\ oldest \in Nat /\ Grace \in Nat /\ SliceWindow <= Grace + 1
        /\ SliceWindow \in Nat
    BY BoundsAssumption, GraceAssumption DEF SliceEnd, Lower, Types
  <2>3. ASSUME Attentive, NEW n \in Missing
        PROVE  n \in Hands \union Queued \/ (n >= sliceStart /\ n \in Nat)
    BY <1>2, <1>4, <1>5, <2>1, <2>3, MissingEvents DEF CycleInv, Cursor
  <2>4. FetchReach'
    <3> SUFFICES ASSUME Attentive, NEW n \in Missing, n >= sliceStart, n \in Nat, NEW m \in fetched'
                 PROVE  m <= n + Grace
      BY <1>2, <1>3, <1>6, <2>1, <2>3 DEF FetchReach, Within
    <3>1. m \in Nat /\ m < SliceEnd
      BY <2>1, BoundsAssumption DEF RecorderRows, Event
    <3> QED
      BY <2>2, <3>1
  <2>5. Cursor'
    <3> SUFFICES ASSUME Attentive, NEW n \in Missing, n >= sliceStart, n \in Nat, ~(n >= SliceEnd)
                 PROVE  n \in fetched'
      BY <1>2, <1>3, <1>4, <1>6, <2>1, <2>3 DEF Cursor
    <3>1. n \in Event /\ oldest <= n /\ n \notin gone
      BY MissingEvents
    <3>2. sliceStart <= n /\ n < SliceEnd /\ n <= committed
      BY <2>1, <2>2
    <3> QED
      BY <2>1, <3>1, <3>2 DEF RecorderRows
  <2>6. CursorEnd'
    BY <2>1 DEF CursorEnd
  <2> QED
    BY <1>6, <1>7, <1>8, <2>1, <2>4, <2>5, <2>6 DEF CycleInv, CycleRunning
\* Either kind of item goes to the end of the queue.
<1>item. ASSUME NEW item \in Items, backfillQ' = Append(backfillQ, item),
                Attentive => \A n \in Missing : Within(n, item.rows) \/ n \in Hands \union Queued
         PROVE  QueueReach' /\ Queued' = item.rows \union Queued
  <2>1. backfillQ \in Seq(Items)
    BY DEF Types
  <2>2. /\ Len(backfillQ) \in Nat /\ Len(backfillQ') = Len(backfillQ) + 1
        /\ \A i \in 1..Len(backfillQ) : backfillQ'[i] = backfillQ[i]
        /\ backfillQ'[Len(backfillQ) + 1] = item
        /\ Queued' = item.rows \union Queued
    BY <1>item, <2>1, QueuedAppend DEF Queued
  <2>3. ASSUME Attentive, NEW i \in 1..Len(backfillQ'), NEW n \in Missing
        PROVE  \/ Within(n, backfillQ'[i].rows)
               \/ n \in Hands
               \/ \E j \in 1..(i - 1) : n \in backfillQ'[j].rows
    <3>1. CASE i \in 1..Len(backfillQ)
      <4>1. \/ Within(n, backfillQ[i].rows)
            \/ n \in Hands
            \/ \E j \in 1..(i - 1) : n \in backfillQ[j].rows
        BY <1>2, <2>3, <3>1 DEF CycleInv, QueueReach
      <4>2. \A j \in 1..(i - 1) : backfillQ'[j] = backfillQ[j]
        BY <2>2, <3>1
      <4> QED
        BY <2>2, <3>1, <4>1, <4>2
    <3>2. CASE i = Len(backfillQ) + 1
      <4>1. i - 1 = Len(backfillQ)
        BY <2>2, <3>2
      <4>2. n \in Queued => \E j \in 1..Len(backfillQ) : n \in backfillQ[j].rows
        BY DEF Queued
      <4> QED
        BY <1>item, <2>2, <2>3, <3>2, <4>1, <4>2
    <3> QED
      BY <2>2, <3>1, <3>2
  <2> QED
    BY <1>2, <1>3, <2>2, <2>3 DEF QueueReach, Within
<1>put. CASE PutSlice
  <2>1. /\ opc = "put" /\ opc' = "slice" /\ UNCHANGED <<liveQ, overflowed, tClear, sliceStart>>
        /\ backfillQ' = Append(backfillQ, Slice(fetched)) /\ fetched' = {}
    BY <1>put DEF PutSlice
  <2>2. Slice(fetched) \in Items /\ Slice(fetched).rows = fetched
    BY DEF Slice, Items, Types
  <2>3. QueueReach' /\ Queued' = fetched \union Queued
    BY <1>2, <1>item, <2>1, <2>2 DEF CycleInv, FetchReach
  <2>4. InFlight' = InFlight
    BY <1>3, <1>4, <2>1, <2>3
  <2>5. FetchReach' /\ Cursor' /\ CursorEnd'
    BY <1>2, <1>3, <2>1, <2>4 DEF CycleInv, FetchReach, Cursor, CursorEnd
  <2> QED
    BY <1>7, <1>8, <2>1, <2>3, <2>5 DEF CycleInv, CycleRunning
<1>end. CASE EndSlices
  <2>1. /\ opc = "slice" /\ opc' = "putDone" /\ (sliceStart >= tClear \/ stop)
        /\ UNCHANGED <<liveQ, overflowed, backfillQ, tClear, sliceStart, fetched>>
    BY <1>end DEF EndSlices
  <2>2. CursorEnd'
    BY <1>1, <1>2, <1>3, <1>4, <1>6, <2>1 DEF CycleInv, Cursor, CursorEnd
  <2>3. FetchReach' /\ Cursor'
    BY <2>1 DEF FetchReach, Cursor
  <2> QED
    BY <1>6, <1>7, <1>8, <2>1, <2>2, <2>3 DEF CycleInv, CycleRunning
<1>done. CASE PutDone
  <2>1. /\ opc = "putDone" /\ opc' = "waiting" /\ UNCHANGED <<liveQ, overflowed, fetched>>
        /\ backfillQ' = Append(backfillQ, Done)
    BY <1>done DEF PutDone
  <2>2. Done \in Items /\ Done.rows = {}
    BY DEF Done, Items
  <2>3. QueueReach' /\ Queued' = Queued
    BY <1>item, <2>1, <2>2 DEF Within
  <2>4. FetchReach' /\ Cursor' /\ CursorEnd' /\ Cleared'
    BY <2>1 DEF FetchReach, Cursor, CursorEnd, Cleared, CycleRunning
  <2>5. DoneHolds'
    <3> SUFFICES ASSUME ~stop, NEW n \in Missing
                 PROVE  overflowed \/ n \in Hands \union Queued \union liveQ
      BY <1>1, <1>2, <1>3, <2>1, <2>3 DEF DoneHolds
    <3>1. sliceStart >= tClear /\ (n \in InFlight \/ n >= sliceStart)
      BY <1>2, <2>1 DEF CycleInv, CursorEnd
    <3>2. n \in 1..now /\ sliceStart \in Nat /\ tClear \in Nat /\ n \in Nat
      BY MissingEvents, BoundsAssumption DEF Missing, Types
    <3>3. n >= sliceStart => n >= tClear
      BY <3>1, <3>2
    <3>4. n >= tClear => overflowed \/ n \in liveQ
      BY <1>2, <2>1, <3>2 DEF CycleInv, Cleared, CycleRunning
    <3> QED
      BY <1>4, <1>5, <2>1, <3>1, <3>3, <3>4
  <2> QED
    BY <2>3, <2>4, <2>5 DEF CycleInv
<1> QED
  BY <1>begin, <1>read, <1>fetch, <1>put, <1>end, <1>done DEF OrchestratorStep

LEMMA CycleStep ==
  ASSUME "BACKFILL" \notin DeathModes, Types, Types', HandshakeInv, HandshakeInv', GapInv,
         [Next]_vars
  PROVE  CycleInv'
<1> USE DEF recorderVars, tableVars, queueVars, requestVars, workerVars, orchVars,
        controlVars
<1>1. CycleInv /\ (now' = now => Missing' \subseteq Missing)
  BY MissingShrinks DEF GapInv
\* The step touches neither the cycle, unless it ends it, nor what is on its way.
<1>kept. ASSUME UNCHANGED <<now, liveQ, overflowed, backfillQ, wpc, buffer, chunk>>,
                ~stop' => ~stop,
                ~CycleRunning' \/ UNCHANGED <<opc, tClear, sliceStart, fetched>>
         PROVE  CycleInv'
  <2>1. Hands' = Hands /\ (Attentive' => Attentive)
    BY <1>kept DEF Hands, Attentive
  <2> QED
    BY <1>1, <1>kept, <2>1, CycleKept
\* Without a worker in MODE_BACKFILL there is no cycle.
<1>idle. ASSUME mode' # "BACKFILL"
         PROVE  CycleInv'
  <2>1. backfillQ' = <<>> /\ ~CycleRunning'
    BY <1>idle DEF HandshakeInv
  <2> QED
    BY <2>1, CycleIdle
<1>fire. CASE FireEvent
  BY <1>fire, CycleFireStep
<1>worker. CASE WorkerStep
  BY <1>worker, CycleWorkerStep
<1>orchestrator. CASE OrchestratorStep
  BY <1>orchestrator, CycleOrchestratorStep
<1>outside. CASE RecorderCommit \/ RecorderPurge \/ DeliverRequest \/ StartOrchestrator
                 \/ OrchestratorCrash \/ Relaunch
  BY <1>kept, <1>outside DEF RecorderCommit, RecorderPurge, DeliverRequest,
     StartOrchestrator, OrchestratorCrash, Relaunch, CycleRunning
<1>stop. CASE Stop \/ CancelOrchestrator \/ StopListener
  BY <1>kept, <1>stop DEF Stop, CancelOrchestrator, StopListener, CycleRunning
<1>thread. CASE WorkerDies \/ Respawn
  BY <1>idle, <1>thread DEF WorkerDies, Respawn
<1>fresh. CASE Restart \/ Kill
  BY <1>idle, <1>fresh DEF Restart, Kill, FreshRuntime
<1>stutter. CASE UNCHANGED vars
  BY <1>kept, <1>stutter DEF vars
<1> QED
  BY <1>fire, <1>worker, <1>orchestrator, <1>outside, <1>stop, <1>thread, <1>fresh,
     <1>stutter DEF Next

-----------------------------------------------------------------------------
(* What a worker in MODE_LIVE has before it.                               *)

\* A step after which a worker in MODE_LIVE has the batch it had, unless it has settled
\* it, and which leaves the live queue alone.
LEMMA LiveKept ==
  ASSUME LiveInv, now' = now, Missing' \subseteq Missing,
         liveQ' = liveQ, overflowed' = overflowed,
         listening' => listening, ~stop' => ~stop,
         mode' = "LIVE" =>
           /\ mode = "LIVE"
           /\ wpc' # "dead" =>
                wpc # "dead" /\ (~stop' => \A n \in Missing' : n \in Hands => n \in Hands')
           /\ wpc' = "get" => wpc = "get" /\ buffer' = buffer
           /\ wpc' = "top" => buffer' = {} \/ (wpc \in {"top", "get"} /\ buffer' = buffer)
  PROVE  LiveInv'
<1>1. LiveHolds'
  BY DEF LiveInv, LiveHolds
<1>2. LiveGet'
  BY DEF LiveInv, LiveGet
<1>3. QueueContiguous'
  BY DEF LiveInv, QueueContiguous
<1>4. BatchContiguous'
  BY DEF LiveInv, BatchContiguous
<1>5. GetContiguous'
  BY DEF LiveInv, GetContiguous
<1> QED
  BY <1>1, <1>2, <1>3, <1>4, <1>5 DEF LiveInv

\* After a step that leaves the live queue empty, outside MODE_LIVE, nothing is owed.
LEMMA LiveIdle ==
  ASSUME mode' # "LIVE", liveQ' = {}
  PROVE  LiveInv'
BY DEF LiveInv, LiveHolds, LiveGet, QueueContiguous, BatchContiguous, GetContiguous

LEMMA LiveWorkerStep ==
  ASSUME Types, Types', HandshakeInv, GapInv, WorkerStep
  PROVE  LiveInv'
<1> USE DEF recorderVars, tableVars, queueVars, requestVars, workerVars, orchVars,
        controlVars, WorkerAt, Goto
<1>0. WorkerStep => [Next]_vars
  BY DEF Next
<1>1. UNCHANGED <<now, overflowed, listening, stop>>
  BY DEF WorkerStep, SetupSchema, LeaveLoop, RequestBackfill, EnterGet,
     GetTimeout, GetSlice, GetDone, GetLive, TakeChunk, InsertRows, AbandonChunk, EndFlush
<1>2. Missing' \subseteq Missing /\ LiveInv /\ Shape
  BY <1>0, <1>1, MissingShrinks DEF GapInv
<1>kept. ASSUME liveQ' = liveQ,
                mode' = "LIVE" =>
                  /\ mode = "LIVE"
                  /\ wpc' # "dead" =>
                       wpc # "dead" /\ (~stop' => \A n \in Missing' : n \in Hands => n \in Hands')
                  /\ wpc' = "get" => wpc = "get" /\ buffer' = buffer
                  /\ wpc' = "top" => buffer' = {} \/ (wpc \in {"top", "get"} /\ buffer' = buffer)
         PROVE  LiveInv'
  BY <1>1, <1>2, <1>kept, LiveKept
<1>3. CASE SetupSchema
  BY <1>2, <1>3, <1>kept DEF SetupSchema, Shape
<1>4. CASE LeaveLoop
  BY <1>1, <1>4, <1>kept DEF LeaveLoop
<1>5. CASE RequestBackfill
  <2>1. liveQ' = liveQ /\ Hands' = Hands /\ wpc = "top"
          /\ (mode' = "LIVE" => mode = "LIVE" /\ wpc' = "flush")
    BY <1>5 DEF RequestBackfill, PostRequest, Hands
  <2> QED
    BY <1>kept, <2>1
\* No gap before what is in the live queue: it holds what is missing from the batch on.
<1>6. CASE EnterGet
  <2>1. /\ wpc = "top" /\ wpc' = "get" /\ ~stop /\ ~(mode = "LIVE" /\ overflowed)
        /\ UNCHANGED <<liveQ, mode, buffer, chunk>>
    BY <1>6 DEF EnterGet, NeedsBackfill
  <2>2. listening /\ chunk = {}
    BY <1>2, <2>1 DEF Shape
  <2>3. LiveHolds' /\ QueueContiguous' /\ BatchContiguous'
    BY <1>1, <1>2, <2>1 DEF LiveInv, LiveHolds, QueueContiguous, BatchContiguous, Hands
  <2>4. ASSUME mode = "LIVE"
        PROVE  /\ \A n \in Missing : n \in liveQ \union buffer
               /\ \A b \in buffer : \A k \in b..now : k \in buffer \union liveQ
    BY <1>2, <2>1, <2>2, <2>4 DEF LiveInv, LiveHolds, BatchContiguous, Hands
  <2>5. liveQ \subseteq Nat
    BY DEF Types, Event
  <2>6. LiveGet' /\ GetContiguous'
    <3>1. \A l \in liveQ : l <= l
      BY <2>5
    <3> QED
      BY <1>1, <1>2, <2>1, <2>4, <3>1 DEF LiveGet, GetContiguous
  <2> QED
    BY <2>3, <2>6 DEF LiveInv
<1>7. CASE GetTimeout
  <2>1. liveQ' = liveQ /\ Hands' = Hands /\ buffer' = buffer /\ mode' = mode /\ wpc = "get"
          /\ wpc' \in {"top", "flush"}
    BY <1>7 DEF GetTimeout, Hands
  <2> QED
    BY <1>kept, <2>1
<1>8. CASE GetSlice
  <2>1. liveQ' = liveQ /\ mode' # "LIVE"
    BY <1>8 DEF GetSlice
  <2> QED
    BY <1>kept, <2>1
<1>9. CASE GetDone
  <2>1. /\ wpc = "get" /\ mode = "BACKFILL" /\ backfillQ \in Seq(Items) /\ backfillQ # <<>>
        /\ backfillQ[1].kind = "done" /\ wpc' = "top" /\ mode' = "LIVE"
        /\ UNCHANGED <<liveQ, buffer, chunk>>
    BY <1>9 DEF GetDone, Types
  <2>2. 1 \in 1..Len(backfillQ)
    BY <2>1
  <2>3. Len(backfillQ) = 1 /\ DoneQueued
    BY <2>1, <2>2 DEF HandshakeInv, DoneQueued
  <2>4. Queued = {}
    <3>1. backfillQ[1] \in Items /\ backfillQ[1].kind # "slice"
      BY <2>1, <2>2
    <3>2. backfillQ[1] = Done
      BY <3>1 DEF Items
    <3> QED
      BY <2>3, <3>2 DEF Queued, Done
  <2>5. buffer' = {} /\ Hands' = {} /\ Hands = {}
    BY <1>2, <2>1 DEF Shape, Hands
  <2>6. LiveHolds'
    BY <1>1, <1>2, <2>1, <2>3, <2>4, <2>5 DEF GapInv, CycleInv, DoneHolds, LiveHolds
  <2>7. QueueContiguous'
    BY <1>1, <1>2, <2>1 DEF LiveInv, QueueContiguous
  <2> QED
    BY <2>1, <2>5, <2>6, <2>7 DEF LiveInv, LiveGet, BatchContiguous, GetContiguous
<1>10. CASE GetLive
  <2> DEFINE l == Least(liveQ)
  <2>1. /\ wpc = "get" /\ mode = "LIVE" /\ mode' = "LIVE" /\ liveQ # {} /\ liveQ \subseteq 1..now
        /\ liveQ' = liveQ \ {l} /\ buffer' = buffer \union {l} /\ chunk' = chunk
        /\ wpc' \in {"top", "flush"}
    BY <1>10 DEF GetLive, GapInv, Fired
  <2>2. l \in liveQ /\ l \in Nat /\ \A m \in liveQ : l <= m
    <3>1. liveQ \subseteq Nat
      BY <2>1
    <3> QED
      BY <2>1, <3>1, LeastInSet
  <2> HIDE DEF l
  <2>3. LiveHolds'
    <3>1. liveQ' \union Hands' = liveQ \union Hands
      BY <2>1, <2>2 DEF Hands
    <3> QED
      BY <1>1, <1>2, <2>1, <3>1 DEF LiveInv, LiveHolds
  <2>4. ASSUME ~overflowed, listening, NEW b \in liveQ, NEW k \in b..now
        PROVE  k \in liveQ /\ (b \in liveQ' => k \in liveQ')
    <3>1. k \in liveQ /\ b \in Nat /\ k \in Nat /\ b <= k /\ l <= b
      BY <1>2, <2>1, <2>2, <2>4 DEF LiveInv, QueueContiguous
    <3>2. b # l => k # l
      BY <2>2, <3>1
    <3> QED
      BY <2>1, <3>1, <3>2
  <2>5. QueueContiguous'
    BY <1>1, <2>1, <2>4 DEF QueueContiguous
  <2>6. BatchContiguous'
    <3> SUFFICES ASSUME ~overflowed, listening, NEW b \in buffer', NEW k \in b..now
                 PROVE  k \in buffer' \union liveQ'
      BY <1>1 DEF BatchContiguous
    <3>1. CASE b = l
      BY <2>1, <2>2, <2>4, <3>1
    <3>2. CASE b \in buffer
      <4>1. k \in buffer \union liveQ
        BY <1>2, <2>1, <3>2 DEF LiveInv, BatchContiguous
      <4> QED
        BY <2>1, <4>1
    <3> QED
      BY <2>1, <3>1, <3>2
  <2> QED
    BY <2>1, <2>3, <2>5, <2>6 DEF LiveInv, LiveGet, GetContiguous
<1>11. CASE TakeChunk
  <2>1. liveQ' = liveQ /\ buffer' \union chunk' = buffer \union chunk
          /\ mode' = mode /\ wpc = "flush" /\ wpc' = "flush"
    BY <1>11 DEF TakeChunk, FirstRows
  <2>2. Hands' = Hands
    BY <2>1 DEF Hands
  <2> QED
    BY <1>kept, <2>1, <2>2
<1>12. CASE InsertRows
  <2>1. liveQ' = liveQ /\ mode' = mode /\ wpc = "flush" /\ wpc' = "flush"
    BY <1>12 DEF InsertRows
  <2> QED
    BY <1>12, <1>kept, <2>1, InsertedIsSettled
<1>13. CASE AbandonChunk
  <2>1. liveQ' = liveQ /\ mode' = mode /\ wpc = "flush" /\ wpc' = "flush" /\ stop
    BY <1>13 DEF AbandonChunk
  <2> QED
    BY <1>1, <1>kept, <2>1
<1>14. CASE EndFlush
  <2>1. liveQ' = liveQ /\ Hands' = Hands /\ buffer' = {} /\ wpc = "flush" /\ wpc' # "get"
          /\ (mode' = "LIVE" => mode = "LIVE")
    BY <1>14 DEF EndFlush, PostRequest, Hands
  <2> QED
    BY <1>kept, <2>1
<1> QED
  BY <1>3, <1>4, <1>5, <1>6, <1>7, <1>8, <1>9, <1>10, <1>11, <1>12, <1>13, <1>14 DEF WorkerStep

LEMMA LiveFireStep ==
  ASSUME Types, Types', GapInv, FireEvent
  PROVE  LiveInv'
<1>0. FireEvent => [Next]_vars
  BY DEF Next
<1>1. /\ now' = now + 1 /\ now \in Nat
      /\ UNCHANGED <<buffer, chunk, stop, wpc, mode, listening>>
  BY MissingEvents DEF FireEvent, workerVars, controlVars
<1>2. \A n \in Missing' : n \in Missing \/ n = now + 1
  <2> TAKE n \in Missing'
  <2>1. n \in Missing \/ now < n
    BY <1>0, MissingShrinks
  <2>2. n \in 1..(now + 1)
    BY <1>1 DEF Missing
  <2> QED
    BY <1>1, <2>1, <2>2
<1>3. Hands' = Hands /\ LiveInv /\ Shape /\ liveQ \subseteq 1..now /\ buffer \subseteq 1..now
  BY <1>1 DEF Hands, GapInv, Fired
<1>4. \/ listening /\ liveQ' = liveQ \union {now + 1} /\ overflowed' = overflowed
      \/ listening /\ liveQ' = liveQ /\ overflowed' /\ liveQ # {}
      \/ ~listening /\ stop /\ liveQ' = liveQ /\ overflowed' = overflowed
  <2>1. Cardinality(liveQ) < LiveMax \/ liveQ # {}
    BY FS_EmptySet, BoundsAssumption
  <2> QED
    BY <1>3, <2>1 DEF FireEvent, PutLive, Shape
\* The new event is queued, or newer than what the queue holds.
<1>5. (\E l \in liveQ' : l <= now + 1) \/ (~listening' /\ liveQ' = {})
  <2>1. \A l \in liveQ : l <= now + 1
    BY <1>1, <1>3
  <2>2. now + 1 <= now + 1
    BY <1>1
  <2> QED
    BY <1>1, <1>4, <2>1, <2>2
<1>6. liveQ \subseteq liveQ' /\ (listening' <=> listening) /\ (~listening => liveQ' = liveQ)
  BY <1>1, <1>4
<1>7. LiveHolds'
  BY <1>1, <1>2, <1>3, <1>4 DEF LiveInv, LiveHolds
<1>8. LiveGet'
  BY <1>1, <1>2, <1>3, <1>5, <1>6 DEF LiveInv, LiveGet
<1>9. \A b \in 1..now : \A k \in b..(now + 1) : k \in b..now \/ k = now + 1
  BY <1>1
<1>10. QueueContiguous'
  <2> SUFFICES ASSUME ~overflowed', listening', NEW b \in liveQ', NEW k \in b..(now + 1)
               PROVE  k \in liveQ'
    BY <1>1 DEF QueueContiguous
  <2>1. ~overflowed /\ listening /\ liveQ' = liveQ \union {now + 1}
    BY <1>1, <1>4
  <2>2. CASE b \in liveQ
    BY <1>3, <1>9, <2>1, <2>2 DEF LiveInv, QueueContiguous
  <2>3. CASE b = now + 1
    BY <1>1, <2>1, <2>3
  <2> QED
    BY <2>1, <2>2, <2>3
<1>11. BatchContiguous'
  <2> SUFFICES ASSUME mode = "LIVE", wpc \in {"top", "get"}, ~overflowed', listening',
                      NEW b \in buffer, NEW k \in b..(now + 1)
               PROVE  k \in buffer \union liveQ'
    BY <1>1 DEF BatchContiguous
  <2>1. ~overflowed /\ listening /\ liveQ' = liveQ \union {now + 1}
    BY <1>1, <1>4
  <2> QED
    BY <1>3, <1>9, <2>1 DEF LiveInv, BatchContiguous
<1>12. GetContiguous'
  <2> SUFFICES ASSUME mode = "LIVE", wpc = "get", NEW b \in buffer, NEW k \in b..(now + 1)
               PROVE  k \in buffer \/ (\E l \in liveQ' : l <= k) \/ (~listening' /\ liveQ' = {})
    BY <1>1 DEF GetContiguous
  <2>1. k \in b..now => k \in buffer \/ (\E l \in liveQ : l <= k) \/ (~listening /\ liveQ = {})
    BY <1>3 DEF LiveInv, GetContiguous
  <2> QED
    BY <1>3, <1>5, <1>6, <1>9, <2>1
<1> QED
  BY <1>7, <1>8, <1>10, <1>11, <1>12 DEF LiveInv

LEMMA LiveStep ==
  ASSUME "BACKFILL" \notin DeathModes, Types, Types', HandshakeInv, GapInv, [Next]_vars
  PROVE  LiveInv'
<1> USE DEF recorderVars, tableVars, queueVars, requestVars, workerVars, orchVars,
        controlVars
<1>1. LiveInv /\ (now' = now => Missing' \subseteq Missing)
  BY MissingShrinks DEF GapInv
<1>kept. ASSUME UNCHANGED <<now, liveQ, overflowed, mode, wpc, buffer, chunk>>,
                ~stop' => ~stop, listening' => listening
         PROVE  LiveInv'
  <2>1. Hands' = Hands
    BY <1>kept DEF Hands
  <2> QED
    BY <1>1, <1>kept, <2>1, LiveKept
<1>fire. CASE FireEvent
  BY <1>fire, LiveFireStep
<1>worker. CASE WorkerStep
  BY <1>worker, LiveWorkerStep
<1>dies. CASE WorkerDies
  <2>1. UNCHANGED <<now, liveQ, overflowed, mode, stop, listening>> /\ wpc' = "dead"
    BY <1>dies DEF WorkerDies, Goto
  <2> QED
    BY <1>1, <2>1, LiveKept
<1>respawn. CASE Respawn
  <2>1. UNCHANGED <<now, liveQ, overflowed, stop, listening>> /\ mode' = "INIT"
    BY <1>respawn DEF Respawn
  <2> QED
    BY <1>1, <2>1, LiveKept
<1>orchestrator. CASE OrchestratorStep
  \* A request belongs to a worker in MODE_BACKFILL.
  <2>1. CASE BeginCycle
    <3>1. mode' # "LIVE" /\ liveQ' = {}
      BY <2>1 DEF BeginCycle, HandshakeInv
    <3> QED
      BY <3>1, LiveIdle
  <2>2. CASE ReadWatermark \/ FetchSlice \/ PutSlice \/ EndSlices \/ PutDone
    BY <1>kept, <2>2 DEF ReadWatermark, FetchSlice, PutSlice, EndSlices, PutDone
  <2> QED
    BY <1>orchestrator, <2>1, <2>2 DEF OrchestratorStep
<1>outside. CASE RecorderCommit \/ RecorderPurge \/ DeliverRequest \/ StartOrchestrator
                 \/ OrchestratorCrash \/ Relaunch
  BY <1>kept, <1>outside DEF RecorderCommit, RecorderPurge, DeliverRequest,
     StartOrchestrator, OrchestratorCrash, Relaunch
<1>stop. CASE Stop \/ CancelOrchestrator \/ StopListener
  BY <1>kept, <1>stop DEF Stop, CancelOrchestrator, StopListener
<1>fresh. CASE Restart \/ Kill
  BY <1>fresh, LiveIdle DEF Restart, Kill, FreshRuntime
<1>stutter. CASE UNCHANGED vars
  BY <1>kept, <1>stutter DEF vars
<1> QED
  BY <1>fire, <1>worker, <1>dies, <1>respawn, <1>orchestrator, <1>outside, <1>stop, <1>fresh,
     <1>stutter DEF Next

-----------------------------------------------------------------------------
(* The theorems.                                                           *)

\* At the start nothing is missing but what the table never had.
LEMMA GapInit ==
  ASSUME (1..InitialStored) \ Poison # {}, Init
  PROVE  GapInv
<1>1. /\ now = InitialNow /\ committed = InitialNow /\ oldest = 1 /\ gone = {}
      /\ stored = (1..InitialStored) \ Poison /\ dead = (1..InitialStored) \intersect Poison
      /\ liveQ = {} /\ backfillQ = <<>> /\ buffer = {} /\ chunk = {} /\ fetched = {}
      /\ wpc = "setup" /\ mode = "INIT" /\ opc = "off" /\ tClear = 0 /\ sliceStart = 0
      /\ listening = TRUE /\ stop = FALSE
  BY DEF Init
<1>2. InitialNow \in Nat /\ InitialStored \in Nat /\ InitialStored <= InitialNow /\ Grace \in Nat
  BY BoundsAssumption
<1>3. Hands = {} /\ Queued = {} /\ ~CycleRunning /\ ~DoneQueued
  BY <1>1 DEF Hands, Queued, CycleRunning, DoneQueued
<1>4. \A n \in Missing : n \in Nat /\ InitialStored < n
  BY <1>1, <1>2 DEF Missing, Settled
<1>5. Reach
  BY <1>1, <1>2, <1>3, <1>4 DEF Reach, Within
<1>6. Shape /\ Clock
  BY <1>1, <1>2 DEF Shape, Clock
<1>7. Fired
  BY <1>1, <1>2, <1>3 DEF Fired
<1>8. CycleInv
  BY <1>1, <1>3 DEF CycleInv, QueueReach, FetchReach, Cursor, CursorEnd, Cleared, DoneHolds
<1>9. LiveInv
  BY <1>1 DEF LiveInv, LiveHolds, LiveGet, QueueContiguous, BatchContiguous, GetContiguous
<1> QED
  BY <1>1, <1>5, <1>6, <1>7, <1>8, <1>9 DEF GapInv

LEMMA GapStep ==
  ASSUME "BACKFILL" \notin DeathModes, Types, Types', HandshakeInv, HandshakeInv', GapInv,
         [Next]_vars
  PROVE  GapInv'
<1>1. Shape /\ Fired /\ Clock /\ Reach /\ stored # {}
  BY DEF GapInv
<1>2. Shape' /\ Fired' /\ Clock'
  BY <1>1, ShapeStep, FiredStep, ClockStep
<1>3. Reach' /\ CycleInv' /\ LiveInv'
  BY ReachStep, CycleStep, LiveStep
<1>4. stored' # {}
  BY <1>1, SettledGrows
<1> QED
  BY <1>2, <1>3, <1>4 DEF GapInv

\* The order of things holds in every state of a pipeline whose table has a row and whose
\* worker does not die in MODE_BACKFILL.
THEOREM GapInvariant ==
  ASSUME "BACKFILL" \notin DeathModes, (1..InitialStored) \ Poison # {}
  PROVE  Spec => [](Types /\ HandshakeInv /\ GapInv)
<1>1. Init => Types /\ HandshakeInv /\ GapInv
  BY TypeInit, HandshakeInit, GapInit
<1>2. Types /\ HandshakeInv /\ GapInv /\ [Next]_vars => (Types /\ HandshakeInv /\ GapInv)'
  <2> SUFFICES ASSUME Types, HandshakeInv, GapInv, [Next]_vars
               PROVE  Types' /\ HandshakeInv' /\ GapInv'
    OBVIOUS
  <2>1. Types'
    BY TypeStep
  <2>2. HandshakeInv'
    BY HandshakeStep
  <2> QED
    BY <2>1, <2>2, GapStep
<1> QED
  BY <1>1, <1>2, PTL DEF Spec

\* What is missing from the table is never further behind its watermark than the grace
\* (backfill.py: from_ = wm - _LATE_ARRIVAL_GRACE), so the next cycle reaches back to it.
LEMMA ReachImpliesGap ==
  ASSUME Types, GapInv
  PROVE  GapWithinGrace
<1> SUFFICES ASSUME NEW n \in 1..now, n + Grace < Watermark, ~Settled(n)
             PROVE  FALSE
  BY DEF GapWithinGrace
<1>1. n \in Missing
  BY DEF Missing
<1>2. Watermark \in stored /\ Watermark \in Nat
  BY WatermarkType, BoundsAssumption DEF Types, GapInv
<1>3. Watermark <= n + Grace
  BY <1>1, <1>2 DEF GapInv, Reach, Within
<1>4. n \in Nat /\ Grace \in Nat
  BY <1>1, MissingEvents
<1> QED
  BY <1>2, <1>3, <1>4

\* No hole of the table is out of a cycle's reach, whatever was dropped, cleared, purged,
\* lost with a thread or with the process, for every size of queue, batch and slice that
\* the grace covers.
THEOREM NoGapBeyondGrace ==
  ASSUME "BACKFILL" \notin DeathModes, (1..InitialStored) \ Poison # {}
  PROVE  Spec => []GapWithinGrace
<1>1. Types /\ HandshakeInv /\ GapInv => GapWithinGrace
  BY ReachImpliesGap
<1> QED
  BY <1>1, GapInvariant, PTL

\* Emptying the live queue loses nothing (backfill.py 105-201): what was fired before
\* t_clear is settled, on its way to the table, or ahead of the cycle's cursor.
THEOREM CursorCovers ==
  ASSUME "BACKFILL" \notin DeathModes, (1..InitialStored) \ Poison # {}
  PROVE  Spec => []CursorCoverage
<1>1. Types /\ HandshakeInv /\ GapInv => CursorCoverage
  <2> SUFFICES ASSUME GapInv, opc \in {"slice", "put", "putDone"}, ~stop,
                      NEW n \in 1..now, ~Settled(n)
               PROVE  n \in InFlight \/ n >= sliceStart
    BY DEF CursorCoverage
  <2>1. n \in Missing
    BY DEF Missing
  <2> QED
    BY <2>1 DEF GapInv, CycleInv, Cursor, CursorEnd, Attentive
<1> QED
  BY <1>1, GapInvariant, PTL

\* An event that was neither dropped nor cleared is not forgotten (overflow_queue.py
\* 52-90, states_worker.py 372-437): a worker in MODE_LIVE with no overflow pending has
\* everything unsettled in its queue or in its hands, for every number of faults.
THEOREM LiveEventsHeld ==
  ASSUME "BACKFILL" \notin DeathModes, (1..InitialStored) \ Poison # {}
  PROVE  Spec => []LiveHoldsUnsettled
<1>1. Types /\ HandshakeInv /\ GapInv => LiveHoldsUnsettled
  BY DEF GapInv, LiveInv, LiveHolds, LiveHoldsUnsettled, Missing, Hands
<1> QED
  BY <1>1, GapInvariant, PTL

-----------------------------------------------------------------------------
(* The contract of the pipeline.                                           *)

Excused == (dead \union gone \union 1..(oldest - 1)) \intersect 1..now
NoGap == Contract!Recoverable(stored, Excused)

\* A table without a gap beyond the grace is one the contract allows.
LEMMA GapIsRecoverable ==
  ASSUME Types, GapInv
  PROVE  NoGap
<1> SUFFICES ASSUME NEW m \in stored, NEW n \in 1..MaxEvent, n + Grace < m
             PROVE  n \in stored \union Excused
  BY DEF NoGap, Contract!Recoverable
<1>1. now \in Nat /\ MaxEvent \in Nat /\ Grace \in Nat /\ oldest \in Nat
  BY BoundsAssumption DEF Types
<1>2. m \in 1..now
  BY DEF GapInv, Fired
<1>3. n \in 1..now
  BY <1>1, <1>2
<1>4. n \notin Missing
  BY <1>1, <1>2, <1>3 DEF GapInv, Reach, Within
<1>5. Settled(n)
  BY <1>3, <1>4 DEF Missing
<1> QED
  BY <1>1, <1>3, <1>5 DEF Settled, Excused

LEMMA ContractInit ==
  ASSUME Types, GapInv, Init
  PROVE  Contract!Init
<1>1. now \in 0..MaxEvent /\ stored \subseteq 1..now /\ Excused \subseteq 1..now
  BY DEF Types, GapInv, Fired, Excused
<1>2. NoGap
  BY GapIsRecoverable
<1> QED
  BY <1>1, <1>2 DEF Contract!Init, NoGap, Excused

\* Firing an event is the contract's Fire; every other step settles events or is
\* invisible to the contract.
LEMMA ContractStep ==
  ASSUME Types, Types', GapInv, GapInv', NoGap', [Next]_vars
  PROVE  Contract!Fire \/ Contract!Settle
<1>1. /\ stored \subseteq stored' /\ dead \subseteq dead' /\ gone \subseteq gone'
      /\ oldest <= oldest'
  BY SettledGrows
<1>2. /\ stored' \subseteq 1..now' /\ dead \subseteq 1..now /\ gone \subseteq 1..now
      /\ oldest <= committed + 1
  BY DEF GapInv, Fired
<1>3. now \in Nat /\ oldest \in Nat /\ oldest' \in Nat /\ committed <= now /\ committed \in Nat
  BY BoundsAssumption DEF Types
<1>fire. CASE FireEvent
  <2>1. now < MaxEvent /\ now' = now + 1 /\ UNCHANGED <<oldest, gone, stored, dead>>
    BY <1>fire DEF FireEvent, tableVars
  <2>2. Excused' = Excused
    <3>1. dead \union gone \union 1..(oldest - 1) \subseteq 1..now
      BY <1>2, <1>3
    <3>2. 1..now \subseteq 1..(now + 1)
      BY <1>3
    <3> QED
      BY <2>1, <3>1, <3>2 DEF Excused
  <2> QED
    BY <2>1, <2>2 DEF Contract!Fire, Excused
<1>other. CASE ~FireEvent
  <2>1. now' = now
    BY <1>other DEF Next, RecorderCommit, RecorderPurge, WorkerStep, SetupSchema, LeaveLoop,
       RequestBackfill, EnterGet, GetTimeout, GetSlice, GetDone, GetLive, TakeChunk,
       InsertRows, AbandonChunk, EndFlush, WorkerDies, Respawn, DeliverRequest,
       StartOrchestrator, OrchestratorStep, BeginCycle, ReadWatermark, FetchSlice, PutSlice,
       EndSlices, PutDone, OrchestratorCrash, Relaunch, Stop, CancelOrchestrator,
       StopListener, Restart, Kill, vars, recorderVars
  <2>2. Excused \subseteq Excused' /\ Excused' \subseteq 1..now
    BY <1>1, <1>3, <2>1 DEF Excused
  <2> QED
    BY <1>1, <1>2, <2>1, <2>2 DEF Contract!Settle, NoGap, Excused
<1> QED
  BY <1>fire, <1>other

\* The pipeline implements its contract: rows only appear, only for events that were
\* fired, and leave no hole out of the reach of a backfill (backfill.py 105-201,
\* states_worker.py 350-437), through every interleaving, fault and restart.
THEOREM ImplementsContract ==
  ASSUME "BACKFILL" \notin DeathModes, (1..InitialStored) \ Poison # {}
  PROVE  Spec => RefinesContract
<1>1. Init /\ Types /\ GapInv => Contract!Init
  BY ContractInit
<1>2. Types /\ GapInv => NoGap
  BY GapIsRecoverable
<1>3. Types /\ GapInv /\ Types' /\ GapInv' /\ NoGap' /\ [Next]_vars
        => [Contract!Next]_(Contract!vars)
  BY ContractStep DEF Contract!Next
<1>4. [](Types /\ GapInv) /\ [][Next]_vars => [][Contract!Next]_(Contract!vars)
  BY <1>2, <1>3, PTL
<1> QED
  BY <1>1, <1>4, GapInvariant, PTL DEF Spec, RefinesContract, Contract!Spec
==========================================================================
