------------------------ MODULE StatesIngestProofs ------------------------
(***************************************************************************)
(* Theorems about StatesIngest, for every value of its constants.          *)
(***************************************************************************)
EXTENDS StatesIngest, FiniteSetTheorems, WellFoundedInduction, TLAPS

-----------------------------------------------------------------------------
(* The smallest and the largest element of a set of instants.              *)

\* A nonempty set of naturals has a smallest element: what a worker takes from the
\* live queue is in the queue, and the oldest of it.
LEMMA LeastInSet ==
  ASSUME NEW S, S \subseteq Nat, S # {}
  PROVE  Least(S) \in S /\ \A m \in S : Least(S) <= m
<1> DEFINE R == OpToRel(<, Nat)
<1>1. IsWellFoundedOn(R, Nat)
  BY NatLessThanWellFounded
<1> HIDE DEF R
<1>2. PICK x \in S : \A y \in S : ~(<<y, x>> \in R)
  BY <1>1, WFMin
<1>3. \A y \in S : <<y, x>> \in R <=> y < x
  BY DEF R, OpToRel
<1>4. \A y \in S : x <= y
  <2> TAKE y \in S
  <2>1. ~(y < x)
    BY <1>2, <1>3
  <2> QED
    BY <2>1
<1> QED
  BY <1>4 DEF Least

\* A nonempty set of events has a largest element: the watermark of a table that is
\* not empty is the instant of one of its rows.
LEMMA GreatestInSet ==
  ASSUME NEW k \in Nat, NEW S, S \subseteq 0..k, S # {}
  PROVE  Greatest(S) \in S /\ \A m \in S : m <= Greatest(S)
<1> DEFINE D == {k - m : m \in S}
<1>1. D \subseteq Nat /\ D # {}
  <2>1. \A m \in S : k - m \in Nat
    OBVIOUS
  <2>2. D # {}
    OBVIOUS
  <2> QED
    BY <2>1, <2>2
<1>2. PICK d \in D : \A e \in D : d <= e
  BY <1>1, LeastInSet
<1>3. PICK x \in S : d = k - x
  BY <1>2
<1>4. \A m \in S : m <= x
  BY <1>2, <1>3
<1> QED
  BY <1>4 DEF Greatest

\* The watermark is an event of the table, or 0.
LEMMA WatermarkType ==
  ASSUME stored \subseteq Event
  PROVE  /\ Watermark \in 0..MaxEvent
         /\ \A m \in stored : m <= Watermark
         /\ stored # {} => Watermark \in stored
<1>1. CASE stored = {}
  BY <1>1, BoundsAssumption DEF Watermark
<1>2. CASE stored # {}
  <2>1. stored \subseteq 0..MaxEvent
    BY BoundsAssumption DEF Event
  <2>2. Greatest(stored) \in stored /\ \A m \in stored : m <= Greatest(stored)
    BY <1>2, <2>1, GreatestInSet, BoundsAssumption
  <2> QED
    BY <1>2, <2>1, <2>2 DEF Watermark
<1> QED
  BY <1>1, <1>2

\* A cycle fetches from an instant that exists.
LEMMA FetchFromType ==
  ASSUME stored \subseteq Event, oldest \in Nat, NEW known \in BOOLEAN
  PROVE  FetchFrom(known) \in Nat
<1>1. Watermark \in Nat
  BY WatermarkType, BoundsAssumption
<1> QED
  BY <1>1, BoundsAssumption DEF FetchFrom, Higher

\* Every set of events is finite.
LEMMA EventsAreFinite ==
  ASSUME NEW S, S \subseteq Event
  PROVE  IsFiniteSet(S) /\ Cardinality(S) \in Nat
<1>1. IsFiniteSet(1..MaxEvent)
  BY FS_Interval, BoundsAssumption
<1>2. IsFiniteSet(S)
  BY <1>1, FS_Subset DEF Event
<1> QED
  BY <1>2, FS_CardinalityType

\* put_nowait keeps the live queue within its maxsize (overflow_queue.py 52-73).
LEMMA PutLiveBound ==
  ASSUME liveQ \subseteq Event, Cardinality(liveQ) <= LiveMax, overflowed \in BOOLEAN,
         NEW n \in Event, PutLive(n)
  PROVE  liveQ' \subseteq Event /\ Cardinality(liveQ') <= LiveMax /\ overflowed' \in BOOLEAN
<1>1. /\ IsFiniteSet(liveQ) /\ Cardinality(liveQ) \in Nat
      /\ Cardinality(liveQ \union {n}) \in Nat
  BY EventsAreFinite
<1>2. CASE Cardinality(liveQ) < LiveMax
  <2>1. liveQ' = liveQ \union {n} /\ overflowed' = overflowed
    BY <1>2 DEF PutLive
  <2>2. Cardinality(liveQ \union {n}) =
          IF n \in liveQ THEN Cardinality(liveQ) ELSE Cardinality(liveQ) + 1
    BY <1>1, FS_AddElement
  <2>3. Cardinality(liveQ \union {n}) <= LiveMax
    BY <1>1, <1>2, <2>2, BoundsAssumption
  <2> QED
    BY <2>1, <2>3
<1>3. CASE ~(Cardinality(liveQ) < LiveMax)
  BY <1>3 DEF PutLive
<1> QED
  BY <1>2, <1>3

\* A queue that loses elements stays within its maxsize.
LEMMA LiveQueueShrinks ==
  ASSUME liveQ \subseteq Event, Cardinality(liveQ) <= LiveMax,
         NEW S, S \subseteq liveQ
  PROVE  S \subseteq Event /\ Cardinality(S) <= LiveMax
<1>1. IsFiniteSet(liveQ) /\ Cardinality(liveQ) \in Nat /\ Cardinality(S) \in Nat
  BY EventsAreFinite
<1>2. Cardinality(S) <= Cardinality(liveQ)
  BY <1>1, FS_Subset
<1> QED
  BY <1>1, <1>2, BoundsAssumption

-----------------------------------------------------------------------------
(* Type correctness.                                                       *)

LEMMA TypeInit == Init => Types
<1> SUFFICES ASSUME Init PROVE Types
  OBVIOUS
<1>1. Cardinality(liveQ) <= LiveMax
  BY FS_EmptySet, BoundsAssumption DEF Init
<1>2. backfillQ \in Seq(Items) /\ Len(backfillQ) <= BackfillMax
  BY BoundsAssumption DEF Init
<1>3. faults \in [FaultKinds -> Nat]
  BY DEF Init
<1>4. /\ now \in 0..MaxEvent /\ committed \in 0..now /\ oldest \in 1..(MaxEvent + 1)
      /\ gone \subseteq Event /\ stored \subseteq Event /\ dead \subseteq Event
      /\ rich \subseteq stored
  BY BoundsAssumption DEF Init, Event
<1>5. /\ mode \in Modes /\ liveQ \subseteq Event
      /\ buffer \subseteq Event /\ chunk \subseteq Event /\ raw \subseteq Event
      /\ fetched \subseteq Event
      /\ tClear \in 0..(MaxEvent + 1) /\ sliceStart \in Nat
  BY BoundsAssumption DEF Init, Modes
<1>6. /\ wpc = "setup" /\ opc = "off" /\ after = "loop"
      /\ overflowed = FALSE /\ posted = FALSE /\ request = FALSE
      /\ listening = TRUE /\ stop = FALSE
  BY DEF Init
<1> QED
  BY <1>1, <1>2, <1>3, <1>4, <1>5, <1>6 DEF Types

\* Every action keeps the types.
LEMMA TypeStep == Types /\ [Next]_vars => Types'
<1> SUFFICES ASSUME Types, [Next]_vars
             PROVE  Types'
  OBVIOUS
<1> USE BoundsAssumption DEF recorderVars, tableVars, queueVars, requestVars, workerVars,
        orchVars, controlVars
<1>fire. CASE FireEvent
  <2>1. listening => PutLive(now + 1)
    BY <1>fire DEF FireEvent
  <2>2. now + 1 \in Event
    BY <1>fire DEF FireEvent, Types, Event
  <2>3. liveQ' \subseteq Event /\ Cardinality(liveQ') <= LiveMax /\ overflowed' \in BOOLEAN
    <3>1. CASE listening
      BY <2>1, <2>2, <3>1, PutLiveBound DEF Types
    <3>2. CASE ~listening
      BY <1>fire, <3>2 DEF FireEvent, Types
    <3> QED
      BY <3>1, <3>2
  <2> QED
    BY <1>fire, <2>3 DEF FireEvent, Types, Event
<1>commit. CASE RecorderCommit
  BY <1>commit DEF RecorderCommit, Types
<1>purge. CASE RecorderPurge
  BY <1>purge DEF RecorderPurge, Strike, Types, FaultKinds
<1>worker. CASE WorkerStep
  <2>1. CASE SetupSchema
    BY <2>1 DEF SetupSchema, Goto, Types
  <2>2. CASE LeaveLoop
    BY <2>2 DEF LeaveLoop, Goto, Types
  <2>3. CASE RequestBackfill
    <3>1. /\ wpc' \in {"top", "flush"} /\ posted' \in BOOLEAN /\ mode' \in Modes
          /\ after' \in {"loop", "request", "exit"}
      BY <2>3 DEF RequestBackfill, PostRequest, Goto, Types, Modes
    <3>2. UNCHANGED <<recorderVars, tableVars, queueVars, request, buffer, chunk, raw,
                      orchVars, controlVars>>
      BY <2>3 DEF RequestBackfill
    <3> QED
      BY <3>1, <3>2 DEF Types
  <2>4. CASE EnterGet
    BY <2>4 DEF EnterGet, Goto, Types
  <2>5. CASE GetTimeout
    BY <2>5 DEF GetTimeout, Goto, Types
  <2>6. CASE GetSlice
    <3>1. backfillQ' \in Seq(Items) /\ Len(backfillQ') <= BackfillMax
      BY <2>6 DEF GetSlice, Types
    <3>2. Head(backfillQ).rows \subseteq Event
      <4>1. Head(backfillQ) \in Items
        BY <2>6 DEF GetSlice, Types
      <4> QED
        BY <4>1 DEF Items, Done
    <3>3. buffer' \subseteq Event /\ raw' \subseteq Event
      BY <2>6, <3>2 DEF GetSlice, Types
    <3> QED
      BY <2>6, <3>1, <3>3 DEF GetSlice, Goto, Types
  <2>7. CASE GetDone
    <3>1. backfillQ' \in Seq(Items) /\ Len(backfillQ') <= BackfillMax
      BY <2>7 DEF GetDone, Types
    <3> QED
      BY <2>7, <3>1 DEF GetDone, Goto, Types, Modes
  <2>8. CASE GetLive
    <3>1. Least(liveQ) \in liveQ
      <4>1. liveQ \subseteq Nat /\ liveQ # {}
        BY <2>8 DEF GetLive, Types, Event
      <4> QED
        BY <4>1, LeastInSet
    <3>2. liveQ' \subseteq Event /\ Cardinality(liveQ') <= LiveMax
      BY <2>8, LiveQueueShrinks DEF GetLive, Types
    <3>3. buffer' \subseteq Event
      BY <2>8, <3>1 DEF GetLive, Types
    <3> QED
      BY <2>8, <3>2, <3>3 DEF GetLive, Goto, Types
  <2>9. CASE TakeChunk
    <3>1. FirstRows(buffer) \subseteq Event
      BY DEF FirstRows, Types
    <3> QED
      BY <2>9, <3>1 DEF TakeChunk, Types
  <2>10. CASE InsertRows
    <3>1. PICK S \in SUBSET chunk \ {{}} :
            /\ chunk' = chunk \ S
            /\ stored' = stored \union (S \ Poison)
            /\ rich' = RichAfter(S \ Poison)
            /\ dead' = dead \union (S \intersect Poison)
      BY <2>10 DEF InsertRows
    <3>2. /\ chunk' \subseteq Event /\ stored' \subseteq Event /\ dead' \subseteq Event
          /\ rich' \subseteq stored'
      BY <3>1 DEF RichAfter, Types
    <3>3. UNCHANGED <<recorderVars, queueVars, requestVars, wpc, mode, buffer, raw, after,
                      orchVars, controlVars>>
      BY <2>10 DEF InsertRows
    <3> QED
      BY <3>2, <3>3 DEF Types
  <2>11. CASE AbandonChunk
    BY <2>11 DEF AbandonChunk, Types
  <2>12. CASE EndFlush
    <3>1. /\ wpc' \in {"top", "exited"} /\ posted' \in BOOLEAN /\ mode' \in Modes
          /\ after' = "loop" /\ raw' \subseteq Event
      BY <2>12 DEF EndFlush, PostRequest, Goto, Types, Modes
    <3>2. UNCHANGED <<recorderVars, tableVars, queueVars, request, buffer, chunk, orchVars,
                      controlVars>>
      BY <2>12 DEF EndFlush
    <3> QED
      BY <3>1, <3>2 DEF Types
  <2> QED
    BY <1>worker, <2>1, <2>2, <2>3, <2>4, <2>5, <2>6, <2>7, <2>8, <2>9, <2>10, <2>11,
       <2>12 DEF WorkerStep
<1>dies. CASE WorkerDies
  BY <1>dies DEF WorkerDies, Goto, Strike, Types, FaultKinds
<1>respawn. CASE Respawn
  BY <1>respawn DEF Respawn, Goto, Types, Modes
<1>deliver. CASE DeliverRequest
  BY <1>deliver DEF DeliverRequest, Types
<1>start. CASE StartOrchestrator
  BY <1>start DEF StartOrchestrator, Types
<1>orch. CASE OrchestratorStep
  <2>1. CASE BeginCycle
    <3>1. Cardinality(liveQ') <= LiveMax
      BY <2>1, FS_EmptySet DEF BeginCycle
    <3>2. tClear' \in 0..(MaxEvent + 1)
      BY <2>1 DEF BeginCycle, ClearTime, Types
    <3> QED
      BY <2>1, <3>1, <3>2 DEF BeginCycle, Types
  <2>2. CASE ReadWatermark
    <3>1. sliceStart' \in Nat
      BY <2>2, FetchFromType DEF ReadWatermark, Types
    <3> QED
      BY <2>2, <3>1 DEF ReadWatermark, Types
  <2>3. CASE FetchSlice
    <3>1. sliceStart' \in Nat
      BY <2>3 DEF FetchSlice, SliceEnd, Lower, Types
    <3>2. fetched' \subseteq Event
      BY <2>3 DEF FetchSlice, RecorderRows
    <3> QED
      BY <2>3, <3>1, <3>2 DEF FetchSlice, Types
  <2>4. CASE PutSlice
    <3>1. Slice(fetched) \in Items
      BY DEF Slice, Items, Types
    <3>2. backfillQ' \in Seq(Items) /\ Len(backfillQ') <= BackfillMax
      BY <2>4, <3>1 DEF PutSlice, Types
    <3> QED
      BY <2>4, <3>2 DEF PutSlice, Types
  <2>5. CASE EndSlices
    BY <2>5 DEF EndSlices, Types
  <2>6. CASE PutDone
    <3>1. Done \in Items
      BY DEF Done, Items
    <3>2. backfillQ' \in Seq(Items) /\ Len(backfillQ') <= BackfillMax
      BY <2>6, <3>1 DEF PutDone, Types
    <3> QED
      BY <2>6, <3>2 DEF PutDone, Types
  <2> QED
    BY <1>orch, <2>1, <2>2, <2>3, <2>4, <2>5, <2>6 DEF OrchestratorStep
<1>crash. CASE OrchestratorCrash
  BY <1>crash DEF OrchestratorCrash, Strike, Types, FaultKinds
<1>relaunch. CASE Relaunch
  BY <1>relaunch DEF Relaunch, InBackfill, Types
<1>stop. CASE Stop
  BY <1>stop DEF Stop, Strike, Types, FaultKinds
<1>cancel. CASE CancelOrchestrator
  BY <1>cancel DEF CancelOrchestrator, Types
<1>unlisten. CASE StopListener
  BY <1>unlisten DEF StopListener, Types
<1>fresh. FreshRuntime =>
            /\ liveQ' \subseteq Event /\ Cardinality(liveQ') <= LiveMax /\ overflowed' = FALSE
            /\ backfillQ' \in Seq(Items) /\ Len(backfillQ') <= BackfillMax
            /\ posted' = FALSE /\ request' = FALSE
            /\ wpc' = "setup" /\ mode' \in Modes /\ after' = "loop"
            /\ buffer' \subseteq Event /\ chunk' \subseteq Event /\ raw' \subseteq Event
            /\ fetched' \subseteq Event
            /\ opc' = "off" /\ tClear' \in 0..(MaxEvent + 1) /\ sliceStart' \in Nat
            /\ listening' = TRUE /\ stop' = FALSE
  BY FS_EmptySet DEF FreshRuntime, Modes
<1>restart. CASE Restart
  BY <1>restart, <1>fresh DEF Restart, Types
<1>kill. CASE Kill
  <2>1. /\ gone' \subseteq Event /\ committed' \in 0..now'
        /\ UNCHANGED <<now, oldest, tableVars>>
    BY <1>kill DEF Kill, Types, Event
  <2>2. faults' \in [FaultKinds -> Nat]
    BY <1>kill DEF Kill, Strike, Types, FaultKinds
  <2> QED
    BY <1>kill, <1>fresh, <2>1, <2>2 DEF Kill, Types
<1>stutter. CASE UNCHANGED vars
  BY <1>stutter DEF vars, Types
<1> QED
  BY <1>fire, <1>commit, <1>purge, <1>worker, <1>dies, <1>respawn, <1>deliver, <1>start,
     <1>orch, <1>crash, <1>relaunch, <1>stop, <1>cancel, <1>unlisten, <1>restart, <1>kill,
     <1>stutter DEF Next

LEMMA TypesHold == Spec => []Types
<1> QED
  BY TypeInit, TypeStep, PTL DEF Spec

-----------------------------------------------------------------------------
(* The rows in the worker's hands.                                         *)

\* Why the size bounds hold, and why no statement meets the rows of the other kind: a thread
\* holds rows of recorder slices in MODE_BACKFILL only, and only while it flushes them; between
\* flushes only MODE_LIVE has a buffer, with room for one more event.
HandsInv ==
  /\ wpc # "flush" => raw = {} /\ chunk = {}
  /\ wpc # "flush" /\ mode # "LIVE" => buffer = {}
  /\ wpc = "dead" => buffer = {}
  /\ mode = "INIT" => buffer = {} /\ chunk = {}
  /\ mode = "BACKFILL" => buffer \union chunk \subseteq raw
  /\ mode # "BACKFILL" => raw = {}
  /\ wpc # "flush" /\ mode = "LIVE" => Cardinality(buffer) < BatchMax
  /\ BatchesFit

\* An empty batch and an empty chunk fit whatever the sizes.
LEMMA EmptyFits == Cardinality({}) = 0 /\ 0 < BatchMax /\ 0 <= ChunkSize /\ 0 <= BatchMax
BY FS_EmptySet, BoundsAssumption

\* A subset of a set of events has at most as many elements.
LEMMA SubsetFits ==
  ASSUME NEW S, S \subseteq Event, NEW T, T \subseteq S, NEW k \in Nat, Cardinality(S) <= k
  PROVE  Cardinality(T) <= k
<1>1. IsFiniteSet(S) /\ Cardinality(S) \in Nat /\ Cardinality(T) \in Nat
  BY EventsAreFinite
<1>2. Cardinality(T) <= Cardinality(S)
  BY <1>1, FS_Subset
<1> QED
  BY <1>1, <1>2

\* rows[i : i + INSERT_CHUNK_SIZE] has at most INSERT_CHUNK_SIZE rows (states_worker.py 458).
LEMMA FirstRowsFit ==
  ASSUME NEW rows, rows \subseteq Event
  PROVE  FirstRows(rows) \subseteq rows /\ Cardinality(FirstRows(rows)) <= ChunkSize
<1> DEFINE F == FirstRows(rows)
<1>1. F \subseteq rows /\ \A n \in F : Cardinality({m \in rows : m <= n}) <= ChunkSize
  BY DEF FirstRows
<1> HIDE DEF F
<1>2. CASE F = {}
  BY <1>1, <1>2, EmptyFits DEF F
<1>3. CASE F # {}
  <2>1. F \subseteq 0..MaxEvent /\ MaxEvent \in Nat
    BY <1>1, BoundsAssumption DEF Event
  <2>2. Greatest(F) \in F /\ \A m \in F : m <= Greatest(F)
    BY <1>3, <2>1, GreatestInSet
  <2> DEFINE D == {m \in rows : m <= Greatest(F)}
  <2>3. D \subseteq Event /\ Cardinality(D) <= ChunkSize /\ F \subseteq D
    BY <1>1, <2>2
  <2> HIDE DEF D
  <2>4. Cardinality(F) <= ChunkSize
    BY <2>3, SubsetFits, BoundsAssumption
  <2> QED
    BY <1>1, <2>4 DEF F
<1> QED
  BY <1>2, <1>3

LEMMA HandsInit == Init => HandsInv
BY EmptyFits DEF Init, HandsInv, BatchesFit

\* Every action keeps the rows in the worker's hands apart and within their sizes.
LEMMA HandsStep ==
  ASSUME Types, HandsInv, [Next]_vars
  PROVE  HandsInv'
<1> USE DEF recorderVars, tableVars, queueVars, requestVars, workerVars, orchVars,
        controlVars, WorkerAt, Goto
<1>sizes. BatchMax \in Nat /\ ChunkSize \in Nat
  BY BoundsAssumption
<1>numbers. Cardinality(buffer) \in Nat /\ Cardinality(chunk) \in Nat
  BY EventsAreFinite DEF Types
\* A step that leaves the worker's hands alone.
<1>idle. UNCHANGED workerVars => HandsInv'
  BY DEF HandsInv, BatchesFit
\* Nothing in its hands: whatever the mode and the place, the invariant holds.
<1>empty. buffer' = {} /\ chunk' = {} /\ raw' = {} => HandsInv'
  BY EmptyFits DEF HandsInv, BatchesFit
\* The thread moves on within its loop, without a request.
<1>move. ASSUME UNCHANGED <<mode, buffer, chunk, raw>>, wpc # "flush",
                wpc' # "dead" \/ buffer = {}
         PROVE  HandsInv'
  BY <1>move, <1>sizes, <1>numbers DEF HandsInv, BatchesFit
<1>worker. CASE WorkerStep
  <2>1. CASE SetupSchema
    BY <2>1, <1>move DEF SetupSchema
  <2>2. CASE LeaveLoop
    BY <2>2, <1>move DEF LeaveLoop
  <2>3. CASE RequestBackfill
    <3>1. wpc = "top" /\ raw = {} /\ chunk = {} /\ UNCHANGED <<buffer, chunk, raw>>
      BY <2>3 DEF RequestBackfill, HandsInv
    <3>2. CASE buffer = {}
      BY <1>empty, <3>1, <3>2
    <3>3. CASE buffer # {}
      BY <2>3, <1>move, <3>1, <3>3 DEF RequestBackfill
    <3> QED
      BY <3>2, <3>3
  <2>4. CASE EnterGet
    BY <2>4, <1>move DEF EnterGet
  <2>5. CASE GetTimeout
    BY <2>5, <1>move DEF GetTimeout
  <2>6. CASE GetSlice
    <3>1. /\ mode' = "BACKFILL" /\ wpc' = "flush" /\ chunk = {} /\ chunk' = {}
          /\ buffer' \subseteq raw'
      BY <2>6 DEF GetSlice, HandsInv
    <3> QED
      BY <3>1, EmptyFits DEF HandsInv, BatchesFit
  <2>7. CASE GetDone
    BY <2>7, <1>empty DEF GetDone, HandsInv
  <2>8. CASE GetLive
    <3> DEFINE n == Least(liveQ)
    <3>1. /\ mode = "LIVE" /\ mode' = "LIVE" /\ wpc = "get" /\ buffer' = buffer \union {n}
          /\ UNCHANGED <<chunk, raw>> /\ chunk = {} /\ raw = {}
          /\ Cardinality(buffer) < BatchMax
      BY <2>8 DEF GetLive, HandsInv
    <3>2. \/ wpc' = "flush"
          \/ wpc' = "top" /\ Cardinality(buffer') < BatchMax
      BY <2>8 DEF GetLive
    <3> HIDE DEF n
    <3>3. Cardinality(buffer \union {n}) =
            IF n \in buffer THEN Cardinality(buffer) ELSE Cardinality(buffer) + 1
      <4>1. IsFiniteSet(buffer)
        BY EventsAreFinite DEF Types
      <4> QED
        BY <4>1, FS_AddElement
    <3>4. Cardinality(buffer') <= BatchMax
      BY <1>sizes, <1>numbers, <3>1, <3>3
    <3> QED
      BY <3>1, <3>2, <3>4, EmptyFits DEF HandsInv, BatchesFit
  <2>9. CASE TakeChunk
    <3>1. /\ wpc = "flush" /\ UNCHANGED <<wpc, mode, raw>> /\ buffer # {}
          /\ chunk' = FirstRows(buffer) /\ buffer' = buffer \ FirstRows(buffer)
      BY <2>9 DEF TakeChunk
    <3>2. FirstRows(buffer) \subseteq buffer /\ Cardinality(FirstRows(buffer)) <= ChunkSize
      BY FirstRowsFit DEF Types
    <3>3. mode = "LIVE" => Cardinality(buffer') <= BatchMax
      <4>1. buffer' \subseteq buffer
        BY <3>1
      <4>2. mode = "LIVE" => Cardinality(buffer) <= BatchMax
        BY DEF HandsInv, BatchesFit
      <4> QED
        BY <1>sizes, <4>1, <4>2, SubsetFits DEF Types
    <3>4. mode # "INIT"
      BY <3>1 DEF HandsInv
    <3>5. mode = "BACKFILL" => buffer' \union chunk' \subseteq raw'
      BY <3>1, <3>2 DEF HandsInv
    <3> QED
      BY <3>1, <3>2, <3>3, <3>4, <3>5 DEF HandsInv, BatchesFit
  <2>shrink. ASSUME wpc = "flush", UNCHANGED <<wpc, mode, buffer, raw>>, chunk' \subseteq chunk
             PROVE  HandsInv'
    <3>1. Cardinality(chunk') <= ChunkSize
      <4>1. Cardinality(chunk) <= ChunkSize
        BY DEF HandsInv, BatchesFit
      <4> QED
        BY <1>sizes, <2>shrink, <4>1, SubsetFits DEF Types
    <3> QED
      BY <2>shrink, <3>1 DEF HandsInv, BatchesFit
  <2>10. CASE InsertRows
    BY <2>10, <2>shrink DEF InsertRows
  <2>11. CASE AbandonChunk
    BY <2>11, <2>shrink DEF AbandonChunk
  <2>12. CASE EndFlush
    BY <2>12, <1>empty DEF EndFlush
  <2> QED
    BY <1>worker, <2>1, <2>2, <2>3, <2>4, <2>5, <2>6, <2>7, <2>8, <2>9, <2>10, <2>11,
       <2>12 DEF WorkerStep
<1>dies. CASE WorkerDies
  BY <1>dies, <1>empty DEF WorkerDies
<1>respawn. CASE Respawn
  BY <1>respawn, <1>empty DEF Respawn, HandsInv
<1>orchestrator. CASE OrchestratorStep
  BY <1>orchestrator, <1>idle DEF OrchestratorStep, BeginCycle, ReadWatermark, FetchSlice,
     PutSlice, EndSlices, PutDone
<1>outside. CASE FireEvent \/ RecorderCommit \/ RecorderPurge \/ DeliverRequest
                 \/ StartOrchestrator \/ OrchestratorCrash \/ Relaunch
  BY <1>outside, <1>idle DEF FireEvent, RecorderCommit, RecorderPurge, DeliverRequest,
     StartOrchestrator, OrchestratorCrash, Relaunch
<1>unload. CASE Stop \/ CancelOrchestrator \/ StopListener
  BY <1>unload, <1>idle DEF Stop, CancelOrchestrator, StopListener
<1>fresh. CASE Restart \/ Kill
  BY <1>fresh, <1>empty DEF Restart, Kill, FreshRuntime
<1>stutter. CASE UNCHANGED vars
  BY <1>stutter, <1>idle DEF vars
<1> QED
  BY <1>worker, <1>dies, <1>respawn, <1>orchestrator, <1>outside, <1>unload, <1>fresh,
     <1>stutter DEF Next

LEMMA HandsHold == Spec => [](Types /\ HandsInv)
<1>1. Types /\ HandsInv /\ [Next]_vars => HandsInv'
  BY HandsStep
<1> QED
  BY TypesHold, HandsInit, <1>1, PTL DEF Spec

\* Types and bounds of the pipeline: every queue, live batch, chunk and cursor stays within
\* its type and its size, whatever the sizes and the number of faults.
THEOREM TypeCorrect == Spec => []TypeOK
<1>1. Types /\ HandsInv => TypeOK
  BY DEF HandsInv, TypeOK
<1> QED
  BY HandsHold, <1>1, PTL

-----------------------------------------------------------------------------
(* The handshake between the worker and the orchestrator.                  *)

\* CycleOwnership spelled out and made inductive: a flush that ends in a request
\* belongs to a worker outside MODE_BACKFILL, and so does the death of a thread.
HandshakeInv ==
  /\ mode # "BACKFILL" =>
       backfillQ = <<>> /\ ~posted /\ ~request /\ ~CycleRunning /\ opc # "crashed"
  /\ posted => ~request /\ ~CycleRunning /\ opc # "crashed" /\ ~DoneQueued
  /\ request => ~CycleRunning /\ opc # "crashed" /\ ~DoneQueued
  /\ CycleRunning \/ opc = "crashed" => ~DoneQueued
  /\ mode = "BACKFILL" /\ ~stop =>
       posted \/ request \/ CycleRunning \/ opc = "crashed" \/ DoneQueued
  /\ \A i \in 1..Len(backfillQ) : backfillQ[i].kind = "done" => i = Len(backfillQ)
  /\ after = "request" => wpc = "flush" /\ mode # "BACKFILL"
  /\ wpc = "dead" => mode # "BACKFILL"

\* With no item queued, no BACKFILL_DONE is queued.
LEMMA EmptyQueueHoldsNoDone == backfillQ = <<>> => ~DoneQueued
BY DEF DoneQueued

LEMMA HandshakeInit == Init => HandshakeInv
BY DEF Init, HandshakeInv, CycleRunning, DoneQueued

\* CycleOwnership survives every step of a pipeline whose worker does not die in
\* MODE_BACKFILL.
LEMMA HandshakeStep ==
  ASSUME "BACKFILL" \notin DeathModes, Types, HandshakeInv, [Next]_vars
  PROVE  HandshakeInv'
<1> USE DEF recorderVars, tableVars, queueVars, requestVars, workerVars, orchVars,
        controlVars, WorkerAt, Goto
<1> DEFINE Untouched == UNCHANGED <<backfillQ, posted, request, opc, stop, mode>>
           AfterOK == after' = "request" => wpc' = "flush" /\ mode' # "BACKFILL"
           DeadOK == wpc' = "dead" => mode' # "BACKFILL"
\* An action that touches neither queue, request, orchestrator nor mode.
<1>idle. Untouched /\ AfterOK /\ DeadOK => HandshakeInv'
  BY DEF HandshakeInv, CycleRunning, DoneQueued
<1>same. backfillQ' = backfillQ => (DoneQueued' <=> DoneQueued)
  BY DEF DoneQueued
<1>fire. CASE FireEvent
  <2>1. Untouched /\ AfterOK /\ DeadOK
    BY <1>fire DEF FireEvent, PutLive, HandshakeInv
  <2> QED
    BY <1>idle, <2>1
<1>commit. CASE RecorderCommit
  <2>1. Untouched /\ AfterOK /\ DeadOK
    BY <1>commit DEF RecorderCommit, HandshakeInv
  <2> QED
    BY <1>idle, <2>1
<1>purge. CASE RecorderPurge
  <2>1. Untouched /\ AfterOK /\ DeadOK
    BY <1>purge DEF RecorderPurge, HandshakeInv
  <2> QED
    BY <1>idle, <2>1
<1>post. ASSUME PostRequest, mode # "BACKFILL", UNCHANGED <<backfillQ, request, opc, stop>>,
                after' # "request"
         PROVE  HandshakeInv'
  <2>1. ~CycleRunning /\ opc # "crashed" /\ ~request /\ ~DoneQueued
    BY <1>post DEF HandshakeInv, DoneQueued
  <2>2. ~CycleRunning' /\ opc' # "crashed" /\ ~request' /\ ~DoneQueued'
    BY <1>post, <1>same, <2>1 DEF CycleRunning
  <2>3. /\ posted' = TRUE /\ mode' = "BACKFILL" /\ wpc' = "top"
        /\ backfillQ' = <<>>
    BY <1>post DEF PostRequest, HandshakeInv
  <2> QED
    BY <1>post, <2>2, <2>3 DEF HandshakeInv
<1>worker. CASE WorkerStep
  <2>1. CASE SetupSchema
    <3>1. Untouched /\ AfterOK /\ DeadOK
      BY <2>1 DEF SetupSchema, HandshakeInv
    <3> QED
      BY <1>idle, <3>1
  <2>2. CASE LeaveLoop
    <3>1. Untouched /\ AfterOK /\ DeadOK
      BY <2>2 DEF LeaveLoop, HandshakeInv
    <3> QED
      BY <1>idle, <3>1
  <2>3. CASE RequestBackfill
    <3>1. mode # "BACKFILL"
      BY <2>3 DEF RequestBackfill, NeedsBackfill
    <3>2. CASE buffer = {}
      <4>1. /\ PostRequest /\ UNCHANGED <<backfillQ, request, opc, stop>>
            /\ after' # "request"
        BY <2>3, <3>2 DEF RequestBackfill, HandshakeInv
      <4> QED
        BY <1>post, <3>1, <4>1
    <3>3. CASE buffer # {}
      <4>1. Untouched /\ AfterOK /\ DeadOK
        BY <2>3, <3>1, <3>3 DEF RequestBackfill
      <4> QED
        BY <1>idle, <4>1
    <3> QED
      BY <3>2, <3>3
  <2>4. CASE EnterGet
    <3>1. Untouched /\ AfterOK /\ DeadOK
      BY <2>4 DEF EnterGet, HandshakeInv
    <3> QED
      BY <1>idle, <3>1
  <2>5. CASE GetTimeout
    <3>1. Untouched /\ AfterOK /\ DeadOK
      BY <2>5 DEF GetTimeout, HandshakeInv
    <3> QED
      BY <1>idle, <3>1
  <2>6. CASE GetSlice
    <3>1. backfillQ \in Seq(Items) /\ backfillQ # <<>> /\ backfillQ' = Tail(backfillQ)
            /\ backfillQ[1].kind = "slice"
      BY <2>6 DEF GetSlice, Types
    <3>2. /\ Len(backfillQ') = Len(backfillQ) - 1 /\ Len(backfillQ) \in Nat \ {0}
          /\ \A i \in 1..Len(backfillQ') : backfillQ'[i] = backfillQ[i + 1]
      BY <3>1
    <3>3. \A i \in 1..Len(backfillQ') : backfillQ'[i].kind = "done" => i = Len(backfillQ')
      BY <3>2 DEF HandshakeInv
    <3>4. DoneQueued' <=> DoneQueued
      <4>1. ASSUME DoneQueued PROVE DoneQueued'
        <5>1. PICK i \in 1..Len(backfillQ) : backfillQ[i].kind = "done"
          BY <4>1 DEF DoneQueued
        <5>2. i # 1
          BY <3>1, <5>1
        <5>3. i - 1 \in 1..Len(backfillQ') /\ backfillQ'[i - 1] = backfillQ[i]
          BY <3>2, <5>1, <5>2
        <5> QED
          BY <5>1, <5>3 DEF DoneQueued
      <4>2. ASSUME DoneQueued' PROVE DoneQueued
        <5>1. PICK i \in 1..Len(backfillQ') : backfillQ'[i].kind = "done"
          BY <4>2 DEF DoneQueued
        <5>2. i + 1 \in 1..Len(backfillQ) /\ backfillQ'[i] = backfillQ[i + 1]
          BY <3>2, <5>1
        <5> QED
          BY <5>1, <5>2 DEF DoneQueued
      <4> QED
        BY <4>1, <4>2
    <3>5. /\ mode = "BACKFILL" /\ UNCHANGED <<mode, posted, request, opc, stop>>
          /\ wpc' = "flush" /\ after' = "loop"
      BY <2>6 DEF GetSlice
    <3>6. CycleRunning' <=> CycleRunning
      BY <3>5 DEF CycleRunning
    <3> QED
      BY <3>3, <3>4, <3>5, <3>6 DEF HandshakeInv
  <2>7. CASE GetDone
    <3>1. backfillQ \in Seq(Items) /\ backfillQ # <<>> /\ backfillQ' = Tail(backfillQ)
            /\ backfillQ[1].kind = "done"
      BY <2>7 DEF GetDone, Types
    <3>2. DoneQueued /\ Len(backfillQ) = 1
      <4>1. 1 \in 1..Len(backfillQ)
        BY <3>1
      <4> QED
        BY <3>1, <4>1 DEF DoneQueued, HandshakeInv
    <3>3. backfillQ' = <<>>
      BY <3>1, <3>2
    <3>4. ~posted /\ ~request /\ ~CycleRunning /\ opc # "crashed"
      BY <3>2 DEF HandshakeInv
    <3>5. /\ mode' = "LIVE" /\ UNCHANGED <<posted, request, opc, stop, after>>
          /\ wpc = "get" /\ wpc' = "top"
      BY <2>7 DEF GetDone
    <3>6. ~CycleRunning' /\ ~DoneQueued'
      BY <3>3, <3>4, <3>5 DEF CycleRunning, DoneQueued
    <3> QED
      BY <3>3, <3>4, <3>5, <3>6 DEF HandshakeInv
  <2>8. CASE GetLive
    <3>1. Untouched /\ AfterOK /\ DeadOK
      BY <2>8 DEF GetLive, HandshakeInv
    <3> QED
      BY <1>idle, <3>1
  <2>9. CASE TakeChunk
    <3>1. Untouched /\ AfterOK /\ DeadOK
      BY <2>9 DEF TakeChunk, HandshakeInv
    <3> QED
      BY <1>idle, <3>1
  <2>10. CASE InsertRows
    <3>1. Untouched /\ AfterOK /\ DeadOK
      BY <2>10 DEF InsertRows, HandshakeInv
    <3> QED
      BY <1>idle, <3>1
  <2>11. CASE AbandonChunk
    <3>1. Untouched /\ AfterOK /\ DeadOK
      BY <2>11 DEF AbandonChunk, HandshakeInv
    <3> QED
      BY <1>idle, <3>1
  <2>12. CASE EndFlush
    <3>1. CASE after = "request"
      <4>1. /\ PostRequest /\ UNCHANGED <<backfillQ, request, opc, stop>>
            /\ after' # "request" /\ mode # "BACKFILL"
        BY <2>12, <3>1 DEF EndFlush, HandshakeInv
      <4> QED
        BY <1>post, <4>1
    <3>2. CASE after # "request"
      <4>1. Untouched /\ AfterOK /\ DeadOK
        BY <2>12, <3>2 DEF EndFlush, HandshakeInv
      <4> QED
        BY <1>idle, <4>1
    <3> QED
      BY <3>1, <3>2
  <2> QED
    BY <1>worker, <2>1, <2>2, <2>3, <2>4, <2>5, <2>6, <2>7, <2>8, <2>9, <2>10, <2>11,
       <2>12 DEF WorkerStep
<1>dies. CASE WorkerDies
  <2>1. Untouched /\ AfterOK /\ DeadOK
    BY <1>dies DEF WorkerDies
  <2> QED
    BY <1>idle, <2>1
<1>respawn. CASE Respawn
  <2>1. mode # "BACKFILL" /\ mode' = "INIT" /\ wpc' = "setup" /\ after' # "request"
    BY <1>respawn DEF Respawn, HandshakeInv
  <2>2. UNCHANGED <<backfillQ, posted, request, opc, stop>>
    BY <1>respawn DEF Respawn
  <2> QED
    BY <1>same, <2>1, <2>2 DEF HandshakeInv, CycleRunning
<1>deliver. CASE DeliverRequest
  <2>1. /\ posted /\ posted' = FALSE /\ request' = TRUE
        /\ UNCHANGED <<backfillQ, opc, stop, mode, wpc, after>>
    BY <1>deliver DEF DeliverRequest
  <2> QED
    BY <1>same, <2>1 DEF HandshakeInv, CycleRunning
<1>start. CASE StartOrchestrator
  <2>1. /\ opc = "off" /\ opc' = "waiting"
        /\ UNCHANGED <<backfillQ, posted, request, stop, mode, wpc, after>>
    BY <1>start DEF StartOrchestrator
  <2> QED
    BY <1>same, <2>1 DEF HandshakeInv, CycleRunning
<1>orch. CASE OrchestratorStep
  <2>1. CASE BeginCycle
    <3>1. /\ opc = "waiting" /\ request /\ request' = FALSE /\ opc' = "watermark"
          /\ UNCHANGED <<backfillQ, posted, stop, mode, wpc, after>>
      BY <2>1 DEF BeginCycle
    <3> QED
      BY <1>same, <3>1 DEF HandshakeInv, CycleRunning
  \* A step of a running cycle that leaves the queue alone and runs on.
  <2>run. ASSUME CycleRunning, CycleRunning',
                 UNCHANGED <<backfillQ, posted, request, stop, mode, wpc, after>>
          PROVE  HandshakeInv'
    <3>1. opc' # "crashed" /\ opc # "crashed"
      BY <2>run DEF CycleRunning
    <3> QED
      BY <1>same, <2>run, <3>1 DEF HandshakeInv
  <2>2. CASE ReadWatermark
    BY <2>2, <2>run DEF ReadWatermark, CycleRunning
  <2>3. CASE FetchSlice
    BY <2>3, <2>run DEF FetchSlice, CycleRunning
  <2>5. CASE EndSlices
    BY <2>5, <2>run DEF EndSlices, CycleRunning
  <2>4. CASE PutSlice
    <3>1. CycleRunning /\ CycleRunning' /\ opc # "crashed" /\ opc' # "crashed"
      BY <2>4 DEF PutSlice, CycleRunning
    <3>2. UNCHANGED <<posted, request, stop, mode, wpc, after>>
      BY <2>4 DEF PutSlice
    <3>3. ~posted /\ ~request /\ ~DoneQueued /\ mode = "BACKFILL"
      BY <3>1 DEF HandshakeInv
    <3>4. /\ backfillQ \in Seq(Items)
          /\ backfillQ' = Append(backfillQ, Slice(fetched))
      BY <2>4 DEF PutSlice, Types
    <3>5. \A i \in 1..Len(backfillQ') : backfillQ'[i].kind # "done"
      <4> TAKE i \in 1..Len(backfillQ')
      <4>1. CASE i \in 1..Len(backfillQ)
        BY <3>3, <3>4, <4>1 DEF DoneQueued
      <4>2. CASE i = Len(backfillQ) + 1
        BY <3>4, <4>2 DEF Slice
      <4> QED
        BY <3>4, <4>1, <4>2
    <3>6. ~DoneQueued'
      BY <3>5 DEF DoneQueued
    <3> QED
      BY <3>1, <3>2, <3>3, <3>5, <3>6 DEF HandshakeInv
  <2>6. CASE PutDone
    <3>1. CycleRunning /\ ~CycleRunning' /\ opc' # "crashed"
      BY <2>6 DEF PutDone, CycleRunning
    <3>2. UNCHANGED <<posted, request, stop, mode, wpc, after>>
      BY <2>6 DEF PutDone
    <3>3. ~posted /\ ~request /\ ~DoneQueued /\ mode = "BACKFILL"
      BY <3>1 DEF HandshakeInv
    <3>4. /\ backfillQ \in Seq(Items)
          /\ backfillQ' = Append(backfillQ, Done)
      BY <2>6 DEF PutDone, Types
    <3>5. \A i \in 1..Len(backfillQ') : backfillQ'[i].kind = "done" => i = Len(backfillQ')
      <4> TAKE i \in 1..Len(backfillQ')
      <4>1. CASE i \in 1..Len(backfillQ)
        BY <3>3, <3>4, <4>1 DEF DoneQueued
      <4>2. CASE i = Len(backfillQ) + 1
        BY <3>4, <4>2
      <4> QED
        BY <3>4, <4>1, <4>2
    <3>6. DoneQueued'
      <4>1. Len(backfillQ') = Len(backfillQ) + 1 /\ Len(backfillQ) \in Nat
              /\ backfillQ'[Len(backfillQ) + 1] = Done
        BY <3>4
      <4> QED
        BY <4>1 DEF DoneQueued, Done
    <3> QED
      BY <3>1, <3>2, <3>3, <3>5, <3>6 DEF HandshakeInv
  <2> QED
    BY <1>orch, <2>1, <2>2, <2>3, <2>4, <2>5, <2>6 DEF OrchestratorStep
<1>crash. CASE OrchestratorCrash
  <2>1. CycleRunning /\ ~CycleRunning' /\ opc' = "crashed"
          /\ UNCHANGED <<backfillQ, posted, request, stop, mode, wpc, after>>
    BY <1>crash DEF OrchestratorCrash, CycleRunning
  <2> QED
    BY <1>same, <2>1 DEF HandshakeInv
<1>relaunch. CASE Relaunch
  <2>1. /\ opc = "crashed" /\ opc' = "waiting" /\ ~CycleRunning'
        /\ UNCHANGED <<backfillQ, posted, stop, mode, wpc, after>>
    BY <1>relaunch DEF Relaunch, CycleRunning
  <2>2. mode = "BACKFILL" /\ ~posted /\ ~DoneQueued
    BY <2>1 DEF HandshakeInv
  <2>3. request' = TRUE
    BY <1>relaunch, <2>2 DEF Relaunch, InBackfill
  <2> QED
    BY <1>same, <2>1, <2>2, <2>3 DEF HandshakeInv
<1>stop. CASE Stop
  <2>1. stop' = TRUE /\ UNCHANGED <<backfillQ, posted, request, opc, mode, wpc, after>>
    BY <1>stop DEF Stop
  <2> QED
    BY <1>same, <2>1 DEF HandshakeInv, CycleRunning
<1>cancel. CASE CancelOrchestrator
  <2>1. /\ stop /\ opc' = "off" /\ ~CycleRunning'
        /\ UNCHANGED <<backfillQ, posted, request, stop, mode, wpc, after>>
    BY <1>cancel DEF CancelOrchestrator, CycleRunning
  <2> QED
    BY <1>same, <2>1 DEF HandshakeInv
<1>unlisten. CASE StopListener
  <2>1. Untouched /\ AfterOK /\ DeadOK
    BY <1>unlisten DEF StopListener, HandshakeInv
  <2> QED
    BY <1>idle, <2>1
<1>fresh. FreshRuntime => HandshakeInv'
  BY DEF FreshRuntime, HandshakeInv, CycleRunning, DoneQueued
<1>restart. CASE Restart
  BY <1>restart, <1>fresh DEF Restart
<1>kill. CASE Kill
  BY <1>kill, <1>fresh DEF Kill
<1>stutter. CASE UNCHANGED vars
  <2>1. Untouched /\ AfterOK /\ DeadOK
    BY <1>stutter DEF vars, HandshakeInv
  <2> QED
    BY <1>idle, <2>1
<1> QED
  BY <1>fire, <1>commit, <1>purge, <1>worker, <1>dies, <1>respawn, <1>deliver, <1>start,
     <1>orch, <1>crash, <1>relaunch, <1>stop, <1>cancel, <1>unlisten, <1>restart, <1>kill,
     <1>stutter DEF Next

\* HandshakeInv says of the five kinds of pending cycle what CycleOwnership says.
LEMMA HandshakeImpliesOwnership ==
  ASSUME Types, HandshakeInv
  PROVE  CycleOwnership
<1>1. /\ Tokens[1] <=> posted
      /\ Tokens[2] <=> request
      /\ Tokens[3] <=> CycleRunning
      /\ Tokens[4] <=> opc = "crashed"
      /\ Tokens[5] <=> DoneQueued
  BY DEF Tokens, Types
<1>5. \A i \in 1..5 : i = 1 \/ i = 2 \/ i = 3 \/ i = 4 \/ i = 5
  OBVIOUS
<1>6. 1 \in 1..5 /\ 2 \in 1..5 /\ 3 \in 1..5 /\ 4 \in 1..5 /\ 5 \in 1..5
  OBVIOUS
<1>2. mode # "BACKFILL" => backfillQ = <<>> /\ \A i \in 1..5 : ~Tokens[i]
  <2>1. ASSUME mode # "BACKFILL", NEW i \in 1..5 PROVE ~Tokens[i]
    <3>1. ~posted /\ ~request /\ ~CycleRunning /\ opc # "crashed" /\ ~DoneQueued
      BY <2>1, EmptyQueueHoldsNoDone DEF HandshakeInv
    <3> QED
      BY <1>1, <1>5, <3>1, Zenon
  <2> QED
    BY <2>1 DEF HandshakeInv
<1>3. \A i, j \in 1..5 : Tokens[i] /\ Tokens[j] => i = j
  <2>1. opc = "crashed" => ~CycleRunning
    BY DEF CycleRunning
  <2> QED
    BY <1>1, <1>5, <2>1, Zenon DEF HandshakeInv
<1>4. mode = "BACKFILL" /\ ~stop => \E i \in 1..5 : Tokens[i]
  BY <1>1, <1>6, Zenon DEF HandshakeInv
<1> QED
  BY <1>2, <1>3, <1>4 DEF HandshakeInv, CycleOwnership

\* As long as no worker dies in MODE_BACKFILL, worker and orchestrator always agree on
\* who owes whom a cycle (states_worker.py 372-403, backfill.py 98-204, __init__.py
\* 276-281): no cycle empties the live queue under a worker in MODE_LIVE, and no worker
\* waits for a BACKFILL_DONE that nobody is going to send.
THEOREM CyclesAreOwned ==
  ASSUME "BACKFILL" \notin DeathModes
  PROVE  Spec => []CycleOwnership
<1>1. Types /\ HandshakeInv /\ [Next]_vars => HandshakeInv'
  BY HandshakeStep
<1>2. Types /\ HandshakeInv => CycleOwnership
  BY HandshakeImpliesOwnership
<1> QED
  BY HandshakeInit, TypesHold, <1>1, <1>2, PTL DEF Spec

\* Only InsertRows touches rich.  In MODE_LIVE no row of its chunk comes from a slice, so that
\* DO UPDATE replaces nothing by a poorer row; in MODE_BACKFILL every row does, so that DO
\* NOTHING withholds no live event's attributes; in MODE_INIT there is nothing to write.
LEMMA RichStep ==
  ASSUME Types, HandsInv, [Next]_vars
  PROVE  /\ rich \subseteq rich'
         /\ InsertRows => (chunk \ chunk') \ (raw \union Poison) \subseteq rich'
<1> USE DEF recorderVars, tableVars, queueVars, requestVars, workerVars, orchVars,
        controlVars
<1>insert. CASE InsertRows
  <2>1. PICK S \in SUBSET chunk \ {{}} : chunk' = chunk \ S /\ rich' = RichAfter(S \ Poison)
    BY <1>insert DEF InsertRows
  <2>2. chunk # {} /\ chunk \ chunk' = S /\ S \subseteq chunk
    BY <1>insert, <2>1 DEF InsertRows
  <2>3. CASE mode = "LIVE"
    <3>1. raw = {} /\ rich' = rich \union (S \ Poison)
      BY <2>1, <2>3 DEF RichAfter, HandsInv
    <3> QED
      BY <2>2, <3>1
  <2>4. CASE mode # "LIVE"
    <3>1. S \subseteq raw /\ rich \subseteq rich'
      BY <2>1, <2>2, <2>4 DEF RichAfter, HandsInv, Types, Modes
    <3> QED
      BY <2>2, <3>1
  <2> QED
    BY <2>3, <2>4
<1>worker. CASE WorkerStep /\ ~InsertRows
  <2>1. UNCHANGED rich
    BY <1>worker DEF WorkerStep, SetupSchema, LeaveLoop, RequestBackfill, EnterGet,
       GetTimeout, GetSlice, GetDone, GetLive, TakeChunk, AbandonChunk, EndFlush
  <2> QED
    BY <1>worker, <2>1
<1>orchestrator. CASE OrchestratorStep /\ ~InsertRows
  <2>1. UNCHANGED rich
    BY <1>orchestrator DEF OrchestratorStep, BeginCycle, ReadWatermark, FetchSlice,
       PutSlice, EndSlices, PutDone
  <2> QED
    BY <1>orchestrator, <2>1
<1>outside. CASE (FireEvent \/ RecorderCommit \/ RecorderPurge \/ WorkerDies \/ Respawn
                  \/ DeliverRequest \/ StartOrchestrator \/ OrchestratorCrash \/ Relaunch)
                 /\ ~InsertRows
  <2>1. UNCHANGED rich
    BY <1>outside DEF FireEvent, RecorderCommit, RecorderPurge, WorkerDies, Respawn,
       DeliverRequest, StartOrchestrator, OrchestratorCrash, Relaunch
  <2> QED
    BY <1>outside, <2>1
<1>lifecycle. CASE (Stop \/ CancelOrchestrator \/ StopListener \/ Restart \/ Kill)
                   /\ ~InsertRows
  <2>1. UNCHANGED rich
    BY <1>lifecycle DEF Stop, CancelOrchestrator, StopListener, Restart, Kill
  <2> QED
    BY <1>lifecycle, <2>1
<1>stutter. CASE UNCHANGED vars /\ ~InsertRows
  BY <1>stutter DEF vars
<1> QED
  BY <1>insert, <1>worker, <1>orchestrator, <1>outside, <1>lifecycle, <1>stutter DEF Next

\* The row of a live event has its attributes once it is written and keeps them
\* (states_worker.py:466, const.py 154-171): the upserting statement only ever meets live
\* batches and the skipping one only slices, through every overflow, death and restart.
THEOREM LiveRowsStay == Spec => LiveRowsKept
<1>1. Types /\ HandsInv /\ [Next]_vars
        => [/\ rich \subseteq rich'
            /\ InsertRows => (chunk \ chunk') \ (raw \union Poison) \subseteq rich']_vars
  BY RichStep
<1> QED
  BY <1>1, HandsHold, PTL DEF Spec, LiveRowsKept

=============================================================================
