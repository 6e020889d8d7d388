------------------------- MODULE MinuteRollupProofs -------------------------
(***************************************************************************)
(* Theorems about MinuteRollup, for every value of its constants.          *)
(***************************************************************************)
EXTENDS MinuteRollup, TLAPS, WellFoundedInduction

-----------------------------------------------------------------------------
(* Extrema and minutes. *)

\* The largest element of a set is the one that is not smaller than any other.
LEMMA MaxIs ==
  ASSUME NEW S, S \subseteq Int, NEW m \in S, \A y \in S : y <= m
  PROVE  Max(S) = m
<1>1. \A x \in S : (\A y \in S : x >= y) => x = m
  OBVIOUS
<1>2. \A y \in S : m >= y
  OBVIOUS
<1> QED
  BY <1>1, <1>2 DEF Max

\* and the smallest the one that is not larger.
LEMMA MinIs ==
  ASSUME NEW S, S \subseteq Int, NEW m \in S, \A y \in S : m <= y
  PROVE  Min(S) = m
<1>1. \A x \in S : (\A y \in S : x <= y) => x = m
  OBVIOUS
<1> QED
  BY <1>1 DEF Min

\* The later of two instants.
LEMMA MaxOfTwo ==
  ASSUME NEW a \in Int, NEW b \in Int
  PROVE  Max({a, b}) = IF a <= b THEN b ELSE a
<1>1. CASE a <= b
  BY <1>1, MaxIs
<1>2. CASE ~(a <= b)
  BY <1>2, MaxIs
<1> QED
  BY <1>1, <1>2

\* The earlier of two instants.
LEMMA MinOfTwo ==
  ASSUME NEW a \in Int, NEW b \in Int
  PROVE  Min({a, b}) = IF a <= b THEN a ELSE b
<1>1. CASE a <= b
  BY <1>1, MinIs
<1>2. CASE ~(a <= b)
  BY <1>2, MinIs
<1> QED
  BY <1>1, <1>2

\* A nonempty set of instants that are not below n has an earliest one.
LEMMA EarliestExists ==
  ASSUME NEW n \in Int, NEW S, S \subseteq Int, S # {}, \A y \in S : n <= y
  PROVE  Min(S) \in S /\ \A y \in S : Min(S) <= y
<1> DEFINE R == OpToRel(<, Nat)
           D == {y - n : y \in S}
<1>1. \A y \in S : y - n \in Nat
  <2>1. SUFFICES ASSUME NEW y \in S PROVE y - n \in Nat
    OBVIOUS
  <2>2. y \in Int /\ y - n >= 0
    OBVIOUS
  <2> QED
    BY <2>2
<1>2. D \subseteq Nat /\ D # {}
  BY <1>1
<1>3. PICK d \in D : \A e \in D : ~(<<e, d>> \in R)
  <2>1. IsWellFoundedOn(R, Nat)
    BY NatLessThanWellFounded
  <2> HIDE DEF R, D
  <2> QED
    BY <1>2, <2>1, WFMin
<1>4. \A e \in D : d <= e
  <2>1. \A e \in D : <<e, d>> \in R <=> e < d
    BY <1>2 DEF R, OpToRel
  <2> TAKE e \in D
  <2>2. e \in Nat /\ d \in Nat
    BY <1>2
  <2>3. ~(e < d)
    <3> HIDE DEF R, D
    <3> QED
      BY <1>3, <2>1
  <2> QED
    BY <2>2, <2>3
<1>5. PICK m \in S : d = m - n
  OBVIOUS
<1>6. \A y \in S : m <= y
  <2> TAKE y \in S
  <2>1. d <= y - n
    BY <1>4
  <2>2. m \in Int /\ y \in Int
    OBVIOUS
  <2> QED
    BY <1>5, <2>1, <2>2
<1>7. Min(S) = m
  BY <1>6, MinIs
<1> QED
  BY <1>6, <1>7

\* The case of instants since 0, which readings are.
LEMMA EarliestOfNat ==
  ASSUME NEW S, S \subseteq Nat, S # {}
  PROVE  Min(S) \in S /\ \A y \in S : Min(S) <= y
<1>1. PICK n \in Int : n = 0
  OBVIOUS
<1>2. S \subseteq Int /\ \A y \in S : n <= y
  BY <1>1
<1> QED
  BY <1>2, EarliestExists

\* and one of instants that are not above n a latest one.
LEMMA LatestExists ==
  ASSUME NEW n \in Int, NEW S, S \subseteq Int, S # {}, \A y \in S : y <= n
  PROVE  Max(S) \in S /\ \A y \in S : y <= Max(S)
<1> DEFINE D == {-y : y \in S}
<1>1. D \subseteq Int /\ D # {} /\ \A d \in D : -n <= d
  <2>1. \A y \in S : -y \in Int /\ -n <= -y
    <3> TAKE y \in S
    <3>1. y \in Int /\ y <= n
      OBVIOUS
    <3> QED
      BY <3>1
  <2> QED
    BY <2>1
<1>2. Min(D) \in D /\ \A d \in D : Min(D) <= d
  <2>1. -n \in Int
    OBVIOUS
  <2> HIDE DEF D
  <2> QED
    BY <1>1, <2>1, EarliestExists
<1>3. PICK m \in S : Min(D) = -m
  BY <1>2
<1>4. \A y \in S : y <= m
  <2> TAKE y \in S
  <2>1. -m <= -y
    BY <1>2, <1>3
  <2>2. m \in Int /\ y \in Int
    OBVIOUS
  <2> QED
    BY <2>1, <2>2
<1>5. Max(S) = m
  BY <1>4, MaxIs
<1> QED
  BY <1>4, <1>5

\* The start of a tick's minute.
LEMMA TruncBounds ==
  ASSUME NEW t \in Int
  PROVE  /\ Trunc(t) \in Int /\ Trunc(t) <= t /\ t < Trunc(t) + MinuteTicks
         /\ t >= 0 => Trunc(t) >= 0
         /\ Trunc(t) = MinuteTicks * (t \div MinuteTicks)
<1>1. MinuteTicks \in Nat /\ MinuteTicks > 0
  BY RollupAssumption
<1>2. t % MinuteTicks \in 0..MinuteTicks - 1 /\ t \div MinuteTicks \in Int
  BY <1>1
<1>3. t = (MinuteTicks * (t \div MinuteTicks)) + (t % MinuteTicks)
  BY <1>1
<1>4. t >= 0 => t \div MinuteTicks >= 0
  BY <1>1
<1>5. t >= 0 => t % MinuteTicks <= t
  BY <1>1, <1>2, <1>3, <1>4
<1> QED
  BY <1>1, <1>2, <1>3, <1>5 DEF Trunc

\* Later instants are in the same minute or in a later one.
LEMMA TruncMonotone ==
  ASSUME NEW t \in Int, NEW u \in Int, t <= u
  PROVE  Trunc(t) <= Trunc(u)
<1> DEFINE q == t \div MinuteTicks
           p == u \div MinuteTicks
<1>1. MinuteTicks \in Nat /\ MinuteTicks > 0
  BY RollupAssumption
<1>2. q \in Int /\ p \in Int
  BY <1>1
<1>3. /\ Trunc(t) = MinuteTicks * q /\ Trunc(t) <= t
      /\ Trunc(u) = MinuteTicks * p /\ u < Trunc(u) + MinuteTicks
  BY TruncBounds
<1> HIDE DEF q, p
<1>4. MinuteTicks * q < MinuteTicks * p + MinuteTicks
  BY <1>1, <1>2, <1>3
<1>5. CASE p < q
  <2>1. PICK d \in Nat : q = p + 1 + d
    <3>1. q - p - 1 \in Nat
      BY <1>2, <1>5
    <3> QED
      BY <1>2, <3>1
  <2>2. MinuteTicks * q = MinuteTicks * p + MinuteTicks + MinuteTicks * d
    BY <1>1, <1>2, <2>1
  <2>3. MinuteTicks * d >= 0
    BY <1>1, <2>1
  <2> QED
    BY <1>1, <1>2, <1>4, <2>1, <2>2, <2>3
<1>6. CASE q <= p
  <2>1. PICK d \in Nat : p = q + d
    <3>1. p - q \in Nat
      BY <1>2, <1>6
    <3> QED
      BY <1>2, <3>1
  <2>2. MinuteTicks * p = MinuteTicks * q + MinuteTicks * d
    BY <1>1, <1>2, <2>1
  <2>3. MinuteTicks * d >= 0
    BY <1>1, <2>1
  <2> QED
    BY <1>1, <1>2, <1>3, <2>1, <2>2, <2>3
<1> QED
  BY <1>2, <1>5, <1>6

-----------------------------------------------------------------------------
(* Types. *)

JobType ==
  [pc : {"idle", "started", "read", "tail", "dirty", "unit", "more"}, end : 0..Trunc(now) \cup {None},
   from : -Lookback..now, unit : DirtyRange, seen : SUBSET samples]

ToolType ==
  [on : BOOLEAN, cursor : Int, end : Int, from : samples \cup {None}, to : samples \cup {None}]

\* TypeOK, with whole records and the end of a job that has started.
Typed ==
  /\ TypeOK
  /\ job \in JobType /\ tool \in ToolType
  /\ job.pc \in {"started", "read", "tail"} => job.end \in 0..Trunc(now)

\* The numbers, as the solver can use them.
LEMMA Numbers ==
  /\ MinuteTicks \in Nat /\ MinuteTicks > 0 /\ MaxTime \in Nat /\ MaxTime > 0
  /\ Lookback \in Nat /\ Lookback > 0 /\ Day \in Nat /\ Day > 0 /\ Lookback <= Day
  /\ Holds \subseteq Nat /\ Bucket \in Nat
<1>1. \A n \in Nat, m \in Nat : n > 0 /\ m > 0 => n * m \in Nat /\ n * m > 0
  OBVIOUS
<1>2. PICK n \in 1..MaxTime : Lookback = n * MinuteTicks
  BY RollupAssumption
<1>3. PICK m \in 1..MaxTime : Day = m * MinuteTicks
  BY RollupAssumption
<1>4. MinuteTicks \in Nat /\ MinuteTicks > 0 /\ MaxTime \in Nat /\ n \in Nat /\ m \in Nat /\ n > 0 /\ m > 0
  BY RollupAssumption
<1>5. Lookback \in Nat /\ Lookback > 0
  BY <1>1, <1>2, <1>4
<1>6. Day \in Nat /\ Day > 0
  BY <1>1, <1>3, <1>4
<1> QED
  BY <1>4, <1>5, <1>6, RollupAssumption

\* A day back is a whole number of minutes back.
LEMMA DayBack ==
  ASSUME NEW t \in Int
  PROVE  Trunc(t) <= Trunc(t - Day) + Day
<1> DEFINE q == t \div MinuteTicks
           p == (t - Day) \div MinuteTicks
<1>1. PICK m \in 1..MaxTime : Day = m * MinuteTicks
  BY RollupAssumption
<1>2. MinuteTicks \in Nat /\ MinuteTicks > 0 /\ m \in Nat /\ Day \in Nat
  BY Numbers
<1>3. q \in Int /\ p \in Int /\ t - Day \in Int
  BY <1>2
<1>4. /\ Trunc(t) = MinuteTicks * q /\ Trunc(t) <= t
      /\ Trunc(t - Day) = MinuteTicks * p /\ t - Day < Trunc(t - Day) + MinuteTicks
  BY <1>3, TruncBounds
<1> HIDE DEF q, p
<1>5. MinuteTicks * q < (MinuteTicks * p) + MinuteTicks + Day
  BY <1>2, <1>3, <1>4
<1>6. CASE q <= p + m
  <2>1. PICK d \in Nat : p + m = q + d
    <3>1. p + m - q \in Nat
      BY <1>2, <1>3, <1>6
    <3> QED
      BY <1>2, <1>3, <3>1
  <2>2. (MinuteTicks * p) + (MinuteTicks * m) = (MinuteTicks * q) + (MinuteTicks * d)
    <3>1. MinuteTicks * (p + m) = MinuteTicks * (q + d)
      BY <2>1
    <3> QED
      BY <1>2, <1>3, <2>1, <3>1
  <2>3. MinuteTicks * d >= 0 /\ MinuteTicks * d \in Int
    BY <1>2, <2>1
  <2>4. Day = MinuteTicks * m
    BY <1>1, <1>2
  <2> QED
    BY <1>2, <1>3, <1>4, <2>1, <2>2, <2>3, <2>4
<1>7. CASE p + m < q
  <2>1. PICK d \in Nat : q = p + m + 1 + d
    <3>1. q - p - m - 1 \in Nat
      BY <1>2, <1>3, <1>7
    <3> QED
      BY <1>2, <1>3, <3>1
  <2>2. MinuteTicks * q = (MinuteTicks * p) + (MinuteTicks * m) + MinuteTicks + (MinuteTicks * d)
    BY <1>2, <1>3, <2>1
  <2>3. MinuteTicks * d >= 0 /\ MinuteTicks * d \in Int
    BY <1>2, <2>1
  <2>4. Day = MinuteTicks * m
    BY <1>1, <1>2
  <2> QED
    BY <1>2, <1>3, <1>5, <2>1, <2>2, <2>3, <2>4
<1> QED
  BY <1>2, <1>3, <1>6, <1>7

\* The reading in force is one of the readings, not later than the tick.
LEMMA InForceIs ==
  ASSUME NEW rows, rows \subseteq Int, NEW k \in Int
  PROVE  InForce(rows, k) \in {t \in rows : t <= k} \cup {None}
<1> DEFINE before == {t \in rows : t <= k}
<1>1. CASE before = {}
  BY <1>1 DEF InForce
<1>2. CASE before # {}
  <2>1. before \subseteq Int /\ \A t \in before : t <= k
    OBVIOUS
  <2>2. Max(before) \in before
    BY <1>2, <2>1, LatestExists
  <2> QED
    BY <2>2 DEF InForce
<1> QED
  BY <1>1, <1>2

\* The reading carried into a range is one of the snapshot.
LEMMA CarryInIs ==
  ASSUME NEW from \in Int, job.seen \subseteq Int
  PROVE  CarryIn(from) \subseteq job.seen
<1> DEFINE old == {t \in job.seen : from - hold <= t /\ t < from}
<1>1. CASE old = {}
  BY <1>1 DEF CarryIn
<1>2. CASE old # {}
  <2>1. old \subseteq Int /\ \A t \in old : t <= from
    <3>1. \A t \in Int : t < from => t <= from
      OBVIOUS
    <3> QED
      BY <3>1
  <2>2. Max(old) \in old
    BY <1>2, <2>1, LatestExists
  <2> QED
    BY <1>2, <2>2 DEF CarryIn
<1> QED
  BY <1>1, <1>2

\* The ticks that a refresh recomputes.
LEMMA RecomputedIs ==
  ASSUME NEW from \in Int, NEW to \in Int, now \in Int, NEW k
  PROVE  k \in Recomputed(from, to) <=>
           k \in Int /\ Trunc(from) <= k /\ k < Trunc(to) /\ k < Trunc(now)
<1>1. Trunc(from) \in Int /\ Trunc(to) \in Int /\ Trunc(now) \in Int
  BY TruncBounds
<1>2. Min({Trunc(to), Trunc(now)}) = IF Trunc(to) <= Trunc(now) THEN Trunc(to) ELSE Trunc(now)
  BY <1>1, MinOfTwo
<1> QED
  BY <1>1, <1>2 DEF Recomputed

\* A refresh leaves states_minute a table of readings.
LEMMA RefreshedType ==
  ASSUME Typed, NEW from \in Int, NEW to \in Int
  PROVE  Refreshed(from, to) \in [Ticks -> Ticks \cup {None}]
<1> DEFINE span == Recomputed(from, to)
           points == CarryIn(Trunc(from)) \cup (job.seen \cap span)
<1>0. samples \subseteq Int /\ samples \subseteq Ticks /\ Ticks \subseteq Int
  BY Numbers DEF Typed, TypeOK, Ticks
<1>1. job.seen \subseteq Int /\ job.seen \subseteq Ticks /\ Ticks \subseteq Int
  BY <1>0 DEF Typed, TypeOK
<1>2. Trunc(from) \in Int
  BY TruncBounds
<1>3. points \subseteq job.seen
  BY <1>1, <1>2, CarryInIs
<1>4. \A k \in Ticks : InForce(points, k) \in Ticks \cup {None}
  <2> TAKE k \in Ticks
  <2>1. k \in Int /\ points \subseteq Int
    BY <1>1, <1>3
  <2>2. InForce(points, k) \in {t \in points : t <= k} \cup {None}
    <3> HIDE DEF points
    <3> QED
      BY <2>1, InForceIs
  <2> QED
    BY <1>1, <1>3, <2>2
<1>5. \A k \in Ticks : rollup[k] \in Ticks \cup {None}
  BY DEF Typed, TypeOK
<1>6. Refreshed(from, to) = [k \in Ticks |-> IF k \in span THEN InForce(points, k) ELSE rollup[k]]
  BY DEF Refreshed
<1> QED
  <2> HIDE DEF points, span
  <2> QED
    BY <1>4, <1>5, <1>6

\* The types hold at the start,
LEMMA TypedInit == Init => Typed
<1> SUFFICES ASSUME Init PROVE Typed
  OBVIOUS
<1>1. Trunc(0) = 0
  BY Numbers DEF Trunc
<1>2. now = 0 /\ Trunc(now) = 0
  BY <1>1 DEF Init
<1>3. job \in JobType /\ tool \in ToolType /\ job.pc = "idle"
  BY <1>2, Numbers DEF Init, JobType, ToolType, NoJob, NoTool, NoRange, DirtyRange, None
<1>4. rollup \in [Ticks -> Ticks \cup {None}]
  BY DEF Init
<1> QED
  BY <1>2, <1>3, <1>4, Numbers DEF Init, Typed, TypeOK, NoJob, NoTool, NoRange, DirtyRange, None, JobType, ToolType

\* With more readings, and later, the types of the records are wider.
LEMMA TypesGrow ==
  ASSUME Typed, now' \in Int, now <= now', Trunc(now) <= Trunc(now'), samples \subseteq samples'
  PROVE  JobType \subseteq JobType' /\ ToolType \subseteq ToolType' /\ DirtyRange \subseteq DirtyRange'
<1>1. now \in 0..MaxTime /\ now \in Int
  BY Numbers DEF Typed, TypeOK
<1>2. Trunc(now) \in Int /\ Trunc(now') \in Int /\ Trunc(now)' = Trunc(now')
  BY <1>1, TruncBounds DEF Trunc
<1>3. \A x \in -Lookback..now : x \in -Lookback..now'
  BY <1>1, Numbers
<1>4. \A x \in 0..Trunc(now) : x \in 0..Trunc(now')
  BY <1>2
<1>5. DirtyRange \subseteq DirtyRange'
  BY <1>3 DEF DirtyRange
<1>6. JobType \subseteq JobType'
  <2>1. \A x \in SUBSET samples : x \in SUBSET samples'
    OBVIOUS
  <2>2. (SUBSET samples)' = SUBSET samples'
    OBVIOUS
  <2> HIDE DEF DirtyRange
  <2> SUFFICES ASSUME NEW j \in JobType PROVE j \in JobType'
    OBVIOUS
  <2>3. j.seen \in SUBSET samples' /\ j.unit \in DirtyRange' /\ j.from \in -Lookback..now'
        /\ j.end \in 0..Trunc(now') \cup {None}
    BY <1>3, <1>4, <1>5, <2>1 DEF JobType
  <2> QED
    BY <1>2, <2>2, <2>3 DEF JobType, None
<1>7. ToolType \subseteq ToolType'
  BY DEF ToolType, None
<1> QED
  BY <1>5, <1>6, <1>7

\* and every step keeps them.
LEMMA TypedNext == Typed /\ [Next]_vars => Typed'
<1> SUFFICES ASSUME Typed, [Next]_vars PROVE Typed'
  OBVIOUS
<1> USE DEF None
<1>a. now \in 0..MaxTime /\ now \in Int /\ now >= 0
  BY Numbers DEF Typed, TypeOK
<1>b. Trunc(now) \in 0..now
  BY <1>a, TruncBounds
<1>0. /\ now \in 0..MaxTime /\ samples \subseteq events /\ events \subseteq 0..now - 1
      /\ hold \in Holds \cup {0} /\ hold \in Nat /\ syncedAt \in 0..now
      /\ frontier \in 0..Trunc(now) \cup {None}
      /\ rollup \in [Ticks -> Ticks \cup {None}]
      /\ dirty \subseteq DirtyRange /\ noted \in BOOLEAN
      /\ pending \in samples \cup {None} /\ lost \subseteq Ticks
      /\ Trunc(now) \in 0..now /\ now \in Int
  BY <1>a, <1>b, Numbers DEF Typed, TypeOK
<1>00. /\ job \in JobType /\ tool \in ToolType
       /\ job.pc \in {"started", "read", "tail"} => job.end \in 0..Trunc(now)
  BY DEF Typed
<1>c. \A t \in samples : t \in Nat /\ t < now
  <2> TAKE t \in samples
  <2>1. t \in 0..now - 1
    BY <1>0
  <2> QED
    BY <1>a, <2>1
<1>d. Trunc(now) <= Trunc(now)
  BY <1>b
\* What a record's type says of its fields is what TypeOK says.
<1>e. ASSUME now' \in 0..MaxTime, samples' \subseteq events', events' \subseteq 0..now' - 1,
             hold' \in Holds \cup {0}, syncedAt' \in 0..now',
             frontier' \in 0..Trunc(now)' \cup {None}, rollup' \in [Ticks -> Ticks \cup {None}],
             dirty' \subseteq DirtyRange', noted' \in BOOLEAN, pending' \in samples' \cup {None},
             lost' \subseteq Ticks, job' \in JobType', tool' \in ToolType',
             job'.pc \in {"started", "read", "tail"} => job'.end \in 0..Trunc(now)'
      PROVE  Typed'
  <2>1. /\ job'.pc \in {"idle", "started", "read", "tail", "dirty", "unit", "more"}
        /\ job'.end \in 0..Trunc(now)' \cup {None} /\ job'.from \in -Lookback..now'
        /\ job'.unit \in DirtyRange' /\ job'.seen \subseteq samples'
    <3> HIDE DEF DirtyRange
    <3> QED
      BY <1>e DEF JobType
  <2>2. tool'.from \in samples' \cup {None}
    BY <1>e DEF ToolType
  <2> HIDE DEF DirtyRange, JobType, ToolType
  <2> QED
    BY <1>e, <2>1, <2>2 DEF Typed, TypeOK, Ticks
<1>1. CASE Tick
  <2>1. now' = now + 1 /\ now' \in 0..MaxTime /\ now' \in Int /\ now <= now'
    BY <1>a, <1>1, Numbers DEF Tick
  <2>2. Trunc(now) <= Trunc(now') /\ Trunc(now') \in 0..now'
    <3>1. Trunc(now) <= Trunc(now')
      BY <1>a, <2>1, TruncMonotone
    <3>2. Trunc(now') \in Int /\ Trunc(now') <= now' /\ (now' >= 0 => Trunc(now') >= 0)
      BY <2>1, TruncBounds
    <3> QED
      BY <1>a, <2>1, <3>1, <3>2
  <2>3. events' \subseteq 0..now' - 1 /\ samples' \subseteq events'
    <3>1. samples' = samples /\ events' \subseteq events \cup {now} /\ events \subseteq events'
      BY <1>1 DEF Tick
    <3>2. \A t \in 0..now - 1 : t \in 0..now' - 1
      BY <1>a, <2>1
    <3>3. now \in 0..now' - 1
      BY <1>a, <2>1
    <3> QED
      BY <1>0, <3>1, <3>2, <3>3
  <2>4. frontier' \in 0..Trunc(now)' \cup {None} /\ syncedAt' \in 0..now'
    BY <1>0, <1>1, <2>1, <2>2 DEF Tick, jobVars, configVars, Trunc
  <2>5. UNCHANGED <<samples, job, tool, dirty, hold, rollup, noted, pending, lost>>
    BY <1>1 DEF Tick, jobVars, configVars
  <2>6. JobType \subseteq JobType' /\ ToolType \subseteq ToolType' /\ DirtyRange \subseteq DirtyRange'
    BY <2>1, <2>2, <2>5, TypesGrow
  <2>7. job'.pc \in {"started", "read", "tail"} => job'.end \in 0..Trunc(now)'
    <3>1. \A x \in 0..Trunc(now) : x \in 0..Trunc(now')
      BY <1>0, <2>2
    <3>2. Trunc(now)' = Trunc(now')
      BY DEF Trunc
    <3> QED
      BY <1>00, <2>5, <3>1, <3>2
  <2> HIDE DEF JobType, ToolType, DirtyRange
  <2> QED
    BY <1>0, <1>00, <1>e, <2>1, <2>3, <2>4, <2>5, <2>6, <2>7
\* A step that takes no time.
<1>f. ASSUME UNCHANGED now, samples \subseteq samples'
      PROVE  /\ JobType \subseteq JobType' /\ ToolType \subseteq ToolType' /\ DirtyRange' = DirtyRange
             /\ Trunc(now)' = Trunc(now)
  <2>1. Trunc(now)' = Trunc(now') /\ Trunc(now') = Trunc(now) /\ now' \in Int /\ now <= now'
    BY <1>a, <1>f DEF Trunc
  <2>2. JobType \subseteq JobType' /\ ToolType \subseteq ToolType'
    BY <1>d, <1>f, <2>1, TypesGrow
  <2>3. DirtyRange' = DirtyRange
    BY <1>f DEF DirtyRange
  <2> QED
    BY <2>1, <2>2, <2>3
<1>g. ASSUME UNCHANGED <<now, events, samples, job, tool>>, hold' \in Holds \cup {0}, syncedAt' \in 0..now,
             frontier' \in 0..Trunc(now) \cup {None}, rollup' \in [Ticks -> Ticks \cup {None}],
             dirty' \subseteq DirtyRange, noted' \in BOOLEAN, pending' \in samples \cup {None},
             lost' \subseteq Ticks
      PROVE  Typed'
  <2>1. /\ JobType \subseteq JobType' /\ ToolType \subseteq ToolType' /\ DirtyRange' = DirtyRange
        /\ Trunc(now)' = Trunc(now)
    BY <1>f, <1>g
  <2> HIDE DEF JobType, ToolType, DirtyRange
  <2> QED
    BY <1>0, <1>00, <1>e, <1>g, <2>1
<1>2. ASSUME NEW t \in events \ samples, StoreLive(t) PROVE Typed'
  <2>1. lost' \subseteq Ticks
    BY <1>0, <1>2 DEF StoreLive, Unseen
  <2>2. /\ UNCHANGED <<now, events, job, frontier, rollup, hold, syncedAt, noted, dirty, pending, tool>>
        /\ samples' = samples \cup {t}
    BY <1>2 DEF StoreLive, jobVars, configVars
  <2>3. /\ JobType \subseteq JobType' /\ ToolType \subseteq ToolType' /\ DirtyRange' = DirtyRange
        /\ Trunc(now)' = Trunc(now)
    BY <1>f, <2>2
  <2> HIDE DEF JobType, ToolType, DirtyRange
  <2> QED
    BY <1>0, <1>00, <1>e, <2>1, <2>2, <2>3
<1>3. ASSUME NEW t \in events \ samples, StoreBackfill(t) PROVE Typed'
  <2>1. lost' \subseteq Ticks
    BY <1>0, <1>3 DEF StoreBackfill, Unseen
  <2>2. /\ UNCHANGED <<now, events, job, frontier, rollup, hold, syncedAt, noted, dirty, tool>>
        /\ samples' = samples \cup {t} /\ pending' \in samples' \cup {None}
    BY <1>0, <1>3 DEF StoreBackfill, jobVars, configVars
  <2>3. /\ JobType \subseteq JobType' /\ ToolType \subseteq ToolType' /\ DirtyRange' = DirtyRange
        /\ Trunc(now)' = Trunc(now)
    BY <1>f, <2>2
  <2> HIDE DEF JobType, ToolType, DirtyRange
  <2> QED
    BY <1>0, <1>00, <1>e, <2>1, <2>2, <2>3
<1>4. CASE BackfillDone
  <2>1. dirty' \subseteq DirtyRange
    <3>1. pending \in -Lookback..now /\ now \in -Lookback..now
      BY <1>0, <1>4, Numbers DEF BackfillDone
    <3>2. MarkedTo(None) = now
      BY DEF MarkedTo
    <3> QED
      BY <1>0, <1>4, <3>1, <3>2 DEF BackfillDone, Mark, DirtyRange
  <2>2. lost' \subseteq Ticks
    BY <1>0, <1>4 DEF BackfillDone, Unseen
  <2>3. UNCHANGED <<now, events, samples, job, frontier, rollup, hold, syncedAt, noted, tool>> /\ pending' = None
    BY <1>4 DEF BackfillDone, jobVars, configVars
  <2> QED
    BY <1>0, <1>g, <2>1, <2>2, <2>3
<1>9. CASE MarkFails
  <2>1. lost' \subseteq Ticks
    BY <1>0, <1>9 DEF MarkFails, Unseen
  <2>2. /\ UNCHANGED <<now, events, samples, job, frontier, rollup, hold, syncedAt, noted, dirty, tool>>
        /\ pending' = None
    BY <1>9 DEF MarkFails, jobVars, configVars
  <2> QED
    BY <1>0, <1>g, <2>1, <2>2
<1>5. ASSUME NEW h \in Holds \cup {0}, Restart(h) \/ RestartUnsynced(h) PROVE Typed'
  <2>1. History \subseteq DirtyRange
    <3>1. CASE samples = {}
      BY <3>1 DEF History
    <3>2. CASE samples # {}
      <4>1. Min(samples) \in samples
        BY <1>c, <3>2, EarliestOfNat
      <4>2. Min(samples) \in -Lookback..now /\ now \in -Lookback..now
        BY <1>a, <1>c, <4>1, Numbers
      <4> QED
        BY <3>2, <4>2 DEF History, DirtyRange
    <3> QED
      BY <3>1, <3>2
  <2>2. UNCHANGED <<now, events, samples, job, tool>> /\ pending' = None /\ noted' \in BOOLEAN
    BY <1>5 DEF Restart, RestartUnsynced, NewWorker
  <2>3. CASE KeepRow
    <3>1. lost' \subseteq Ticks
      BY <1>0, <2>3 DEF KeepRow, Unseen
    <3>2. UNCHANGED <<rollup, dirty, frontier, hold, syncedAt>>
      BY <2>3 DEF KeepRow
    <3> QED
      BY <1>0, <1>g, <2>2, <3>1, <3>2
  <2>4. CASE ~KeepRow
    <3>1. /\ hold' = h /\ syncedAt' = now /\ frontier' = None /\ lost' = {}
          /\ rollup' = [k \in Ticks |-> None] /\ dirty' \subseteq History
      BY <1>5, <2>4 DEF Restart, RestartUnsynced
    <3>2. rollup' \in [Ticks -> Ticks \cup {None}] /\ syncedAt' \in 0..now
      BY <1>a, <3>1
    <3> QED
      BY <1>0, <1>g, <2>1, <2>2, <3>1, <3>2
  <2> QED
    BY <2>3, <2>4
<1>h. ASSUME UNCHANGED <<now, events, samples, hold, syncedAt, noted, pending, tool>>,
             frontier' \in 0..Trunc(now) \cup {None}, rollup' \in [Ticks -> Ticks \cup {None}],
             dirty' \subseteq DirtyRange, lost' \subseteq Ticks, job' \in JobType,
             job'.pc \in {"started", "read", "tail"} => job'.end \in 0..Trunc(now)
      PROVE  Typed'
  <2>1. /\ JobType \subseteq JobType' /\ ToolType \subseteq ToolType' /\ DirtyRange' = DirtyRange
        /\ Trunc(now)' = Trunc(now)
    BY <1>f, <1>h
  <2> HIDE DEF JobType, ToolType, DirtyRange
  <2> QED
    BY <1>0, <1>00, <1>e, <1>h, <2>1
<1>6. CASE Job
  <2>0. None \in -Lookback..now /\ NoRange \in DirtyRange
    BY <1>0, Numbers DEF NoRange, DirtyRange
  <2>1. NoJob \in JobType /\ NoJob.pc = "idle"
    BY <2>0 DEF NoJob, JobType
  <2>2. CASE JobStart
    <3>1. job' = [NoJob EXCEPT !.pc = "started", !.end = Trunc(now)]
      BY <2>2 DEF JobStart
    <3>2. Trunc(now) \in 0..Trunc(now)
      BY <1>0
    <3>3. job' \in JobType /\ job'.pc = "started" /\ job'.end \in 0..Trunc(now)
      BY <2>1, <3>1, <3>2 DEF JobType
    <3>4. UNCHANGED <<now, events, samples, frontier, rollup, hold, syncedAt, noted, dirty, pending, tool, lost>>
      BY <2>2 DEF JobStart, configVars
    <3> QED
      BY <1>0, <1>h, <3>3, <3>4
  <2>3. CASE JobRead
    <3>1. job.end \in 0..Trunc(now)
      BY <1>00, <2>3 DEF JobRead
    <3>2. TailStart \in -Lookback..now
      BY <1>0, <3>1, Numbers DEF TailStart
    <3>3. job' \in JobType /\ job'.pc = "read" /\ job'.end = job.end
      BY <1>00, <2>3, <3>2 DEF JobRead, JobType
    <3>4. UNCHANGED <<now, events, samples, frontier, rollup, hold, syncedAt, noted, dirty, pending, tool, lost>>
      BY <2>3 DEF JobRead, configVars
    <3> QED
      BY <1>0, <1>h, <3>1, <3>3, <3>4
  <2>4. CASE TailRefresh
    <3>1. job.end \in 0..Trunc(now)
      BY <1>00, <2>4 DEF TailRefresh
    <3>2. job' \in JobType /\ job'.end = job.end
      BY <1>00, <2>4 DEF TailRefresh, JobType
    <3>3. lost' \subseteq Ticks
      BY <1>0, <2>4 DEF TailRefresh
    <3>4. UNCHANGED <<now, events, samples, frontier, rollup, hold, syncedAt, noted, dirty, pending, tool>>
      BY <2>4 DEF TailRefresh, configVars
    <3> QED
      BY <1>0, <1>h, <3>1, <3>2, <3>3, <3>4
  <2>5. CASE TailCommit
    <3>1. job.end \in 0..Trunc(now) /\ job.end \in Int /\ job.from \in -Lookback..now /\ job.from \in Int
      BY <1>0, <1>00, <2>5, Numbers DEF TailCommit, JobType
    <3>2. TailSpan = IF job.from <= job.end - Day THEN job.end - Day ELSE job.from
      <4>1. job.end - Day \in Int
        BY <3>1, Numbers
      <4> QED
        BY <3>1, <4>1, MaxOfTwo DEF TailSpan
    <3>3. TailSpan \in -Lookback..now
      BY <1>0, <3>1, <3>2, Numbers
    <3>4. rollup' \in [Ticks -> Ticks \cup {None}]
      <4>1. TailSpan \in Int
        BY <3>3, Numbers
      <4>2. Refreshed(TailSpan, job.end) \in [Ticks -> Ticks \cup {None}]
        BY <3>1, <4>1, RefreshedType
      <4> QED
        BY <2>5, <4>2 DEF TailCommit
    <3>5. dirty' \subseteq DirtyRange
      <4>1. Excess \subseteq DirtyRange
        BY <3>1, <3>3 DEF Excess, DirtyRange
      <4> QED
        BY <1>0, <2>5, <4>1 DEF TailCommit, Queue
    <3>6. job' \in JobType /\ job'.pc = "dirty"
      BY <2>1, <2>5 DEF TailCommit, JobType
    <3>7. frontier' \in 0..Trunc(now) \cup {None}
      BY <2>5, <3>1 DEF TailCommit
    <3>8. UNCHANGED <<now, events, samples, hold, syncedAt, noted, pending, tool, lost>>
      BY <2>5 DEF TailCommit, configVars
    <3> QED
      BY <1>0, <1>h, <3>4, <3>5, <3>6, <3>7, <3>8
  <2>6. CASE JobFindsNothing \/ JobEnd
    <3>1. /\ job' = NoJob
          /\ UNCHANGED <<now, events, samples, frontier, rollup, hold, syncedAt, noted, dirty, pending, tool, lost>>
      BY <2>6 DEF JobFindsNothing, JobEnd, configVars
    <3> QED
      BY <1>0, <1>h, <2>1, <3>1
  <2>7. CASE UnitRefresh
    <3>1. PICK d \in dirty : dirty' = dirty \ {d} /\ job' = [job EXCEPT !.pc = "unit", !.unit = d, !.seen = samples]
      BY <2>7 DEF UnitRefresh
    <3>2. job' \in JobType /\ job'.pc = "unit"
      BY <1>0, <1>00, <3>1 DEF JobType
    <3>3. lost' \subseteq Ticks
      BY <1>0, <2>7 DEF UnitRefresh
    <3>4. UNCHANGED <<now, events, samples, frontier, rollup, hold, syncedAt, noted, pending, tool>>
      BY <2>7 DEF UnitRefresh, configVars
    <3> QED
      BY <1>0, <1>h, <3>1, <3>2, <3>3, <3>4
  <2>8. CASE UnitCommit
    <3> DEFINE d == job.unit
    <3>1. d \in DirtyRange /\ d.from \in Int /\ d.to \in Int /\ d.to - Day \in Int
      <4>1. d \in DirtyRange
        BY <1>00 DEF JobType
      <4>2. d.from \in -Lookback..now /\ d.to \in -Lookback..now
        BY <4>1 DEF DirtyRange
      <4> QED
        BY <1>a, <4>1, <4>2, Numbers
    <3>2. UnitFrom \in Int
      BY <3>1, MaxOfTwo DEF UnitFrom
    <3>3. rollup' \in [Ticks -> Ticks \cup {None}]
      BY <2>8, <3>1, <3>2, RefreshedType DEF UnitCommit
    <3> HIDE DEF d
    <3>4. Rest(d) \subseteq DirtyRange
      <4>1. CASE d.to - Day <= d.from
        BY <4>1 DEF Rest
      <4>2. CASE ~(d.to - Day <= d.from)
        <5>1. d.to - Day \in -Lookback..now
          <6>1. d.from \in -Lookback..now /\ d.to \in -Lookback..now
            BY <3>1 DEF DirtyRange
          <6> QED
            BY <1>a, <3>1, <4>2, <6>1, Numbers
        <5> QED
          BY <3>1, <4>2, <5>1 DEF Rest, DirtyRange
      <4> QED
        BY <4>1, <4>2
    <3>5. dirty' \subseteq DirtyRange
      BY <1>0, <2>8, <3>4 DEF UnitCommit, Queue, d
    <3>6. job' \in JobType /\ job'.pc = "more"
      BY <2>1, <2>8 DEF UnitCommit, JobType
    <3>7. UNCHANGED <<now, events, samples, hold, syncedAt, noted, frontier, pending, tool, lost>>
      BY <2>8 DEF UnitCommit, configVars
    <3> QED
      BY <1>0, <1>h, <3>3, <3>5, <3>6, <3>7
  <2> QED
    BY <1>6, <2>2, <2>3, <2>4, <2>5, <2>6, <2>7, <2>8 DEF Job
<1>i. ASSUME UNCHANGED <<now, events, job, frontier, rollup, hold, syncedAt, noted, pending>>,
             samples \subseteq samples', samples' \subseteq events, dirty' \subseteq DirtyRange,
             lost' \subseteq Ticks, tool' \in ToolType'
      PROVE  Typed'
  <2>1. JobType \subseteq JobType' /\ DirtyRange' = DirtyRange /\ Trunc(now)' = Trunc(now)
    BY <1>f, <1>i
  <2> HIDE DEF JobType, ToolType, DirtyRange
  <2> QED
    BY <1>0, <1>00, <1>e, <1>i, <2>1
<1>7. CASE Tool
  <2>0. events \subseteq Nat /\ \A t \in events : t < now
    <3>1. \A t \in 0..now - 1 : t \in Nat /\ t < now
      BY <1>a
    <3> QED
      BY <1>0, <3>1
  <2>1. CASE ToolStart
    <3>1. events # {} /\ events \subseteq Int /\ \A t \in events : t <= now
      <4>1. \A t \in Nat : t < now => t <= now
        BY <1>a
      <4> QED
        BY <2>0, <2>1, <4>1 DEF ToolStart
    <3>2. Min(events) \in events
      BY <2>0, <3>1, EarliestOfNat
    <3>3. Max(events) \in events
      BY <1>a, <3>1, LatestExists
    <3>4. Min(events) \in Int /\ WindowEnd \in Int
      <4>1. Min(events) \in Int /\ Max(events) \in Int
        BY <3>1, <3>2, <3>3
      <4> QED
        BY <4>1 DEF WindowEnd
    <3>5. tool' \in ToolType'
      BY <2>1, <3>4 DEF ToolStart, ToolType, NoTool
    <3>6. UNCHANGED <<now, events, samples, job, frontier, rollup, hold, syncedAt, noted, dirty, pending, lost>>
      BY <2>1 DEF ToolStart, jobVars, configVars
    <3> QED
      BY <1>0, <1>i, <3>5, <3>6
  <2>2. CASE ToolBucket
    <3>1. Missing \subseteq events /\ Missing \subseteq Nat /\ \A t \in Missing : t <= now
      <4>1. \A t \in Nat : t < now => t <= now
        BY <1>a
      <4> QED
        BY <2>0, <4>1 DEF Missing
    <3>2. samples' = samples \cup Missing /\ samples' \subseteq events /\ samples \subseteq samples'
      BY <1>0, <2>2, <3>1 DEF ToolBucket
    <3>3. BucketEnd \in Int
      <4>1. tool.cursor + Bucket \in Int /\ tool.end \in Int
        BY <1>00, Numbers DEF ToolType
      <4> QED
        BY <4>1, MinOfTwo DEF BucketEnd
    <3>4. Widened(Missing) \in ToolType'
      <4>1. CASE Missing = {}
        BY <1>00, <3>2, <4>1 DEF Widened, ToolType
      <4>2. CASE Missing # {}
        <5>1. Min(Missing) \in Missing
          BY <3>1, <4>2, EarliestOfNat
        <5>2. tool.from # None => Min(Missing \cup {tool.from}) \in Missing \cup {tool.from}
          <6>1. tool.from # None => Missing \cup {tool.from} \subseteq Nat
            BY <1>c, <1>00, <3>1 DEF ToolType
          <6> QED
            BY <6>1, EarliestOfNat
        <5>3. Max(Missing \cup {tool.to}) \in Missing \cup {tool.to}
          <6>1. tool.to \in Int /\ tool.to <= now
            <7>1. \A t \in samples : t \in Int /\ t <= now
              BY <1>a, <1>c
            <7> QED
              BY <1>a, <1>00, <7>1 DEF ToolType
          <6>2. Missing \cup {tool.to} \subseteq Int /\ \A t \in Missing \cup {tool.to} : t <= now
            <7>1. Missing \subseteq Int
              BY <3>1
            <7> QED
              BY <3>1, <6>1, <7>1
          <6> QED
            BY <1>a, <6>2, LatestExists
        <5>4. tool.from \in samples \cup {None} /\ tool.to \in samples \cup {None}
          BY <1>00 DEF ToolType
        <5> QED
          BY <1>00, <3>2, <4>2, <5>1, <5>2, <5>3, <5>4 DEF Widened, ToolType
      <4> QED
        BY <4>1, <4>2
    <3>5. tool' \in ToolType'
      BY <2>2, <3>3, <3>4 DEF ToolBucket, ToolType
    <3>6. UNCHANGED <<now, events, job, frontier, rollup, hold, syncedAt, noted, dirty, pending, lost>>
      BY <2>2 DEF ToolBucket, jobVars, configVars
    <3> QED
      BY <1>0, <1>i, <3>2, <3>5, <3>6
  <2>3. CASE ToolEnd
    <3>1. tool' \in ToolType'
      BY <2>3 DEF ToolEnd, ToolType, NoTool
    <3>2. lost' \subseteq Ticks
      BY <1>0, <2>3 DEF ToolEnd, Unseen
    <3>3. MarkedTo(tool.to) \in 0..now
      <4>1. CASE tool.to = None
        BY <1>a, <4>1 DEF MarkedTo
      <4>2. CASE tool.to # None
        <5>1. tool.to \in Nat
          BY <1>c, <1>00, <4>2 DEF ToolType
        <5>2. tool.to + hold \in Nat
          BY <1>0, <5>1
        <5>3. Min({now, tool.to + hold}) = IF now <= tool.to + hold THEN now ELSE tool.to + hold
          BY <1>a, <5>2, MinOfTwo
        <5> QED
          BY <1>a, <4>2, <5>2, <5>3 DEF MarkedTo
      <4> QED
        BY <4>1, <4>2
    <3>4. dirty' \subseteq DirtyRange
      <4>1. CASE tool.from = None
        BY <1>0, <2>3, <4>1 DEF ToolEnd
      <4>2. CASE tool.from # None
        <5>1. tool.from \in Nat /\ tool.from < now
          BY <1>c, <1>00, <4>2 DEF ToolType
        <5>2. tool.from \in -Lookback..now /\ MarkedTo(tool.to) \in -Lookback..now
          BY <1>a, <3>3, <5>1, Numbers
        <5> QED
          BY <1>0, <2>3, <4>2, <5>2 DEF ToolEnd, Mark, DirtyRange
      <4> QED
        BY <4>1, <4>2
    <3>5. UNCHANGED <<now, events, samples, job, frontier, rollup, hold, syncedAt, noted, pending>>
      BY <2>3 DEF ToolEnd, jobVars, configVars
    <3> QED
      BY <1>0, <1>i, <3>1, <3>2, <3>4, <3>5
  <2>4. CASE ToolFails
    <3>1. PICK rows \in SUBSET Missing : samples' = samples \cup rows /\ lost' = lost \cup Unseen(Reach(Widened(rows).from, Widened(rows).to))
      BY <2>4 DEF ToolFails
    <3>2. samples' \subseteq events /\ samples \subseteq samples'
      BY <1>0, <3>1 DEF Missing
    <3>3. lost' \subseteq Ticks
      BY <1>0, <3>1 DEF Unseen
    <3>4. tool' \in ToolType'
      BY <2>4 DEF ToolFails, ToolType, NoTool
    <3>5. UNCHANGED <<now, events, job, frontier, rollup, hold, syncedAt, noted, dirty, pending>>
      BY <2>4 DEF ToolFails, jobVars, configVars
    <3> QED
      BY <1>0, <1>i, <3>2, <3>3, <3>4, <3>5
  <2> QED
    BY <1>7, <2>1, <2>2, <2>3, <2>4 DEF Tool
<1>8. CASE UNCHANGED vars
  <2>1. UNCHANGED <<now, events, samples, job, frontier, rollup, hold, syncedAt, noted, dirty, pending, tool, lost>>
    BY <1>8 DEF vars, jobVars, configVars
  <2> QED
    BY <1>0, <1>g, <2>1
<1> QED
  BY <1>1, <1>2, <1>3, <1>4, <1>5, <1>6, <1>7, <1>8, <1>9 DEF Next

(* TypeOK of MinuteRollup, for every value of its constants. *)
THEOREM TypeCorrect == Spec => []TypeOK
<1>1. Typed => TypeOK
  BY DEF Typed
<1> QED
  BY <1>1, TypedInit, TypedNext, PTL DEF Spec

-----------------------------------------------------------------------------
(* One transaction of the job. *)

\* A refresh changes only the ticks that it recomputes.
LEMMA RefreshChanges ==
  ASSUME NEW from \in Int, NEW to \in Int, rollup' = Refreshed(from, to),
         NEW k \in Ticks, rollup'[k] # rollup[k]
  PROVE  k \in Recomputed(from, to)
  BY DEF Refreshed

\* A range that is no longer than a day changes ticks less than a day apart.
LEMMA UnitBounded ==
  ASSUME Typed, NEW from \in Int, NEW to \in Int, to - Day <= from,
         rollup' = Refreshed(from, to)
  PROVE  LET changed == {k \in Ticks : rollup'[k] # rollup[k]}
         IN \A k, l \in changed : l - k < Day
<1> DEFINE changed == {k \in Ticks : rollup'[k] # rollup[k]}
<1>1. SUFFICES ASSUME NEW k \in changed, NEW l \in changed
               PROVE  l - k < Day
  OBVIOUS
<1>2. now \in Int
  BY Numbers DEF Typed, TypeOK
<1>3. k \in Recomputed(from, to) /\ l \in Recomputed(from, to)
  BY RefreshChanges
<1>4. /\ k \in Int /\ Trunc(from) <= k
      /\ l \in Int /\ l < Trunc(to)
  BY <1>2, <1>3, RecomputedIs
<1>5. Trunc(from) \in Int /\ Trunc(to) \in Int /\ Trunc(to - Day) \in Int /\ to - Day \in Int
  BY TruncBounds, Numbers
<1>6. Trunc(to - Day) <= Trunc(from) /\ Trunc(to) <= Trunc(to - Day) + Day
  BY <1>5, TruncMonotone, DayBack
<1> QED
  BY <1>4, <1>5, <1>6, Numbers

\* Only the two transactions of the job that refresh change states_minute, but for a sync.
LEMMA BoundedStep ==
  ASSUME Typed, [Next]_vars, hold' = hold, rollup' # rollup
  PROVE  LET changed == {k \in Ticks : rollup'[k] # rollup[k]}
         IN \A k, l \in changed : l - k < Day
<1> DEFINE Bounded == LET changed == {k \in Ticks : rollup'[k] # rollup[k]}
                      IN \A k, l \in changed : l - k < Day
<1>1. CASE TailCommit
  <2>1. job \in JobType /\ job.end \in 0..Trunc(now) /\ now \in 0..MaxTime
    BY <1>1 DEF Typed, TypeOK, TailCommit
  <2>2. now \in Int
    BY <2>1, Numbers
  <2>3. Trunc(now) \in Int
    BY <2>2, TruncBounds
  <2>4. job.end \in Int /\ job.from \in Int
    BY <2>1, <2>2, <2>3, Numbers DEF JobType
  <2>5. job.end - Day \in Int
    BY <2>4, Numbers
  <2>6. TailSpan \in Int /\ job.end - Day <= TailSpan
    BY <2>4, <2>5, MaxOfTwo DEF TailSpan
  <2> QED
    BY <1>1, <2>4, <2>6, UnitBounded DEF TailCommit
<1>2. CASE UnitCommit
  <2>1. job.unit \in DirtyRange /\ now \in 0..MaxTime
    BY DEF Typed, TypeOK
  <2>2. job.unit.from \in -Lookback..now /\ job.unit.to \in -Lookback..now
    BY <2>1 DEF DirtyRange
  <2>3. job.unit.from \in Int /\ job.unit.to \in Int /\ job.unit.to - Day \in Int
    BY <2>1, <2>2, Numbers
  <2>4. UnitFrom \in Int /\ job.unit.to - Day <= UnitFrom
    BY <2>3, MaxOfTwo DEF UnitFrom
  <2> QED
    BY <1>2, <2>3, <2>4, UnitBounded DEF UnitCommit
<1>3. ASSUME NEW h \in Holds \cup {0}, Restart(h) \/ RestartUnsynced(h)
      PROVE  rollup' = rollup
  BY <1>3 DEF Restart, RestartUnsynced, KeepRow
<1>4. CASE ~(TailCommit \/ UnitCommit)
  BY <1>3, <1>4 DEF Next, Job, Tool, Tick, StoreLive, StoreBackfill, BackfillDone, MarkFails, JobStart, JobRead,
     TailRefresh, UnitRefresh, JobFindsNothing, JobEnd, ToolStart, ToolBucket, ToolEnd, ToolFails, vars, jobVars
<1> QED
  BY <1>1, <1>2, <1>4

(* BoundedUnits, for every value of the constants: one transaction of the job rewrites at most *)
(* a day (states_minute_job, const.py:1700), whatever the history, the hold and the late       *)
(* writers are, and wherever in a minute a dirty range starts or ends.                         *)
THEOREM UnitsAreBounded == Spec => BoundedUnits
<1>1. Typed /\ [Next]_vars =>
        [hold' = hold =>
           LET changed == {k \in Ticks : rollup'[k] # rollup[k]}
           IN \A k, l \in changed : l - k < Day]_rollup
  BY BoundedStep
<1> QED
  BY <1>1, TypedInit, TypedNext, PTL DEF Spec, BoundedUnits

-----------------------------------------------------------------------------
(* The reading in force. *)

\* Reading m is the last one up to tick k.
IsLast(m, rows, k) == m \in rows /\ m <= k /\ \A t \in rows : t <= k => t <= m

\* If there is a reading up to a tick, there is a last one.
LEMMA LastBefore ==
  ASSUME NEW rows, rows \subseteq Int, NEW k \in Int, NEW first \in rows, first <= k
  PROVE  \E m : IsLast(m, rows, k)
<1> DEFINE before == {t \in rows : t <= k}
<1>1. before \subseteq Int /\ before # {} /\ \A t \in before : t <= k
  OBVIOUS
<1>2. Max(before) \in before /\ \A t \in before : t <= Max(before)
  <2> HIDE DEF before
  <2> QED
    BY <1>1, LatestExists
<1> QED
  BY <1>2 DEF IsLast

\* It is the last one up to the tick, while its hold lasts,
LEMMA InForceOfLast ==
  ASSUME NEW rows, rows \subseteq Int, NEW k \in Int,
         NEW m, IsLast(m, rows, k)
  PROVE  InForce(rows, k) = IF k < m + hold THEN m ELSE None
<1> DEFINE before == {t \in rows : t <= k}
<1>1. before \subseteq Int /\ m \in before /\ \A t \in before : t <= m
  BY DEF IsLast
<1>2. Max(before) = m
  <2> HIDE DEF before
  <2> QED
    BY <1>1, MaxIs
<1> QED
  BY <1>1, <1>2 DEF InForce

\* and none before the first.
LEMMA InForceOfNone ==
  ASSUME NEW rows, NEW k \in Int, \A t \in rows : ~(t <= k)
  PROVE  InForce(rows, k) = None
<1>1. {t \in rows : t <= k} = {}
  OBVIOUS
<1> QED
  BY <1>1 DEF InForce

\* More readings change it only where the hold of one of them reaches.
LEMMA InForceChanges ==
  ASSUME NEW rows, rows \subseteq Int, NEW more, more \subseteq Int, hold \in Nat,
         NEW k \in Int, InForce(rows \cup more, k) # InForce(rows, k)
  PROVE  \E t \in more : t <= k /\ k < t + hold
<1> DEFINE both == rows \cup more
<1>0. both \subseteq Int
  OBVIOUS
<1>1. PICK m : IsLast(m, both, k)
  <2>1. CASE \A t \in both : ~(t <= k)
    <3>1. InForce(both, k) = None
      <4> HIDE DEF both
      <4> QED
        BY <2>1, InForceOfNone
    <3>2. InForce(rows, k) = None
      BY <2>1, InForceOfNone
    <3> QED
      BY <3>1, <3>2
  <2>2. CASE \E t \in both : t <= k
    <3>1. PICK first \in both : first <= k
      BY <2>2
    <3> HIDE DEF both
    <3> QED
      BY <1>0, <3>1, LastBefore
  <2> QED
    BY <2>1, <2>2
<1>2. InForce(both, k) = IF k < m + hold THEN m ELSE None
  <2> HIDE DEF both
  <2> QED
    BY <1>0, <1>1, InForceOfLast
<1>3. m \notin rows
  <2>1. SUFFICES ASSUME m \in rows PROVE FALSE
    OBVIOUS
  <2>2. IsLast(m, rows, k)
    BY <1>1, <2>1 DEF IsLast
  <2>3. InForce(rows, k) = IF k < m + hold THEN m ELSE None
    BY <2>2, InForceOfLast
  <2> QED
    BY <1>2, <2>3
<1>4. m \in Int /\ m \in more /\ m <= k
  BY <1>0, <1>1, <1>3 DEF IsLast
<1>5. k < m + hold
  <2>1. SUFFICES ASSUME ~(k < m + hold) PROVE FALSE
    OBVIOUS
  <2>2. InForce(rows, k) = None
    <3>1. CASE \A t \in rows : ~(t <= k)
      BY <3>1, InForceOfNone
    <3>2. CASE \E t \in rows : t <= k
      <4>0. PICK first \in rows : first <= k
        BY <3>2
      <4>1. PICK n : IsLast(n, rows, k)
        BY <4>0, LastBefore
      <4>2. n \in Int /\ n <= m
        BY <1>1, <4>1 DEF IsLast
      <4>3. ~(k < n + hold)
        BY <1>4, <2>1, <4>2
      <4> QED
        BY <4>1, <4>3, InForceOfLast
    <3> QED
      BY <3>1, <3>2
  <2> QED
    BY <1>2, <2>1, <2>2
<1> QED
  BY <1>4, <1>5

\* What a refresh reads is enough: in the range that it recomputes, the reading in force is
\* the one that the whole snapshot gives.
LEMMA RefreshIsRight ==
  ASSUME job.seen \subseteq Int, hold \in Nat, now \in Int,
         NEW from \in Int, NEW to \in Int, NEW k \in Ticks, k \in Recomputed(from, to)
  PROVE  Refreshed(from, to)[k] = InForce(job.seen, k)
<1> DEFINE span == Recomputed(from, to)
           start == Trunc(from)
           points == CarryIn(start) \cup (job.seen \cap span)
<1>1. Refreshed(from, to)[k] = InForce(points, k)
  BY DEF Refreshed
<1>2. start \in Int
  BY TruncBounds
<1>3. k \in Int /\ start <= k
  BY RecomputedIs
<1>4. \A t \in Int : start <= t /\ t <= k => t \in span
  <2> TAKE t \in Int
  <2>1. SUFFICES ASSUME start <= t, t <= k PROVE t \in span
    OBVIOUS
  <2>2. Trunc(to) \in Int /\ Trunc(now) \in Int /\ k < Trunc(to) /\ k < Trunc(now)
    BY RecomputedIs, TruncBounds
  <2>3. t < Trunc(to) /\ t < Trunc(now)
    BY <1>3, <2>1, <2>2
  <2> QED
    BY <2>1, <2>3, RecomputedIs
<1>5. \A t \in span : t \in Int /\ start <= t
  BY RecomputedIs
<1>6. CarryIn(start) \subseteq job.seen /\ points \subseteq job.seen /\ points \subseteq Int
  BY <1>2, CarryInIs
<1> HIDE DEF span, start
<1>7. CASE \E t \in job.seen : start <= t /\ t <= k
  <2>1. PICK first \in job.seen : start <= first /\ first <= k
    BY <1>7
  <2>2. PICK m : IsLast(m, job.seen, k)
    BY <1>3, <2>1, LastBefore
  <2>3. m \in job.seen /\ m \in Int /\ m <= k /\ first \in Int /\ first <= m
    BY <2>1, <2>2 DEF IsLast
  <2>4. m \in points
    BY <1>2, <1>4, <2>1, <2>3
  <2>5. IsLast(m, points, k)
    BY <1>6, <2>2, <2>4 DEF IsLast
  <2>6. InForce(points, k) = IF k < m + hold THEN m ELSE None
    <3> HIDE DEF points
    <3> QED
      BY <1>3, <1>6, <2>5, InForceOfLast
  <2>7. InForce(job.seen, k) = IF k < m + hold THEN m ELSE None
    BY <1>3, <2>2, InForceOfLast
  <2> QED
    BY <1>1, <2>6, <2>7
<1>8. CASE ~(\E t \in job.seen : start <= t /\ t <= k)
  <2>1. \A t \in job.seen : t <= k => t < start
    BY <1>2, <1>8
  <2>2. \A t \in points : t <= k => t \in CarryIn(start)
    <3> TAKE t \in points
    <3>1. SUFFICES ASSUME t <= k, t \notin CarryIn(start) PROVE FALSE
      OBVIOUS
    <3>2. t \in span /\ t \in job.seen
      BY <3>1
    <3> QED
      BY <1>5, <1>8, <3>1, <3>2
  <2> DEFINE old == {t \in job.seen : start - hold <= t /\ t < start}
  <2>3. CarryIn(start) = IF old = {} THEN {} ELSE {Max(old)}
    BY DEF CarryIn
  <2>4. CASE old = {}
    <3>1. InForce(points, k) = None
      <4>1. \A t \in points : ~(t <= k)
        BY <2>2, <2>3, <2>4
      <4> HIDE DEF points
      <4> QED
        BY <1>3, <4>1, InForceOfNone
    <3>2. InForce(job.seen, k) = None
      <4>1. CASE \A t \in job.seen : ~(t <= k)
        BY <1>3, <4>1, InForceOfNone
      <4>2. CASE \E t \in job.seen : t <= k
        <5>1. PICK first \in job.seen : first <= k
          BY <4>2
        <5>2. PICK m : IsLast(m, job.seen, k)
          BY <1>3, <5>1, LastBefore
        <5>3. m \in job.seen /\ m \in Int /\ m < start
          BY <2>1, <5>2 DEF IsLast
        <5>4. ~(start - hold <= m)
          BY <2>4, <5>3
        <5>5. ~(k < m + hold)
          BY <1>2, <1>3, <5>3, <5>4
        <5> QED
          BY <1>3, <5>2, <5>5, InForceOfLast
      <4> QED
        BY <4>1, <4>2
    <3> QED
      BY <1>1, <3>1, <3>2
  <2>5. CASE old # {}
    <3>1. Max(old) \in old /\ \A t \in old : t <= Max(old)
      <4>1. \A t \in Int : t < start => t <= start
        BY <1>2
      <4>2. old \subseteq Int /\ \A t \in old : t <= start
        BY <4>1
      <4> HIDE DEF old
      <4> QED
        BY <1>2, <2>5, <4>2, LatestExists
    <3>2. PICK m \in old : m = Max(old)
      BY <3>1
    <3>3. m \in job.seen /\ m \in Int /\ start - hold <= m /\ m < start /\ m <= k /\ m \in points
      BY <1>2, <1>3, <2>3, <2>5, <3>2
    <3>4. IsLast(m, points, k)
      <4>1. CarryIn(start) = {m}
        BY <2>3, <2>5, <3>2
      <4> QED
        BY <2>2, <3>3, <4>1 DEF IsLast
    <3>5. \A t \in job.seen : t <= k => t <= m
      <4> TAKE t \in job.seen
      <4>1. SUFFICES ASSUME t <= k PROVE t <= m
        OBVIOUS
      <4>2. t \in Int /\ t < start
        BY <2>1, <4>1
      <4>3. CASE t \in old
        BY <3>1, <3>2, <4>3
      <4>4. CASE t \notin old
        BY <1>2, <3>3, <4>2, <4>4
      <4> QED
        BY <4>3, <4>4
    <3>6. InForce(points, k) = IF k < m + hold THEN m ELSE None
      <4> HIDE DEF points, old
      <4> QED
        BY <1>3, <1>6, <3>4, InForceOfLast
    <3>7. InForce(job.seen, k) = IF k < m + hold THEN m ELSE None
      <4>1. IsLast(m, job.seen, k)
        BY <3>3, <3>5 DEF IsLast
      <4> QED
        BY <1>3, <4>1, InForceOfLast
    <3> QED
      BY <1>1, <3>6, <3>7
  <2> QED
    BY <2>4, <2>5
<1> QED
  BY <1>7, <1>8

-----------------------------------------------------------------------------
(* Wrong minutes are owed. *)

Owed(k) == k >= TailFrom \/ Queued(k) \/ k \in Unmarked \cup lost

\* The table as it will be when the running transaction has committed what it computed from
\* its snapshot.
Planned == [k \in Ticks |-> IF k \in Working THEN InForce(job.seen, k) ELSE rollup[k]]

\* What will be wrong then is owed, whatever that transaction still does.
PlannedIsOwed ==
  \A k \in 0..Trunc(now) - 1 : hold # 0 /\ Planned[k] # InForce(samples, k) => Owed(k)

\* The inductive invariant.  What a job has read of the frontier is still true when it uses it,
\* or there is no frontier any more.
Kept ==
  /\ Typed
  /\ job.pc = "read" /\ frontier # None => job.from = frontier - Lookback
  /\ ~tool.on => tool.from = None
  /\ PlannedIsOwed

\* The tail of the next job reaches back at least to the current minute.
LEMMA TailFromIs ==
  ASSUME Typed
  PROVE  TailFrom \in Int /\ TailFrom <= Trunc(now)
<1> DEFINE next == IF job.pc = "tail" THEN job.end ELSE frontier
           base == IF next = None THEN syncedAt ELSE next - Lookback
<1>1. now \in 0..MaxTime /\ syncedAt \in 0..now /\ next \in 0..Trunc(now) \cup {None}
  BY DEF Typed, TypeOK
<1>2. now \in Int
  BY <1>1, Numbers
<1>3. Trunc(now) \in Int /\ Trunc(now) <= now
  BY <1>2, TruncBounds
<1>4. base \in Int /\ base <= now
  BY <1>1, <1>2, <1>3, Numbers DEF None
<1>5. Trunc(base) \in Int /\ Trunc(base) <= Trunc(now)
  <2> HIDE DEF base
  <2> QED
    BY <1>2, <1>4, TruncBounds, TruncMonotone
<1>6. TailFrom = Trunc(base)
  BY DEF TailFrom
<1> QED
  BY <1>5, <1>6

\* A tick is looked at by the job again, or it is unseen.
LEMMA UnseenIs ==
  ASSUME Typed, NEW ticks, NEW k \in ticks, k \in Ticks, hold # 0
  PROVE  k >= TailFrom \/ Queued(k) \/ k \in Unseen(ticks)
<1>1. k \in Int /\ TailFrom \in Int
  BY TailFromIs, Numbers DEF Ticks
<1>2. k >= TailFrom \/ k < TailFrom
  BY <1>1
<1> QED
  BY <1>2 DEF Unseen

\* The range of the script with more rows.
LEMMA WidenedIs ==
  ASSUME Typed, NEW rows \in SUBSET Missing
  PROVE  LET w == Widened(rows)
         IN /\ w \in [on : BOOLEAN, cursor : Int, end : Int, from : Int, to : Int]
            /\ Reach(tool.from, tool.to) \subseteq Reach(w.from, w.to)
            /\ rows # {} => w.from # None /\ \A t \in rows : w.from <= t /\ t <= w.to
<1> DEFINE w == Widened(rows)
<1> USE DEF None
<1>1. now \in 0..MaxTime /\ now \in Int /\ hold \in Nat /\ tool \in ToolType
  BY Numbers DEF Typed, TypeOK
<1>2. \A t \in events : t \in Nat /\ t <= now
  <2>1. \A t \in 0..now - 1 : t \in Nat /\ t <= now
    BY <1>1, Numbers
  <2> QED
    BY <2>1 DEF Typed, TypeOK
<1>3. samples \subseteq events
  BY DEF Typed, TypeOK
<1>4. rows \subseteq events
  BY DEF Missing
<1>5. tool \in [on : BOOLEAN, cursor : Int, end : Int, from : Int, to : Int]
  BY <1>1, <1>2, <1>3 DEF ToolType
<1>6. tool.from = None \/ tool.from \in Nat
  BY <1>1, <1>2, <1>3 DEF ToolType
<1>7. tool.to \in Int /\ tool.to <= now
  <2>1. tool.to \in samples \cup {None}
    BY <1>1 DEF ToolType
  <2>2. now >= 0
    BY <1>1, Numbers
  <2> QED
    BY <1>1, <1>2, <1>3, <2>1, <2>2
<1>8. CASE rows = {}
  BY <1>5, <1>8 DEF Widened
<1>9. CASE rows # {}
  <2> DEFINE first == IF tool.from = None THEN Min(rows) ELSE Min(rows \cup {tool.from})
             last == Max(rows \cup {tool.to})
  <2>1. w = [tool EXCEPT !.from = first, !.to = last]
    BY <1>9 DEF Widened
  <2>2. first \in Nat /\ (\A t \in rows : first <= t) /\ (tool.from # None => first <= tool.from)
    <3>1. CASE tool.from = None
      <4>1. rows \subseteq Nat
        BY <1>2, <1>4
      <4>2. Min(rows) \in rows /\ \A t \in rows : Min(rows) <= t
        BY <1>9, <4>1, EarliestOfNat
      <4> QED
        BY <3>1, <4>1, <4>2
    <3>2. CASE tool.from # None
      <4> DEFINE both == rows \cup {tool.from}
      <4>1. both \subseteq Nat /\ both # {}
        BY <1>2, <1>4, <1>6, <3>2
      <4>2. Min(both) \in both /\ \A t \in both : Min(both) <= t
        <5> HIDE DEF both
        <5> QED
          BY <4>1, EarliestOfNat
      <4> QED
        BY <3>2, <4>1, <4>2
    <3> QED
      BY <3>1, <3>2
  <2>3. last \in Int /\ (\A t \in rows : t <= last) /\ tool.to <= last
    <3> DEFINE both == rows \cup {tool.to}
    <3>1. both \subseteq Int /\ both # {} /\ \A t \in both : t <= now
      <4>1. rows \subseteq Int
        BY <1>2, <1>4
      <4> QED
        BY <1>2, <1>4, <1>7, <4>1
    <3>2. Max(both) \in both /\ \A t \in both : t <= Max(both)
      <4> HIDE DEF both
      <4> QED
        BY <1>1, <3>1, LatestExists
    <3> QED
      BY <3>1, <3>2
  <2> HIDE DEF first, last
  <2>4. /\ w \in [on : BOOLEAN, cursor : Int, end : Int, from : Int, to : Int]
        /\ w.from = first /\ w.to = last
    <3>1. w = [on |-> tool.on, cursor |-> tool.cursor, end |-> tool.end, from |-> first, to |-> last]
      BY <1>5, <2>1
    <3>2. first \in Int /\ last \in Int
      BY <2>2, <2>3
    <3> HIDE DEF w
    <3> QED
      BY <1>5, <3>1, <3>2
  <2>5. w.from # None
    BY <2>2, <2>4
  <2>6. Reach(tool.from, tool.to) \subseteq Reach(w.from, w.to)
    <3>1. CASE tool.from = None
      BY <3>1 DEF Reach
    <3>2. CASE tool.from # None
      <4>1. SUFFICES ASSUME NEW k \in tool.from..tool.to + hold - 1
                     PROVE  k \in first..last + hold - 1
        BY <2>4, <2>5, <3>2 DEF Reach
      <4> QED
        BY <1>1, <1>6, <1>7, <2>2, <2>3, <3>2
    <3> QED
      BY <3>1, <3>2
  <2> QED
    BY <2>2, <2>3, <2>4, <2>5, <2>6
<1> QED
  BY <1>8, <1>9

\* The ticks of a closed minute are ticks of the model.
LEMMA ClosedTicks ==
  ASSUME Typed, NEW k \in 0..Trunc(now) - 1
  PROVE  k \in Ticks /\ k \in Int
<1>1. now \in 0..MaxTime /\ now \in Int
  BY Numbers DEF Typed, TypeOK
<1>2. Trunc(now) \in Int /\ Trunc(now) <= now
  BY <1>1, TruncBounds
<1> QED
  BY <1>1, <1>2, Numbers DEF Ticks

\* Nothing is wrong at the start,
LEMMA KeptInit == Init => Kept
<1> SUFFICES ASSUME Init PROVE Kept
  OBVIOUS
<1>1. Typed
  BY TypedInit
<1>2. job.pc = "idle" /\ tool.from = None
  BY DEF Init, NoJob, NoTool
<1>3. Trunc(now) - 1 = -1
  BY Numbers DEF Init, Trunc
<1>4. PlannedIsOwed
  BY <1>3 DEF PlannedIsOwed
<1> QED
  BY <1>1, <1>2, <1>4 DEF Kept

\* every step leaves what will be wrong owed: one case per action,
LEMMA KeptNext ==
  ASSUME Kept, Typed', [Next]_vars
  PROVE  PlannedIsOwed'
<1> SUFFICES ASSUME NEW k \in (0..Trunc(now) - 1)', hold' # 0, Planned'[k] # InForce(samples, k)'
             PROVE  Owed(k)'
  BY DEF PlannedIsOwed, Owed
<1> USE DEF None
<1>1. /\ Typed /\ now \in Int /\ now' \in Int /\ hold \in Nat /\ hold' \in Nat
      /\ samples \subseteq Int /\ job.seen \subseteq Int /\ dirty \subseteq [from : Int, to : Int]
      /\ job \in JobType /\ job.unit \in [from : Int, to : Int] /\ job.unit.to <= now
      /\ frontier \in Int /\ job.end \in Int /\ job.from \in Int
      /\ pending \in Int /\ tool \in [on : BOOLEAN, cursor : Int, end : Int, from : Int, to : Int]
  <2>1. Typed
    BY DEF Kept
  <2>2. now \in 0..MaxTime /\ now' \in 0..MaxTime /\ hold \in Holds \cup {0} /\ hold' \in Holds \cup {0}
    BY <2>1 DEF Typed, TypeOK
  <2>3. now \in Int /\ now' \in Int /\ hold \in Nat /\ hold' \in Nat
    BY <2>2, Numbers
  <2>4. samples \subseteq Int
    <3>1. samples \subseteq 0..now - 1
      BY <2>1 DEF Typed, TypeOK
    <3> QED
      BY <2>3, <3>1
  <2>5. Trunc(now) \in Int
    BY <2>3, TruncBounds
  <2>6. dirty \subseteq [from : Int, to : Int]
    <3>1. \A x \in -Lookback..now : x \in Int
      BY <2>3, Numbers
    <3>2. dirty \subseteq [from : -Lookback..now, to : -Lookback..now]
      BY <2>1 DEF Typed, TypeOK, DirtyRange
    <3> QED
      BY <3>1, <3>2
  <2>10. job.unit \in [from : Int, to : Int] /\ job.unit.to <= now
    <3>1. \A x \in -Lookback..now : x \in Int /\ x <= now
      BY <2>3, Numbers
    <3>2. job.unit \in [from : -Lookback..now, to : -Lookback..now]
      BY <2>1 DEF Typed, TypeOK, DirtyRange
    <3> QED
      BY <3>1, <3>2
  <2>11. job \in JobType /\ job.seen \subseteq Int
    BY <2>1, <2>4 DEF Typed, TypeOK
  <2>7. frontier \in Int /\ pending \in Int
    BY <2>1, <2>4, <2>5 DEF Typed, TypeOK
  <2>8. tool \in [on : BOOLEAN, cursor : Int, end : Int, from : Int, to : Int]
    <3>1. \A t \in samples \cup {None} : t \in Int
      BY <2>4
    <3>2. tool \in ToolType
      BY <2>1 DEF Typed
    <3> QED
      BY <3>1, <3>2 DEF ToolType
  <2>9. job.end \in Int /\ job.from \in Int
    <3>1. \A x \in -Lookback..now : x \in Int
      BY <2>3, Numbers
    <3> QED
      BY <2>1, <2>5, <3>1 DEF Typed, JobType
  <2> QED
    BY <2>1, <2>3, <2>4, <2>6, <2>7, <2>8, <2>9, <2>10, <2>11
<1>2. Trunc(now) \in Int /\ Trunc(now') \in Int
  BY <1>1, TruncBounds
<1>3. /\ k \in Int /\ 0 <= k /\ k < Trunc(now') /\ k < now' /\ k \in Ticks
      /\ hold' # 0 /\ Planned'[k] # InForce(samples, k)'
  <2>1. k \in 0..Trunc(now') - 1
    BY DEF Trunc
  <2>2. Trunc(now') <= now' /\ now' <= MaxTime
    BY <1>1, TruncBounds DEF Typed, TypeOK
  <2> QED
    BY <1>1, <1>2, <2>1, <2>2, Numbers DEF Ticks
<1>4. TailFrom \in Int /\ TailFrom <= Trunc(now)
  BY <1>1, TailFromIs
\* A minute that was to be wrong before, and one that more readings have not made wrong.
<1>5. ASSUME hold' = hold, Planned'[k] = Planned[k], InForce(samples', k) = InForce(samples, k),
             k < Trunc(now)
      PROVE  Owed(k)
  <2>1. InForce(samples, k)' = InForce(samples', k)
    BY <1>5 DEF InForce
  <2>2. Planned[k] # InForce(samples, k) /\ hold # 0
    BY <1>3, <1>5, <2>1
  <2>3. k \in 0..Trunc(now) - 1
    BY <1>2, <1>3, <1>5
  <2> QED
    BY <2>2, <2>3 DEF Kept, PlannedIsOwed
<1>6. ASSUME hold' = hold, Planned'[k] = Planned[k], k < Trunc(now),
             NEW more, more \subseteq Int, samples' = samples \cup more,
             \A t \in more : ~(t <= k /\ k < t + hold)
      PROVE  Owed(k)
  BY <1>1, <1>3, <1>5, <1>6, InForceChanges
\* What was owed still is, and what no writer remembers is lost.
<1>7. ASSUME Owed(k), TailFrom' = TailFrom, Queue \subseteq Queue', lost \subseteq lost',
             k \in Unmarked => k >= TailFrom \/ Queued(k)' \/ k \in (Unmarked \cup lost)'
      PROVE  Owed(k)'
  <2>1. Queued(k) => Queued(k)'
    BY <1>7 DEF Queued, Trunc
  <2> QED
    BY <1>7, <2>1 DEF Owed
<1>8. ASSUME TailFrom' = TailFrom, Queue \subseteq Queue', hold' = hold,
             NEW ticks, k \in ticks, lost' = lost \cup Unseen(ticks)
      PROVE  Owed(k)'
  <2>1. k >= TailFrom \/ Queued(k) \/ k \in Unseen(ticks)
    BY <1>1, <1>3, <1>8, UnseenIs
  <2>2. Queued(k) => Queued(k)'
    BY <1>8 DEF Queued, Trunc
  <2> QED
    BY <1>8, <2>1, <2>2 DEF Owed
\* A step of another process than the job, and one of the job that is no transaction.
<1>w. ASSUME UNCHANGED <<job, frontier, syncedAt>>, dirty \subseteq dirty'
      PROVE  TailFrom' = TailFrom /\ Queue \subseteq Queue'
  <2>1. TailFrom' = TailFrom
    BY <1>w DEF TailFrom, Trunc
  <2>2. Excess' = Excess /\ Rest(job.unit)' = Rest(job.unit)
    BY <1>w DEF Excess, TailSpan, Rest
  <2>3. Queue \subseteq Queue'
    BY <1>w, <2>2 DEF Queue
  <2> QED
    BY <2>1, <2>3
<1>p. ASSUME UNCHANGED <<job, rollup, hold, Working>>
      PROVE  Planned'[k] = Planned[k]
  <2>1. InForce(job.seen, k)' = InForce(job.seen, k)
    BY <1>p DEF InForce
  <2>2. Planned'[k] = IF k \in Working' THEN InForce(job.seen, k)' ELSE rollup'[k]
    BY <1>3 DEF Planned, Ticks
  <2>3. Planned[k] = IF k \in Working THEN InForce(job.seen, k) ELSE rollup[k]
    BY <1>3 DEF Planned
  <2> QED
    BY <1>p, <2>1, <2>2, <2>3
<1>q. ASSUME UNCHANGED <<job, rollup, hold, now>>
      PROVE  Planned'[k] = Planned[k]
  <2>1. Working' = Working
    BY <1>q DEF Working, Recomputed, Trunc, TailSpan, UnitFrom
  <2> QED
    BY <1>p, <1>q, <2>1
<1>n. ASSUME UNCHANGED <<frontier, syncedAt, dirty, rollup>>, job.pc \notin {"tail", "unit"},
             job'.pc \notin {"tail", "unit"}
      PROVE  TailFrom' = TailFrom /\ Queue \subseteq Queue' /\ Planned'[k] = Planned[k]
  <2>1. TailFrom' = TailFrom
    BY <1>n DEF TailFrom, Trunc
  <2>2. Queue = dirty /\ Queue' = dirty'
    BY <1>n DEF Queue
  <2>3. Working = {} /\ Working' = {}
    BY <1>n DEF Working
  <2>4. Planned[k] = rollup[k]
    BY <1>3, <2>3 DEF Planned
  <2>5. Planned'[k] = rollup'[k]
    BY <1>3, <2>3 DEF Planned, Ticks
  <2> QED
    BY <1>n, <2>1, <2>2, <2>4, <2>5
<1>11. CASE Tick
  <2>1. UNCHANGED <<job, hold, rollup, samples, frontier, syncedAt, dirty, lost, pending, tool>> /\ now' = now + 1
    BY <1>11 DEF Tick, jobVars, configVars
  <2>2. TailFrom' = TailFrom /\ Queue \subseteq Queue'
    BY <1>w, <2>1
  <2>3. Trunc(now) <= Trunc(now')
    BY <1>1, <2>1, TruncMonotone
  \* The transaction that runs works on closed minutes.
  <2>4. ASSUME NEW to \in Int, to <= now
        PROVE  Min({Trunc(to), Trunc(now)}) = Trunc(to) /\ Min({Trunc(to), Trunc(now')}) = Trunc(to)
    <3>1. Trunc(to) \in Int /\ Trunc(to) <= Trunc(now)
      BY <1>1, <2>4, TruncBounds, TruncMonotone
    <3> QED
      BY <1>2, <2>3, <3>1, MinOfTwo
  <2>5. Working' = Working
    <3>1. CASE job.pc = "tail"
      <4>1. job.end <= now
        BY <1>1, <1>2, <3>1, TruncBounds DEF Typed
      <4>2. Working = Trunc(TailSpan)..Min({Trunc(job.end), Trunc(now)}) - 1
        BY <3>1 DEF Working, Recomputed
      <4>3. Working' = Trunc(TailSpan)..Min({Trunc(job.end), Trunc(now')}) - 1
        BY <2>1, <3>1 DEF Working, Recomputed, TailSpan, Trunc
      <4> QED
        BY <1>1, <2>4, <4>1, <4>2, <4>3
    <3>2. CASE job.pc = "unit"
      <4>1. job.unit.to \in Int /\ job.unit.to <= now
        BY <1>1
      <4>2. Working = Trunc(UnitFrom)..Min({Trunc(job.unit.to), Trunc(now)}) - 1
        BY <3>2 DEF Working, Recomputed
      <4>3. Working' = Trunc(UnitFrom)..Min({Trunc(job.unit.to), Trunc(now')}) - 1
        BY <2>1, <3>2 DEF Working, Recomputed, UnitFrom, Trunc
      <4> QED
        BY <2>4, <4>1, <4>2, <4>3
    <3>3. CASE job.pc \notin {"tail", "unit"}
      BY <2>1, <3>3 DEF Working
    <3> QED
      BY <3>1, <3>2, <3>3
  <2>6. Planned'[k] = Planned[k]
    BY <1>p, <2>1, <2>5
  <2>7. CASE k < Trunc(now)
    <3>1. k \in Unmarked => k \in Unmarked'
      BY <1>1, <2>1 DEF Unmarked, Reach
    <3>2. Owed(k)
      BY <1>5, <2>1, <2>6, <2>7
    <3> QED
      BY <1>7, <2>1, <2>2, <3>1, <3>2
  <2>8. CASE ~(k < Trunc(now))
    <3>1. k >= TailFrom
      BY <1>2, <1>3, <1>4, <2>8
    <3> QED
      BY <2>2, <3>1 DEF Owed
  <2> QED
    BY <2>7, <2>8
<1>12. ASSUME NEW t \in events \ samples, StoreLive(t) PROVE Owed(k)'
  <2>1. /\ UNCHANGED <<now, job, hold, rollup, frontier, syncedAt, dirty, pending, tool>>
        /\ samples' = samples \cup {t} /\ lost' = lost \cup Unseen(Reach(t, t))
    BY <1>12 DEF StoreLive, jobVars, configVars
  <2>2. t \in Int /\ t # None
    <3>1. t \in 0..now - 1
      BY <1>1 DEF Typed, TypeOK
    <3> QED
      BY <1>1, <3>1
  <2>3. TailFrom' = TailFrom /\ Queue \subseteq Queue'
    BY <1>w, <2>1
  <2>4. CASE t <= k /\ k < t + hold
    <3>1. k \in Reach(t, t)
      BY <1>1, <1>3, <2>2, <2>4 DEF Reach
    <3> QED
      BY <1>8, <2>1, <2>3, <3>1
  <2>5. CASE ~(t <= k /\ k < t + hold)
    <3>1. Owed(k)
      <4>1. PICK more : more = {t}
        OBVIOUS
      <4>2. more \subseteq Int /\ \A x \in more : ~(x <= k /\ k < x + hold)
        BY <2>2, <2>5, <4>1
      <4>3. samples' = samples \cup more /\ k < Trunc(now) /\ Planned'[k] = Planned[k]
        BY <1>3, <1>q, <2>1, <4>1
      <4> QED
        BY <1>6, <2>1, <4>2, <4>3
    <3>2. k \in Unmarked => k \in Unmarked'
      BY <2>1 DEF Unmarked, Reach
    <3> QED
      BY <1>7, <2>1, <2>3, <3>1, <3>2
  <2> QED
    BY <2>4, <2>5
<1>13. ASSUME NEW t \in events \ samples, StoreBackfill(t) PROVE Owed(k)'
  <2>1. /\ UNCHANGED <<now, job, hold, rollup, frontier, syncedAt, dirty, tool>>
        /\ samples' = samples \cup {t}
        /\ pending' = IF noted /\ (pending = None \/ t < pending) THEN t ELSE pending
        /\ lost' = IF noted THEN lost ELSE lost \cup Unseen(Reach(t, t))
    BY <1>13 DEF StoreBackfill, jobVars, configVars
  <2>2. t \in Int /\ t # None
    <3>1. t \in 0..now - 1
      BY <1>1 DEF Typed, TypeOK
    <3> QED
      BY <1>1, <3>1
  <2>3. TailFrom' = TailFrom /\ Queue \subseteq Queue'
    BY <1>w, <2>1
  <2>4. pending # None => pending' # None /\ pending' \in Int /\ pending' <= pending
    BY <1>1, <2>1, <2>2
  <2>5. CASE t <= k /\ k < t + hold
    <3>1. CASE noted
      <4>1. pending' \in Int /\ pending' <= t /\ pending' # None
        BY <1>1, <2>1, <2>2, <3>1
      <4>2. k \in Unmarked'
        BY <1>1, <1>3, <2>1, <2>2, <2>5, <4>1 DEF Unmarked
      <4> QED
        BY <4>2 DEF Owed
    <3>2. CASE ~noted
      <4>1. k \in Reach(t, t)
        BY <1>1, <1>3, <2>2, <2>5 DEF Reach
      <4> QED
        BY <1>8, <2>1, <2>3, <3>2, <4>1
    <3> QED
      BY <3>1, <3>2
  <2>6. CASE ~(t <= k /\ k < t + hold)
    <3>1. Owed(k)
      <4>1. PICK more : more = {t}
        OBVIOUS
      <4>2. more \subseteq Int /\ \A x \in more : ~(x <= k /\ k < x + hold)
        BY <2>2, <2>6, <4>1
      <4>3. samples' = samples \cup more /\ k < Trunc(now) /\ Planned'[k] = Planned[k]
        BY <1>3, <1>q, <2>1, <4>1
      <4> QED
        BY <1>6, <2>1, <4>2, <4>3
    <3>2. k \in Unmarked => k \in Unmarked'
      BY <1>1, <1>3, <2>1, <2>4 DEF Unmarked, Reach
    <3> QED
      BY <1>7, <2>1, <2>3, <3>1, <3>2
  <2> QED
    BY <2>5, <2>6
\* The worker gives up its pending range: marked, or lost.
<1>10. ASSUME UNCHANGED <<now, job, samples, hold, rollup, frontier, syncedAt, tool>>, dirty \subseteq dirty',
              \/ lost' = lost \cup Unseen(Reach(pending, now))
              \/ lost \subseteq lost' /\ (k \in pending..now => Queued(k)')
       PROVE  Owed(k)'
  <2>1. TailFrom' = TailFrom /\ Queue \subseteq Queue'
    BY <1>w, <1>10
  <2>2. Planned'[k] = Planned[k]
    BY <1>q, <1>10
  <2>3. Owed(k)
    BY <1>3, <1>5, <1>10, <2>2
  <2>4. lost \subseteq lost'
    BY <1>10
  <2>5. CASE pending # None /\ k \in pending..now
    <3>1. k \in Reach(pending, now)
      BY <1>1, <1>3, <1>10, <2>5 DEF Reach
    <3>2. CASE lost' = lost \cup Unseen(Reach(pending, now))
      BY <1>8, <1>10, <2>1, <3>1, <3>2
    <3>3. CASE Queued(k)'
      BY <3>3 DEF Owed
    <3> QED
      BY <1>10, <2>5, <3>2, <3>3
  <2>6. CASE ~(pending # None /\ k \in pending..now)
    <3>1. k \in Unmarked => k \in Unmarked'
      BY <1>10, <2>6 DEF Unmarked, Reach
    <3> QED
      BY <1>7, <2>1, <2>3, <2>4, <3>1
  <2> QED
    BY <2>5, <2>6
<1>14. CASE BackfillDone
  <2>1. /\ UNCHANGED <<now, job, hold, rollup, samples, frontier, syncedAt, tool>> /\ pending # None
        /\ lost' = lost \cup (IF Marks(pending) THEN {} ELSE Unseen(Reach(pending, now)))
        /\ Mark(pending, None)
    BY <1>14 DEF BackfillDone, jobVars, configVars
  <2>2. dirty \subseteq dirty'
    BY <2>1 DEF Mark
  <2>3. CASE ~Marks(pending)
    BY <1>10, <2>1, <2>2, <2>3
  <2>4. CASE Marks(pending)
    <3> DEFINE d == [from |-> pending, to |-> now]
    <3>1. d \in Queue'
      <4>1. d \in dirty'
        BY <2>1, <2>4 DEF Mark, MarkedTo
      <4> HIDE DEF d
      <4> QED
        BY <4>1 DEF Queue
    <3>2. Trunc(pending) \in Int /\ Trunc(pending) <= pending
      BY <1>1, TruncBounds
    <3>3. ASSUME k \in pending..now PROVE Queued(k)'
      <4>1. Trunc(d.from) <= k /\ k < Trunc(d.to)
        BY <1>1, <1>3, <2>1, <3>2, <3>3
      <4> QED
        BY <3>1, <4>1 DEF Queued, Trunc
    <3>4. lost \subseteq lost'
      BY <2>1
    <3> QED
      BY <1>10, <2>1, <2>2, <3>3, <3>4
  <2> QED
    BY <2>3, <2>4
<1>24. CASE MarkFails
  <2>1. /\ UNCHANGED <<now, job, hold, rollup, samples, frontier, syncedAt, dirty, tool>>
        /\ lost' = lost \cup Unseen(Reach(pending, now))
    BY <1>24 DEF MarkFails, jobVars, configVars
  <2> QED
    BY <1>10, <2>1
<1>15. ASSUME NEW h \in Holds \cup {0}, Restart(h) \/ RestartUnsynced(h) PROVE Owed(k)'
  <2>1. UNCHANGED <<now, events, samples, job, tool>>
    BY <1>15 DEF Restart, RestartUnsynced, NewWorker
  <2>2. CASE KeepRow
    <3>1. /\ UNCHANGED <<rollup, dirty, frontier, hold, syncedAt>>
          /\ lost' = lost \cup Unseen(Reach(pending, now))
      BY <2>2 DEF KeepRow
    <3> QED
      BY <1>10, <2>1, <3>1
  <2>3. CASE ~KeepRow
    <3>0. /\ job.pc \notin {"tail", "unit"} /\ hold' = h /\ rollup' = [i \in Ticks |-> None]
          /\ dirty' = IF h = 0 THEN {} ELSE History
      BY <1>15, <2>3 DEF Restart, RestartUnsynced
    <3>1. h # 0 /\ Planned'[k] = None /\ dirty' = History /\ Queue' = dirty'
      <4>1. Working' = {} /\ Queue' = dirty'
        BY <2>1, <3>0 DEF Working, Queue
      <4>2. Planned'[k] = rollup'[k]
        BY <1>3, <4>1 DEF Planned, Ticks
      <4> QED
        BY <1>3, <3>0, <4>1, <4>2
    <3>2. \E t \in samples : t <= k
      <4>1. SUFFICES ASSUME \A t \in samples : ~(t <= k) PROVE FALSE
        OBVIOUS
      <4>2. {t \in samples' : t <= k} = {}
        BY <2>1, <4>1
      <4>3. InForce(samples, k)' = None
        BY <4>2 DEF InForce
      <4> QED
        BY <1>3, <3>1, <4>3
    <3>3. samples # {} /\ samples \subseteq Nat
      <4>1. samples \subseteq 0..now - 1
        BY <1>1 DEF Typed, TypeOK
      <4> QED
        BY <1>1, <3>2, <4>1
    <3>4. Min(samples) \in Int /\ Min(samples) <= k
      <4>1. Min(samples) \in samples /\ \A t \in samples : Min(samples) <= t
        BY <3>3, EarliestOfNat
      <4>2. PICK t \in samples : t <= k
        BY <3>2
      <4>3. Min(samples) \in Int /\ t \in Int /\ Min(samples) <= t
        BY <1>1, <4>1
      <4> QED
        BY <1>3, <4>2, <4>3
    <3>5. Trunc(Min(samples)) \in Int /\ Trunc(Min(samples)) <= Min(samples)
      BY <3>4, TruncBounds
    <3> DEFINE d == [from |-> Min(samples), to |-> now]
    <3>6. d \in Queue' /\ Trunc(d.from) <= k /\ k < Trunc(d.to)
      <4>1. d \in Queue'
        BY <3>1, <3>3 DEF History
      <4>2. Trunc(Min(samples)) <= k /\ k < Trunc(now)
        BY <1>3, <2>1, <3>4, <3>5
      <4>3. d.from = Min(samples) /\ d.to = now
        OBVIOUS
      <4> HIDE DEF d
      <4> QED
        BY <4>1, <4>2, <4>3
    <3>7. Queued(k)'
      BY <3>6 DEF Queued, Trunc
    <3> QED
      BY <3>7 DEF Owed
  <2> QED
    BY <2>2, <2>3
\* A transaction takes its snapshot: what it works on will be right.
<1>r. ASSUME UNCHANGED <<samples, hold, rollup>>, Working = {}, job'.seen = samples
      PROVE  k \notin Working' /\ Planned'[k] = Planned[k]
  <2>1. InForce(job.seen, k)' = InForce(samples, k) /\ InForce(samples, k)' = InForce(samples, k)
    BY <1>r DEF InForce
  <2>2. Planned'[k] = IF k \in Working' THEN InForce(job.seen, k)' ELSE rollup'[k]
    BY <1>3 DEF Planned, Ticks
  <2>3. k \notin Working'
    BY <1>3, <2>1, <2>2
  <2>4. Planned[k] = rollup[k]
    BY <1>3, <1>r DEF Planned
  <2> QED
    BY <1>r, <2>2, <2>3, <2>4
<1>16. CASE TailRefresh
  <2>1. /\ UNCHANGED <<now, events, samples, hold, frontier, rollup, syncedAt, dirty, pending, tool>>
        /\ job.pc = "read" /\ job' = [job EXCEPT !.pc = "tail", !.seen = samples]
        /\ lost' = (lost \cup {t \in Ticks : frontier = None /\ TailFrom <= t /\ t < Trunc(job.from)})
                     \ Working'
    BY <1>16 DEF TailRefresh, configVars
  <2>2. /\ job'.pc = "tail" /\ job'.seen = samples /\ job'.end = job.end /\ job'.from = job.from
        /\ Working = {}
    BY <1>1, <2>1 DEF JobType, Working
  <2>3. k \notin Working' /\ Planned'[k] = Planned[k]
    BY <1>r, <2>1, <2>2
  <2>4. job.end - Day \in Int
    BY <1>1, Numbers
  <2>5. TailSpan \in Int /\ job.from <= TailSpan
    BY <1>1, <2>4, MaxOfTwo DEF TailSpan
  <2>6. job.end # None
    BY <1>1, <2>1 DEF Typed
  <2>7. /\ Trunc(job.from) \in Int /\ Trunc(job.end) \in Int /\ Trunc(TailSpan) \in Int
        /\ Trunc(job.end) <= Trunc(now)
    <3>1. job.end <= now
      BY <1>1, <1>2, <2>1, TruncBounds DEF Typed
    <3> QED
      BY <1>1, <2>5, <3>1, TruncBounds, TruncMonotone
  <2>8. TailSpan' = TailSpan /\ TailFrom' = Trunc(job.end - Lookback)
    BY <2>2, <2>6 DEF TailSpan, TailFrom, Trunc
  <2>9. Queue = dirty /\ Queue' = dirty \cup (IF job.from < TailSpan THEN {[from |-> job.from, to |-> TailSpan]} ELSE {})
    BY <2>1, <2>2, <2>8 DEF Queue, Excess
  <2>10. k >= Trunc(TailSpan) => ~(k < Trunc(job.end))
    <3>1. Working' = Trunc(TailSpan)..Min({Trunc(job.end), Trunc(now)}) - 1
      BY <2>1, <2>2, <2>8 DEF Working, Recomputed, Trunc
    <3>2. Min({Trunc(job.end), Trunc(now)}) = Trunc(job.end)
      BY <1>2, <2>7, MinOfTwo
    <3> QED
      BY <1>3, <2>3, <2>7, <3>1, <3>2
  <2>11. Owed(k)
    BY <1>3, <1>5, <2>1, <2>3
  <2>12. Trunc(job.from) <= k => Owed(k)'
    <3>1. SUFFICES ASSUME Trunc(job.from) <= k PROVE Owed(k)'
      OBVIOUS
    <3>2. CASE k < Trunc(job.end)
      <4>1. k < Trunc(TailSpan)
        BY <1>3, <2>7, <2>10, <3>2
      <4>2. job.from < TailSpan
        <5>1. job.from # TailSpan
          BY <1>3, <2>7, <3>1, <4>1
        <5> QED
          BY <1>1, <2>5, <5>1
      <4> DEFINE d == [from |-> job.from, to |-> TailSpan]
      <4>3. d \in Queue' /\ Trunc(d.from) <= k /\ k < Trunc(d.to)
        BY <2>9, <3>1, <4>1, <4>2
      <4>4. Queued(k)'
        <5> HIDE DEF d
        <5> QED
          BY <4>3 DEF Queued, Trunc
      <4> QED
        BY <4>4 DEF Owed
    <3>3. CASE ~(k < Trunc(job.end))
      <4>1. job.end - Lookback \in Int /\ job.end - Lookback <= job.end
        BY <1>1, Numbers
      <4>2. Trunc(job.end - Lookback) \in Int /\ Trunc(job.end - Lookback) <= Trunc(job.end)
        BY <1>1, <4>1, TruncBounds, TruncMonotone
      <4>3. k >= Trunc(job.end - Lookback)
        BY <1>3, <2>7, <3>3, <4>2
      <4> QED
        BY <2>8, <4>3 DEF Owed
    <3> QED
      BY <3>2, <3>3
  <2>13. CASE k >= TailFrom
    <3>1. CASE frontier = None /\ k < Trunc(job.from)
      <4>1. k \in lost'
        BY <1>3, <1>4, <2>1, <2>3, <2>13, <3>1
      <4> QED
        BY <4>1 DEF Owed
    <3>2. CASE ~(frontier = None /\ k < Trunc(job.from))
      <4>1. frontier # None => TailFrom = Trunc(job.from)
        BY <2>1 DEF Kept, TailFrom
      <4>2. Trunc(job.from) <= k
        BY <1>3, <1>4, <2>7, <2>13, <3>2, <4>1
      <4> QED
        BY <2>12, <4>2
    <3> QED
      BY <3>1, <3>2
  <2>14. CASE Queued(k)
    <3>1. Queued(k)'
      BY <2>9, <2>14 DEF Queued, Trunc
    <3> QED
      BY <3>1 DEF Owed
  <2>15. CASE k \in Unmarked \cup lost
    <3>1. k \in (Unmarked \cup lost)'
      BY <2>1, <2>3, <2>15 DEF Unmarked, Reach
    <3> QED
      BY <3>1 DEF Owed
  <2> QED
    BY <2>11, <2>13, <2>14, <2>15 DEF Owed
\* A transaction commits: the table is as planned.
<1>c. ASSUME UNCHANGED <<now, samples, hold, syncedAt, pending, tool, lost>>,
             NEW from \in Int, NEW to \in Int, rollup' = Refreshed(from, to), Working = Recomputed(from, to),
             job'.pc \notin {"tail", "unit"}, dirty' = Queue, TailFrom' = TailFrom
      PROVE  Owed(k)'
  <2>1. Working' = {} /\ Queue' = dirty'
    BY <1>c DEF Working, Queue
  <2>2. Planned'[k] = rollup'[k]
    BY <1>3, <2>1 DEF Planned, Ticks
  <2>3. Planned[k] = IF k \in Working THEN InForce(job.seen, k) ELSE rollup[k]
    BY <1>3 DEF Planned
  <2>4. Planned'[k] = Planned[k]
    <3>1. k \in Working => rollup'[k] = InForce(job.seen, k)
      BY <1>1, <1>3, <1>c, RefreshIsRight
    <3>2. k \notin Working => rollup'[k] = rollup[k]
      BY <1>3, <1>c DEF Refreshed
    <3> QED
      BY <2>2, <2>3, <3>1, <3>2
  <2>5. Owed(k)
    BY <1>3, <1>5, <1>c, <2>4
  <2>6. k \in Unmarked => k \in Unmarked'
    BY <1>c DEF Unmarked, Reach
  <2> QED
    BY <1>7, <1>c, <2>1, <2>5, <2>6
<1>17. CASE TailCommit
  <2>1. /\ UNCHANGED <<now, samples, hold, syncedAt, pending, tool, lost>>
        /\ job.pc = "tail" /\ rollup' = Refreshed(TailSpan, job.end) /\ dirty' = Queue
        /\ frontier' = job.end /\ job' = [NoJob EXCEPT !.pc = "dirty"]
    BY <1>17 DEF TailCommit, configVars
  <2>2. job'.pc = "dirty"
    BY <2>1 DEF NoJob
  <2>3. job.end - Day \in Int
    BY <1>1, Numbers
  <2>4. TailSpan \in Int
    BY <1>1, <2>3, MaxOfTwo DEF TailSpan
  <2>5. Working = Recomputed(TailSpan, job.end)
    BY <2>1 DEF Working
  <2>6. TailFrom' = TailFrom
    BY <2>1, <2>2 DEF TailFrom, Trunc
  <2> QED
    BY <1>1, <1>c, <2>1, <2>2, <2>4, <2>5, <2>6
<1>25. CASE UnitCommit
  <2>1. /\ UNCHANGED <<now, samples, frontier, hold, syncedAt, pending, tool, lost>>
        /\ job.pc = "unit" /\ rollup' = Refreshed(UnitFrom, job.unit.to) /\ dirty' = Queue
        /\ job' = [NoJob EXCEPT !.pc = "more"]
    BY <1>25 DEF UnitCommit, configVars
  <2>2. job'.pc = "more"
    BY <2>1 DEF NoJob
  <2>3. job.unit.to \in Int /\ job.unit.from \in Int /\ job.unit.to - Day \in Int
    BY <1>1, Numbers
  <2>4. UnitFrom \in Int
    BY <2>3, MaxOfTwo DEF UnitFrom
  <2>5. Working = Recomputed(UnitFrom, job.unit.to)
    BY <2>1 DEF Working
  <2>6. TailFrom' = TailFrom
    BY <2>1, <2>2 DEF TailFrom, Trunc
  <2> QED
    BY <1>c, <2>1, <2>2, <2>3, <2>4, <2>5, <2>6
<1>26. CASE UnitRefresh
  <2>1. /\ UNCHANGED <<now, samples, frontier, rollup, hold, syncedAt, pending, tool>>
        /\ job.pc \in {"dirty", "more"} /\ lost' = lost \ Working'
    BY <1>26 DEF UnitRefresh, configVars
  <2>2. PICK d \in dirty : dirty' = dirty \ {d} /\ job' = [job EXCEPT !.pc = "unit", !.unit = d, !.seen = samples]
    BY <1>26 DEF UnitRefresh
  <2>3. job'.pc = "unit" /\ job'.unit = d /\ job'.seen = samples /\ Working = {} /\ Queue = dirty
    BY <1>1, <2>1, <2>2 DEF JobType, Working, Queue
  <2>4. k \notin Working' /\ Planned'[k] = Planned[k]
    BY <1>r, <2>1, <2>3
  <2>5. Owed(k)
    BY <1>3, <1>5, <2>1, <2>4
  <2>6. TailFrom' = TailFrom
    BY <2>1, <2>3 DEF TailFrom, Trunc
  <2> DEFINE start == Max({d.from, d.to - Day})
  <2>7. d.from \in Int /\ d.to \in Int /\ d.to - Day \in Int /\ d.to <= now /\ d \in [from : Int, to : Int]
    <3>1. d \in DirtyRange
      BY <1>1 DEF Typed, TypeOK
    <3>2. d.to \in -Lookback..now
      BY <3>1 DEF DirtyRange
    <3> QED
      BY <1>1, <3>2, Numbers
  <2>8. start = IF d.from <= d.to - Day THEN d.to - Day ELSE d.from
    BY <2>7, MaxOfTwo
  <2>9. Working' = Trunc(start)..Min({Trunc(d.to), Trunc(now)}) - 1
    BY <2>1, <2>3 DEF Working, Recomputed, UnitFrom, Trunc
  <2>10. Queue' = (dirty \ {d}) \cup Rest(d)
    BY <2>2, <2>3 DEF Queue, Rest
  <2> HIDE DEF start
  <2>11. start \in Int /\ Trunc(start) \in Int /\ Trunc(d.from) \in Int
    BY <2>7, <2>8, TruncBounds
  <2>12. k < Trunc(d.to) => k < Trunc(start)
    <3>1. Trunc(d.to) \in Int /\ Trunc(d.to) <= Trunc(now)
      BY <1>1, <2>7, TruncBounds, TruncMonotone
    <3>2. Min({Trunc(d.to), Trunc(now)}) = Trunc(d.to)
      BY <1>2, <3>1, MinOfTwo
    <3> QED
      BY <1>3, <2>4, <2>9, <2>11, <3>1, <3>2
  <2>13. CASE k >= TailFrom
    BY <2>6, <2>13 DEF Owed
  <2>14. CASE Queued(k)
    <3>1. PICK e \in dirty : Trunc(e.from) <= k /\ k < Trunc(e.to)
      BY <2>3, <2>14 DEF Queued
    <3>2. CASE e # d
      <4>1. e \in Queue'
        BY <2>10, <3>2
      <4>2. Queued(k)'
        BY <3>1, <4>1 DEF Queued, Trunc
      <4> QED
        BY <4>2 DEF Owed
    <3>3. CASE e = d
      <4>1. start # d.from
        BY <1>3, <2>11, <2>12, <3>1, <3>3
      <4>2. start = d.to - Day /\ ~(d.to - Day <= d.from)
        BY <2>7, <2>8, <4>1
      <4> DEFINE rest == [d EXCEPT !.to = d.to - Day]
      <4>3. rest \in Queue'
        BY <2>10, <4>2 DEF Rest
      <4>4. rest.from = d.from /\ rest.to = start
        BY <2>7, <4>2
      <4>5. Trunc(rest.from) <= k /\ k < Trunc(rest.to)
        BY <2>12, <3>1, <3>3, <4>4
      <4>6. Queued(k)'
        <5> HIDE DEF rest
        <5> QED
          BY <4>3, <4>5 DEF Queued, Trunc
      <4> QED
        BY <4>6 DEF Owed
    <3> QED
      BY <3>2, <3>3
  <2>15. CASE k \in Unmarked \cup lost
    <3>1. k \in (Unmarked \cup lost)'
      BY <2>1, <2>4, <2>15 DEF Unmarked, Reach
    <3> QED
      BY <3>1 DEF Owed
  <2> QED
    BY <2>5, <2>13, <2>14, <2>15 DEF Owed
<1>18. CASE JobStart \/ JobRead \/ JobFindsNothing \/ JobEnd
  <2>1. UNCHANGED <<now, samples, frontier, rollup, hold, syncedAt, dirty, pending, tool, lost>>
    BY <1>18 DEF JobStart, JobRead, JobFindsNothing, JobEnd, configVars
  <2>2. job.pc \notin {"tail", "unit"} /\ job'.pc \notin {"tail", "unit"}
    <3>1. CASE JobStart
      BY <3>1 DEF JobStart, NoJob
    <3>2. CASE JobRead
      BY <1>1, <3>2 DEF JobRead, JobType
    <3>3. CASE JobFindsNothing \/ JobEnd
      BY <3>3 DEF JobFindsNothing, JobEnd, NoJob
    <3> QED
      BY <1>18, <3>1, <3>2, <3>3
  <2>3. TailFrom' = TailFrom /\ Queue \subseteq Queue' /\ Planned'[k] = Planned[k]
    BY <1>n, <2>1, <2>2
  <2>4. Owed(k)
    BY <1>3, <1>5, <2>1, <2>3
  <2>5. k \in Unmarked => k \in Unmarked'
    BY <2>1 DEF Unmarked, Reach
  <2> QED
    BY <1>7, <2>1, <2>3, <2>4, <2>5
<1>19. CASE ToolStart
  <2>1. UNCHANGED <<now, job, samples, frontier, rollup, hold, syncedAt, dirty, pending, lost>>
    BY <1>19 DEF ToolStart, jobVars, configVars
  <2>5. TailFrom' = TailFrom /\ Queue \subseteq Queue' /\ Planned'[k] = Planned[k]
    BY <1>q, <1>w, <2>1
  <2>2. Owed(k)
    BY <1>3, <1>5, <2>1, <2>5
  <2>3. tool.from = None
    BY <1>19 DEF Kept, ToolStart
  <2>4. k \in Unmarked => k \in Unmarked'
    BY <2>1, <2>3 DEF Unmarked, Reach
  <2> QED
    BY <1>7, <2>1, <2>2, <2>4, <2>5
\* Rows of the script that are stored: what they make wrong is in the reach of its range.
<1>9. ASSUME hold' = hold, Planned'[k] = Planned[k], now' = now,
             NEW rows \in SUBSET Missing, samples' = samples \cup rows
      PROVE  Owed(k) \/ k \in Reach(Widened(rows).from, Widened(rows).to)
  <2> DEFINE w == Widened(rows)
  <2>1. w.from \in Int /\ w.to \in Int
    BY <1>1, WidenedIs
  <2>2. CASE rows = {}
    <3>1. samples' = samples
      BY <1>9, <2>2
    <3> QED
      BY <1>3, <1>5, <1>9, <3>1
  <2>3. CASE rows # {}
    <3>1. w.from # None /\ \A t \in rows : w.from <= t /\ t <= w.to
      BY <1>1, <2>3, WidenedIs
    <3>2. CASE w.from <= k /\ k < w.to + hold
      BY <1>1, <1>3, <2>1, <3>1, <3>2 DEF Reach
    <3>3. CASE ~(w.from <= k /\ k < w.to + hold)
      <4>1. rows \subseteq Int
        <5>1. events \subseteq 0..now - 1
          BY <1>1 DEF Typed, TypeOK
        <5> QED
          BY <1>1, <5>1 DEF Missing
      <4> HIDE DEF w
      <4>2. Owed(k)
        <5>1. ASSUME NEW t \in rows PROVE ~(t <= k /\ k < t + hold)
          <6>1. t \in Int /\ w.from <= t /\ t <= w.to
            BY <3>1, <4>1
          <6> QED
            BY <1>1, <1>3, <2>1, <3>3, <6>1
        <5> QED
          BY <1>3, <1>6, <1>9, <4>1, <5>1
      <4> QED
        BY <4>2
    <3> QED
      BY <3>2, <3>3
  <2> QED
    BY <2>2, <2>3
<1>20. CASE ToolBucket
  <2> DEFINE w == Widened(Missing)
  <2>1. /\ UNCHANGED <<now, job, hold, rollup, frontier, syncedAt, dirty, pending, lost>>
        /\ samples' = samples \cup Missing /\ tool' = [w EXCEPT !.cursor = BucketEnd]
    BY <1>20 DEF ToolBucket, jobVars, configVars
  <2>8. TailFrom' = TailFrom /\ Queue \subseteq Queue' /\ Planned'[k] = Planned[k]
    BY <1>q, <1>w, <2>1
  <2>2. /\ w \in [on : BOOLEAN, cursor : Int, end : Int, from : Int, to : Int]
        /\ Reach(tool.from, tool.to) \subseteq Reach(w.from, w.to)
    BY <1>1, WidenedIs
  <2>3. Owed(k) \/ k \in Reach(w.from, w.to)
    BY <1>9, <2>1, <2>8
  <2> HIDE DEF w
  <2>4. tool'.from = w.from /\ tool'.to = w.to
    BY <2>1, <2>2
  <2>5. Reach(tool.from, tool.to)' = Reach(w.from, w.to)
    BY <2>1, <2>4 DEF Reach
  <2>6. CASE k \in Reach(w.from, w.to)
    BY <2>5, <2>6 DEF Owed, Unmarked
  <2>7. CASE Owed(k)
    <3>1. k \in Unmarked => k \in Unmarked'
      BY <2>1, <2>2, <2>5 DEF Unmarked
    <3> QED
      BY <1>7, <2>1, <2>7, <2>8, <3>1
  <2> QED
    BY <2>3, <2>6, <2>7
<1>21. CASE ToolEnd
  <2>1. /\ UNCHANGED <<now, job, samples, frontier, rollup, hold, syncedAt, pending>> /\ tool' = NoTool
        /\ IF tool.from = None THEN UNCHANGED dirty ELSE Mark(tool.from, tool.to)
        /\ lost' = lost \cup Unseen(IF tool.from # None /\ Marks(tool.from)
                                      THEN Trunc(tool.to + hold)..tool.to + hold - 1
                                      ELSE Reach(tool.from, tool.to))
    BY <1>21 DEF ToolEnd, jobVars, configVars
  <2>3. dirty \subseteq dirty'
    BY <2>1 DEF Mark
  <2>6. TailFrom' = TailFrom /\ Queue \subseteq Queue' /\ Planned'[k] = Planned[k]
    BY <1>q, <1>w, <2>1, <2>3
  <2>2. Owed(k)
    BY <1>3, <1>5, <2>1, <2>6
  <2>4. CASE k \in Reach(tool.from, tool.to)
    <3>1. tool.from # None /\ tool.from <= k /\ k <= tool.to + hold - 1
      BY <1>1, <2>4 DEF Reach
    <3>2. CASE ~Marks(tool.from)
      BY <1>8, <2>1, <2>4, <2>6, <3>2
    <3>3. CASE Marks(tool.from)
      <4> DEFINE d == [from |-> tool.from, to |-> MarkedTo(tool.to)]
      <4>1. d \in Queue'
        <5>1. d \in dirty'
          BY <2>1, <3>1, <3>3 DEF Mark
        <5> HIDE DEF d
        <5> QED
          BY <5>1 DEF Queue
      <4>2. Trunc(tool.from) \in Int /\ Trunc(tool.from) <= tool.from
        BY <1>1, TruncBounds
      <4>3. CASE k < Trunc(MarkedTo(tool.to))
        <5>1. Trunc(d.from) <= k /\ k < Trunc(d.to)
          BY <1>1, <1>3, <3>1, <4>2, <4>3
        <5>2. Queued(k)'
          BY <4>1, <5>1 DEF Queued, Trunc
        <5> QED
          BY <5>2 DEF Owed
      <4>4. CASE ~(k < Trunc(MarkedTo(tool.to)))
        <5>1. MarkedTo(tool.to) # now
          BY <1>3, <2>1, <4>4
        <5>2. MarkedTo(tool.to) = tool.to + hold
          <6>1. tool.to + hold \in Int
            BY <1>1
          <6>2. Min({now, tool.to + hold}) = IF now <= tool.to + hold THEN now ELSE tool.to + hold
            BY <1>1, <6>1, MinOfTwo
          <6> QED
            BY <5>1, <6>2 DEF MarkedTo
        <5>3. Trunc(tool.to + hold) \in Int
          BY <1>1, TruncBounds
        <5>4. k \in Trunc(tool.to + hold)..tool.to + hold - 1
          BY <1>1, <1>3, <3>1, <4>4, <5>2, <5>3
        <5> QED
          BY <1>8, <2>1, <2>6, <3>1, <3>3, <5>4
      <4> QED
        BY <4>3, <4>4
    <3> QED
      BY <3>2, <3>3
  <2>5. CASE k \notin Reach(tool.from, tool.to)
    <3>1. k \in Unmarked => k \in Unmarked'
      BY <2>1, <2>5 DEF Unmarked
    <3> QED
      BY <1>7, <2>1, <2>2, <2>6, <3>1
  <2> QED
    BY <2>4, <2>5
<1>22. CASE ToolFails
  <2>1. UNCHANGED <<now, job, frontier, rollup, hold, syncedAt, dirty, pending>>
    BY <1>22 DEF ToolFails, jobVars, configVars
  <2>8. TailFrom' = TailFrom /\ Queue \subseteq Queue' /\ Planned'[k] = Planned[k]
    BY <1>q, <1>w, <2>1
  <2>2. PICK rows \in SUBSET Missing :
           /\ samples' = samples \cup rows
           /\ lost' = lost \cup Unseen(Reach(Widened(rows).from, Widened(rows).to))
    BY <1>22 DEF ToolFails
  <2> DEFINE reach == Reach(Widened(rows).from, Widened(rows).to)
  <2>3. Owed(k) \/ k \in reach
    BY <1>9, <2>1, <2>2, <2>8
  <2>4. Reach(tool.from, tool.to) \subseteq reach
    BY <1>1, WidenedIs
  <2>5. lost' = lost \cup Unseen(reach)
    BY <2>2
  <2> HIDE DEF reach
  <2>6. CASE k \in reach
    BY <1>8, <2>1, <2>5, <2>6, <2>8
  <2>7. CASE k \notin reach
    <3>1. k \in Unmarked => k \in Unmarked'
      BY <2>1, <2>4, <2>7 DEF Unmarked
    <3> QED
      BY <1>7, <2>3, <2>5, <2>7, <2>8, <3>1
  <2> QED
    BY <2>6, <2>7
<1>23. CASE UNCHANGED vars
  <2>1. UNCHANGED <<now, job, samples, frontier, rollup, hold, syncedAt, dirty, pending, tool, lost>>
    BY <1>23 DEF vars, jobVars, configVars
  <2>4. TailFrom' = TailFrom /\ Queue \subseteq Queue' /\ Planned'[k] = Planned[k]
    BY <1>q, <1>w, <2>1
  <2>2. Owed(k)
    BY <1>3, <1>5, <2>1, <2>4
  <2>3. k \in Unmarked => k \in Unmarked'
    BY <2>1 DEF Unmarked, Reach
  <2> QED
    BY <1>7, <2>1, <2>2, <2>3, <2>4
<1> QED
  BY <1>11, <1>12, <1>13, <1>14, <1>15, <1>16, <1>17, <1>18, <1>19, <1>20, <1>21, <1>22, <1>23, <1>24,
     <1>25, <1>26
     DEF Next, Job, Tool

\* and keeps the rest of the invariant.
LEMMA KeptIsInductive == Kept /\ [Next]_vars => Kept'
<1> SUFFICES ASSUME Kept, [Next]_vars PROVE Kept'
  OBVIOUS
<1>1. Typed'
  BY TypedNext DEF Kept
<1>2. PlannedIsOwed'
  BY <1>1, KeptNext
<1>3. job'.pc = "read" /\ frontier' # None => job'.from = frontier' - Lookback
  <2>1. job \in JobType
    BY DEF Kept, Typed
  <2>2. CASE JobRead
    BY <2>1, <2>2 DEF JobRead, TailStart, JobType
  <2>3. CASE JobStart \/ TailRefresh \/ TailCommit \/ JobFindsNothing \/ UnitRefresh \/ UnitCommit \/ JobEnd
    <3>1. job'.pc # "read"
      <4>1. CASE JobStart
        BY <4>1 DEF JobStart, NoJob
      <4>2. CASE TailCommit \/ UnitCommit
        BY <4>2 DEF TailCommit, UnitCommit, NoJob
      <4>3. CASE JobFindsNothing \/ JobEnd
        BY <4>3 DEF JobFindsNothing, JobEnd, NoJob
      <4>4. CASE TailRefresh \/ UnitRefresh
        BY <2>1, <4>4 DEF TailRefresh, UnitRefresh, JobType
      <4> QED
        BY <2>3, <4>1, <4>2, <4>3, <4>4
    <3> QED
      BY <3>1
  <2>4. ASSUME NEW h \in Holds \cup {0}, Restart(h) \/ RestartUnsynced(h)
        PROVE  job' = job /\ (frontier' = frontier \/ frontier' = None)
    BY <2>4 DEF Restart, RestartUnsynced, NewWorker, KeepRow
  <2>5. CASE ~Job
    BY <2>4, <2>5 DEF Kept, Next, Tool, Tick, StoreLive, StoreBackfill, BackfillDone, MarkFails,
       ToolStart, ToolBucket, ToolEnd, ToolFails, vars, jobVars
  <2> QED
    BY <2>2, <2>3, <2>5 DEF Job
<1>4. ~tool'.on => tool'.from = None
  <2>1. tool \in ToolType
    BY DEF Kept, Typed
  <2>2. CASE ToolStart
    BY <2>2 DEF ToolStart, NoTool
  <2>3. CASE ToolBucket
    <3>1. Widened(Missing) \in [on : BOOLEAN, cursor : Int, end : Int, from : Int, to : Int]
      BY WidenedIs DEF Kept
    <3>2. tool'.on = tool.on
      BY <2>1, <2>3, <3>1 DEF ToolBucket, Widened, ToolType
    <3> QED
      BY <2>3, <3>2 DEF ToolBucket
  <2>4. CASE ToolEnd \/ ToolFails
    BY <2>4 DEF ToolEnd, ToolFails, NoTool
  <2>5. CASE ~Tool
    BY <2>5 DEF Kept, Next, Job, Tick, StoreLive, StoreBackfill, BackfillDone, MarkFails,
       Restart, RestartUnsynced, NewWorker, JobStart, JobRead, TailRefresh, TailCommit, JobFindsNothing,
       UnitRefresh, UnitCommit, JobEnd, vars
  <2> QED
    BY <2>2, <2>3, <2>4, <2>5 DEF Tool
<1> QED
  BY <1>1, <1>2, <1>3, <1>4 DEF Kept

\* What is wrong and not being recomputed is also planned.
LEMMA PlannedCoversWrong == Kept => WrongIsOwed
<1> SUFFICES ASSUME Kept, NEW k \in Wrong, k \notin Working PROVE Owed(k)
  BY DEF WrongIsOwed, Owed
<1>1. k \in 0..Trunc(now) - 1 /\ hold # 0 /\ rollup[k] # InForce(samples, k)
  BY DEF Wrong
<1>2. k \in Ticks
  BY <1>1, ClosedTicks DEF Kept
<1>3. Planned[k] = rollup[k]
  BY <1>2 DEF Planned
<1> QED
  BY <1>1, <1>3 DEF Kept, PlannedIsOwed

(* WrongIsOwed, for every value of the constants: whatever the order in which live rows,       *)
(* backfills, restarts, configuration changes, the script and the job's transactions come, and *)
(* whatever is stored or marked while such a transaction runs, a closed minute that            *)
(* states_minute has wrong is being recomputed, in the tail of the next job, in the queue, in  *)
(* the range of a writer that will still queue it, or in one of the exceptions named in lost.  *)
THEOREM WrongIsAlwaysOwed == Spec => []WrongIsOwed
<1> QED
  BY PlannedCoversWrong, KeptInit, KeptIsInductive, PTL DEF Spec
=============================================================================
