--------------------------- MODULE HealthProofs ---------------------------
(***************************************************************************)
(* Theorems about Health, for every threshold of the retry policy and of   *)
(* the watchdog and any number of deaths, reloads and waiting jobs.        *)
(***************************************************************************)
EXTENDS Health, SequenceTheorems, TLAPS

-----------------------------------------------------------------------------
(* The locals of a wrapped call.                                           *)

\* The thresholds are positive.
LEMMA Thresholds ==
  /\ StallThreshold \in Nat /\ StallThreshold > 0
  /\ PoisonAttempts \in Nat /\ PoisonAttempts > 0
  /\ PoisonSeconds \in Nat /\ PoisonSeconds > 0
  /\ SustainedSeconds \in Nat /\ SustainedSeconds > 0
  /\ StuckAfter \in Nat /\ StuckAfter > 0
BY RetryAssumption, HealthAssumption

\* A counter stops at its limit.
LEMMA UpToLimit ==
  ASSUME NEW limit \in Nat, NEW n \in 0..limit
  PROVE  UpTo(n, limit) \in 0..limit /\ n <= UpTo(n, limit)
BY DEF UpTo

\* A fresh call has no history.
LEMMA FreshCall == Fresh \in Call /\ ~Fresh.stalled /\ Fresh.poisonFor = 0
BY Thresholds DEF Fresh, Call

\* The operators of the retry policy keep the type of a call and stop at the limits.
LEMMA CallTypes ==
  ASSUME NEW c \in Call
  PROVE  /\ Aged(c) \in Call /\ Refused(c) \in Call /\ Notified(c) \in Call
         /\ \A permanent \in BOOLEAN : Failed(c, permanent) \in Call
<1>0. /\ c.attempts \in 0..StallThreshold /\ c.since \in 0..SustainedSeconds
      /\ c.poisons \in 0..PoisonAttempts /\ c.poisonFor \in 0..PoisonSeconds
      /\ c.stalled \in BOOLEAN /\ c.sustained \in BOOLEAN /\ c.vetoed \in BOOLEAN
  BY DEF Call
<1>1. /\ UpTo(c.attempts, StallThreshold) \in 0..StallThreshold
      /\ UpTo(c.since, SustainedSeconds) \in 0..SustainedSeconds
      /\ UpTo(c.poisons, PoisonAttempts) \in 0..PoisonAttempts
      /\ UpTo(c.poisonFor, PoisonSeconds) \in 0..PoisonSeconds
  BY <1>0, Thresholds, UpToLimit
<1>2. Aged(c) \in Call
  BY <1>0, <1>1 DEF Aged, Call
<1>z. 0 \in 0..PoisonAttempts /\ 0 \in 0..PoisonSeconds
  BY Thresholds
<1>3. Refused(c) \in Call
  BY <1>0, <1>z DEF Refused, Call
<1>4. Notified(c) \in Call
  BY <1>0 DEF Notified, Stalls, Sustains, PoisonPending, Call
<1>5. \A permanent \in BOOLEAN : Failed(c, permanent) \in Call
  <2>1. Failed(c, TRUE) \in Call
    BY <1>0, <1>1 DEF Failed, Call
  <2>2. Failed(c, FALSE) \in Call
    BY <1>0, <1>1, <1>z DEF Failed, Call
  <2> QED
    BY <2>1, <2>2
<1> QED
  BY <1>2, <1>3, <1>4, <1>5

\* What each operator does to the two fields the issues and the drops depend on.
LEMMA CallFields ==
  ASSUME NEW c \in Call
  PROVE  /\ Aged(c).stalled = c.stalled
         /\ Aged(c).poisonFor \in {c.poisonFor, UpTo(c.poisonFor, PoisonSeconds)}
         /\ Refused(c).stalled = c.stalled /\ Refused(c).poisonFor = 0
         /\ Notified(c).stalled = (c.stalled \/ Stalls(c))
         /\ Notified(c).poisonFor = c.poisonFor
         /\ \A permanent \in BOOLEAN :
              /\ Failed(c, permanent).stalled = c.stalled
              /\ Failed(c, permanent).poisonFor = IF permanent THEN c.poisonFor ELSE 0
              /\ ~permanent => Failed(c, permanent).poisons = 0
BY DEF Aged, Refused, Notified, Failed, Call

-----------------------------------------------------------------------------
(* What the queue of posted jobs will make of the issues.                  *)

Job == {"create", "clear"} \X Issues

\* The last job of p about issue x says this.
LastSays(p, x, says) ==
  \E n \in 1..Len(p) : p[n] = <<says, x>> /\ \A m \in (n + 1)..Len(p) : p[m][2] # x

Silent(p, x) == \A n \in 1..Len(p) : p[n][2] # x

\* Issue x exists once the jobs of p have run on the issues I.
Shows(p, I, x) == LastSays(p, x, "create") \/ (Silent(p, x) /\ x \in I)

\* Jobs that do not speak of x change nothing of it.
LEMMA SilentPost ==
  ASSUME NEW S, NEW p \in Seq(S), NEW q \in Seq(S), NEW x, NEW I, Silent(q, x)
  PROVE  Shows(p \o q, I, x) <=> Shows(p, I, x)
<1> DEFINE r == p \o q
<1>1. /\ Len(p) \in Nat /\ Len(q) \in Nat /\ Len(r) = Len(p) + Len(q)
      /\ \A i \in 1..(Len(p) + Len(q)) : r[i] = IF i <= Len(p) THEN p[i] ELSE q[i - Len(p)]
  BY ConcatProperties
<1> HIDE DEF r
<1>2. \A i \in 1..Len(p) : r[i] = p[i] /\ i \in 1..Len(r)
  BY <1>1
<1>3. \A i \in (Len(p) + 1)..Len(r) : r[i][2] # x
  <2> SUFFICES ASSUME NEW i \in (Len(p) + 1)..Len(r) PROVE r[i][2] # x
    OBVIOUS
  <2>1. i - Len(p) \in 1..Len(q) /\ r[i] = q[i - Len(p)]
    BY <1>1
  <2> QED
    BY <2>1 DEF Silent
<1>4. Silent(r, x) <=> Silent(p, x)
  BY <1>1, <1>2, <1>3 DEF Silent
<1>5. ASSUME LastSays(p, x, "create") PROVE LastSays(r, x, "create")
  <2>1. PICK n \in 1..Len(p) :
          p[n] = <<"create", x>> /\ \A m \in (n + 1)..Len(p) : p[m][2] # x
    BY <1>5 DEF LastSays
  <2>2. n \in 1..Len(r) /\ r[n] = <<"create", x>>
    BY <1>2, <2>1
  <2>3. \A m \in (n + 1)..Len(r) : r[m][2] # x
    <3> SUFFICES ASSUME NEW m \in (n + 1)..Len(r) PROVE r[m][2] # x
      OBVIOUS
    <3>1. CASE m <= Len(p)
      <4>1. m \in (n + 1)..Len(p) /\ m \in 1..Len(p)
        BY <1>1, <2>1, <3>1
      <4> QED
        BY <1>2, <2>1, <4>1
    <3>2. CASE m > Len(p)
      <4>1. m \in (Len(p) + 1)..Len(r)
        BY <1>1, <3>2
      <4> QED
        BY <1>3, <4>1
    <3> QED
      BY <1>1, <2>1, <3>1, <3>2
  <2> QED
    BY <2>2, <2>3 DEF LastSays
<1>6. ASSUME LastSays(r, x, "create") PROVE LastSays(p, x, "create")
  <2>1. PICK n \in 1..Len(r) :
          r[n] = <<"create", x>> /\ \A m \in (n + 1)..Len(r) : r[m][2] # x
    BY <1>6 DEF LastSays
  <2>2. n \in 1..Len(p)
    <3>1. r[n][2] = x
      BY <2>1
    <3>2. ~(n > Len(p))
      BY <1>1, <1>3, <3>1
    <3> QED
      BY <1>1, <3>2
  <2>3. \A m \in (n + 1)..Len(p) : p[m][2] # x
    <3> SUFFICES ASSUME NEW m \in (n + 1)..Len(p) PROVE p[m][2] # x
      OBVIOUS
    <3>1. m \in 1..Len(p) /\ m \in (n + 1)..Len(r)
      BY <1>1, <2>2
    <3> QED
      BY <1>2, <2>1, <3>1
  <2> QED
    BY <1>2, <2>1, <2>2, <2>3 DEF LastSays
<1> QED
  BY <1>4, <1>5, <1>6 DEF Shows, r

\* The last job about x decides.
LEMMA SpokenPost ==
  ASSUME NEW S, NEW p \in Seq(S), NEW q \in Seq(S), NEW x, NEW I,
         NEW says \in {"create", "clear"}, LastSays(q, x, says)
  PROVE  Shows(p \o q, I, x) <=> says = "create"
<1> DEFINE r == p \o q
<1>1. /\ Len(p) \in Nat /\ Len(q) \in Nat /\ Len(r) = Len(p) + Len(q)
      /\ \A i \in 1..(Len(p) + Len(q)) : r[i] = IF i <= Len(p) THEN p[i] ELSE q[i - Len(p)]
  BY ConcatProperties
<1> HIDE DEF r
<1>2. PICK n \in 1..Len(q) : q[n] = <<says, x>> /\ \A m \in (n + 1)..Len(q) : q[m][2] # x
  BY DEF LastSays
<1>3. Len(p) + n \in 1..Len(r) /\ r[Len(p) + n] = <<says, x>>
  <2>1. Len(p) + n \in 1..(Len(p) + Len(q)) /\ ~(Len(p) + n <= Len(p)) /\ Len(p) + n - Len(p) = n
    BY <1>1
  <2> QED
    BY <1>1, <1>2, <2>1
<1>4. \A m \in (Len(p) + n + 1)..Len(r) : r[m][2] # x
  <2> SUFFICES ASSUME NEW m \in (Len(p) + n + 1)..Len(r) PROVE r[m][2] # x
    OBVIOUS
  <2>1. m \in 1..(Len(p) + Len(q)) /\ ~(m <= Len(p)) /\ m - Len(p) \in (n + 1)..Len(q)
    BY <1>1
  <2> QED
    BY <1>1, <1>2, <2>1
<1>5. ~Silent(r, x)
  <2>1. r[Len(p) + n][2] = x
    BY <1>3
  <2> QED
    BY <1>3, <2>1 DEF Silent
<1>6. ASSUME LastSays(r, x, "create") PROVE says = "create"
  <2>1. PICK k \in 1..Len(r) :
          r[k] = <<"create", x>> /\ \A m \in (k + 1)..Len(r) : r[m][2] # x
    BY <1>6 DEF LastSays
  <2>2. r[k][2] = x /\ r[Len(p) + n][2] = x
    BY <1>3, <2>1
  <2>3. ~(Len(p) + n > k)
    <3>1. Len(p) + n > k => Len(p) + n \in (k + 1)..Len(r)
      BY <1>1, <1>3
    <3> QED
      BY <2>1, <2>2, <3>1
  <2>4. ~(Len(p) + n < k)
    <3>1. Len(p) + n < k => k \in (Len(p) + n + 1)..Len(r)
      BY <1>1, <1>3
    <3> QED
      BY <1>4, <2>2, <3>1
  <2>5. k = Len(p) + n
    <3>1. k \in Nat /\ Len(p) + n \in Nat
      BY <1>1
    <3> QED
      BY ONLY <2>3, <2>4, <3>1
  <2> QED
    BY <1>3, <2>1, <2>5
<1>7. says = "create" => LastSays(r, x, "create")
  BY <1>3, <1>4 DEF LastSays
<1> QED
  BY <1>5, <1>6, <1>7 DEF Shows, r

\* Running the first job does not change what the issues will be.
LEMMA DeliveredJob ==
  ASSUME NEW p \in Seq(Job), p # <<>>, NEW x, NEW I, NEW J,
         J = IF Head(p)[1] = "create" THEN I \cup {Head(p)[2]} ELSE I \ {Head(p)[2]}
  PROVE  Shows(Tail(p), J, x) <=> Shows(p, I, x)
<1>1. /\ Tail(p) \in Seq(Job) /\ Len(Tail(p)) = Len(p) - 1 /\ Len(p) \in Nat \ {0}
      /\ \A i \in 1..(Len(p) - 1) : Tail(p)[i] = p[i + 1]
  BY HeadTailProperties, EmptySeq
<1> DEFINE t == Tail(p)
           h == p[1]
<1>2. h \in Job /\ Head(p) = h /\ h = <<h[1], h[2]>> /\ h[1] \in {"create", "clear"}
  BY <1>1, ElementOfSeq DEF Job
<1>3. LastSays(t, x, "create") => LastSays(p, x, "create")
  <2> SUFFICES ASSUME LastSays(t, x, "create") PROVE LastSays(p, x, "create")
    OBVIOUS
  <2>1. PICK n \in 1..Len(t) : t[n] = <<"create", x>> /\ \A m \in (n + 1)..Len(t) : t[m][2] # x
    BY DEF LastSays
  <2>2. n + 1 \in 1..Len(p) /\ p[n + 1] = <<"create", x>>
    BY <1>1, <2>1
  <2>3. \A m \in (n + 1 + 1)..Len(p) : p[m][2] # x
    <3> SUFFICES ASSUME NEW m \in (n + 1 + 1)..Len(p) PROVE p[m][2] # x
      OBVIOUS
    <3>1. m - 1 \in (n + 1)..Len(t) /\ m - 1 \in 1..(Len(p) - 1) /\ (m - 1) + 1 = m
      BY <1>1
    <3> QED
      BY <1>1, <2>1, <3>1
  <2> QED
    BY <2>2, <2>3 DEF LastSays
<1>4. LastSays(p, x, "create") =>
        LastSays(t, x, "create") \/ (Silent(t, x) /\ h = <<"create", x>>)
  <2> SUFFICES ASSUME LastSays(p, x, "create")
               PROVE  LastSays(t, x, "create") \/ (Silent(t, x) /\ h = <<"create", x>>)
    OBVIOUS
  <2>1. PICK n \in 1..Len(p) : p[n] = <<"create", x>> /\ \A m \in (n + 1)..Len(p) : p[m][2] # x
    BY DEF LastSays
  <2>2. \A m \in n..Len(t) : m >= 1 => t[m][2] # x
    <3> SUFFICES ASSUME NEW m \in n..Len(t), m >= 1 PROVE t[m][2] # x
      OBVIOUS
    <3>1. m \in 1..(Len(p) - 1) /\ m + 1 \in (n + 1)..Len(p)
      BY <1>1
    <3> QED
      BY <1>1, <2>1, <3>1
  <2>3. CASE n = 1
    BY <2>1, <2>2, <2>3 DEF Silent
  <2>4. CASE n # 1
    <3>1. n - 1 \in 1..Len(t) /\ n - 1 \in 1..(Len(p) - 1) /\ (n - 1) + 1 = n
      BY <1>1, <2>4
    <3>2. t[n - 1] = <<"create", x>>
      BY <1>1, <2>1, <3>1
    <3>3. \A m \in (n - 1 + 1)..Len(t) : t[m][2] # x
      BY <1>1, <2>2, <3>1
    <3> QED
      BY <3>1, <3>2, <3>3 DEF LastSays
  <2> QED
    BY <2>3, <2>4
<1>5. Silent(p, x) <=> Silent(t, x) /\ h[2] # x
  <2>1. Silent(p, x) => Silent(t, x) /\ h[2] # x
    BY <1>1 DEF Silent
  <2>2. ASSUME Silent(t, x), h[2] # x, NEW n \in 1..Len(p) PROVE p[n][2] # x
    <3>1. CASE n = 1
      BY <2>2, <3>1
    <3>2. CASE n # 1
      <4>1. n - 1 \in 1..Len(t) /\ n - 1 \in 1..(Len(p) - 1) /\ (n - 1) + 1 = n
        BY <1>1, <3>2
      <4> QED
        BY <1>1, <2>2, <4>1 DEF Silent
    <3> QED
      BY <3>1, <3>2
  <2> QED
    BY <2>1, <2>2 DEF Silent
<1>6. Silent(t, x) /\ h = <<"create", x>> => LastSays(p, x, "create")
  <2> SUFFICES ASSUME Silent(t, x), h = <<"create", x>>
               PROVE  \A m \in (1 + 1)..Len(p) : p[m][2] # x
    BY <1>1 DEF LastSays
  <2> TAKE m \in (1 + 1)..Len(p)
  <2>1. m - 1 \in 1..Len(t) /\ m - 1 \in 1..(Len(p) - 1) /\ (m - 1) + 1 = m
    BY <1>1
  <2> QED
    BY <1>1, <2>1 DEF Silent
<1>7. /\ h[2] # x => (x \in J <=> x \in I)
      /\ h[2] = x => (x \in J <=> h[1] = "create")
  BY <1>2
<1>8. h[2] = x /\ h[1] = "create" <=> h = <<"create", x>>
  BY <1>2
<1> HIDE DEF h, t
<1> QED
  BY <1>3, <1>4, <1>5, <1>6, <1>7, <1>8 DEF Shows, t

-----------------------------------------------------------------------------
(* The jobs the workers post.                                              *)

LEMMA JobTypes ==
  ASSUME NEW w \in Workers
  PROVE  /\ <<"create", StalledIssue(w)>> \in Job /\ <<"clear", StalledIssue(w)>> \in Job
         /\ <<"create", Unreachable>> \in Job /\ <<"clear", Unreachable>> \in Job
         /\ <<"create", Dropped(w)>> \in Job
BY DEF Job, Issues

\* The stalled issues of two workers differ, and from every other issue.
LEMMA IssuesDiffer ==
  ASSUME NEW v, NEW w
  PROVE  /\ StalledIssue(v) = StalledIssue(w) => v = w
         /\ StalledIssue(v) # Unreachable /\ StalledIssue(v) # Dropped(w)
         /\ StalledIssue(v) # IngestionStalled
         /\ Dropped(v) = Dropped(w) => v = w
         /\ Dropped(v) # Unreachable /\ Dropped(v) # StalledIssue(w)
BY DEF StalledIssue, Unreachable, Dropped, IngestionStalled

LEMMA NoJobs ==
  /\ <<>> \in Seq(Job) /\ \A x : Silent(<<>>, x)
BY EmptySeq DEF Silent

LEMMA OneJob ==
  ASSUME NEW j \in Job
  PROVE  /\ <<j>> \in Seq(Job)
         /\ \A x : j[2] # x => Silent(<<j>>, x)
         /\ \A x, says : j = <<says, x>> => LastSays(<<j>>, x, says)
<1>1. <<j>> \in Seq(Job) /\ Len(<<j>>) = 1 /\ <<j>>[1] = j
  OBVIOUS
<1> QED
  BY <1>1 DEF Silent, LastSays

\* Two jobs in a row speak of an issue as the one that speaks of it.
LEMMA TwoJobs ==
  ASSUME NEW p \in Seq(Job), NEW q \in Seq(Job)
  PROVE  /\ p \o q \in Seq(Job)
         /\ \A x : Silent(p, x) /\ Silent(q, x) => Silent(p \o q, x)
         /\ \A x, says : LastSays(p, x, says) /\ Silent(q, x) => LastSays(p \o q, x, says)
<1> DEFINE r == p \o q
<1>1. /\ r \in Seq(Job) /\ Len(p) \in Nat /\ Len(q) \in Nat /\ Len(r) = Len(p) + Len(q)
      /\ \A i \in 1..(Len(p) + Len(q)) : r[i] = IF i <= Len(p) THEN p[i] ELSE q[i - Len(p)]
  BY ConcatProperties
<1> HIDE DEF r
<1>2. \A i \in 1..Len(p) : r[i] = p[i] /\ i \in 1..Len(r)
  BY <1>1
<1>3. ASSUME NEW x, Silent(q, x), NEW i \in (Len(p) + 1)..Len(r) PROVE r[i][2] # x
  <2>1. i - Len(p) \in 1..Len(q) /\ r[i] = q[i - Len(p)]
    BY <1>1
  <2> QED
    BY <1>3, <2>1 DEF Silent
<1>4. ASSUME NEW x, Silent(p, x), Silent(q, x) PROVE Silent(r, x)
  <2> SUFFICES ASSUME NEW i \in 1..Len(r) PROVE r[i][2] # x
    BY DEF Silent
  <2>1. CASE i \in 1..Len(p)
    BY <1>2, <1>4, <2>1 DEF Silent
  <2>2. CASE i \notin 1..Len(p)
    <3>1. i \in (Len(p) + 1)..Len(r)
      BY <1>1, <2>2
    <3> QED
      BY <1>3, <1>4, <3>1
  <2> QED
    BY <2>1, <2>2
<1>5. ASSUME NEW x, NEW says, LastSays(p, x, says), Silent(q, x) PROVE LastSays(r, x, says)
  <2>1. PICK n \in 1..Len(p) : p[n] = <<says, x>> /\ \A m \in (n + 1)..Len(p) : p[m][2] # x
    BY <1>5 DEF LastSays
  <2>2. ASSUME NEW m \in (n + 1)..Len(r) PROVE r[m][2] # x
    <3>1. CASE m <= Len(p)
      <4>1. m \in (n + 1)..Len(p) /\ m \in 1..Len(p)
        BY <1>1, <2>1, <3>1
      <4> QED
        BY <1>2, <2>1, <4>1
    <3>2. CASE ~(m <= Len(p))
      <4>1. m \in (Len(p) + 1)..Len(r)
        BY <1>1, <3>2
      <4> QED
        BY <1>3, <1>5, <4>1
    <3> QED
      BY <3>1, <3>2
  <2> QED
    BY <1>2, <2>1, <2>2 DEF LastSays
<1> QED
  BY <1>1, <1>4, <1>5 DEF r

\* The recovery hook clears the worker's own stalled issue and touches no other.
LEMMA RecoverySays ==
  ASSUME NEW w \in Workers
  PROVE  /\ \A b \in BOOLEAN : RecoveryIf(w, b) \in Seq(Job)
         /\ \A v : v # w => \A b \in BOOLEAN : Silent(RecoveryIf(w, b), StalledIssue(v))
         /\ LastSays(RecoveryIf(w, TRUE), StalledIssue(w), "clear")
         /\ \A x : Silent(RecoveryIf(w, FALSE), x)
         /\ \A v, b : \A n \in DOMAIN RecoveryIf(w, b) :
              RecoveryIf(w, b)[n] # <<"create", Dropped(v)>>
<1> DEFINE a == <<"clear", StalledIssue(w)>>
           b == <<"clear", Unreachable>>
<1>1. a \in Job /\ b \in Job
  BY JobTypes
<1>2. Recovery(w) = <<a>> \o <<b>>
  BY DEF Recovery
<1>3. /\ <<a>> \in Seq(Job) /\ <<b>> \in Seq(Job)
      /\ \A v : v # w => Silent(<<a>>, StalledIssue(v))
      /\ \A v : Silent(<<b>>, StalledIssue(v))
      /\ LastSays(<<a>>, StalledIssue(w), "clear")
  <2>1. /\ \A v : v # w => a[2] # StalledIssue(v)
        /\ \A v : b[2] # StalledIssue(v)
    BY IssuesDiffer
  <2> HIDE DEF b
  <2>2. LastSays(<<a>>, StalledIssue(w), "clear")
    BY <1>1, OneJob
  <2> HIDE DEF a
  <2> QED
    BY <1>1, <2>1, <2>2, OneJob
<1>4. \A v : \A n \in DOMAIN Recovery(w) : Recovery(w)[n] # <<"create", Dropped(v)>>
  BY DEF Recovery
<1>5. /\ Recovery(w) \in Seq(Job)
      /\ \A v : v # w => Silent(Recovery(w), StalledIssue(v))
      /\ LastSays(Recovery(w), StalledIssue(w), "clear")
  <2> DEFINE p == <<a>>
             q == <<b>>
  <2>1. /\ Recovery(w) = p \o q /\ p \in Seq(Job) /\ q \in Seq(Job)
        /\ \A v : v # w => Silent(p, StalledIssue(v))
        /\ \A v : Silent(q, StalledIssue(v))
        /\ LastSays(p, StalledIssue(w), "clear")
    BY <1>2, <1>3
  <2> HIDE DEF p, q
  <2> QED
    BY <2>1, TwoJobs
<1> HIDE DEF a, b
<1>6. /\ RecoveryIf(w, TRUE) = Recovery(w) /\ RecoveryIf(w, FALSE) = <<>>
      /\ \A c : c \in BOOLEAN => RecoveryIf(w, c) \in {Recovery(w), <<>>}
  BY DEF RecoveryIf
<1>7. \A v, c : \A n \in DOMAIN RecoveryIf(w, c) : RecoveryIf(w, c)[n] # <<"create", Dropped(v)>>
  <2>1. \A c : RecoveryIf(w, c) = Recovery(w) \/ RecoveryIf(w, c) = <<>>
    BY DEF RecoveryIf
  <2>2. DOMAIN <<>> = {}
    OBVIOUS
  <2> QED
    BY <1>4, <2>1, <2>2
<1> QED
  BY <1>5, <1>6, <1>7, NoJobs

\* The two failure hooks raise the worker's own stalled issue exactly when the call stalls.
LEMMA AlarmsSay ==
  ASSUME NEW w \in Workers, NEW c
  PROVE  /\ Alarms(w, c) \in Seq(Job)
         /\ \A v : v # w => Silent(Alarms(w, c), StalledIssue(v))
         /\ Stalls(c) => LastSays(Alarms(w, c), StalledIssue(w), "create")
         /\ ~Stalls(c) => Silent(Alarms(w, c), StalledIssue(w))
         /\ \A v : \A n \in DOMAIN Alarms(w, c) : Alarms(w, c)[n] # <<"create", Dropped(v)>>
<1> DEFINE a == <<"create", StalledIssue(w)>>
           b == <<"create", Unreachable>>
           p == IF Stalls(c) THEN <<a>> ELSE <<>>
           q == IF Sustains(c) THEN <<b>> ELSE <<>>
<1>1. a \in Job /\ b \in Job
  BY JobTypes
<1>2. Alarms(w, c) = p \o q
  BY DEF Alarms
<1>3. /\ \A v : v # w => a[2] # StalledIssue(v)
      /\ \A v : b[2] # StalledIssue(v)
      /\ \A v : a # <<"create", Dropped(v)>> /\ b # <<"create", Dropped(v)>>
  <2>1. a[2] = StalledIssue(w) /\ b[2] = Unreachable
    OBVIOUS
  <2>2. \A v : <<"create", Dropped(v)>>[2] = Dropped(v)
    OBVIOUS
  <2> HIDE DEF a, b
  <2> QED
    BY <2>1, <2>2, IssuesDiffer
<1>4. LastSays(<<a>>, StalledIssue(w), "create")
  BY <1>1, OneJob
<1> HIDE DEF a, b
<1>5. /\ p \in Seq(Job) /\ (Stalls(c) => p = <<a>>) /\ (~Stalls(c) => p = <<>>)
  BY <1>1, OneJob, NoJobs
<1>6. /\ q \in Seq(Job) /\ (Sustains(c) => q = <<b>>) /\ (~Sustains(c) => q = <<>>)
  BY <1>1, OneJob, NoJobs
<1> HIDE DEF p, q
<1>7. \A v : Silent(q, StalledIssue(v))
  BY <1>1, <1>3, <1>6, OneJob, NoJobs
<1>8. \A v : v # w => Silent(p, StalledIssue(v))
  BY <1>1, <1>3, <1>5, OneJob, NoJobs
<1>9. Stalls(c) => LastSays(p, StalledIssue(w), "create")
  BY <1>4, <1>5
<1>10. ~Stalls(c) => Silent(p, StalledIssue(w))
  BY <1>5, NoJobs
<1>11. \A v : \A n \in DOMAIN (p \o q) : (p \o q)[n] # <<"create", Dropped(v)>>
  <2>1. /\ Len(p) \in Nat /\ Len(q) \in Nat /\ DOMAIN (p \o q) = 1..(Len(p) + Len(q))
        /\ \A i \in 1..(Len(p) + Len(q)) :
             (p \o q)[i] = IF i <= Len(p) THEN p[i] ELSE q[i - Len(p)]
    BY <1>5, <1>6, ConcatProperties, LenProperties
  <2>2. \A i \in 1..Len(p) : p[i] = a
    BY <1>5
  <2>3. \A i \in 1..Len(q) : q[i] = b
    BY <1>6
  <2> SUFFICES ASSUME NEW v, NEW n \in 1..(Len(p) + Len(q))
               PROVE  (p \o q)[n] # <<"create", Dropped(v)>>
    BY <2>1
  <2>4. CASE n <= Len(p)
    <3>1. n \in 1..Len(p) /\ (p \o q)[n] = p[n]
      BY <2>1, <2>4
    <3> QED
      BY <1>3, <2>2, <3>1
  <2>5. CASE n > Len(p)
    <3>1. n - Len(p) \in 1..Len(q) /\ (p \o q)[n] = q[n - Len(p)]
      BY <2>1, <2>5
    <3> QED
      BY <1>3, <2>3, <3>1
  <2> QED
    BY <2>1, <2>4, <2>5
<1>12. /\ p \o q \in Seq(Job)
       /\ \A v : v # w => Silent(p \o q, StalledIssue(v))
       /\ Stalls(c) => LastSays(p \o q, StalledIssue(w), "create")
       /\ ~Stalls(c) => Silent(p \o q, StalledIssue(w))
  <2>1. p \in Seq(Job) /\ q \in Seq(Job)
    BY <1>5, <1>6
  <2> QED
    BY <1>7, <1>8, <1>9, <1>10, <2>1, TwoJobs
<1> QED
  BY <1>2, <1>11, <1>12

-----------------------------------------------------------------------------
(* The inductive invariant.                                                *)

TypeInv == TypeOK /\ (chunk # "none" => "states" \in Workers)

\* A worker between two calls has no stalled call.
IdleInv == \A w \in Workers : doing[w] \notin {"trying", "asleep"} => ~call[w].stalled

\* Whether the stalled issue of w will exist when all posted jobs have run.
Visible(w) == Shows(posted, issues, StalledIssue(w))

\* A stalled streak of w goes on: in its call, or in the chunk around its row calls.
Streak(w) == Raised(w) \/ (w = "states" /\ chunk = "stalled")

ShowInv ==
  \A w \in Workers :
    /\ Raised(w) => Visible(w)
    /\ Visible(w) /\ StalledIssue(w) \notin orphans => Streak(w)

\* The age of a streak of permanent failures is at most the time since the last transient
\* failure.
SteadyInv == \A w \in Workers : call[w].poisonFor <= steady[w]

Inv == TypeInv /\ IdleInv /\ ShowInv /\ SteadyInv

LEMMA InitInv == Init => Inv
<1> SUFFICES ASSUME Init PROVE Inv
  OBVIOUS
<1>1. posted = <<>> /\ issues = {} /\ orphans = {} /\ chunk = "none" /\ dog = "asleep"
      /\ tracker = [seen |-> FALSE, stalled |-> {}]
      /\ alive = [w \in Workers |-> TRUE] /\ shown = alive
      /\ doing = [w \in Workers |-> "free"] /\ call = [w \in Workers |-> Fresh]
      /\ kind = [w \in Workers |-> FirstCall(w)]
      /\ age = [w \in Workers |-> 0] /\ steady = [w \in Workers |-> PoisonSeconds]
  BY DEF Init
<1>2. <<>> \in Seq({"create", "clear"} \X Issues) /\ Len(<<>>) = 0
  BY EmptySeq
<1>3. age \in [Workers -> 0..StuckAfter] /\ steady \in [Workers -> 0..PoisonSeconds]
  BY <1>1, Thresholds
<1>4. call \in [Workers -> Call]
  BY <1>1, FreshCall
<1>5. TypeOK
  BY <1>1, <1>2, <1>3, <1>4 DEF TypeOK, FirstCall
<1>6. \A w \in Workers : call[w] = Fresh /\ steady[w] = PoisonSeconds
  BY <1>1
<1>7. \A x : ~Shows(posted, issues, x)
  BY <1>1, <1>2 DEF Shows, LastSays, Silent
<1> QED
  BY <1>1, <1>5, <1>6, <1>7, FreshCall, Thresholds DEF Inv, TypeInv, IdleInv, ShowInv,
     SteadyInv, Visible, Raised

\* How a step may change what is shown of worker w: the issue and the streak stay; or the
\* streak ends with its worker or its entry; or the issue is raised; or it is cleared.
StallStep(w) ==
  \/ /\ Visible(w)' <=> Visible(w)
     /\ Raised(w)' => Raised(w)
     /\ Streak(w) => Streak(w)' \/ StalledIssue(w) \in orphans'
  \/ Visible(w)' /\ Raised(w)'
  \/ ~Visible(w)' /\ ~Raised(w)'

LEMMA ShowStep ==
  ASSUME ShowInv, orphans \subseteq orphans', \A w \in Workers : StallStep(w)
  PROVE  ShowInv'
<1> SUFFICES ASSUME NEW w \in Workers
             PROVE  /\ Raised(w)' => Visible(w)'
                    /\ Visible(w)' /\ StalledIssue(w) \notin orphans' => Streak(w)'
  BY DEF ShowInv
<1>1. StallStep(w) /\ (Raised(w) => Visible(w))
      /\ (Visible(w) /\ StalledIssue(w) \notin orphans => Streak(w))
  BY DEF ShowInv
<1>2. Raised(w)' => Streak(w)'
  BY DEF Streak
<1> QED
  BY <1>1, <1>2 DEF StallStep

\* A worker that keeps its call, in a step that keeps the chunk and says nothing new of it.
LEMMA Unaffected ==
  ASSUME NEW w, kind'[w] = kind[w], call'[w].stalled = call[w].stalled,
         Visible(w)' <=> Visible(w),
         (w = "states" /\ chunk = "stalled") => chunk' = "stalled"
  PROVE  StallStep(w)
BY DEF StallStep, Streak, Raised, Hooked

\* Jobs and issues are all that is shown.
LEMMA SameJobs ==
  ASSUME posted' = posted, issues' = issues
  PROVE  \A w : Visible(w)' <=> Visible(w)
BY DEF Visible

\* The other worker's jobs say nothing of w.
LEMMA OtherJobs ==
  ASSUME TypeOK, NEW q \in Seq(Job), posted' = posted \o q, issues' = issues,
         NEW w, Silent(q, StalledIssue(w))
  PROVE  Visible(w)' <=> Visible(w)
<1>1. posted \in Seq(Job)
  BY DEF TypeOK, Job
<1> QED
  BY <1>1, SilentPost DEF Visible

LEMMA OwnJobs ==
  ASSUME TypeOK, NEW q \in Seq(Job), posted' = posted \o q, issues' = issues,
         NEW w, NEW says \in {"create", "clear"}, LastSays(q, StalledIssue(w), says)
  PROVE  Visible(w)' <=> says = "create"
<1>1. posted \in Seq(Job)
  BY DEF TypeOK, Job
<1> QED
  BY <1>1, SpokenPost DEF Visible

-----------------------------------------------------------------------------
(* The steps between calls, of the event loop and of the watchdog.         *)

\* A step that touches neither the calls nor the jobs nor the issues.
LEMMA QuietStep ==
  ASSUME Inv, TypeInv', UNCHANGED <<kind, call, chunk, posted, issues, orphans, steady>>,
         \A w \in Workers : doing'[w] \in {"trying", "asleep"} \/ doing'[w] = doing[w]
                              \/ ~call[w].stalled
  PROVE  Inv'
<1>1. ShowInv'
  BY SameJobs DEF Inv, ShowInv, Streak, Raised, Hooked
<1> QED
  BY <1>1 DEF Inv, IdleInv, SteadyInv

LEMMA CallStarts ==
  ASSUME Inv, NEW w \in Workers, Begin(w) \/ Retried(w)
  PROVE  Inv'
<1>1. /\ doing' = [doing EXCEPT ![w] = "trying"] /\ age' = [age EXCEPT ![w] = 0]
      /\ UNCHANGED <<alive, kind, call, chunk, steady, posted, issues, running, dogVars, orphans>>
  BY DEF Begin, Retried
<1>2. TypeInv'
  BY <1>1, Thresholds DEF Inv, TypeInv, TypeOK, dogVars
<1>3. \A v \in Workers : doing'[v] = "trying" \/ doing'[v] = doing[v]
  BY <1>1 DEF Inv, TypeInv, TypeOK
<1> QED
  BY <1>1, <1>2, <1>3, QuietStep

LEMMA BackfillSteps ==
  ASSUME Inv, AwaitBackfill \/ BackfillArrives
  PROVE  Inv'
<1>1. /\ "states" \in Workers /\ doing["states"] \in {"free", "waiting"}
      /\ \E d \in {"free", "waiting"} : doing' = [doing EXCEPT !["states"] = d]
      /\ age' = [age EXCEPT !["states"] = 0]
      /\ kind' = kind \/ \E k \in {"write", "mark"} : kind' = [kind EXCEPT !["states"] = k]
      /\ UNCHANGED <<alive, call, chunk, steady, posted, issues, running, dogVars, orphans>>
  BY DEF AwaitBackfill, BackfillArrives
<1>2. chunk = "none" /\ ~call["states"].stalled
  BY <1>1 DEF Inv, TypeInv, TypeOK, IdleInv
<1>3. TypeInv'
  <2>1. kind' \in [Workers -> {"setup", "migrate", "write", "mark"}]
    BY <1>1 DEF Inv, TypeInv, TypeOK
  <2>2. age' \in [Workers -> 0..StuckAfter]
    BY <1>1, Thresholds DEF Inv, TypeInv, TypeOK
  <2>3. doing' \in [Workers -> {"free", "trying", "asleep", "rows", "waiting"}]
    BY <1>1 DEF Inv, TypeInv, TypeOK
  <2> QED
    BY <1>1, <1>2, <2>1, <2>2, <2>3 DEF Inv, TypeInv, TypeOK, dogVars
<1>4. \A v \in Workers : doing'[v] = doing[v] \/ ~call[v].stalled
  BY <1>1, <1>2 DEF Inv, TypeInv, TypeOK
<1>5. IdleInv' /\ SteadyInv'
  BY <1>1, <1>4 DEF Inv, IdleInv, SteadyInv
<1>6. \A v : Visible(v)' <=> Visible(v)
  BY <1>1, SameJobs
<1>7. ASSUME NEW v \in Workers PROVE StallStep(v)
  <2>1. CASE v = "states"
    <3>1. ~Raised(v) /\ ~Raised(v)'
      BY <1>1, <1>2, <2>1 DEF Raised
    <3> QED
      BY <1>1, <1>6, <3>1 DEF StallStep, Streak
  <2>2. CASE v # "states"
    <3>1. kind'[v] = kind[v]
      BY <1>1, <2>2 DEF Inv, TypeInv, TypeOK
    <3> QED
      BY <1>1, <1>6, <3>1, Unaffected
  <2> QED
    BY <2>1, <2>2
<1>8. ShowInv'
  BY <1>1, <1>7, ShowStep DEF Inv
<1> QED
  BY <1>3, <1>5, <1>8 DEF Inv

\* The event loop runs a job, or Home Assistant has started.
LEMMA LoopSteps ==
  ASSUME Inv, Deliver \/ Started
  PROVE  Inv'
<1>1. CASE Started
  <2>1. UNCHANGED <<alive, workerVars, posted, issues, dogVars, boundVars, orphans>>
    BY <1>1 DEF Started
  <2>2. TypeInv'
    BY <2>1 DEF Inv, TypeInv, TypeOK, workerVars, dogVars
  <2> QED
    BY <2>1, <2>2, QuietStep DEF workerVars
<1>2. CASE Deliver
  <2>1. /\ posted # <<>> /\ posted' = Tail(posted)
        /\ issues' = IF Head(posted)[1] = "create" THEN issues \cup {Head(posted)[2]}
                                                  ELSE issues \ {Head(posted)[2]}
        /\ UNCHANGED <<alive, workerVars, running, dogVars, boundVars, orphans>>
    BY <1>2 DEF Deliver
  <2>2. posted \in Seq(Job)
    BY DEF Inv, TypeInv, TypeOK, Job
  <2>3. posted' \in Seq(Job) /\ Head(posted) \in Job
    BY <2>1, <2>2, HeadTailProperties
  <2>4. Head(posted)[2] \in Issues
    BY <2>3 DEF Job
  <2>5. TypeInv'
    BY <2>1, <2>3, <2>4 DEF Inv, TypeInv, TypeOK, Job, workerVars, dogVars
  <2>6. \A w : Visible(w)' <=> Visible(w)
    <3>1. \A x : Shows(Tail(posted), issues', x) <=> Shows(posted, issues, x)
      BY <2>1, <2>2, DeliveredJob
    <3> QED
      BY <2>1, <3>1 DEF Visible
  <2> QED
    BY <2>1, <2>5, <2>6 DEF Inv, IdleInv, ShowInv, SteadyInv, Streak, Raised, Hooked, workerVars
<1> QED
  BY <1>1, <1>2

\* The stall check writes no issue but its own.
LEMMA LookShows ==
  ASSUME TypeOK, posted' = posted,
         issues' \in {issues, issues \cup {IngestionStalled}, issues \ {IngestionStalled}}
  PROVE  \A w : Visible(w)' <=> Visible(w)
<1>1. \A w : StalledIssue(w) \in issues' <=> StalledIssue(w) \in issues
  BY IssuesDiffer
<1> QED
  BY <1>1 DEF Visible, Shows

LEMMA LookTypes ==
  ASSUME TypeOK, NEW candidates \in SUBSET Workers, NEW living, LookAt(candidates, living)
  PROVE  /\ dog' \in Workers \cup {"asleep"}
         /\ tracker' \in [seen : BOOLEAN, stalled : SUBSET Workers]
         /\ issues' \in {issues, issues \cup {IngestionStalled}, issues \ {IngestionStalled}}
<1> DEFINE dead == {w \in candidates : ~living[w]}
<1>1. CASE dead = {}
  <2>1. dog' = "asleep" /\ CheckStalls
    BY <1>1 DEF LookAt
  <2>2. tracker.seen \in BOOLEAN /\ running \in BOOLEAN
        => tracker' \in [seen : BOOLEAN, stalled : SUBSET Workers]
    BY <2>1 DEF CheckStalls
  <2>3. tracker' \in [seen : BOOLEAN, stalled : SUBSET Workers]
    BY <2>1 DEF CheckStalls, TypeOK
  <2> QED
    BY <2>1, <2>3 DEF CheckStalls
<1>2. CASE dead # {}
  <2>1. dog' = IF "states" \in dead THEN "states" ELSE "meta"
    BY <1>2 DEF LookAt
  <2>2. UNCHANGED <<tracker, issues>>
    BY <1>2 DEF LookAt
  <2>3. dog' \in Workers
    BY <1>2, <2>1, HealthAssumption
  <2> QED
    BY <2>2, <2>3 DEF TypeOK
<1> QED
  BY <1>1, <1>2

LEMMA WatchdogSteps ==
  ASSUME Inv, WatchdogTick \/ Respawn
  PROVE  Inv'
<1>0. TypeOK
  BY DEF Inv, TypeInv
<1>1. /\ alive' \in [Workers -> BOOLEAN] /\ shown' \in [Workers -> BOOLEAN]
      /\ \E candidates \in SUBSET Workers : \E living : LookAt(candidates, living)
      /\ UNCHANGED <<workerVars, posted, running, boundVars, orphans>>
  <2>1. CASE WatchdogTick
    BY <1>0, <2>1 DEF WatchdogTick, TypeOK
  <2>2. CASE Respawn
    <3>1. alive' = [alive EXCEPT ![dog] = TRUE] /\ shown' = alive'
          /\ LookAt(Workers \ {"states", dog}, alive')
          /\ UNCHANGED <<workerVars, posted, running, boundVars, orphans>>
      BY <2>2 DEF Respawn
    <3>2. alive' \in [Workers -> BOOLEAN]
      BY <1>0, <3>1 DEF TypeOK
    <3> QED
      BY <3>1, <3>2
  <2> QED
    BY <2>1, <2>2
<1>2. /\ dog' \in Workers \cup {"asleep"}
      /\ tracker' \in [seen : BOOLEAN, stalled : SUBSET Workers]
      /\ issues' \in {issues, issues \cup {IngestionStalled}, issues \ {IngestionStalled}}
  BY <1>0, <1>1, LookTypes
<1>3. TypeInv'
  <2>1. issues' \subseteq Issues
    BY <1>0, <1>2 DEF TypeOK, Issues
  <2> QED
    BY <1>0, <1>1, <1>2, <2>1 DEF Inv, TypeInv, TypeOK, workerVars
<1>4. \A w : Visible(w)' <=> Visible(w)
  BY <1>0, <1>1, <1>2, LookShows
<1> QED
  BY <1>1, <1>3, <1>4 DEF Inv, IdleInv, ShowInv, SteadyInv, Streak, Raised, Hooked, workerVars

-----------------------------------------------------------------------------
(* The steps of a worker in a call.                                        *)

\* A step of worker w leaves what is shown of the others alone.
LEMMA WorkerShows ==
  ASSUME Inv, NEW w \in Workers, orphans \subseteq orphans', StallStep(w),
         \A v \in Workers \ {w} : /\ kind'[v] = kind[v] /\ call'[v] = call[v] /\ (Visible(v)' <=> Visible(v))
                                  /\ v = "states" => chunk' = chunk
  PROVE  ShowInv'
<1>1. ASSUME NEW v \in Workers PROVE StallStep(v)
  <2>1. CASE v # w
    <3>1. kind'[v] = kind[v] /\ call'[v].stalled = call[v].stalled /\ (Visible(v)' <=> Visible(v))
          /\ (v = "states" => chunk' = chunk)
      BY <2>1
    <3> QED
      BY <3>1, Unaffected
  <2> QED
    BY <2>1
<1> QED
  BY <1>1, ShowStep DEF Inv

\* The recovery hook shows the end of the streak, and nothing when there was none; jobs that
\* are posted before it and speak of no stalled worker make no difference.
LEMMA RecoveryShows ==
  ASSUME NEW p \in Seq(Job), \A v : Shows(p, issues, StalledIssue(v)) <=> Visible(v),
         NEW w \in Workers, NEW b \in BOOLEAN, issues' = issues,
         posted' = p \o RecoveryIf(w, b)
  PROVE  /\ posted' \in Seq(Job)
         /\ \A v : v # w => (Visible(v)' <=> Visible(v))
         /\ b => ~Visible(w)'
         /\ ~b => (Visible(w)' <=> Visible(w))
<1>1. RecoveryIf(w, b) \in Seq(Job)
  BY RecoverySays
<1>2. posted' \in Seq(Job)
  BY <1>1, ConcatProperties
<1>3. \A v : Silent(RecoveryIf(w, b), StalledIssue(v)) => (Visible(v)' <=> Visible(v))
  BY <1>1, SilentPost DEF Visible
<1>4. \A v : v # w => (Visible(v)' <=> Visible(v))
  BY <1>3, RecoverySays
<1>5. b => ~Visible(w)'
  <2> SUFFICES ASSUME b = TRUE PROVE ~Visible(w)'
    OBVIOUS
  <2>1. LastSays(RecoveryIf(w, b), StalledIssue(w), "clear")
    BY RecoverySays
  <2>2. Visible(w)' <=> "clear" = "create"
    BY <1>1, <2>1, SpokenPost DEF Visible
  <2> QED
    BY <2>2
<1>6. ~b => (Visible(w)' <=> Visible(w))
  <2> SUFFICES ASSUME b = FALSE PROVE Visible(w)' <=> Visible(w)
    OBVIOUS
  <2>1. Silent(RecoveryIf(w, b), StalledIssue(w))
    BY RecoverySays
  <2> QED
    BY <1>3, <2>1
<1> QED
  BY <1>2, <1>4, <1>5, <1>6

\* The end of a call, as the type, the calls and the history of failures see it.
LEMMA EndedTypes ==
  ASSUME Inv, NEW w \in Workers, Ended(w), chunk' = chunk, posted' \in Seq(Job),
         UNCHANGED <<alive, issues, orphans, dogVars>>
  PROVE  TypeInv' /\ IdleInv' /\ SteadyInv'
<1>1. /\ steady' = [steady EXCEPT ![w] = PoisonSeconds]
      /\ call' = [call EXCEPT ![w] = Fresh] /\ age' = [age EXCEPT ![w] = 0]
      /\ kind' = [kind EXCEPT ![w] = "write"]
      /\ doing' = [doing EXCEPT ![w] = IF w = "states" /\ chunk # "none" THEN "rows" ELSE "free"]
  BY DEF Ended, Over
<1>2. TypeOK'
  <2>1. call' \in [Workers -> Call]
    BY <1>1, FreshCall DEF Inv, TypeInv, TypeOK
  <2>2. age' \in [Workers -> 0..StuckAfter] /\ steady' \in [Workers -> 0..PoisonSeconds]
    <3>1. /\ age \in [Workers -> 0..StuckAfter] /\ 0 \in 0..StuckAfter
          /\ steady \in [Workers -> 0..PoisonSeconds] /\ PoisonSeconds \in 0..PoisonSeconds
      BY Thresholds DEF Inv, TypeInv, TypeOK
    <3> QED
      BY ONLY <1>1, <3>1
  <2>3. doing' \in [Workers -> {"free", "trying", "asleep", "rows", "waiting"}]
    BY <1>1 DEF Inv, TypeInv, TypeOK
  <2>4. chunk' # "none" => doing'["states"] \in {"rows", "trying", "asleep"}
    BY <1>1 DEF Inv, TypeInv, TypeOK
  <2>6. kind' \in [Workers -> {"setup", "migrate", "write", "mark"}]
    BY <1>1 DEF Inv, TypeInv, TypeOK
  <2>5. /\ alive' \in [Workers -> BOOLEAN] /\ shown' \in [Workers -> BOOLEAN]
        /\ chunk' \in {"none", "moving", "stalled"}
        /\ issues' \subseteq Issues /\ orphans' \subseteq Issues
        /\ tracker' \in [seen : BOOLEAN, stalled : SUBSET Workers]
        /\ dog' \in Workers \cup {"asleep"}
    BY DEF Inv, TypeInv, TypeOK, dogVars
  <2> QED
    BY <2>1, <2>2, <2>3, <2>4, <2>5, <2>6 DEF TypeOK, Job
<1>3. TypeInv'
  BY <1>2 DEF Inv, TypeInv
<1>4. \A v \in Workers : IF v = w THEN call'[v] = Fresh /\ steady'[v] = PoisonSeconds
                         ELSE /\ call'[v] = call[v] /\ steady'[v] = steady[v]
                              /\ doing'[v] = doing[v]
  BY <1>1 DEF Inv, TypeInv, TypeOK
<1>5. IdleInv' /\ SteadyInv'
  BY <1>4, FreshCall, Thresholds DEF Inv, IdleInv, SteadyInv
<1> QED
  BY <1>3, <1>5

LEMMA EndedShows ==
  ASSUME Inv, NEW w \in Workers, Ended(w), chunk' = chunk,
         NEW p \in Seq(Job), \A v : Shows(p, issues, StalledIssue(v)) <=> Visible(v),
         posted' = p \o RecoveryIf(w, Raised(w)),
         UNCHANGED <<alive, issues, orphans, dogVars>>
  PROVE  Inv'
<1>1. Raised(w) \in BOOLEAN
  BY DEF Raised
<1>2. /\ posted' \in Seq(Job)
      /\ \A v : v # w => (Visible(v)' <=> Visible(v))
      /\ Raised(w) => ~Visible(w)'
      /\ ~Raised(w) => (Visible(w)' <=> Visible(w))
  BY <1>1, RecoveryShows
<1>3. TypeInv' /\ IdleInv' /\ SteadyInv'
  BY <1>2, EndedTypes
<1>4. /\ call'[w] = Fresh
      /\ \A v \in Workers \ {w} : kind'[v] = kind[v] /\ call'[v] = call[v]
  BY DEF Ended, Inv, TypeInv, TypeOK
<1>5. StallStep(w)
  <2>1. ~Raised(w)'
    BY <1>4, FreshCall DEF Raised
  <2> QED
    BY <1>1, <1>2, <2>1 DEF StallStep, Streak
<1>6. ShowInv'
  BY <1>2, <1>4, <1>5, WorkerShows
<1> QED
  BY <1>3, <1>6 DEF Inv

\* The note of a drop says nothing of a stalled worker.
LEMMA NoteSays ==
  ASSUME Inv, NEW w \in Workers, NEW b \in BOOLEAN
  PROVE  /\ posted \o DropNote(w, b) \in Seq(Job)
         /\ \A v : Shows(posted \o DropNote(w, b), issues, StalledIssue(v)) <=> Visible(v)
<1> DEFINE d == <<"create", Dropped(w)>>
           q == DropNote(w, b)
<1>1. posted \in Seq(Job)
  BY DEF Inv, TypeInv, TypeOK, Job
<1>2. q \in Seq(Job) /\ \A v : Silent(q, StalledIssue(v))
  <2>1. d \in Job /\ d[2] = Dropped(w)
    BY JobTypes
  <2>2. q = <<d>> \/ q = <<>>
    BY DEF DropNote
  <2> HIDE DEF d, q
  <2>3. <<d>> \in Seq(Job) /\ \A v : Silent(<<d>>, StalledIssue(v))
    BY <2>1, OneJob, IssuesDiffer
  <2> QED
    BY <2>2, <2>3, NoJobs
<1> HIDE DEF q
<1>3. posted \o q \in Seq(Job) /\ \A v : Shows(posted \o q, issues, StalledIssue(v)) <=> Visible(v)
  BY <1>1, <1>2, SilentPost, ConcatProperties DEF Visible
<1> QED
  BY <1>3 DEF q

\* A call that returns, whether its input was written or dropped.
LEMMA Returns ==
  ASSUME Inv, NEW w \in Workers, NEW b \in BOOLEAN, Ended(w),
         posted' = posted \o DropNote(w, b) \o RecoveryIf(w, Raised(w)),
         UNCHANGED <<alive, chunk, issues, orphans, dogVars>>
  PROVE  Inv'
<1> DEFINE p == posted \o DropNote(w, b)
<1>1. p \in Seq(Job) /\ \A v : Shows(p, issues, StalledIssue(v)) <=> Visible(v)
  BY NoteSays
<1>2. posted' = p \o RecoveryIf(w, Raised(w))
  OBVIOUS
<1> HIDE DEF p
<1> QED
  BY <1>1, <1>2, EndedShows

LEMMA Succeeds ==
  ASSUME Inv, NEW w \in Workers, NEW refused \in BOOLEAN, Succeed(w, refused)
  PROVE  Inv'
<1>1. /\ Ended(w) /\ posted' = posted \o DropNote(w, refused) \o RecoveryIf(w, Raised(w))
      /\ UNCHANGED <<alive, chunk, issues, orphans, dogVars>>
  BY DEF Succeed
<1> QED
  BY <1>1, Returns

LEMMA Drops ==
  ASSUME Inv, NEW w \in Workers, Drop(w), UNCHANGED <<issues, dogVars>>
  PROVE  Inv'
<1> DEFINE b == kind[w] = "write"
<1>1. /\ Ended(w) /\ posted' = posted \o DropNote(w, b) \o RecoveryIf(w, Raised(w))
      /\ UNCHANGED <<alive, chunk, orphans>>
  BY DEF Drop
<1>2. b \in BOOLEAN
  OBVIOUS
<1> HIDE DEF b
<1> QED
  BY <1>1, <1>2, Returns

\* A sleep before the next attempt, after the failure or the veto that made the call c.
LEMMA Sleeps ==
  ASSUME Inv, NEW w \in Workers, NEW c \in Call, c.stalled = call[w].stalled, Sleep(w, c),
         steady' \in [Workers -> 0..PoisonSeconds], c.poisonFor <= steady'[w],
         \A v \in Workers \ {w} : steady'[v] = steady[v],
         UNCHANGED <<issues, dogVars>>
  PROVE  Inv'
<1> DEFINE q == IF Hooked(w) THEN Alarms(w, c) ELSE <<>>
<1>0. /\ q \in Seq(Job)
      /\ \A v : v # w => Silent(q, StalledIssue(v))
      /\ Hooked(w) /\ Stalls(c) => LastSays(q, StalledIssue(w), "create")
      /\ ~(Hooked(w) /\ Stalls(c)) => Silent(q, StalledIssue(w))
  <2>1. CASE Hooked(w)
    <3>1. q = Alarms(w, c)
      BY <2>1
    <3> HIDE DEF q
    <3> QED
      BY <2>1, <3>1, AlarmsSay
  <2>2. CASE ~Hooked(w)
    <3>1. q = <<>>
      BY <2>2
    <3> HIDE DEF q
    <3> QED
      BY <2>2, <3>1, NoJobs
  <2> QED
    BY <2>1, <2>2
<1>1. /\ posted' = posted \o q /\ posted \in Seq(Job)
      /\ call' = [call EXCEPT ![w] = Notified(c)] /\ age' = [age EXCEPT ![w] = 0]
      /\ doing' = [doing EXCEPT ![w] = "asleep"]
      /\ UNCHANGED <<alive, kind, chunk, orphans>>
  BY DEF Sleep, Inv, TypeInv, TypeOK, Job
<1> HIDE DEF q
<1>2. Notified(c) \in Call /\ Notified(c).stalled = (c.stalled \/ Stalls(c))
      /\ Notified(c).poisonFor = c.poisonFor
  BY CallTypes, CallFields
<1>3. call'[w] = Notified(c) /\ \A v \in Workers \ {w} : call'[v] = call[v] /\ doing'[v] = doing[v]
  BY <1>1 DEF Inv, TypeInv, TypeOK
<1>4. TypeInv'
  <2>1. posted' \in Seq(Job)
    BY <1>0, <1>1, ConcatProperties
  <2>2. call' \in [Workers -> Call] /\ age' \in [Workers -> 0..StuckAfter]
    BY <1>1, <1>2, Thresholds DEF Inv, TypeInv, TypeOK
  <2>3. /\ doing' \in [Workers -> {"free", "trying", "asleep", "rows", "waiting"}]
        /\ chunk' # "none" => doing'["states"] \in {"rows", "trying", "asleep"}
    BY <1>1 DEF Inv, TypeInv, TypeOK
  <2> QED
    BY <1>1, <2>1, <2>2, <2>3 DEF Inv, TypeInv, TypeOK, Job, dogVars
<1>5. IdleInv'
  <2>1. doing'[w] = "asleep"
    BY <1>1 DEF Inv, TypeInv, TypeOK
  <2> QED
    BY <1>3, <2>1 DEF Inv, IdleInv
<1>6. SteadyInv'
  BY <1>2, <1>3 DEF Inv, SteadyInv
<1>7. \A v \in Workers \ {w} : Visible(v)' <=> Visible(v)
  BY <1>0, <1>1, OtherJobs DEF Inv, TypeInv
<1>8. StallStep(w)
  <2>0. Raised(w)' <=> Hooked(w) /\ (call[w].stalled \/ Stalls(c))
    BY <1>1, <1>2, <1>3 DEF Raised, Hooked
  <2>1. CASE Hooked(w) /\ Stalls(c)
    <3>1. LastSays(q, StalledIssue(w), "create")
      BY <1>0, <2>1
    <3>2. Visible(w)' <=> "create" = "create"
      BY <1>0, <1>1, <3>1, OwnJobs DEF Inv, TypeInv
    <3> QED
      BY <2>0, <2>1, <3>2 DEF StallStep
  <2>2. CASE ~(Hooked(w) /\ Stalls(c))
    <3>1. Visible(w)' <=> Visible(w)
      BY <1>0, <1>1, <2>2, OtherJobs DEF Inv, TypeInv
    <3>2. Raised(w)' <=> Raised(w)
      BY <2>0, <2>2 DEF Raised
    <3> QED
      BY <1>1, <3>1, <3>2 DEF StallStep, Streak
  <2> QED
    BY <2>1, <2>2
<1>9. ShowInv'
  BY <1>1, <1>3, <1>7, <1>8, WorkerShows
<1> QED
  BY <1>4, <1>5, <1>6, <1>9 DEF Inv

\* The call on the chunk gives up: its rows follow, and keep its streak.
LEMMA RowsFollow ==
  ASSUME Inv, NEW w \in Workers, InsertRows(w),
         UNCHANGED <<issues, dogVars>>
  PROVE  Inv'
<1>1. /\ w = "states" /\ chunk = "none" /\ steady' = [steady EXCEPT ![w] = PoisonSeconds]
      /\ chunk' = (IF Raised(w) THEN "stalled" ELSE "moving")
      /\ call' = [call EXCEPT ![w] = Fresh] /\ age' = [age EXCEPT ![w] = 0]
      /\ doing' = [doing EXCEPT ![w] = "rows"]
      /\ UNCHANGED <<alive, kind, posted, orphans>>
  BY DEF InsertRows, IsChunk, Over
<1>2. \A v \in Workers : IF v = w THEN call'[v] = Fresh /\ steady'[v] = PoisonSeconds
                         ELSE /\ call'[v] = call[v] /\ steady'[v] = steady[v]
                              /\ doing'[v] = doing[v]
  BY <1>1 DEF Inv, TypeInv, TypeOK
<1>3. TypeInv'
  <2>1. call' \in [Workers -> Call]
    BY <1>1, FreshCall DEF Inv, TypeInv, TypeOK
  <2>2. age' \in [Workers -> 0..StuckAfter] /\ steady' \in [Workers -> 0..PoisonSeconds]
    <3>1. /\ age \in [Workers -> 0..StuckAfter] /\ 0 \in 0..StuckAfter
          /\ steady \in [Workers -> 0..PoisonSeconds] /\ PoisonSeconds \in 0..PoisonSeconds
      BY Thresholds DEF Inv, TypeInv, TypeOK
    <3> QED
      BY ONLY <1>1, <3>1
  <2>3. /\ doing' \in [Workers -> {"free", "trying", "asleep", "rows", "waiting"}]
        /\ doing'["states"] = "rows"
    BY <1>1 DEF Inv, TypeInv, TypeOK
  <2>4. chunk' \in {"none", "moving", "stalled"}
    BY <1>1
  <2> QED
    BY <1>1, <2>1, <2>2, <2>3, <2>4 DEF Inv, TypeInv, TypeOK, dogVars
<1>4. IdleInv' /\ SteadyInv'
  BY <1>2, FreshCall, Thresholds DEF Inv, IdleInv, SteadyInv
<1>5. \A v : Visible(v)' <=> Visible(v)
  BY <1>1, SameJobs
<1>6. StallStep(w)
  <2>1. ~Raised(w)'
    BY <1>2, FreshCall DEF Raised
  <2>2. Streak(w) => chunk' = "stalled"
    BY <1>1 DEF Streak
  <2> QED
    BY <1>1, <1>5, <2>1, <2>2 DEF StallStep, Streak
<1>7. ShowInv'
  BY <1>1, <1>2, <1>5, <1>6, WorkerShows
<1> QED
  BY <1>3, <1>4, <1>7 DEF Inv

\* A thread that dies leaves its issue to nobody.
LEMMA ThreadDies ==
  ASSUME Inv, NEW w \in Workers, Dies(w), UNCHANGED <<issues, dogVars>>
  PROVE  Inv'
<1>1. /\ steady' = [steady EXCEPT ![w] = PoisonSeconds]
      /\ alive' = [alive EXCEPT ![w] = FALSE]
      /\ doing' = [doing EXCEPT ![w] = "free"] /\ age' = [age EXCEPT ![w] = 0]
      /\ call' = [call EXCEPT ![w] = Fresh] /\ kind' = [kind EXCEPT ![w] = FirstCall(w)]
      /\ chunk' = (IF w = "states" THEN "none" ELSE chunk)
      /\ posted' = posted
  BY DEF Dies, Over
<1>2. \A v \in Workers : IF v = w THEN call'[v] = Fresh /\ steady'[v] = PoisonSeconds
                         ELSE /\ call'[v] = call[v] /\ steady'[v] = steady[v]
                              /\ doing'[v] = doing[v] /\ kind'[v] = kind[v]
  BY <1>1 DEF Inv, TypeInv, TypeOK
<1>3. orphans \subseteq orphans' /\ orphans' \subseteq Issues
      /\ (Streak(w) => StalledIssue(w) \in orphans')
  <2>1. orphans' = orphans \cup
          (IF Raised(w) \/ (w = "states" /\ chunk = "stalled") THEN {StalledIssue(w)} ELSE {})
    BY DEF Dies
  <2>2. StalledIssue(w) \in Issues /\ orphans \subseteq Issues
    <3>1. StalledIssue(w) \in Issues
      BY DEF Issues
    <3> QED
      BY <3>1 DEF Inv, TypeInv, TypeOK
  <2>3. CASE Raised(w) \/ (w = "states" /\ chunk = "stalled")
    <3>1. orphans' = orphans \cup {StalledIssue(w)}
      BY <2>1, <2>3
    <3> QED
      BY <2>2, <3>1
  <2>4. CASE ~(Raised(w) \/ (w = "states" /\ chunk = "stalled"))
    <3>1. orphans' = orphans \cup {} /\ ~Streak(w)
      BY <2>1, <2>4 DEF Streak
    <3> QED
      BY <2>2, <3>1
  <2> QED
    BY <2>3, <2>4
<1>4. TypeInv'
  <2>1. call' \in [Workers -> Call]
    BY <1>1, FreshCall DEF Inv, TypeInv, TypeOK
  <2>2. age' \in [Workers -> 0..StuckAfter] /\ steady' \in [Workers -> 0..PoisonSeconds]
    <3>1. /\ age \in [Workers -> 0..StuckAfter] /\ 0 \in 0..StuckAfter
          /\ steady \in [Workers -> 0..PoisonSeconds] /\ PoisonSeconds \in 0..PoisonSeconds
      BY Thresholds DEF Inv, TypeInv, TypeOK
    <3> QED
      BY ONLY <1>1, <3>1
  <2>3. /\ doing' \in [Workers -> {"free", "trying", "asleep", "rows", "waiting"}]
        /\ alive' \in [Workers -> BOOLEAN]
        /\ kind' \in [Workers -> {"setup", "migrate", "write", "mark"}]
    BY <1>1 DEF Inv, TypeInv, TypeOK, FirstCall
  <2>4. /\ chunk' \in {"none", "moving", "stalled"}
        /\ chunk' # "none" => doing'["states"] \in {"rows", "trying", "asleep"}
        /\ chunk' # "none" => "states" \in Workers
    BY <1>1 DEF Inv, TypeInv, TypeOK
  <2> QED
    BY <1>1, <1>3, <2>1, <2>2, <2>3, <2>4 DEF Inv, TypeInv, TypeOK, dogVars
<1>5. IdleInv' /\ SteadyInv'
  BY <1>2, FreshCall, Thresholds DEF Inv, IdleInv, SteadyInv
<1>6. \A v : Visible(v)' <=> Visible(v)
  BY <1>1, SameJobs
<1>7. StallStep(w)
  <2>1. ~Raised(w)'
    BY <1>2, FreshCall DEF Raised
  <2> QED
    BY <1>3, <1>6, <2>1 DEF StallStep
<1>8. ShowInv'
  BY <1>1, <1>2, <1>3, <1>6, <1>7, WorkerShows
<1> QED
  BY <1>4, <1>5, <1>8 DEF Inv

\* A call that gives up has failed for good, with a streak as old as the limit.
LEMMA GivesUpSteady ==
  ASSUME Inv, NEW w \in Workers, NEW permanent \in BOOLEAN, GivesUp(Failed(call[w], permanent))
  PROVE  permanent /\ steady[w] = PoisonSeconds
<1>1. call[w] \in Call /\ steady[w] \in 0..PoisonSeconds /\ call[w].poisonFor <= steady[w]
  BY DEF Inv, TypeInv, TypeOK, SteadyInv
<1>2. permanent
  BY <1>1, CallFields, Thresholds DEF GivesUp
<1>3. call[w].poisonFor = PoisonSeconds
  BY <1>1, <1>2, CallFields DEF GivesUp
<1> QED
  BY <1>1, <1>2, <1>3, Thresholds

LEMMA Fails ==
  ASSUME Inv, NEW w \in Workers, NEW permanent \in BOOLEAN, Fail(w, permanent)
  PROVE  Inv'
<1> DEFINE c == Failed(call[w], permanent)
<1>1. /\ call[w] \in Call /\ steady[w] \in 0..PoisonSeconds /\ call[w].poisonFor <= steady[w]
      /\ steady \in [Workers -> 0..PoisonSeconds]
  BY DEF Inv, TypeInv, TypeOK, SteadyInv
<1>2. c \in Call /\ c.stalled = call[w].stalled
      /\ c.poisonFor = (IF permanent THEN call[w].poisonFor ELSE 0)
  BY <1>1, CallTypes, CallFields
<1>3. UNCHANGED <<issues, dogVars>>
  BY DEF Fail
<1>4. \/ InsertRows(w) \/ Veto(w, c) \/ Drop(w) \/ Dies(w)
      \/ Sleep(w, c) /\ steady' = IF permanent THEN steady ELSE [steady EXCEPT ![w] = 0]
  BY DEF Fail
<1> HIDE DEF c
<1>5. CASE InsertRows(w)
  BY <1>3, <1>5, RowsFollow
<1>6. CASE Drop(w)
  BY <1>3, <1>6, Drops
<1>7. CASE Dies(w)
  BY <1>3, <1>7, ThreadDies
<1>8. CASE Veto(w, c)
  <2>1. Refused(c) \in Call /\ Refused(c).stalled = call[w].stalled /\ Refused(c).poisonFor = 0
    BY <1>2, CallTypes, CallFields
  <2>2. Sleep(w, Refused(c)) /\ steady' = steady
    BY <1>8 DEF Veto
  <2>3. Refused(c).poisonFor <= steady'[w]
    BY <1>1, <2>1, <2>2
  <2> QED
    BY <1>1, <1>3, <2>1, <2>2, <2>3, Sleeps
<1>9. CASE /\ Sleep(w, c) /\ steady' = IF permanent THEN steady ELSE [steady EXCEPT ![w] = 0]
  <2>1. /\ steady' \in [Workers -> 0..PoisonSeconds]
        /\ \A v \in Workers \ {w} : steady'[v] = steady[v]
        /\ steady'[w] = IF permanent THEN steady[w] ELSE 0
    BY <1>1, <1>9, Thresholds
  <2>2. c.poisonFor <= steady'[w]
    BY <1>1, <1>2, <2>1
  <2> QED
    BY <1>2, <1>3, <1>9, <2>1, <2>2, Sleeps
<1> QED
  BY <1>4, <1>5, <1>6, <1>7, <1>8, <1>9

LEMMA Crashes ==
  ASSUME Inv, NEW w \in Workers, Crash(w)
  PROVE  Inv'
<1>1. Dies(w) /\ UNCHANGED <<issues, dogVars>>
  BY DEF Crash
<1> QED
  BY <1>1, ThreadDies

LEMMA RowsEnd ==
  ASSUME Inv, RowsDone
  PROVE  Inv'
<1> DEFINE w == "states"
           b == chunk = "stalled"
<1>1. /\ w \in Workers /\ doing[w] = "rows" /\ posted' = posted \o RecoveryIf(w, b)
      /\ chunk' = "none" /\ doing' = [doing EXCEPT ![w] = "free"]
      /\ UNCHANGED <<alive, kind, call, age, steady, issues, running, dogVars, boundVars, orphans>>
  BY DEF RowsDone
<1>2. /\ posted \in Seq(Job) /\ b \in BOOLEAN /\ ~call[w].stalled
      /\ \A v : Shows(posted, issues, StalledIssue(v)) <=> Visible(v)
  BY <1>1 DEF Inv, TypeInv, TypeOK, Job, IdleInv, Visible
<1>3. /\ posted' \in Seq(Job)
      /\ \A v : v # w => (Visible(v)' <=> Visible(v))
      /\ b => ~Visible(w)'
      /\ ~b => (Visible(w)' <=> Visible(w))
  <2> HIDE DEF b
  <2> QED
    BY <1>1, <1>2, RecoveryShows
<1>4. TypeInv'
  <2>1. doing' \in [Workers -> {"free", "trying", "asleep", "rows", "waiting"}]
    BY <1>1 DEF Inv, TypeInv, TypeOK
  <2> QED
    BY <1>1, <1>3, <2>1 DEF Inv, TypeInv, TypeOK, Job, dogVars
<1>5. IdleInv' /\ SteadyInv'
  <2>1. \A v \in Workers : v = w \/ doing'[v] = doing[v]
    BY <1>1 DEF Inv, TypeInv, TypeOK
  <2> QED
    BY <1>1, <1>2, <2>1 DEF Inv, IdleInv, SteadyInv
<1>6. StallStep(w)
  <2>1. ~Raised(w) /\ ~Raised(w)'
    BY <1>1, <1>2 DEF Raised
  <2> QED
    BY <1>1, <1>3, <2>1 DEF StallStep, Streak
<1>7. ShowInv'
  <2>1. \A v \in Workers \ {w} : /\ kind'[v] = kind[v] /\ call'[v] = call[v] /\ (Visible(v)' <=> Visible(v))
                                 /\ (v = "states" => chunk' = chunk)
    BY <1>1, <1>3
  <2> QED
    BY <1>1, <1>6, <2>1, WorkerShows
<1> QED
  BY <1>4, <1>5, <1>7 DEF Inv

LEMMA TimePasses ==
  ASSUME Inv, Tick
  PROVE  Inv'
<1>1. /\ age' = [w \in Workers |-> IF Counting(w) THEN UpTo(age[w], StuckAfter) ELSE age[w]]
      /\ call' = [w \in Workers |-> Aged(call[w])]
      /\ steady' = [w \in Workers |-> UpTo(steady[w], PoisonSeconds)]
      /\ UNCHANGED <<alive, doing, kind, chunk, posted, issues, running, dogVars, boundVars, orphans>>
  BY DEF Tick
<1>2. \A w \in Workers : /\ call[w] \in Call /\ age[w] \in 0..StuckAfter
                         /\ steady[w] \in 0..PoisonSeconds
  BY DEF Inv, TypeInv, TypeOK
<1>3. \A w \in Workers : /\ UpTo(age[w], StuckAfter) \in 0..StuckAfter
                         /\ UpTo(steady[w], PoisonSeconds) \in 0..PoisonSeconds
                         /\ Aged(call[w]) \in Call
  BY <1>2, Thresholds, UpToLimit, CallTypes
<1>4. TypeInv'
  <2>1. age' \in [Workers -> 0..StuckAfter] /\ steady' \in [Workers -> 0..PoisonSeconds]
    BY <1>1, <1>2, <1>3
  <2>2. call' \in [Workers -> Call]
    BY <1>1, <1>3
  <2> QED
    BY <1>1, <2>1, <2>2 DEF Inv, TypeInv, TypeOK, dogVars
<1>5. \A w \in Workers : call'[w].stalled = call[w].stalled
  BY <1>1, <1>2, CallFields
<1>6. SteadyInv'
  <2> SUFFICES ASSUME NEW w \in Workers PROVE call'[w].poisonFor <= steady'[w]
    BY DEF SteadyInv
  <2>1. /\ call[w].poisonFor \in 0..PoisonSeconds /\ steady[w] \in 0..PoisonSeconds
        /\ call[w].poisonFor <= steady[w]
    BY <1>2 DEF Inv, SteadyInv, Call
  <2>2. call'[w].poisonFor \in {call[w].poisonFor, UpTo(call[w].poisonFor, PoisonSeconds)}
    BY <1>1, <1>2, CallFields
  <2>3. steady'[w] = UpTo(steady[w], PoisonSeconds)
    BY <1>1
  <2> QED
    BY <2>1, <2>2, <2>3, Thresholds DEF UpTo
<1>7. \A w : Visible(w)' <=> Visible(w)
  BY <1>1, SameJobs
<1> QED
  BY <1>1, <1>4, <1>5, <1>6, <1>7 DEF Inv, IdleInv, ShowInv, Streak, Raised, Hooked

\* The reload leaves every issue that is raised to nobody.
LEMMA Reloads ==
  ASSUME Inv, Reload
  PROVE  Inv'
<1>1. /\ orphans' = orphans \cup {StalledIssue(w) : w \in {v \in Workers : Raised(v)}}
           \cup (IF chunk = "stalled" THEN {StalledIssue("states")} ELSE {})
           \cup (IF tracker.stalled # {} THEN {IngestionStalled} ELSE {})
      /\ alive' = [w \in Workers |-> TRUE] /\ shown' = alive'
      /\ doing' = [w \in Workers |-> "free"] /\ call' = [w \in Workers |-> Fresh]
      /\ kind' = [w \in Workers |-> FirstCall(w)]
      /\ chunk' = "none" /\ age' = [w \in Workers |-> 0]
      /\ steady' = [w \in Workers |-> PoisonSeconds]
      /\ tracker' = [seen |-> FALSE, stalled |-> {}] /\ dog' = "asleep"
      /\ UNCHANGED <<posted, issues, running, deaths>>
  BY DEF Reload
<1>2. orphans \subseteq orphans' /\ orphans' \subseteq Issues
  <2>1. IngestionStalled \in Issues /\ \A w \in Workers : StalledIssue(w) \in Issues
    BY DEF Issues
  <2>2. chunk = "stalled" => "states" \in Workers
    BY DEF Inv, TypeInv
  <2>3. orphans \subseteq Issues
    BY DEF Inv, TypeInv, TypeOK
  <2> QED
    BY <1>1, <2>1, <2>2, <2>3
<1>3. TypeInv'
  <2>1. call' \in [Workers -> Call]
    BY <1>1, FreshCall
  <2>2. age' \in [Workers -> 0..StuckAfter] /\ steady' \in [Workers -> 0..PoisonSeconds]
    BY <1>1, Thresholds
  <2>3. /\ alive' \in [Workers -> BOOLEAN] /\ shown' \in [Workers -> BOOLEAN]
        /\ doing' \in [Workers -> {"free", "trying", "asleep", "rows", "waiting"}]
        /\ kind' \in [Workers -> {"setup", "migrate", "write", "mark"}]
    BY <1>1 DEF FirstCall
  <2>4. tracker' \in [seen : BOOLEAN, stalled : SUBSET Workers]
    BY <1>1
  <2> QED
    BY <1>1, <1>2, <2>1, <2>2, <2>3, <2>4 DEF Inv, TypeInv, TypeOK
<1>4. \A w \in Workers : call'[w] = Fresh /\ steady'[w] = PoisonSeconds
  BY <1>1
<1>5. IdleInv' /\ SteadyInv'
  BY <1>4, FreshCall, Thresholds DEF IdleInv, SteadyInv
<1>6. \A w \in Workers : StallStep(w)
  <2> SUFFICES ASSUME NEW w \in Workers PROVE StallStep(w)
    OBVIOUS
  <2>1. Streak(w) => StalledIssue(w) \in orphans'
    BY <1>1 DEF Streak
  <2>2. Visible(w)' <=> Visible(w)
    BY <1>1, SameJobs
  <2>3. ~Raised(w)'
    BY <1>4, FreshCall DEF Raised
  <2> QED
    BY <2>1, <2>2, <2>3 DEF StallStep
<1>7. ShowInv'
  BY <1>2, <1>6, ShowStep DEF Inv
<1> QED
  BY <1>3, <1>5, <1>7 DEF Inv

LEMMA NextInv == Inv /\ [Next]_vars => Inv'
<1> SUFFICES ASSUME Inv, [Next]_vars PROVE Inv'
  OBVIOUS
<1>1. CASE UNCHANGED vars
  <2>1. UNCHANGED <<alive, doing, kind, call, chunk, age, steady, posted, issues, tracker, dog, shown,
                    orphans>>
    BY <1>1 DEF vars, workerVars, dogVars
  <2>2. TypeInv'
    BY <2>1 DEF Inv, TypeInv, TypeOK
  <2> QED
    BY <2>1, <2>2, QuietStep
<1>2. ASSUME NEW w \in Workers,
             \/ Begin(w) \/ Retried(w) \/ Crash(w)
             \/ \E refused \in BOOLEAN : Succeed(w, refused)
             \/ \E permanent \in BOOLEAN : Fail(w, permanent)
      PROVE  Inv'
  BY <1>2, CallStarts, Succeeds, Crashes, Fails
<1>3. CASE RowsDone
  BY <1>3, RowsEnd
<1>4. CASE AwaitBackfill \/ BackfillArrives
  BY <1>4, BackfillSteps
<1>5. CASE Deliver \/ Started
  BY <1>5, LoopSteps
<1>6. CASE WatchdogTick \/ Respawn
  BY <1>6, WatchdogSteps
<1>7. CASE Tick
  BY <1>7, TimePasses
<1>8. CASE Reload
  BY <1>8, Reloads
<1> QED
  BY <1>1, <1>2, <1>3, <1>4, <1>5, <1>6, <1>7, <1>8 DEF Next

LEMMA InvHolds == Spec => []Inv
BY InitInv, NextInv, PTL DEF Spec

-----------------------------------------------------------------------------
(* Theorems.                                                               *)

\* The types of the workers' calls, of the event loop's jobs and of the watchdog's state hold
\* in every behaviour (retry.py:148, watchdog.py:106).
THEOREM TypeCorrect == Spec => []TypeOK
<1>1. Inv => TypeOK
  BY DEF Inv, TypeInv
<1> QED
  BY <1>1, InvHolds, PTL

\* When the event loop has run all jobs, every worker whose call has stalled, being a write or
\* the metadata migration, has its repair issue: no order of attempts, vetoes, drops, rows,
\* deaths, respawns and reloads loses an alarm.  And while the thread and the entry that raised
\* it live, an issue has such a call behind it, or a row loop inside one (retry.py:234,
\* states_worker.py:269).
THEOREM StallsAreShown == Spec => []StallShown
<1>1. Inv => StallShown
  <2> SUFFICES ASSUME Inv, posted = <<>>, NEW w \in Workers
               PROVE  /\ Raised(w) => StalledIssue(w) \in issues
                      /\ StalledIssue(w) \in issues \ orphans =>
                           Raised(w) \/ (w = "states" /\ chunk = "stalled")
    BY DEF StallShown
  <2>1. Visible(w) <=> StalledIssue(w) \in issues
    <3>1. Len(posted) = 0
      OBVIOUS
    <3> QED
      BY <3>1 DEF Visible, Shows, LastSays, Silent
  <2> QED
    BY <2>1 DEF Inv, ShowInv, Streak
<1> QED
  BY <1>1, InvHolds, PTL

-----------------------------------------------------------------------------
(* Drops.                                                                  *)

\* Job j is among the jobs of p.
Holds(p, j) == j \in {p[n] : n \in DOMAIN p}

LEMMA HoldsConcat ==
  ASSUME NEW p \in Seq(Job), NEW q \in Seq(Job), NEW j, Holds(p \o q, j)
  PROVE  Holds(p, j) \/ Holds(q, j)
<1>1. /\ Len(p) \in Nat /\ Len(q) \in Nat
      /\ DOMAIN p = 1..Len(p) /\ DOMAIN q = 1..Len(q) /\ DOMAIN (p \o q) = 1..(Len(p) + Len(q))
      /\ \A i \in 1..(Len(p) + Len(q)) : (p \o q)[i] = IF i <= Len(p) THEN p[i] ELSE q[i - Len(p)]
  BY ConcatProperties, LenProperties
<1>2. PICK n \in 1..(Len(p) + Len(q)) : (p \o q)[n] = j
  BY <1>1 DEF Holds
<1>3. CASE n <= Len(p)
  BY <1>1, <1>2, <1>3 DEF Holds
<1>4. CASE n > Len(p)
  <2>1. n - Len(p) \in 1..Len(q) /\ q[n - Len(p)] = j
    BY <1>1, <1>2, <1>4
  <2> QED
    BY <1>1, <2>1 DEF Holds
<1> QED
  BY <1>1, <1>3, <1>4

LEMMA HoldsTail ==
  ASSUME NEW p \in Seq(Job), p # <<>>, NEW j, Holds(Tail(p), j)
  PROVE  Holds(p, j)
<1>1. /\ Len(p) \in Nat \ {0} /\ DOMAIN p = 1..Len(p) /\ DOMAIN Tail(p) = 1..(Len(p) - 1)
      /\ \A i \in 1..(Len(p) - 1) : Tail(p)[i] = p[i + 1]
  BY HeadTailProperties, LenProperties, EmptySeq
<1>2. PICK n \in 1..(Len(p) - 1) : Tail(p)[n] = j
  BY <1>1 DEF Holds
<1>3. n + 1 \in 1..Len(p) /\ p[n + 1] = j
  BY <1>1, <1>2
<1> QED
  BY <1>1, <1>3 DEF Holds

\* Only a call on a row that gives up posts that the states worker dropped something.
LEMMA DropPosts ==
  ASSUME Inv, Next, "states" \in Workers, Holds(posted', <<"create", Dropped("states")>>),
         ~Holds(posted, <<"create", Dropped("states")>>)
  PROVE  \E permanent \in BOOLEAN : GivesUp(Failed(call["states"], permanent))
<1> DEFINE j == <<"create", Dropped("states")>>
<1>0. posted \in Seq(Job)
  BY DEF Inv, TypeInv, TypeOK, Job
<1>1. /\ \A w \in Workers, b \in BOOLEAN : /\ RecoveryIf(w, b) \in Seq(Job)
                                           /\ ~Holds(RecoveryIf(w, b), j)
      /\ \A w \in Workers : \A c : Alarms(w, c) \in Seq(Job) /\ ~Holds(Alarms(w, c), j)
      /\ <<>> \in Seq(Job) /\ ~Holds(<<>>, j)
  <2>1. <<>> \in Seq(Job) /\ ~Holds(<<>>, j)
    <3>1. DOMAIN <<>> = {}
      OBVIOUS
    <3> QED
      BY <3>1, NoJobs DEF Holds
  <2> QED
    BY <2>1, RecoverySays, AlarmsSay DEF Holds
<1>3. posted' # posted
  OBVIOUS
<1>a. ASSUME NEW q \in Seq(Job), ~Holds(q, j) PROVE posted' # posted \o q
  <2>1. Holds(posted', j) /\ ~Holds(posted, j)
    OBVIOUS
  <2> HIDE DEF j
  <2> QED
    BY <1>0, <1>a, <2>1, HoldsConcat
<1>4. \A w \in Workers, b \in BOOLEAN : posted' # posted \o RecoveryIf(w, b)
  BY <1>1, <1>a
<1>5. \A w \in Workers : \A c : posted' # posted \o (IF Hooked(w) THEN Alarms(w, c) ELSE <<>>)
  BY <1>1, <1>a
<1>6. ~Deliver
  BY <1>0, HoldsTail DEF Deliver
\* Another worker's note is of another issue.
<1>7. ASSUME NEW w \in Workers, NEW b \in BOOLEAN, w # "states" \/ b = FALSE
      PROVE  posted' # posted \o DropNote(w, b) \o RecoveryIf(w, Raised(w))
  <2> DEFINE d == <<"create", Dropped(w)>>
             q == DropNote(w, b)
             r == RecoveryIf(w, Raised(w))
  <2>1. d \in Job /\ (w # "states" => d # j)
    BY IssuesDiffer, JobTypes
  <2>2. r \in Seq(Job) /\ ~Holds(r, j)
    <3>1. Raised(w) \in BOOLEAN
      BY DEF Raised
    <3> QED
      BY <1>1, <3>1
  <2>3. (b = TRUE /\ q = <<d>>) \/ (b = FALSE /\ q = <<>>)
    BY DEF DropNote
  <2> HIDE DEF d, j, r, q
  <2>4. q \in Seq(Job) /\ ~Holds(q, j)
    <3>1. CASE q = <<>>
      BY <1>1, <3>1
    <3>2. CASE b = TRUE /\ q = <<d>>
      <4>1. q \in Seq(Job) /\ DOMAIN q = {1} /\ q[1] = d
        BY <2>1, <3>2
      <4> QED
        BY <1>7, <2>1, <3>2, <4>1 DEF Holds
    <3> QED
      BY <2>3, <3>1, <3>2
  <2>5. posted \o q \in Seq(Job) /\ ~Holds(posted \o q, j)
    BY <1>0, <2>4, HoldsConcat, ConcatProperties DEF j
  <2>6. posted' # (posted \o q) \o r
    BY <2>2, <2>5, HoldsConcat DEF j
  <2> QED
    BY <2>6 DEF q, r
<1>8. PICK w \in Workers, permanent \in BOOLEAN : Fail(w, permanent)
  <2>1. \A w \in Workers : ~Begin(w) /\ ~Retried(w) /\ ~Crash(w)
    BY <1>3 DEF Begin, Retried, Crash, Dies
  <2>2. ASSUME NEW w \in Workers, NEW refused \in BOOLEAN, Succeed(w, refused) PROVE FALSE
    <3>1. /\ posted' = posted \o DropNote(w, refused) \o RecoveryIf(w, Raised(w))
          /\ refused => w = "meta"
      BY <2>2 DEF Succeed
    <3>2. w # "states" \/ refused = FALSE
      BY <3>1
    <3> QED
      BY <1>7, <3>1, <3>2
  <2>3. ~RowsDone
    <3>1. (chunk = "stalled") \in BOOLEAN
      OBVIOUS
    <3> QED
      BY <1>4, <3>1 DEF RowsDone
  <2>4. ~AwaitBackfill /\ ~BackfillArrives /\ ~Started /\ ~WatchdogTick /\ ~Respawn /\ ~Tick
        /\ ~Reload
    BY <1>3 DEF AwaitBackfill, BackfillArrives, Started, WatchdogTick, Respawn, Tick, Reload
  <2> QED
    BY <1>6, <2>1, <2>2, <2>3, <2>4 DEF Next
<1> DEFINE c == Failed(call[w], permanent)
<1>9. GivesUp(c) /\ Drop(w)
  <2>1. \/ GivesUp(c) /\ (InsertRows(w) \/ Veto(w, c) \/ Drop(w) \/ Dies(w))
        \/ Sleep(w, c)
    BY <1>8 DEF Fail
  <2>2. ~Sleep(w, c) /\ ~Veto(w, c) /\ ~InsertRows(w) /\ ~Dies(w)
    BY <1>3, <1>5 DEF Sleep, Veto, InsertRows, Dies
  <2> QED
    BY <2>1, <2>2
<1>10. w = "states"
  <2> SUFFICES ASSUME w # "states" PROVE FALSE
    OBVIOUS
  <2> DEFINE b == kind[w] = "write"
  <2>1. posted' = posted \o DropNote(w, b) \o RecoveryIf(w, Raised(w)) /\ b \in BOOLEAN
    BY <1>9 DEF Drop
  <2> HIDE DEF b
  <2> QED
    BY <1>7, <2>1
<1> QED
  BY <1>9, <1>10

\* The recorder drops a state row only after every failure of the last minute was a permanent
\* one: no transient failure, at whatever point of the streak and of whatever row of a chunk,
\* leaves a count behind on which an outage could make it give up (retry.py:186, "A transient
\* failure resets the count and the clock").
THEOREM DropsAreSteady == Spec => DropAfterSteadyFailures
<1>1. ASSUME Inv, [Next]_vars
      PROVE  \A w \in Workers \cap {"states"} :
               <<"create", Dropped(w)>> \in {posted'[n] : n \in DOMAIN posted'} =>
                 \/ <<"create", Dropped(w)>> \in {posted[n] : n \in DOMAIN posted}
                 \/ steady[w] = PoisonSeconds
  <2> SUFFICES ASSUME "states" \in Workers, Holds(posted', <<"create", Dropped("states")>>),
                      ~Holds(posted, <<"create", Dropped("states")>>)
               PROVE  steady["states"] = PoisonSeconds
    BY DEF Holds
  <2>1. Next
    BY <1>1 DEF vars
  <2>2. PICK permanent \in BOOLEAN : GivesUp(Failed(call["states"], permanent))
    BY <1>1, <2>1, DropPosts
  <2> QED
    BY <1>1, <2>2, GivesUpSteady
<1>2. Inv /\ [Next]_vars =>
        [\A w \in Workers \cap {"states"} :
           <<"create", Dropped(w)>> \in {posted'[n] : n \in DOMAIN posted'} =>
             \/ <<"create", Dropped(w)>> \in {posted[n] : n \in DOMAIN posted}
             \/ steady[w] = PoisonSeconds]_vars
  BY <1>1
<1> QED
  BY <1>2, InvHolds, PTL DEF Spec, DropAfterSteadyFailures
=============================================================================
