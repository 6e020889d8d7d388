------------------------ MODULE MetaPipelineProofs ------------------------
(***************************************************************************)
(* Theorems about MetaPipeline, for every number of registry events and    *)
(* every bound on the faults.                                              *)
(***************************************************************************)
EXTENDS MetaPipeline, FiniteSetTheorems, SequenceTheorems, TLAPS

Line == 0..MaxItems
Item == 1..MaxItems

-----------------------------------------------------------------------------
(* The file after an append.                                               *)

\* Every item of a sequence of lines stands at some place of it.
LEMMA HeldAt ==
  ASSUME NEW s \in Seq(Line)
  PROVE  \A x : x \in Held(s) <=> x # 0 /\ \E i \in 1..Len(s) : s[i] = x
<1>1. DOMAIN s = 1..Len(s)
  OBVIOUS
<1> QED
  BY <1>1 DEF Held, ToSet, Malformed

\* Items are lines, and none of them is malformed.
LEMMA ItemsAreLines ==
  ASSUME NEW s \in Seq(Item)
  PROVE  /\ s \in Seq(Line)
         /\ \A i \in 1..Len(s) : s[i] \in Item
         /\ \A x : x \in Held(s) <=> \E i \in 1..Len(s) : s[i] = x
<1>1. Item \subseteq Line
  BY ListenerAssumption DEF Item, Line
<1>2. s \in Seq(Line)
  BY <1>1, SeqMonotonic
<1>3. \A i \in 1..Len(s) : s[i] \in Item
  BY ElementOfSeq
<1> QED
  BY <1>2, <1>3, HeldAt, ListenerAssumption DEF Item

\* All lines but the last.
LEMMA FrontLines ==
  ASSUME NEW f \in Seq(Line), f # <<>>
  PROVE  /\ Front(f) \in Seq(Line) /\ Len(Front(f)) = Len(f) - 1
         /\ \A i \in 1..Len(Front(f)) : Front(f)[i] = f[i]
<1>1. PICK n \in Nat : Len(f) = n + 1
  <2>1. Len(f) \in Nat \ {0}
    BY EmptySeq
  <2> QED
    BY <2>1
<1>2. Front(f) = SubSeq(f, 1, n)
  BY <1>1 DEF Front
<1>3. \A i \in 1..n : f[i] \in Line
  BY <1>1, ElementOfSeq
<1>4. /\ SubSeq(f, 1, n) \in Seq(Line)
      /\ Len(SubSeq(f, 1, n)) = n
      /\ \A i \in 1..n : SubSeq(f, 1, n)[i] = f[i]
  <2>1. /\ SubSeq(f, 1, n) \in Seq(Line)
        /\ Len(SubSeq(f, 1, n)) = IF 1 <= n THEN n - 1 + 1 ELSE 0
        /\ \A i \in 1..(n - 1 + 1) : SubSeq(f, 1, n)[i] = f[1 + i - 1]
    BY <1>3, SubSeqProperties
  <2>2. (IF 1 <= n THEN n - 1 + 1 ELSE 0) = n /\ \A i \in 1..n : 1 + i - 1 = i
    OBVIOUS
  <2> QED
    BY <2>1, <2>2
<1> QED
  BY <1>1, <1>2, <1>4

\* The lines of the file after an append, place by place.
LEMMA AppendedLines ==
  ASSUME file \in Seq(Line), openTail => file # <<>>, NEW s \in Seq(Line), s # <<>>,
         NEW F, F = Appended(s)
  PROVE  /\ F \in Seq(Line)
         /\ Len(F) = Len(file) + Len(s) - (IF openTail THEN 1 ELSE 0)
         /\ \A i \in 1..Len(file) : F[i] = IF openTail /\ i = Len(file) THEN 0 ELSE file[i]
         /\ \A i \in (Len(file) + 1)..Len(F) :
              F[i] = s[i - Len(file) + (IF openTail THEN 1 ELSE 0)]
<1>1. CASE ~openTail
  <2>1. F = file \o s
    BY <1>1 DEF Appended
  <2> QED
    BY <1>1, <2>1, ConcatProperties
<1>2. CASE openTail
  <2> DEFINE g == Front(file)
             h == g \o <<Malformed>>
             r == Tail(s)
  <2>1. file # <<>> /\ Len(file) \in Nat \ {0}
    BY <1>2, EmptySeq
  <2>2. F = h \o r
    BY <1>2 DEF Appended
  <2>3. g \in Seq(Line) /\ Len(g) = Len(file) - 1 /\ \A i \in 1..Len(g) : g[i] = file[i]
    BY <2>1, FrontLines
  <2>4. <<Malformed>> \in Seq(Line) /\ Len(<<Malformed>>) = 1 /\ <<Malformed>>[1] = 0
    BY ListenerAssumption DEF Malformed, Line
  <2>5. r \in Seq(Line) /\ Len(r) = Len(s) - 1 /\ \A i \in 1..Len(r) : r[i] = s[i + 1]
    BY HeadTailProperties
  <2> HIDE DEF g, r
  <2>6. /\ h \in Seq(Line) /\ Len(h) = Len(file)
        /\ \A i \in 1..Len(file) : h[i] = IF i = Len(file) THEN 0 ELSE file[i]
    BY <2>1, <2>3, <2>4, ConcatProperties
  <2> HIDE DEF h
  <2>7. /\ F \in Seq(Line) /\ Len(F) = Len(file) + Len(s) - 1
        /\ \A i \in 1..Len(F) : F[i] = IF i <= Len(file) THEN h[i] ELSE r[i - Len(file)]
    <3>1. Len(F) = Len(h) + Len(r) /\ F \in Seq(Line)
      BY <2>2, <2>5, <2>6, ConcatProperties
    <3>2. \A i \in 1..Len(F) : F[i] = IF i <= Len(h) THEN h[i] ELSE r[i - Len(h)]
      BY <2>2, <2>5, <2>6, <3>1, ConcatProperties
    <3>3. Len(s) \in Nat /\ Len(F) = Len(file) + (Len(s) - 1)
      BY <2>5, <2>6, <3>1
    <3>4. \A i \in 1..Len(F) : F[i] = IF i <= Len(file) THEN h[i] ELSE r[i - Len(file)]
      BY <2>6, <3>2
    <3>5. Len(F) = Len(file) + Len(s) - 1
      BY ONLY <2>1, <3>3
    <3> QED
      BY <3>1, <3>4, <3>5
  <2>8. \A i \in (Len(file) + 1)..Len(F) : F[i] = s[i - Len(file) + 1]
    <3> SUFFICES ASSUME NEW i \in (Len(file) + 1)..Len(F)
                 PROVE  F[i] = s[i - Len(file) + 1]
      OBVIOUS
    <3>1. Len(s) \in Nat
      OBVIOUS
    <3>2. i \in 1..Len(F) /\ ~(i <= Len(file)) /\ i - Len(file) \in 1..(Len(s) - 1)
      BY <2>1, <2>7, <3>1
    <3>3. F[i] = r[i - Len(file)]
      BY ONLY <2>7, <3>2
    <3> QED
      BY <2>5, <3>2, <3>3
  <2>9. \A i \in 1..Len(file) : F[i] = IF i = Len(file) THEN 0 ELSE file[i]
    <3>1. Len(s) \in Nat \ {0}
      BY EmptySeq
    <3> QED
      BY <2>1, <2>6, <2>7, <3>1
  <2> QED
    BY <1>2, <2>7, <2>8, <2>9
<1> QED
  BY <1>1, <1>2

\* What of a batch reaches the file: its first items, the last of them perhaps spoilt.
PartOf(s, items) ==
  /\ s # <<>> /\ Len(s) <= Len(items)
  /\ \A j \in 1..Len(s) : s[j] # items[j] => s[j] = 0 /\ j = Len(s)

\* Items of an append that are written are items of the batch.
LEMMA PartHeld ==
  ASSUME NEW items \in Seq(Item), NEW s \in Seq(Line), PartOf(s, items)
  PROVE  \A x \in Held(s) : x \in Held(items)
<1> SUFFICES ASSUME NEW x \in Held(s) PROVE x \in Held(items)
  OBVIOUS
<1>1. PICK j \in 1..Len(s) : s[j] = x /\ x # 0
  BY HeldAt
<1>2. items[j] = x /\ j \in 1..Len(items)
  BY <1>1 DEF PartOf
<1> QED
  BY <1>2, ItemsAreLines

\* A write that is cut short appends a part of the batch, or nothing.
LEMMA TornWrite ==
  ASSUME file \in Seq(Line), openTail \in BOOLEAN, NEW items \in Seq(Item),
         WriteTorn(items)
  PROVE  \/ UNCHANGED fileVars
         \/ \E s \in Seq(Line) : PartOf(s, items) /\ file' = Appended(s)
<1>0. items \in Seq(Line) /\ Len(items) \in Nat /\ \A i \in 1..Len(items) : items[i] \in Line
  BY ItemsAreLines, ElementOfSeq
<1>1. PICK k \in 0..Len(items) :
        \/ /\ file' = Appended(SubSeq(items, 1, k))
           /\ openTail' = (openTail /\ k = 0)
        \/ /\ k < Len(items)
           /\ \E last \in {Malformed, items[k + 1]} :
                file' = Appended(Append(SubSeq(items, 1, k), last))
           /\ openTail' = TRUE
  BY DEF WriteTorn
<1> DEFINE q == SubSeq(items, 1, k)
<1>2. q \in Seq(Line) /\ Len(q) = k /\ \A i \in 1..k : q[i] = items[i]
  <2>1. /\ q \in Seq(Line) /\ Len(q) = IF 1 <= k THEN k - 1 + 1 ELSE 0
        /\ \A i \in 1..(k - 1 + 1) : q[i] = items[1 + i - 1]
    BY <1>0, SubSeqProperties
  <2> HIDE DEF q
  <2>2. (IF 1 <= k THEN k - 1 + 1 ELSE 0) = k /\ \A i \in 1..k : 1 + i - 1 = i
    OBVIOUS
  <2> QED
    BY <2>1, <2>2
<1> HIDE DEF q
<1>3. CASE file' = Appended(q) /\ openTail' = (openTail /\ k = 0)
  <2>1. CASE k = 0
    <3>1. q = <<>>
      BY <1>2, <2>1, EmptySeq
    <3>2. file' = file
      BY <1>3, <3>1 DEF Appended
    <3>3. openTail' = openTail
      BY <1>3, <2>1
    <3> QED
      BY <3>2, <3>3 DEF fileVars
  <2>2. CASE k # 0
    <3>1. PartOf(q, items)
      BY <1>0, <1>2, <2>2 DEF PartOf
    <3> QED
      BY <1>2, <1>3, <3>1
  <2> QED
    BY <2>1, <2>2
<1>4. ASSUME k < Len(items), NEW last \in {Malformed, items[k + 1]},
             file' = Appended(Append(q, last))
      PROVE  \E s \in Seq(Line) : PartOf(s, items) /\ file' = Appended(s)
  <2>1. k + 1 \in 1..Len(items) /\ last \in Line
    BY <1>0, <1>4, ListenerAssumption DEF Malformed, Line
  <2> DEFINE s == Append(q, last)
  <2>2. /\ s \in Seq(Line) /\ s # <<>> /\ Len(s) = k + 1
        /\ (\A i \in 1..k : s[i] = items[i]) /\ s[k + 1] = last
    BY <1>2, <2>1, AppendProperties
  <2>3. file' = Appended(s)
    BY <1>4
  <2> HIDE DEF s
  <2>4. PartOf(s, items)
    BY <1>0, <1>4, <2>1, <2>2 DEF PartOf, Malformed
  <2> QED
    BY <2>2, <2>3, <2>4
<1> QED
  BY <1>1, <1>3, <1>4 DEF q

\* What an append does to the items in the file: an open last line and the first line
\* of the append spoil each other, nothing else is touched.
LEMMA AppendedHeld ==
  ASSUME file \in Seq(Line), openTail => file # <<>>, NEW s \in Seq(Line), s # <<>>,
         NEW F, F = Appended(s)
  PROVE  /\ F \in Seq(Line) /\ F # <<>>
         /\ file # <<>> => F[1] \in {file[1], 0}
         /\ F[Len(F)] \in {0, s[Len(s)]}
         /\ \A x \in Held(file) : x \in Held(F) \/ (openTail /\ x = file[Len(file)])
         /\ \A x \in Held(s) : x \in Held(F) \/ (openTail /\ x = s[1])
         /\ \A x \in Held(F) : x \in Held(file) \/ x \in Held(s)
<1>1. /\ F \in Seq(Line)
      /\ Len(F) = Len(file) + Len(s) - (IF openTail THEN 1 ELSE 0)
      /\ \A i \in 1..Len(file) : F[i] = IF openTail /\ i = Len(file) THEN 0 ELSE file[i]
      /\ \A i \in (Len(file) + 1)..Len(F) :
           F[i] = s[i - Len(file) + (IF openTail THEN 1 ELSE 0)]
  BY AppendedLines
<1>2. /\ Len(file) \in Nat /\ Len(s) \in Nat \ {0}
      /\ openTail => Len(file) # 0
      /\ file # <<>> => Len(file) # 0
  BY EmptySeq
<1>3. Len(F) \in Nat \ {0} /\ F # <<>> /\ Len(F) >= Len(file)
  BY <1>1, <1>2, EmptySeq
<1>4. file # <<>> => F[1] \in {file[1], 0}
  BY <1>1, <1>2
<1>5. F[Len(F)] \in {0, s[Len(s)]}
  <2>1. CASE Len(F) > Len(file)
    BY <1>1, <1>2, <1>3, <2>1
  <2>2. CASE Len(F) = Len(file)
    BY <1>1, <1>2, <1>3, <2>2
  <2> QED
    BY <1>2, <1>3, <2>1, <2>2
<1>6. ASSUME NEW x \in Held(file)
      PROVE  x \in Held(F) \/ (openTail /\ x = file[Len(file)])
  <2>1. PICK i \in 1..Len(file) : file[i] = x /\ x # 0
    BY HeldAt
  <2>2. CASE ~(openTail /\ i = Len(file))
    <3>1. F[i] = x /\ i \in 1..Len(F)
      BY <1>1, <1>2, <1>3, <2>1, <2>2
    <3> QED
      BY <1>1, <2>1, <3>1, HeldAt
  <2> QED
    BY <2>1, <2>2
<1>7. ASSUME NEW x \in Held(s)
      PROVE  x \in Held(F) \/ (openTail /\ x = s[1])
  <2>1. PICK j \in 1..Len(s) : s[j] = x /\ x # 0
    BY HeldAt
  <2>2. CASE ~(openTail /\ j = 1)
    <3> DEFINE i == j + Len(file) - (IF openTail THEN 1 ELSE 0)
    <3>1. i \in (Len(file) + 1)..Len(F) /\ i - Len(file) + (IF openTail THEN 1 ELSE 0) = j
      BY <1>1, <1>2, <2>2
    <3> HIDE DEF i
    <3>2. F[i] = x /\ i \in 1..Len(F)
      BY <1>1, <1>2, <1>3, <2>1, <3>1
    <3> QED
      BY <1>1, <2>1, <3>2, HeldAt
  <2> QED
    BY <2>1, <2>2
<1>8. ASSUME NEW x \in Held(F)
      PROVE  x \in Held(file) \/ x \in Held(s)
  <2>1. PICK i \in 1..Len(F) : F[i] = x /\ x # 0
    BY <1>1, HeldAt
  <2>2. CASE i <= Len(file)
    <3>1. i \in 1..Len(file) /\ file[i] = x
      BY <1>1, <1>2, <2>1, <2>2
    <3> QED
      BY <2>1, <3>1, HeldAt
  <2>3. CASE i > Len(file)
    <3> DEFINE j == i - Len(file) + (IF openTail THEN 1 ELSE 0)
    <3>1. i \in (Len(file) + 1)..Len(F) /\ j \in 1..Len(s)
      BY <1>1, <1>2, <1>3, <2>3
    <3>2. s[j] = x
      BY <1>1, <2>1, <3>1
    <3> HIDE DEF j
    <3> QED
      BY <2>1, <3>1, <3>2, HeldAt
  <2> QED
    BY <1>2, <1>3, <2>2, <2>3
<1> QED
  BY <1>1, <1>3, <1>4, <1>5, <1>6, <1>7, <1>8

\* Whether an append succeeds or is cut short: the file stays, or a part of the batch
\* is appended.
LEMMA Grown ==
  ASSUME TypeOK, NEW items \in Seq(Item), PutMany(items) \/ WriteTorn(items)
  PROVE  /\ openTail' \in BOOLEAN
         /\ \/ UNCHANGED fileVars
            \/ \E s \in Seq(Line) : PartOf(s, items) /\ file' = Appended(s)
<1>1. openTail \in BOOLEAN /\ file \in Seq(Line)
  BY DEF TypeOK, Line
<1>2. CASE PutMany(items)
  <2>1. CASE items = <<>>
    <3>1. file' = file
      BY <1>2, <2>1 DEF PutMany, Appended
    <3>2. openTail' = openTail
      BY <1>1, <1>2, <2>1 DEF PutMany
    <3> QED
      BY <1>1, <3>1, <3>2 DEF fileVars
  <2>2. CASE items # <<>>
    <3>1. PartOf(items, items) /\ items \in Seq(Line)
      BY <2>2, ItemsAreLines DEF PartOf
    <3>2. file' = Appended(items) /\ openTail' \in BOOLEAN
      BY <1>1, <1>2 DEF PutMany
    <3> QED
      BY <3>1, <3>2
  <2> QED
    BY <2>1, <2>2
<1>3. CASE WriteTorn(items)
  <2>1. openTail' \in BOOLEAN
    BY <1>1, <1>3 DEF WriteTorn
  <2> QED
    BY <1>1, <1>3, <2>1, TornWrite
<1> QED
  BY <1>2, <1>3

-----------------------------------------------------------------------------
(* The first inductive invariant: types, the front of the file, and who    *)
(* holds the batch and the buffer.                                         *)

\* The worker has an item in hand from get() to task_done, and acknowledges what it
\* has written.
HandInv ==
  /\ worker \in {"got", "write", "ack"} => inFlight # NoInFlight
  /\ worker = "ack" => inFlight \in written

\* A batch is recorded as long as its append is not settled; the drain task or the
\* unload awaits it; and once the unload has flushed nothing is left in the buffer.
FlushInv ==
  /\ append = "none" <=> batch = <<>>
  /\ append # "none" => \/ drain = "appending" /\ phase \in {"up", "stopping"}
                        \/ phase \in {"settle", "flushing"}
  /\ drain # "off" <=> phase \in {"up", "stopping"}
  /\ phase \in {"flushing", "wake", "join", "down"} => buffer = <<>>

Inv == TypeOK /\ FrontIsInFlight /\ HandInv /\ FlushInv

LEMMA InitInv == Init => Inv
<1> SUFFICES ASSUME Init PROVE Inv
  OBVIOUS
<1> USE DEF Init, PQInit, ListenerInit, NoInFlight
<1>1. <<>> \in Seq(0..MaxItems) /\ <<>> \in Seq(1..MaxItems)
  BY EmptySeq
<1>2. TypeOK
  <2>1. faults \in [FaultKinds -> Nat] /\ fired \in 0..MaxItems
    BY ListenerAssumption
  <2>2. file \in Seq(0..MaxItems) /\ buffer \in Seq(1..MaxItems) /\ batch \in Seq(1..MaxItems)
    BY <1>1
  <2> QED
    BY <2>1, <2>2, ListenerAssumption DEF TypeOK
<1> QED
  BY <1>2 DEF Inv, FrontIsInFlight, HandInv, FlushInv

\* An append keeps the type of the file, and the front line or spoils it.
LEMMA GrownType ==
  ASSUME TypeOK, NEW items \in Seq(Item), PutMany(items) \/ WriteTorn(items)
  PROVE  /\ file' \in Seq(Line) /\ openTail' \in BOOLEAN /\ (openTail' => file' # <<>>)
         /\ file # <<>> => file' # <<>> /\ file'[1] \in {file[1], 0}
<1>1. file \in Seq(Line) /\ openTail \in BOOLEAN /\ (openTail => file # <<>>)
  BY DEF TypeOK, Line
<1>2. CASE UNCHANGED fileVars
  BY <1>1, <1>2 DEF fileVars
<1>3. ASSUME NEW s \in Seq(Line), PartOf(s, items), file' = Appended(s)
      PROVE  /\ file' \in Seq(Line) /\ file' # <<>>
             /\ file # <<>> => file'[1] \in {file[1], 0}
  <2> DEFINE F == Appended(s)
  <2>1. F \in Seq(Line) /\ F # <<>> /\ (file # <<>> => F[1] \in {file[1], 0})
    BY <1>1, <1>3, AppendedHeld DEF PartOf
  <2>2. F = file'
    BY <1>3
  <2> HIDE DEF F
  <2> QED
    BY <2>1, <2>2
<1> QED
  BY <1>1, <1>2, <1>3, Grown

\* An append keeps the item in hand at the front of the file.
LEMMA GrownKeepsFront ==
  ASSUME Inv, NEW items \in Seq(Item), PutMany(items) \/ WriteTorn(items),
         UNCHANGED inFlight
  PROVE  /\ file' \in Seq(Line) /\ openTail' \in BOOLEAN /\ (openTail' => file' # <<>>)
         /\ FrontIsInFlight'
<1>1. inFlight # 0 => file # <<>> /\ file[1] \in {inFlight, 0}
  BY DEF Inv, FrontIsInFlight, NoInFlight, Malformed
<1>2. /\ file' \in Seq(Line) /\ openTail' \in BOOLEAN /\ (openTail' => file' # <<>>)
      /\ file # <<>> => file' # <<>> /\ file'[1] \in {file[1], 0}
  BY GrownType DEF Inv
<1> QED
  BY <1>1, <1>2 DEF FrontIsInFlight, NoInFlight, Malformed

\* The worker's steps.
LEMMA WorkerKeepsInv == Inv /\ (WorkerStep \/ WorkerDies \/ Respawn) => Inv'
<1> SUFFICES ASSUME Inv, WorkerStep \/ WorkerDies \/ Respawn PROVE Inv'
  OBVIOUS
<1>0. TypeOK /\ FrontIsInFlight /\ HandInv /\ FlushInv
  BY DEF Inv
<1> USE DEF stop
<1>1. CASE CheckStop
  BY <1>0, <1>1 DEF CheckStop, pqVars, listenerVars, Inv, TypeOK, FrontIsInFlight, HandInv,
     FlushInv
<1>2. CASE GetItem
  <2>1. CASE Get /\ worker' = "got"
    <3>1. /\ file' \in Seq(0..MaxItems) /\ inFlight' \in 0..MaxItems /\ inFlight' # 0
          /\ openTail' = openTail /\ (openTail => file' # <<>>)
          /\ file' # <<>> /\ file'[1] \in {inFlight', 0}
      <4>1. CASE inFlight # NoInFlight /\ UNCHANGED <<file, openTail, inFlight>>
        BY <1>0, <4>1 DEF TypeOK, FrontIsInFlight, NoInFlight, Malformed
      <4>2. ASSUME NEW k \in 0..Len(file), MalformedPrefix(k), k < Len(file),
                   file' = Kept(k), inFlight' = file[k + 1], openTail' = openTail
            PROVE  /\ file' \in Seq(0..MaxItems) /\ inFlight' \in 0..MaxItems
                   /\ inFlight' # 0 /\ file' # <<>> /\ file'[1] = inFlight'
        <5>0. file \in Seq(0..MaxItems) /\ Len(file) \in Nat
          BY <1>0 DEF TypeOK
        <5>1. /\ Len(file) \in Nat /\ k + 1 \in Int
              /\ \A i \in (k + 1)..Len(file) : file[i] \in 0..MaxItems
          <6>1. \A i \in 1..Len(file) : file[i] \in 0..MaxItems
            BY <5>0, ElementOfSeq
          <6>2. k + 1 \in Int /\ \A i \in (k + 1)..Len(file) : i \in 1..Len(file)
            BY <5>0
          <6> QED
            BY <5>0, <6>1, <6>2
        <5>2. /\ Kept(k) \in Seq(0..MaxItems) /\ Len(Kept(k)) = Len(file) - (k + 1) + 1
              /\ \A i \in 1..(Len(file) - (k + 1) + 1) : Kept(k)[i] = file[k + 1 + i - 1]
          BY <4>2, <5>1, SubSeqProperties DEF Kept
        <5>3. 1 \in 1..(Len(file) - (k + 1) + 1) /\ k + 1 + 1 - 1 = k + 1
              /\ k + 1 \in (k + 1)..Len(file)
          BY <4>2, <5>1
        <5>4. Kept(k)[1] = file[k + 1] /\ Kept(k) # <<>>
          BY <5>2, <5>3, EmptySeq
        <5> QED
          BY <4>2, <5>1, <5>2, <5>3, <5>4 DEF MalformedPrefix, Malformed
      <4> QED
        BY <1>0, <2>1, <4>1, <4>2 DEF Get, TypeOK
    <3> QED
      BY <1>0, <1>2, <2>1, <3>1 DEF GetItem, Get, listenerVars, Inv, TypeOK, FrontIsInFlight,
         HandInv, FlushInv, NoInFlight, Malformed
  <2>2. CASE GetBlocks /\ UNCHANGED worker
    <3>1. file' \in Seq(0..MaxItems)
      BY <2>2, EmptySeq DEF GetBlocks
    <3> QED
      BY <1>0, <1>2, <2>2, <3>1 DEF GetItem, GetBlocks, listenerVars, Inv, TypeOK,
         FrontIsInFlight, HandInv, FlushInv
  <2>3. CASE GetNone /\ worker' = "exited"
    BY <1>0, <1>2, <2>3 DEF GetItem, GetNone, listenerVars, Inv, TypeOK, FrontIsInFlight,
       HandInv, FlushInv
  <2> QED
    BY <1>2, <2>1, <2>2, <2>3 DEF GetItem
<1>3. CASE CheckItem
  BY <1>0, <1>3 DEF CheckItem, pqVars, listenerVars, Inv, TypeOK, FrontIsInFlight, HandInv,
     FlushInv
<1>4. CASE WriteItem
  <2>1. inFlight \in 1..MaxItems
    BY <1>0, <1>4 DEF TypeOK, HandInv, WriteItem, NoInFlight
  <2> QED
    BY <1>0, <1>4, <2>1 DEF WriteItem, pqVars, listenerVars, Inv, TypeOK, FrontIsInFlight,
       HandInv, FlushInv
<1>5. CASE InterruptWrite
  BY <1>0, <1>5 DEF InterruptWrite, pqVars, listenerVars, Inv, TypeOK, FrontIsInFlight,
     HandInv, FlushInv
<1>6. CASE Acknowledge
  <2>1. CASE stop
    BY <1>0, <1>6, <2>1 DEF Acknowledge, pqVars, listenerVars, Inv, TypeOK, FrontIsInFlight,
       HandInv, FlushInv
  <2>2. CASE ~stop
    <3>1. TaskDone /\ worker' = "check"
      BY <1>6, <2>2 DEF Acknowledge
    <3>2. /\ file' \in Seq(0..MaxItems) /\ openTail' \in BOOLEAN
          /\ openTail' => file' # <<>>
      <4>1. /\ Tail(file) \in Seq(0..MaxItems) /\ Len(Tail(file)) = Len(file) - 1
            /\ Len(file) \in Nat
        BY <1>0, <3>1, HeadTailProperties DEF TypeOK, TaskDone
      <4>2. ASSUME Len(file) > 1 PROVE Tail(file) # <<>>
        <5>1. Len(Tail(file)) # 0
          BY <4>1, <4>2
        <5> QED
          BY <5>1, EmptySeq
      <4> QED
        BY <1>0, <3>1, <4>1, <4>2 DEF TypeOK, TaskDone
    <3>3. size' \in Nat /\ inFlight' = 0 /\ blocked' = blocked
      BY <1>0, <3>1 DEF TypeOK, TaskDone, SizeAfterDone, NoInFlight
    <3>4. UNCHANGED <<listenerVars, written, phase, dropped, faults>>
      BY <1>6 DEF Acknowledge
    <3>5. TypeOK'
      BY <1>0, <3>1, <3>2, <3>3, <3>4, ListenerAssumption DEF TypeOK, listenerVars
    <3> QED
      BY <1>0, <3>1, <3>3, <3>4, <3>5 DEF listenerVars, Inv, FrontIsInFlight, HandInv,
         FlushInv, NoInFlight
  <2> QED
    BY <2>1, <2>2
<1>7. CASE WorkerDies
  BY <1>0, <1>7 DEF WorkerDies, Strike, pqVars, listenerVars, Inv, TypeOK, FrontIsInFlight,
     HandInv, FlushInv, FaultKinds
<1>8. CASE Respawn
  BY <1>0, <1>8 DEF Respawn, pqVars, listenerVars, Inv, TypeOK, FrontIsInFlight, HandInv,
     FlushInv
<1> QED
  BY <1>1, <1>2, <1>3, <1>4, <1>5, <1>6, <1>7, <1>8 DEF WorkerStep

\* The steps of the listener and of its appends.
LEMMA ListenerKeepsInv ==
  Inv /\ (RegistryEvent \/ DrainStep \/ AppendReturns \/ AppendRaises) => Inv'
<1> SUFFICES ASSUME Inv, RegistryEvent \/ DrainStep \/ AppendReturns \/ AppendRaises
             PROVE  Inv'
  OBVIOUS
<1>0. TypeOK /\ FrontIsInFlight /\ HandInv /\ FlushInv
  BY DEF Inv
<1>1. CASE RegistryEvent
  <2>1. fired' \in 1..MaxItems /\ fired' = fired + 1
    BY <1>0, <1>1, ListenerAssumption DEF RegistryEvent, Enqueue, TypeOK
  <2>2. buffer' \in Seq(1..MaxItems)
    BY <1>0, <1>1, <2>1, AppendProperties DEF RegistryEvent, Enqueue, TypeOK
  <2> QED
    BY <1>0, <1>1, <2>1, <2>2 DEF RegistryEvent, Enqueue, pqVars, Inv, TypeOK,
       FrontIsInFlight, HandInv, FlushInv
<1>2. CASE StartFlush /\ UNCHANGED <<worker, written, phase, dropped, faults>>
  <2>1. append = "none" /\ phase \in {"up", "stopping"}
    BY <1>0, <1>2 DEF StartFlush, FlushInv
  <2>2. <<>> \in Seq(1..MaxItems)
    BY EmptySeq
  <2> QED
    BY <1>0, <1>2, <2>1, <2>2 DEF StartFlush, SwapBuffer, pqVars, Inv, TypeOK,
       FrontIsInFlight, HandInv, FlushInv
<1>3. CASE FinishFlush /\ UNCHANGED <<worker, written, phase, dropped, faults>>
  <2>1. buffer' \in Seq(1..MaxItems) /\ <<>> \in Seq(1..MaxItems)
    BY <1>0, <1>3, ConcatProperties, EmptySeq DEF FinishFlush, Settle, AfterAppend, Requeued,
       TypeOK
  <2>2. phase \in {"up", "stopping"}
    BY <1>0, <1>3 DEF FinishFlush, FlushInv
  <2> QED
    BY <1>0, <1>3, <2>1, <2>2 DEF FinishFlush, Settle, pqVars, Inv, TypeOK, FrontIsInFlight,
       HandInv, FlushInv
<1>4. CASE EndBackoff /\ UNCHANGED <<worker, written, phase, dropped, faults>>
  BY <1>0, <1>4 DEF EndBackoff, pqVars, Inv, TypeOK, FrontIsInFlight, HandInv, FlushInv
<1>5. CASE AppendReturns
  <2>1. PutMany(batch) /\ batch \in Seq(1..MaxItems)
    BY <1>0, <1>5 DEF AppendReturns, AppendSucceeds, TypeOK
  <2>2. UNCHANGED inFlight /\ size' \in Nat /\ blocked' \in {"no", "waiting", "woken"}
    BY <1>0, <2>1 DEF PutMany, NotifyAll, TypeOK
  <2>3. /\ file' \in Seq(Line) /\ openTail' \in BOOLEAN /\ (openTail' => file' # <<>>)
        /\ FrontIsInFlight'
    BY <2>1, <2>2, GrownKeepsFront DEF Item
  <2> QED
    BY <1>0, <1>5, <2>2, <2>3 DEF AppendReturns, AppendSucceeds, Inv, TypeOK, HandInv,
       FlushInv, Line
<1>6. CASE AppendRaises
  <2>1. WriteTorn(batch) /\ batch \in Seq(1..MaxItems) /\ UNCHANGED <<inFlight, size, blocked>>
    BY <1>0, <1>6 DEF AppendRaises, AppendFails, PutManyFails, TypeOK
  <2>2. /\ file' \in Seq(Line) /\ openTail' \in BOOLEAN /\ (openTail' => file' # <<>>)
        /\ FrontIsInFlight'
    BY <2>1, GrownKeepsFront DEF Item
  <2>3. faults' \in [FaultKinds -> Nat]
    BY <1>0, <1>6 DEF AppendRaises, Strike, FaultKinds, TypeOK
  <2> QED
    BY <1>0, <1>6, <2>1, <2>2, <2>3 DEF AppendRaises, AppendFails, Inv, TypeOK, HandInv,
       FlushInv, Line
<1> QED
  BY <1>1, <1>2, <1>3, <1>4, <1>5, <1>6 DEF DrainStep

\* The steps of an unload and a reload, and a crash.
LEMMA EntryKeepsInv == Inv /\ (BeginUnload \/ UnloadStep \/ Crash) => Inv'
<1> SUFFICES ASSUME Inv, BeginUnload \/ UnloadStep \/ Crash PROVE Inv'
  OBVIOUS
<1>0. TypeOK /\ FrontIsInFlight /\ HandInv /\ FlushInv
  BY DEF Inv
<1>e. <<>> \in Seq(1..MaxItems)
  BY EmptySeq
<1>1. CASE BeginUnload
  BY <1>0, <1>1 DEF BeginUnload, Strike, FaultKinds, pqVars, listenerVars, Inv, TypeOK,
     FrontIsInFlight, HandInv, FlushInv
<1>2. CASE StopListener
  BY <1>0, <1>2 DEF StopListener, CancelDrain, pqVars, Inv, TypeOK, FrontIsInFlight, HandInv,
     FlushInv
<1>3. CASE SettleInflight
  <2>1. buffer' \in Seq(1..MaxItems)
    BY <1>0, <1>3, ConcatProperties DEF SettleInflight, Settle, AfterAppend, Requeued, TypeOK
  <2> QED
    BY <1>0, <1>3, <1>e, <2>1 DEF SettleInflight, Settle, pqVars, Inv, TypeOK,
       FrontIsInFlight, HandInv, FlushInv
<1>4. CASE FinalFlush
  <2>1. append = "none" /\ batch = <<>>
    BY <1>0, <1>4 DEF FinalFlush, FlushInv
  <2> QED
    BY <1>0, <1>4, <1>e, <2>1 DEF FinalFlush, SwapBuffer, pqVars, Inv, TypeOK,
       FrontIsInFlight, HandInv, FlushInv
<1>5. CASE FinalFlushReturns
  <2>1. buffer' \in Seq(1..MaxItems)
    BY <1>0, <1>5, ConcatProperties DEF FinalFlushReturns, Settle, AfterAppend, Requeued,
       TypeOK
  <2>2. phase' = "wake" => buffer' = <<>>
    BY <1>0, <1>5 DEF FinalFlushReturns, Settle, AfterAppend, FlushInv
  <2> QED
    BY <1>0, <1>5, <1>e, <2>1, <2>2 DEF FinalFlushReturns, Settle, pqVars, Inv, TypeOK,
       FrontIsInFlight, HandInv, FlushInv
<1>6. CASE FlushBlocking
  <2>1. /\ PutMany(buffer) \/ WriteTorn(buffer)
        /\ buffer \in Seq(1..MaxItems) /\ UNCHANGED inFlight
        /\ size' \in Nat /\ blocked' \in {"no", "waiting", "woken"}
    BY <1>0, <1>6 DEF FlushBlocking, PutMany, PutManyFails, NotifyAll, TypeOK
  <2>2. /\ file' \in Seq(Line) /\ openTail' \in BOOLEAN /\ (openTail' => file' # <<>>)
        /\ FrontIsInFlight'
    BY <2>1, GrownKeepsFront DEF Item
  <2>3. faults' \in [FaultKinds -> Nat]
    BY <1>0, <1>6 DEF FlushBlocking, Strike, FaultKinds, TypeOK
  <2>4. dropped' \subseteq 1..MaxItems
    <3>1. Held(buffer) \subseteq 1..MaxItems
      BY <2>1, ItemsAreLines DEF Item
    <3> QED
      BY <1>0, <1>6, <3>1 DEF FlushBlocking, TypeOK
  <2> QED
    BY <1>0, <1>6, <1>e, <2>1, <2>2, <2>3, <2>4 DEF FlushBlocking, Inv, TypeOK, HandInv,
       FlushInv, Line
<1>7. CASE WakeConsumer
  BY <1>0, <1>7 DEF WakeConsumer, NotifyAll, listenerVars, Inv, TypeOK, FrontIsInFlight,
     HandInv, FlushInv
<1>8. CASE JoinWorker
  BY <1>0, <1>8 DEF JoinWorker, pqVars, listenerVars, Inv, TypeOK, FrontIsInFlight, HandInv,
     FlushInv
<1>9. CASE Reload
  <2>1. Len(file) \in Nat
    BY <1>0 DEF TypeOK
  <2> QED
    BY <1>0, <1>9, <1>e, <2>1, ListenerAssumption DEF Reload, Setup, Open, Inv, TypeOK, FrontIsInFlight, HandInv,
     FlushInv, NoInFlight
<1>10. CASE Crash
  <2>1. file' \in Seq(Line) /\ openTail' \in BOOLEAN /\ (openTail' => file' # <<>>)
    <3>1. CASE append = "running"
      <4>1. WriteTorn(batch) /\ batch \in Seq(Item)
        BY <1>0, <1>10, <3>1 DEF Crash, TypeOK, Item
      <4> QED
        BY <1>0, <4>1, GrownType
    <3>2. CASE append # "running"
      BY <1>0, <1>10, <3>2 DEF Crash, fileVars, TypeOK, Line
    <3> QED
      BY <3>1, <3>2
  <2>2. dropped' \subseteq 1..MaxItems
    <3>1. Memory \subseteq 1..MaxItems
      BY <1>0, ItemsAreLines DEF Memory, TypeOK, Item
    <3> QED
      BY <1>0, <1>10, <3>1 DEF Crash, TypeOK
  <2>3. faults' \in [FaultKinds -> Nat]
    BY <1>0, <1>10 DEF Crash, Strike, FaultKinds, TypeOK
  <2>4. Len(file') \in Nat
    BY <2>1
  <2> QED
    BY <1>0, <1>10, <1>e, <2>1, <2>2, <2>3, <2>4, ListenerAssumption DEF Crash, Setup, Open,
       Inv, TypeOK, FrontIsInFlight, HandInv, FlushInv, NoInFlight, Line
<1> QED
  BY <1>1, <1>2, <1>3, <1>4, <1>5, <1>6, <1>7, <1>8, <1>9, <1>10 DEF UnloadStep

LEMMA NextInv == Inv /\ [Next]_vars => Inv'
<1> SUFFICES ASSUME Inv, [Next]_vars PROVE Inv'
  OBVIOUS
<1>1. CASE Next
  BY <1>1, WorkerKeepsInv, ListenerKeepsInv, EntryKeepsInv DEF Next, UnloadStep
<1>2. CASE UNCHANGED vars
  BY <1>2 DEF vars, pqVars, listenerVars, Inv, TypeOK, FrontIsInFlight, HandInv, FlushInv
<1> QED
  BY <1>1, <1>2

LEMMA InvHolds == Spec => []Inv
<1> QED
  BY InitInv, NextInv, PTL DEF Spec

\* The types of the pipeline: the queue depth never goes below zero, an open line is a
\* line of the file (persistent_queue.py 102-224).
THEOREM TypeCorrect == Spec => []TypeOK
<1>1. Inv => TypeOK
  BY DEF Inv
<1> QED
  BY <1>1, InvHolds, PTL

\* The item task_done removes is the item get() returned, or a line an append has spoilt
\* (persistent_queue.py 179-192).
THEOREM FrontStaysInFlight == Spec => []FrontIsInFlight
<1>1. Inv => FrontIsInFlight
  BY DEF Inv
<1> QED
  BY <1>1, InvHolds, PTL

-----------------------------------------------------------------------------
(* The order of the items in memory, and what a step does to the items.    *)

Rising(s) == \A i, j \in 1..Len(s) : i < j => s[i] < s[j]

\* Every item of s is older than every item of t.
Before(s, t) == \A i \in 1..Len(s), j \in 1..Len(t) : s[i] < t[j]

\* The batch, then the buffer, in the order of the events, none of them from the future.
MemoryInv ==
  /\ Rising(batch) /\ Rising(buffer) /\ Before(batch, buffer)
  /\ \A i \in 1..Len(batch) : batch[i] <= fired
  /\ \A i \in 1..Len(buffer) : buffer[i] <= fired

\* A batch that is put back in front of the buffer keeps the order.
LEMMA RequeueInOrder ==
  ASSUME NEW s \in Seq(Item), NEW t \in Seq(Item), Rising(s), Rising(t), Before(s, t),
         NEW n \in Nat, \A i \in 1..Len(s) : s[i] <= n, \A i \in 1..Len(t) : t[i] <= n
  PROVE  Rising(s \o t) /\ \A i \in 1..Len(s \o t) : (s \o t)[i] <= n
<1> DEFINE u == s \o t
<1>1. /\ Len(u) = Len(s) + Len(t) /\ Len(s) \in Nat /\ Len(t) \in Nat
      /\ \A i \in 1..(Len(s) + Len(t)) : u[i] = IF i <= Len(s) THEN s[i] ELSE t[i - Len(s)]
  BY ConcatProperties
<1> HIDE DEF u
<1>2. ASSUME NEW i \in 1..Len(u)
      PROVE  u[i] <= n
  <2>1. CASE i <= Len(s)
    BY <1>1, <2>1
  <2>2. CASE i > Len(s)
    <3>1. i - Len(s) \in 1..Len(t)
      BY <1>1, <2>2
    <3> QED
      BY <1>1, <2>2, <3>1
  <2> QED
    BY <1>1, <2>1, <2>2
<1>3. ASSUME NEW i \in 1..Len(u), NEW j \in 1..Len(u), i < j
      PROVE  u[i] < u[j]
  <2>1. CASE j <= Len(s)
    BY <1>1, <1>3, <2>1 DEF Rising
  <2>2. CASE i <= Len(s) /\ j > Len(s)
    <3>1. j - Len(s) \in 1..Len(t) /\ i \in 1..Len(s)
      BY <1>1, <2>2
    <3> QED
      BY <1>1, <2>2, <3>1 DEF Before
  <2>3. CASE i > Len(s)
    <3>1. j - Len(s) \in 1..Len(t) /\ i - Len(s) \in 1..Len(t) /\ i - Len(s) < j - Len(s)
      BY <1>1, <1>3, <2>3
    <3> QED
      BY <1>1, <1>3, <2>3, <3>1 DEF Rising
  <2> QED
    BY <1>1, <1>3, <2>1, <2>2, <2>3
<1> QED
  BY <1>2, <1>3 DEF Rising, u

\* A registry event is younger than everything before it.
LEMMA EventInOrder ==
  ASSUME NEW t \in Seq(Item), NEW n \in Nat, n + 1 \in Item, Rising(t),
         \A i \in 1..Len(t) : t[i] <= n
  PROVE  /\ Rising(Append(t, n + 1))
         /\ \A i \in 1..Len(Append(t, n + 1)) : Append(t, n + 1)[i] <= n + 1
         /\ \A s \in Seq(Item) : Before(s, t) /\ (\A i \in 1..Len(s) : s[i] <= n)
                                   => Before(s, Append(t, n + 1))
<1> DEFINE u == Append(t, n + 1)
<1>1. /\ Len(u) = Len(t) + 1 /\ Len(t) \in Nat
      /\ (\A i \in 1..Len(t) : u[i] = t[i]) /\ u[Len(t) + 1] = n + 1
      /\ \A i \in 1..Len(t) : t[i] \in Nat
  <2>1. \A i \in 1..Len(t) : t[i] \in Nat
    BY ItemsAreLines DEF Item
  <2> QED
    BY <2>1, AppendProperties
<1> HIDE DEF u
<1>2. Rising(u)
  BY <1>1 DEF Rising
<1>3. \A i \in 1..Len(u) : u[i] <= n + 1
  BY <1>1
<1>4. ASSUME NEW s \in Seq(Item), Before(s, t), \A i \in 1..Len(s) : s[i] <= n
      PROVE  Before(s, u)
  <2>1. \A i \in 1..Len(s) : s[i] \in Nat
    BY ItemsAreLines DEF Item
  <2> SUFFICES ASSUME NEW i \in 1..Len(s), NEW j \in 1..Len(u) PROVE s[i] < u[j]
    BY DEF Before
  <2>2. CASE j \in 1..Len(t)
    <3>1. u[j] = t[j] /\ s[i] < t[j]
      BY <1>1, <1>4, <2>2 DEF Before
    <3> QED
      BY <3>1
  <2>3. CASE j \notin 1..Len(t)
    <3>1. j = Len(t) + 1 /\ s[i] <= n /\ s[i] \in Nat
      BY <1>1, <1>4, <2>1, <2>3
    <3> QED
      BY <1>1, <3>1
  <2> QED
    BY <2>2, <2>3
<1> QED
  BY <1>2, <1>3, <1>4 DEF u

LEMMA InitMemory == Init => MemoryInv
<1> SUFFICES ASSUME Init PROVE MemoryInv
  OBVIOUS
<1>1. Len(batch) = 0 /\ Len(buffer) = 0
  BY DEF Init, ListenerInit
<1> QED
  BY <1>1 DEF MemoryInv, Rising, Before

LEMMA SwapKeepsMemory ==
  ASSUME Inv, MemoryInv, SwapBuffer, UNCHANGED fired
  PROVE  MemoryInv'
<1>1. batch' = buffer /\ Len(buffer') = 0
  BY DEF SwapBuffer
<1> QED
  BY <1>1 DEF MemoryInv, Rising, Before

LEMMA SettleKeepsMemory ==
  ASSUME Inv, MemoryInv, Settle, UNCHANGED fired
  PROVE  MemoryInv'
<1>1. batch \in Seq(Item) /\ buffer \in Seq(Item) /\ fired \in Nat
  BY DEF Inv, TypeOK, Item
<1>2. Rising(buffer') /\ \A i \in 1..Len(buffer') : buffer'[i] <= fired
  <2>1. CASE append = "failed"
    BY <1>1, <2>1, RequeueInOrder DEF Settle, AfterAppend, Requeued, MemoryInv
  <2>2. CASE append # "failed"
    BY <2>2 DEF Settle, AfterAppend, MemoryInv
  <2> QED
    BY <2>1, <2>2
<1>3. Len(batch') = 0
  BY DEF Settle
<1> QED
  BY <1>2, <1>3 DEF MemoryInv, Rising, Before

LEMMA NextMemory == Inv /\ MemoryInv /\ [Next]_vars => MemoryInv'
<1> SUFFICES ASSUME Inv, MemoryInv, [Next]_vars PROVE MemoryInv'
  OBVIOUS
<1>0. ASSUME UNCHANGED <<batch, buffer, fired>> PROVE MemoryInv'
  BY <1>0 DEF MemoryInv, Rising, Before
<1>1. CASE WorkerStep \/ WorkerDies \/ Respawn
  BY <1>0, <1>1 DEF WorkerStep, CheckStop, GetItem, CheckItem, WriteItem, InterruptWrite,
     Acknowledge, WorkerDies, Respawn, listenerVars
<1>2. CASE RegistryEvent
  <2>1. /\ batch' = batch /\ buffer' = Append(buffer, fired + 1) /\ fired' = fired + 1
        /\ batch \in Seq(Item) /\ buffer \in Seq(Item) /\ fired \in Nat /\ fired + 1 \in Item
    BY <1>2, ListenerAssumption DEF RegistryEvent, Enqueue, Inv, TypeOK, Item
  <2>2. /\ Rising(buffer') /\ Before(batch, buffer')
        /\ \A i \in 1..Len(buffer') : buffer'[i] <= fired + 1
    BY <2>1, EventInOrder DEF MemoryInv
  <2>3. \A i \in 1..Len(batch) : batch[i] <= fired + 1
    <3>1. \A i \in 1..Len(batch) : batch[i] \in Nat
      BY <2>1, ItemsAreLines DEF Item
    <3> QED
      BY <2>1, <3>1 DEF MemoryInv
  <2> QED
    BY <2>1, <2>2, <2>3 DEF MemoryInv
<1>3. CASE DrainStep
  BY <1>0, <1>3, SwapKeepsMemory, SettleKeepsMemory DEF DrainStep, StartFlush, FinishFlush,
     EndBackoff
<1>4. CASE AppendReturns \/ AppendRaises
  BY <1>0, <1>4 DEF AppendReturns, AppendSucceeds, AppendRaises, AppendFails
<1>5. CASE BeginUnload \/ StopListener \/ WakeConsumer \/ JoinWorker
  BY <1>0, <1>5 DEF BeginUnload, StopListener, CancelDrain, WakeConsumer, JoinWorker,
     listenerVars
<1>6. CASE SettleInflight \/ FinalFlushReturns
  BY <1>6, SettleKeepsMemory DEF SettleInflight, FinalFlushReturns
<1>7. CASE FinalFlush
  BY <1>0, <1>7, SwapKeepsMemory DEF FinalFlush
<1>8. CASE FlushBlocking
  <2>1. Len(buffer') = 0 /\ batch' = batch /\ fired' = fired
    BY <1>8 DEF FlushBlocking
  <2> QED
    BY <2>1 DEF MemoryInv, Rising, Before
<1>9. CASE Reload \/ Crash
  <2>1. Len(buffer') = 0 /\ Len(batch') = 0
    BY <1>9 DEF Reload, Crash, Setup
  <2> QED
    BY <2>1 DEF MemoryInv, Rising, Before
<1>10. CASE UNCHANGED vars
  BY <1>0, <1>10 DEF vars, listenerVars
<1> QED
  BY <1>1, <1>2, <1>3, <1>4, <1>5, <1>6, <1>7, <1>8, <1>9, <1>10 DEF Next

-----------------------------------------------------------------------------
(* What a step does to the items: the few kinds of it.                     *)

Cuts == faults["append"] + faults["crash"]

LinesKept == UNCHANGED <<file, openTail, inFlight>>
RestKept == UNCHANGED <<written, dropped, fired, Memory, Cuts>>

\* A step that moves no item in or out of the file, the memory or the worker's hands,
\* except that a reload forgets what was in hand.
Stays == RestKept /\ UNCHANGED fileVars /\ inFlight' \in {inFlight, 0}

\* A registry event is buffered.
Arrives ==
  /\ LinesKept /\ UNCHANGED <<written, dropped, Cuts>>
  /\ fired' = fired + 1 /\ Memory' = Memory \cup {fired + 1}

\* get() drops malformed lines and takes the line behind them, if there is one.
Takes ==
  /\ RestKept
  /\ \E k \in 0..Len(file) :
       /\ MalformedPrefix(k) /\ file' = Kept(k)
       /\ openTail' = (openTail /\ k < Len(file))
       /\ inFlight' = IF k < Len(file) THEN file[k + 1] ELSE 0

Writes ==
  /\ LinesKept /\ UNCHANGED <<dropped, fired, Memory, Cuts>>
  /\ inFlight # 0 /\ written' = written \cup {inFlight}

Finishes ==
  /\ RestKept /\ TaskDone
  /\ inFlight # 0 /\ inFlight \in written

\* The items that an append takes from memory are in order, and the others younger.
Oldest(items) ==
  /\ items \in Seq(Item) /\ Rising(items)
  /\ \A x \in Held(items) : x \in Memory
  /\ \A m \in Memory : m \in Held(items) \/ \A i \in 1..Len(items) : items[i] < m

Lands(items) ==
  /\ UNCHANGED <<inFlight, written, dropped, fired, Cuts>>
  /\ items # <<>> /\ Oldest(items)
  /\ file' = Appended(items) /\ openTail' = FALSE
  /\ \A m \in Memory' : m \in Memory /\ \A i \in 1..Len(items) : items[i] < m
  /\ \A m \in Memory : m \in Memory' \/ m \in Held(items)

\* An append is cut short, or the process dies: what memory loses is given up.
Tears(items) ==
  /\ UNCHANGED <<written, fired>> /\ inFlight' \in {inFlight, 0}
  /\ Cuts' = Cuts + 1 /\ openTail' \in BOOLEAN
  /\ Oldest(items)
  /\ \/ UNCHANGED fileVars
     \/ \E s \in Seq(Line) : PartOf(s, items) /\ file' = Appended(s)
  /\ \A m \in Memory' : m \in Memory
  /\ \A m \in Memory : m \in Memory' \/ m \in dropped'
  /\ \A m \in dropped : m \in dropped'

Effect ==
  \/ Stays \/ Arrives \/ Takes \/ Writes \/ Finishes
  \/ \E items \in Seq(Item) : Lands(items) \/ Tears(items)

\* Swapping the buffer moves no item out of memory ...
LEMMA SwapMemory ==
  ASSUME Inv, SwapBuffer, append = "none"
  PROVE  Memory' = Memory
<1>1. Held(batch) = {} /\ Held(<<>>) = {}
  BY DEF Inv, FlushInv, Held, ToSet
<1> QED
  BY <1>1 DEF SwapBuffer, Memory

\* ... nor does settling an append.
LEMMA SettleMemory ==
  ASSUME Inv, Settle
  PROVE  Memory' = Memory
<1>1. Held(<<>>) = {}
  BY DEF Held, ToSet
<1>2. batch \in Seq(Item) /\ buffer \in Seq(Item)
  BY DEF Inv, TypeOK, Item
<1>3. Memory' = Held(buffer')
  BY <1>1 DEF Settle, Memory
<1>4. CASE append = "failed"
  <2>1. buffer' = batch \o buffer
    BY <1>4 DEF Settle, AfterAppend, Requeued
  <2>2. \A x : x \in Held(batch \o buffer) <=> x \in Held(batch) \/ x \in Held(buffer)
    <3> DEFINE u == batch \o buffer
    <3>1. /\ u \in Seq(Item) /\ Len(u) = Len(batch) + Len(buffer)
          /\ \A i \in 1..(Len(batch) + Len(buffer)) :
               u[i] = IF i <= Len(batch) THEN batch[i] ELSE buffer[i - Len(batch)]
      BY <1>2, ConcatProperties
    <3> HIDE DEF u
    <3>2. /\ \A x : x \in Held(u) <=> \E i \in 1..Len(u) : u[i] = x
          /\ \A x : x \in Held(batch) <=> \E i \in 1..Len(batch) : batch[i] = x
          /\ \A x : x \in Held(buffer) <=> \E i \in 1..Len(buffer) : buffer[i] = x
      BY <1>2, <3>1, ItemsAreLines
    <3>3. Len(batch) \in Nat /\ Len(buffer) \in Nat
      BY <1>2
    <3>4. ASSUME NEW x \in Held(u) PROVE x \in Held(batch) \/ x \in Held(buffer)
      <4>1. PICK i \in 1..Len(u) : u[i] = x
        BY <3>2
      <4>2. CASE i <= Len(batch)
        BY <3>1, <3>2, <3>3, <4>1, <4>2
      <4>3. CASE i > Len(batch)
        <5>1. i - Len(batch) \in 1..Len(buffer) /\ buffer[i - Len(batch)] = x
          BY <3>1, <3>3, <4>1, <4>3
        <5> QED
          BY <3>2, <5>1
      <4> QED
        BY <3>1, <3>3, <4>2, <4>3
    <3>5. ASSUME NEW x \in Held(batch) PROVE x \in Held(u)
      <4>1. PICK i \in 1..Len(batch) : batch[i] = x
        BY <3>2
      <4> QED
        BY <3>1, <3>2, <3>3, <4>1
    <3>6. ASSUME NEW x \in Held(buffer) PROVE x \in Held(u)
      <4>1. PICK i \in 1..Len(buffer) : buffer[i] = x
        BY <3>2
      <4>2. i + Len(batch) \in 1..Len(u) /\ u[i + Len(batch)] = x
        BY <3>1, <3>3, <4>1
      <4> QED
        BY <3>2, <4>2
    <3> QED
      BY <3>4, <3>5, <3>6 DEF u
  <2> QED
    BY <1>3, <1>4, <2>1, <2>2 DEF Memory
<1>5. CASE append = "none"
  <2>1. Held(batch) = {}
    BY <1>1, <1>5 DEF Inv, FlushInv
  <2> QED
    BY <1>3, <1>5, <2>1 DEF Memory, Settle, AfterAppend
<1>6. CASE append = "done"
  BY <1>3, <1>6 DEF Memory, Settle, AfterAppend
<1> QED
  BY <1>4, <1>5, <1>6 DEF Settle, Inv, TypeOK

\* The batch is the oldest part of memory while its append is not done, and the buffer
\* is when no append is under way.
LEMMA MemoryOldest ==
  ASSUME Inv, MemoryInv
  PROVE  /\ append # "done" => Oldest(batch)
         /\ append = "none" => Oldest(buffer)
         /\ append # "none" => \A m \in Held(buffer) : \A i \in 1..Len(batch) : batch[i] < m
<1>1. batch \in Seq(Item) /\ buffer \in Seq(Item)
  BY DEF Inv, TypeOK, Item
<1>2. /\ \A x : x \in Held(batch) <=> \E i \in 1..Len(batch) : batch[i] = x
      /\ \A x : x \in Held(buffer) <=> \E i \in 1..Len(buffer) : buffer[i] = x
  BY <1>1, ItemsAreLines
<1>3. \A m \in Held(buffer) : \A i \in 1..Len(batch) : batch[i] < m
  BY <1>2 DEF MemoryInv, Before
<1>4. append = "none" => Held(batch) = {}
  BY DEF Inv, FlushInv, Held, ToSet
<1>5. append # "done" => Oldest(batch)
  BY <1>1, <1>3 DEF Oldest, Memory, MemoryInv
<1>6. append = "none" => Oldest(buffer)
  BY <1>1, <1>4 DEF Oldest, Memory, MemoryInv
<1> QED
  BY <1>3, <1>5, <1>6

\* Every fault but an append's and a crash leaves the count of cut writes alone, and
\* those raise it by one.
LEMMA StrikeCuts ==
  ASSUME TypeOK, NEW kind \in FaultKinds, Strike(kind)
  PROVE  Cuts' = IF kind \in {"append", "crash"} THEN Cuts + 1 ELSE Cuts
<1>1. faults' = [faults EXCEPT ![kind] = faults[kind] + 1] /\ faults \in [FaultKinds -> Nat]
  BY DEF Strike, TypeOK
<1>2. /\ faults'["append"] = IF kind = "append" THEN faults["append"] + 1 ELSE faults["append"]
      /\ faults'["crash"] = IF kind = "crash" THEN faults["crash"] + 1 ELSE faults["crash"]
      /\ faults["append"] \in Nat /\ faults["crash"] \in Nat
  BY <1>1 DEF FaultKinds
<1> QED
  BY <1>2 DEF Cuts

\* A step that leaves the file, the memory and the worker's hand alone.
LEMMA Still ==
  ASSUME UNCHANGED <<file, openTail, inFlight, written, dropped, fired, buffer, batch, append>>,
         Cuts' = Cuts
  PROVE  Effect
BY DEF Effect, Stays, RestKept, fileVars, Memory

LEMMA WorkerEffect ==
  ASSUME Inv, WorkerStep \/ WorkerDies \/ Respawn
  PROVE  Effect
<1>0. TypeOK /\ HandInv
  BY DEF Inv
<1>1. UNCHANGED faults => Cuts' = Cuts
  BY DEF Cuts
<1>2. UNCHANGED listenerVars => UNCHANGED <<fired, buffer, batch, append>> /\ Memory' = Memory
  BY DEF listenerVars, Memory
<1>3. CASE CheckStop \/ CheckItem \/ InterruptWrite \/ Respawn
  BY <1>1, <1>2, <1>3, Still DEF CheckStop, CheckItem, InterruptWrite, Respawn, pqVars
<1>4. CASE GetItem
  <2>1. RestKept
    BY <1>1, <1>2, <1>4 DEF GetItem, RestKept
  <2>2. Len(file) \in Nat /\ openTail \in BOOLEAN
    BY <1>0 DEF TypeOK
  <2>3. CASE Get
    <3>1. CASE UNCHANGED <<file, openTail, inFlight>>
      BY <2>1, <3>1 DEF Effect, Stays, fileVars
    <3>2. ASSUME NEW k \in 0..Len(file), MalformedPrefix(k), k < Len(file),
                 file' = Kept(k), inFlight' = file[k + 1], openTail' = openTail
          PROVE  Takes
      BY <2>1, <2>2, <3>2 DEF Takes
    <3> QED
      BY <2>3, <3>1, <3>2 DEF Get, Effect
  <2>4. CASE GetBlocks
    <3>1. Kept(Len(file)) = <<>>
      BY <2>2, SubSeqEmpty DEF Kept
    <3>2. /\ MalformedPrefix(Len(file)) /\ file' = Kept(Len(file)) /\ Len(file) \in 0..Len(file)
          /\ openTail' = (openTail /\ Len(file) < Len(file))
          /\ inFlight' = IF Len(file) < Len(file) THEN file[Len(file) + 1] ELSE 0
      <4>1. ~(Len(file) < Len(file)) /\ Len(file) \in 0..Len(file)
        BY <2>2
      <4>2. openTail' = (openTail /\ Len(file) < Len(file))
        BY <2>4, <4>1 DEF GetBlocks
      <4>3. inFlight' = 0
        BY <2>4 DEF GetBlocks, NoInFlight
      <4> QED
        BY <2>4, <3>1, <4>1, <4>2, <4>3 DEF GetBlocks
    <3> QED
      BY <2>1, <3>2 DEF Takes, Effect
  <2>5. CASE GetNone
    BY <2>1, <2>5 DEF GetNone, Effect, Stays, fileVars
  <2> QED
    BY <1>4, <2>3, <2>4, <2>5 DEF GetItem
<1>5. CASE WriteItem
  BY <1>0, <1>1, <1>2, <1>5 DEF WriteItem, HandInv, Effect, Writes, LinesKept, pqVars,
     NoInFlight
<1>6. CASE Acknowledge
  <2>1. CASE stop
    BY <1>1, <1>2, <1>6, <2>1, Still DEF Acknowledge, pqVars
  <2>2. CASE ~stop
    BY <1>0, <1>1, <1>2, <1>6, <2>2 DEF Acknowledge, HandInv, Effect, Finishes, RestKept,
       NoInFlight
  <2> QED
    BY <2>1, <2>2
<1>7. CASE WorkerDies
  <2>1. Cuts' = Cuts
    BY <1>0, <1>7, StrikeCuts DEF WorkerDies, FaultKinds
  <2> QED
    BY <1>2, <1>7, <2>1, Still DEF WorkerDies, pqVars
<1> QED
  BY <1>3, <1>4, <1>5, <1>6, <1>7 DEF WorkerStep

LEMMA ListenerEffect ==
  ASSUME Inv, MemoryInv, RegistryEvent \/ DrainStep \/ AppendReturns \/ AppendRaises
  PROVE  Effect
<1>0. /\ TypeOK /\ FlushInv /\ batch \in Seq(Item) /\ buffer \in Seq(Item)
      /\ \A x : x \in Held(batch) <=> \E i \in 1..Len(batch) : batch[i] = x
      /\ \A x : x \in Held(buffer) <=> \E i \in 1..Len(buffer) : buffer[i] = x
  BY ItemsAreLines DEF Inv, TypeOK, Item
<1>1. UNCHANGED faults => Cuts' = Cuts
  BY DEF Cuts
<1>2. CASE RegistryEvent
  <2> DEFINE u == Append(buffer, fired + 1)
  <2>1. /\ fired' = fired + 1 /\ fired + 1 \in Item /\ Len(buffer) \in Nat
        /\ UNCHANGED <<batch, append, pqVars, worker, written, phase, dropped, faults>>
        /\ buffer' = u
    BY <1>0, <1>2, ListenerAssumption DEF RegistryEvent, Enqueue, TypeOK, Item
  <2>2. /\ u \in Seq(Item) /\ Len(u) = Len(buffer) + 1
        /\ (\A i \in 1..Len(buffer) : u[i] = buffer[i]) /\ u[Len(buffer) + 1] = fired + 1
    BY <1>0, <2>1, AppendProperties
  <2> HIDE DEF u
  <2>3. \A x : x \in Held(u) <=> \E i \in 1..Len(u) : u[i] = x
    BY <2>2, ItemsAreLines
  <2>4. \A x : x \in Held(u) <=> x \in Held(buffer) \/ x = fired + 1
    BY <1>0, <2>1, <2>2, <2>3
  <2>5. Held(u) = Held(buffer) \cup {fired + 1}
    BY <2>4
  <2>6. Memory' = Memory \cup {fired + 1}
    BY <2>1, <2>5 DEF Memory
  <2> QED
    BY <1>1, <2>1, <2>6 DEF Effect, Arrives, LinesKept, pqVars
<1>3. CASE DrainStep
  <2>1. Memory' = Memory
    <3>1. CASE StartFlush
      BY <1>0, <3>1, SwapMemory DEF StartFlush, FlushInv
    <3>2. CASE FinishFlush
      BY <3>2, SettleMemory DEF FinishFlush
    <3>3. CASE EndBackoff
      BY <3>3 DEF EndBackoff, Memory
    <3> QED
      BY <1>3, <3>1, <3>2, <3>3 DEF DrainStep
  <2> QED
    BY <1>1, <1>3, <2>1 DEF DrainStep, StartFlush, FinishFlush, EndBackoff, pqVars, Effect,
       Stays, RestKept, fileVars
<1>4. CASE AppendReturns
  <2>1. /\ append = "running" /\ append' = "done" /\ PutMany(batch)
        /\ UNCHANGED <<fired, buffer, batch, written, dropped, faults>>
    BY <1>4 DEF AppendReturns, AppendSucceeds
  <2>2. batch # <<>>
    BY <1>0, <2>1 DEF FlushInv
  <2>3. file' = Appended(batch) /\ openTail' = FALSE /\ UNCHANGED inFlight
    BY <2>1, <2>2 DEF PutMany
  <2>4. /\ Memory = Held(buffer) \cup Held(batch) /\ Memory' = Held(buffer)
        /\ \A m \in Held(buffer) : \A i \in 1..Len(batch) : batch[i] < m
    BY <2>1, MemoryOldest DEF Memory
  <2>5. Oldest(batch)
    BY <2>1, MemoryOldest
  <2>6. Lands(batch)
    BY <1>1, <2>1, <2>2, <2>3, <2>4, <2>5 DEF Lands
  <2> QED
    BY <1>0, <2>6 DEF Effect
<1>5. CASE AppendRaises
  <2>1. /\ append = "running" /\ append' = "failed" /\ PutManyFails(batch)
        /\ UNCHANGED <<fired, buffer, batch, written, dropped>> /\ Strike("append")
    BY <1>5 DEF AppendRaises, AppendFails
  <2>2. /\ openTail' \in BOOLEAN /\ UNCHANGED inFlight
        /\ \/ UNCHANGED fileVars
           \/ \E s \in Seq(Line) : PartOf(s, batch) /\ file' = Appended(s)
    BY <1>0, <2>1, Grown DEF PutManyFails
  <2>3. Memory' = Memory /\ Oldest(batch)
    BY <2>1, MemoryOldest DEF Memory
  <2>4. Cuts' = Cuts + 1
    BY <1>0, <2>1, StrikeCuts DEF FaultKinds
  <2>5. Tears(batch)
    BY <2>1, <2>2, <2>3, <2>4 DEF Tears
  <2> QED
    BY <1>0, <2>5 DEF Effect
<1> QED
  BY <1>2, <1>3, <1>4, <1>5

LEMMA EntryEffect ==
  ASSUME Inv, MemoryInv, BeginUnload \/ UnloadStep \/ Crash
  PROVE  Effect
<1>0. /\ TypeOK /\ FlushInv /\ batch \in Seq(Item) /\ buffer \in Seq(Item)
  BY DEF Inv, TypeOK, Item
<1>1. UNCHANGED faults => Cuts' = Cuts
  BY DEF Cuts
<1>h. Held(<<>>) = {}
  BY DEF Held, ToSet
<1>2. CASE BeginUnload
  <2>1. Cuts' = Cuts
    BY <1>0, <1>2, StrikeCuts DEF BeginUnload, FaultKinds
  <2> QED
    BY <1>2, <2>1, Still DEF BeginUnload, pqVars, listenerVars
<1>3. CASE StopListener \/ WakeConsumer \/ JoinWorker
  BY <1>1, <1>3, Still DEF StopListener, CancelDrain, WakeConsumer, JoinWorker, pqVars,
     listenerVars
<1>4. CASE SettleInflight \/ FinalFlushReturns
  <2>1. Memory' = Memory
    BY <1>4, SettleMemory DEF SettleInflight, FinalFlushReturns
  <2> QED
    BY <1>1, <1>4, <2>1 DEF SettleInflight, FinalFlushReturns, pqVars, Effect, Stays,
       RestKept, fileVars
<1>5. CASE FinalFlush
  <2>1. CASE buffer = <<>>
    BY <1>1, <1>5, <2>1, Still DEF FinalFlush, pqVars
  <2>2. CASE buffer # <<>>
    <3>1. Memory' = Memory
      BY <1>0, <1>5, <2>2, SwapMemory DEF FinalFlush, FlushInv
    <3> QED
      BY <1>1, <1>5, <2>2, <3>1 DEF FinalFlush, pqVars, Effect, Stays, RestKept, fileVars
  <2> QED
    BY <2>1, <2>2
<1>6. CASE FlushBlocking
  <2>1. /\ append = "none" /\ append' = append /\ buffer' = <<>> /\ batch = <<>>
        /\ UNCHANGED <<fired, batch, written>>
    BY <1>0, <1>6 DEF FlushBlocking, FlushInv
  <2>2. Memory = Held(buffer) /\ Memory' = {} /\ Oldest(buffer)
    BY <1>h, <2>1, MemoryOldest DEF Memory
  <2>3. CASE PutMany(buffer) /\ UNCHANGED <<dropped, faults>>
    <3>1. CASE buffer = <<>>
      <4>1. file' = file /\ inFlight' = inFlight /\ Memory = {}
        BY <1>h, <2>2, <2>3, <3>1 DEF PutMany, Appended
      <4>2. openTail' = openTail
        BY <1>0, <2>3, <3>1 DEF PutMany, TypeOK
      <4> QED
        BY <1>1, <2>1, <2>2, <2>3, <4>1, <4>2 DEF Effect, Stays, RestKept, fileVars
    <3>2. CASE buffer # <<>>
      <4>1. file' = Appended(buffer) /\ openTail' = FALSE /\ UNCHANGED inFlight
        BY <2>3, <3>2 DEF PutMany
      <4>2. Lands(buffer)
        BY <1>1, <2>1, <2>2, <2>3, <3>2, <4>1 DEF Lands
      <4> QED
        BY <1>0, <4>2 DEF Effect
    <3> QED
      BY <3>1, <3>2
  <2>4. CASE PutManyFails(buffer) /\ Strike("append") /\ dropped' = dropped \cup Held(buffer)
    <3>1. /\ openTail' \in BOOLEAN /\ UNCHANGED inFlight
          /\ \/ UNCHANGED fileVars
             \/ \E s \in Seq(Line) : PartOf(s, buffer) /\ file' = Appended(s)
      BY <1>0, <2>4, Grown DEF PutManyFails
    <3>2. Cuts' = Cuts + 1
      BY <1>0, <2>4, StrikeCuts DEF FaultKinds
    <3>3. Tears(buffer)
      BY <2>1, <2>2, <2>4, <3>1, <3>2 DEF Tears
    <3> QED
      BY <1>0, <3>3 DEF Effect
  <2> QED
    BY <1>6, <2>3, <2>4 DEF FlushBlocking
<1>7. CASE Reload
  <2>1. append = "none" /\ buffer = <<>> /\ batch = <<>>
    BY <1>0, <1>7 DEF Reload, FlushInv
  <2>2. Memory' = Memory
    BY <1>7, <2>1 DEF Reload, Setup, Memory
  <2> QED
    BY <1>1, <1>7, <2>2 DEF Reload, Setup, Open, Effect, Stays, RestKept, fileVars,
       NoInFlight
<1>8. CASE Crash
  <2>1. Memory' = {} /\ dropped' = dropped \cup Memory /\ inFlight' = 0
        /\ UNCHANGED <<fired, written>>
    BY <1>h, <1>8 DEF Crash, Setup, Open, Memory, NoInFlight
  <2>2. Cuts' = Cuts + 1
    BY <1>0, <1>8, StrikeCuts DEF Crash, FaultKinds
  <2>3. CASE append = "running"
    <3>1. /\ openTail' \in BOOLEAN
          /\ \/ UNCHANGED fileVars
             \/ \E s \in Seq(Line) : PartOf(s, batch) /\ file' = Appended(s)
      BY <1>0, <1>8, <2>3, Grown DEF Crash
    <3>2. Tears(batch)
      BY <2>1, <2>2, <2>3, <3>1, MemoryOldest DEF Tears
    <3> QED
      BY <1>0, <3>2 DEF Effect
  <2>4. CASE append # "running"
    <3>1. UNCHANGED fileVars /\ openTail' \in BOOLEAN
      BY <1>0, <1>8, <2>4 DEF Crash, fileVars, TypeOK
    <3>2. <<>> \in Seq(Item) /\ Oldest(<<>>)
      <4>1. <<>> \in Seq(Item) /\ Len(<<>>) = 0
        BY EmptySeq
      <4> QED
        BY <1>h, <4>1 DEF Oldest, Rising
    <3>3. Tears(<<>>)
      BY <2>1, <2>2, <3>1, <3>2 DEF Tears
    <3> QED
      BY <3>2, <3>3 DEF Effect
  <2> QED
    BY <2>3, <2>4
<1> QED
  BY <1>2, <1>3, <1>4, <1>5, <1>6, <1>7, <1>8 DEF UnloadStep

\* Every step of the pipeline is of one of the kinds.
LEMMA NextEffect ==
  ASSUME Inv, MemoryInv, [Next]_vars
  PROVE  Effect
<1>1. CASE Next
  BY <1>1, WorkerEffect, ListenerEffect, EntryEffect DEF Next, UnloadStep
<1>2. CASE UNCHANGED vars
  BY <1>2, Still DEF vars, pqVars, listenerVars, Cuts
<1> QED
  BY <1>1, <1>2

-----------------------------------------------------------------------------
(* The second inductive invariant: every event is accounted for.           *)

\* The events that are nowhere any more.
Gone == Items \ (written \cup Pending \cup dropped)

\* Every item is an event that happened; an open last line holds nothing that is not
\* safe elsewhere or given up, unless it is spoilt; and every item that is gone has its
\* own interrupted write, besides the one that left the open line.
AccountInv ==
  /\ \A x \in Pending : x <= fired
  /\ inFlight <= fired
  /\ openTail => file[Len(file)] \in {0} \cup dropped \cup Memory
  /\ Cardinality(Gone) + (IF openTail THEN 1 ELSE 0) <= Cuts

\* The types a step of the account relies on.
LEMMA AccountTypes ==
  ASSUME Inv
  PROVE  /\ file \in Seq(Line) /\ Len(file) \in Nat /\ (openTail => file # <<>>)
         /\ openTail \in BOOLEAN /\ fired \in Nat /\ inFlight \in Nat /\ Cuts \in Nat
         /\ \A x \in Pending : x \in Item
<1>1. /\ file \in Seq(Line) /\ Len(file) \in Nat /\ (openTail => file # <<>>)
      /\ openTail \in BOOLEAN /\ fired \in Nat /\ inFlight \in Nat
  BY DEF Inv, TypeOK, Line
<1>2. Cuts \in Nat
  <2>1. faults["append"] \in Nat /\ faults["crash"] \in Nat
    BY DEF Inv, TypeOK, FaultKinds
  <2> QED
    BY <2>1 DEF Cuts
<1>3. \A x \in Held(file) : x \in Item
  <2>1. \A i \in 1..Len(file) : file[i] \in Line
    BY <1>1, ElementOfSeq
  <2> QED
    BY <1>1, <2>1, HeldAt, ListenerAssumption DEF Line, Item
<1>4. \A x \in Memory : x \in Item
  <2>1. batch \in Seq(Item) /\ buffer \in Seq(Item)
    BY DEF Inv, TypeOK, Item
  <2>2. (\A x \in Held(batch) : x \in Item) /\ \A x \in Held(buffer) : x \in Item
    BY <2>1, ItemsAreLines
  <2> QED
    BY <2>2 DEF Memory
<1> QED
  BY <1>1, <1>2, <1>3, <1>4 DEF Pending

\* get() drops malformed lines only.
LEMMA KeptLines ==
  ASSUME file \in Seq(Line), NEW k \in 0..Len(file), MalformedPrefix(k)
  PROVE  /\ Kept(k) \in Seq(Line) /\ Len(Kept(k)) = Len(file) - k
         /\ \A i \in 1..(Len(file) - k) : Kept(k)[i] = file[k + i]
         /\ Held(Kept(k)) = Held(file)
<1>0. Len(file) \in Nat /\ \A i \in 1..Len(file) : file[i] \in Line
  BY ElementOfSeq
<1>1. /\ Kept(k) \in Seq(Line) /\ Len(Kept(k)) = Len(file) - k
      /\ \A i \in 1..(Len(file) - k) : Kept(k)[i] = file[k + i]
  <2>1. \A i \in (k + 1)..Len(file) : file[i] \in Line
    BY <1>0
  <2>2. /\ Kept(k) \in Seq(Line)
        /\ Len(Kept(k)) = IF k + 1 <= Len(file) THEN Len(file) - (k + 1) + 1 ELSE 0
        /\ \A i \in 1..(Len(file) - (k + 1) + 1) : Kept(k)[i] = file[k + 1 + i - 1]
    BY <1>0, <2>1, SubSeqProperties DEF Kept
  <2>3. /\ (IF k + 1 <= Len(file) THEN Len(file) - (k + 1) + 1 ELSE 0) = Len(file) - k
        /\ Len(file) - (k + 1) + 1 = Len(file) - k
        /\ \A i \in 1..(Len(file) - k) : k + 1 + i - 1 = k + i
    BY <1>0
  <2> QED
    BY <2>2, <2>3
<1>2. /\ \A x : x \in Held(file) <=> x # 0 /\ \E i \in 1..Len(file) : file[i] = x
      /\ \A x : x \in Held(Kept(k)) <=> x # 0 /\ \E i \in 1..Len(Kept(k)) : Kept(k)[i] = x
  BY <1>1, HeldAt
<1>3. ASSUME NEW x \in Held(file) PROVE x \in Held(Kept(k))
  <2>1. PICK i \in 1..Len(file) : file[i] = x /\ x # 0
    BY <1>2
  <2>2. i > k
    BY <2>1 DEF MalformedPrefix, Malformed
  <2>3. i - k \in 1..Len(Kept(k)) /\ k + (i - k) = i
    BY <1>0, <1>1, <2>2
  <2> QED
    BY <1>1, <1>2, <2>1, <2>3
<1>4. ASSUME NEW x \in Held(Kept(k)) PROVE x \in Held(file)
  <2>1. PICK i \in 1..Len(Kept(k)) : Kept(k)[i] = x /\ x # 0
    BY <1>2
  <2>2. k + i \in 1..Len(file) /\ file[k + i] = x
    BY <1>0, <1>1, <2>1
  <2> QED
    BY <1>2, <2>1, <2>2
<1> QED
  BY <1>1, <1>3, <1>4

\* task_done removes the front line and nothing else.
LEMMA TailLines ==
  ASSUME file \in Seq(Line), file # <<>>
  PROVE  /\ Tail(file) \in Seq(Line) /\ Len(Tail(file)) = Len(file) - 1
         /\ \A i \in 1..(Len(file) - 1) : Tail(file)[i] = file[i + 1]
         /\ \A x \in Held(Tail(file)) : x \in Held(file)
         /\ \A x \in Held(file) : x \in Held(Tail(file)) \/ x = file[1]
<1>1. /\ Tail(file) \in Seq(Line) /\ Len(Tail(file)) = Len(file) - 1
      /\ \A i \in 1..(Len(file) - 1) : Tail(file)[i] = file[i + 1]
      /\ Len(file) \in Nat \ {0}
  BY HeadTailProperties, EmptySeq
<1>2. /\ \A x : x \in Held(file) <=> x # 0 /\ \E i \in 1..Len(file) : file[i] = x
      /\ \A x : x \in Held(Tail(file)) <=> x # 0 /\ \E i \in 1..Len(Tail(file)) : Tail(file)[i] = x
  BY <1>1, HeldAt
<1>3. ASSUME NEW x \in Held(file), x # file[1] PROVE x \in Held(Tail(file))
  <2>1. PICK i \in 1..Len(file) : file[i] = x /\ x # 0
    BY <1>2
  <2>2. i - 1 \in 1..(Len(file) - 1) /\ (i - 1) + 1 = i
    BY <1>1, <1>3, <2>1
  <2> QED
    BY <1>1, <1>2, <2>1, <2>2
<1>4. ASSUME NEW x \in Held(Tail(file)) PROVE x \in Held(file)
  <2>1. PICK i \in 1..Len(Tail(file)) : Tail(file)[i] = x /\ x # 0
    BY <1>2
  <2>2. i + 1 \in 1..Len(file) /\ file[i + 1] = x
    BY <1>1, <2>1
  <2> QED
    BY <1>2, <2>1, <2>2
<1> QED
  BY <1>1, <1>3, <1>4

\* The events up to n that are not in a set are finitely many, and few if they are few
\* more than others.
LEMMA CountGone ==
  ASSUME NEW n \in Nat, NEW K, NEW m \in Nat, NEW L
  PROVE  /\ Cardinality((1..n) \ K) \in Nat
         /\ (\A z \in (1..m) \ L : z \in (1..n) \ K)
              => Cardinality((1..m) \ L) <= Cardinality((1..n) \ K)
         /\ \A x : (\A z \in (1..m) \ L : z \in (1..n) \ K \/ z = x)
                     => Cardinality((1..m) \ L) <= Cardinality((1..n) \ K) + 1
<1> DEFINE A == (1..n) \ K
           B == (1..m) \ L
<1>1. IsFiniteSet(A) /\ IsFiniteSet(B) /\ Cardinality(A) \in Nat /\ Cardinality(B) \in Nat
  <2>1. IsFiniteSet(1..n) /\ IsFiniteSet(1..m)
    BY FS_Interval
  <2>2. IsFiniteSet(A) /\ IsFiniteSet(B)
    BY <2>1, FS_Difference
  <2> QED
    BY <2>2, FS_CardinalityType
<1> HIDE DEF A, B
<1>2. ASSUME \A z \in B : z \in A PROVE Cardinality(B) <= Cardinality(A)
  <2>1. B \in SUBSET A
    BY <1>2
  <2> QED
    BY <1>1, <2>1, FS_Subset
<1>3. ASSUME NEW x, \A z \in B : z \in A \/ z = x PROVE Cardinality(B) <= Cardinality(A) + 1
  <2>1. IsFiniteSet(A \cup {x}) /\ Cardinality(A \cup {x}) <= Cardinality(A) + 1
        /\ Cardinality(A \cup {x}) \in Nat
    <3>1. IsFiniteSet(A \cup {x})
          /\ Cardinality(A \cup {x}) = IF x \in A THEN Cardinality(A) ELSE Cardinality(A) + 1
      BY <1>1, FS_AddElement
    <3> QED
      BY <1>1, <3>1
  <2>2. B \in SUBSET (A \cup {x})
    BY <1>3
  <2>3. Cardinality(B) <= Cardinality(A \cup {x})
    BY <2>1, <2>2, FS_Subset
  <2> QED
    BY <1>1, <2>1, <2>3
<1> QED
  BY <1>1, <1>2, <1>3 DEF A, B

\* What the account needs of a step: the steps below differ in which half of the sum
\* pays for the other.
LEMMA AccountStep ==
  ASSUME Inv, AccountInv, fired' \in Nat, openTail' \in BOOLEAN, Cuts' \in Nat,
         \/ /\ \A z \in Gone' : z \in Gone
            /\ (openTail' => openTail) /\ Cuts' = Cuts
         \/ (\A z \in Gone' : z \in Gone) /\ Cuts' = Cuts + 1
         \/ /\ \E x : \A z \in Gone' : z \in Gone \/ z = x
            /\ openTail /\ ~openTail' /\ Cuts' = Cuts
  PROVE  Cardinality(Gone') + (IF openTail' THEN 1 ELSE 0) <= Cuts'
<1> DEFINE n == fired
           K == written \cup Pending \cup dropped
           G == (1..n) \ K
           H == (1..n') \ K'
<1>1. Gone = G /\ Gone' = H /\ n \in Nat /\ n' \in Nat
  BY DEF Gone, Items, Inv, TypeOK
<1> HIDE DEF n, K
<1>2. Cardinality(G) \in Nat /\ Cardinality(H) \in Nat
  BY <1>1, CountGone
<1>3. (\A z \in H : z \in G) => Cardinality(H) <= Cardinality(G)
  BY <1>1, CountGone
<1>4. ASSUME NEW x, \A z \in H : z \in G \/ z = x
      PROVE  Cardinality(H) <= Cardinality(G) + 1
  BY <1>1, <1>4, CountGone
<1>5. Cardinality(G) + (IF openTail THEN 1 ELSE 0) <= Cuts /\ Cuts \in Nat /\ openTail \in BOOLEAN
  BY <1>1 DEF AccountInv, Cuts, Inv, TypeOK, FaultKinds
<1> HIDE DEF G, H
<1>6. (\E x : \A z \in H : z \in G \/ z = x) => Cardinality(H) <= Cardinality(G) + 1
  BY <1>4
<1> QED
  BY <1>1, <1>2, <1>3, <1>5, <1>6

LEMMA InitAccount == Init => AccountInv
<1> SUFFICES ASSUME Init PROVE AccountInv
  OBVIOUS
<1>1. Held(<<>>) = {}
  BY DEF Held, ToSet
<1>2. Pending = {} /\ fired = 0 /\ Cuts = 0 /\ openTail = FALSE /\ inFlight = 0
  BY <1>1 DEF Init, PQInit, ListenerInit, Pending, Memory, Cuts, FaultKinds, NoInFlight
<1>3. Gone = {}
  BY <1>2 DEF Gone, Items
<1>4. Cardinality(Gone) = 0
  BY <1>3, FS_EmptySet
<1> QED
  BY <1>2, <1>4 DEF AccountInv

\* Nothing moves.
LEMMA StaysAccount ==
  ASSUME Inv, Inv', AccountInv, Stays
  PROVE  AccountInv'
<1>1. /\ file' = file /\ openTail' = openTail /\ inFlight' \in {inFlight, 0}
      /\ written' = written /\ dropped' = dropped /\ fired' = fired /\ Memory' = Memory
      /\ Cuts' = Cuts
  BY DEF Stays, RestKept, fileVars
<1>2. Pending' = Pending /\ Gone' = Gone /\ fired \in Nat
  BY <1>1 DEF Pending, Gone, Items, Inv, TypeOK
<1> QED
  BY <1>1, <1>2 DEF AccountInv

LEMMA ArrivesAccount ==
  ASSUME Inv, Inv', AccountInv, Arrives
  PROVE  AccountInv'
<1>1. /\ file' = file /\ openTail' = openTail /\ inFlight' = inFlight
      /\ written' = written /\ dropped' = dropped /\ fired' = fired + 1
      /\ Memory' = Memory \cup {fired + 1} /\ Cuts' = Cuts
  BY DEF Arrives, LinesKept
<1>2. Pending' = Pending \cup {fired + 1} /\ fired \in Nat /\ openTail \in BOOLEAN
  BY <1>1 DEF Pending, Inv, TypeOK
<1>3. \A z \in Gone' : z \in Gone
  <2>1. 1..(fired + 1) = (1..fired) \cup {fired + 1}
    BY <1>2
  <2> QED
    BY <1>1, <1>2, <2>1 DEF Gone, Items
<1>4. Cuts \in Nat
  BY AccountTypes
<1>5. Cardinality(Gone') + (IF openTail' THEN 1 ELSE 0) <= Cuts'
  <2>1. (openTail' => openTail) /\ Cuts' = Cuts /\ fired' \in Nat /\ openTail' \in BOOLEAN
        /\ Cuts' \in Nat
    BY <1>1, <1>2, <1>4
  <2> QED
    BY <1>3, <2>1, AccountStep
<1>6. (\A x \in Pending' : x <= fired') /\ inFlight' <= fired'
  <2>1. \A x \in Pending : x \in Nat
    BY AccountTypes, ListenerAssumption DEF Item
  <2>2. inFlight \in Nat
    BY DEF Inv, TypeOK
  <2> QED
    BY <1>1, <1>2, <2>1, <2>2 DEF AccountInv
<1>7. openTail' => file'[Len(file')] \in {0} \cup dropped' \cup Memory'
  BY <1>1 DEF AccountInv
<1> QED
  BY <1>5, <1>6, <1>7 DEF AccountInv

LEMMA TakesAccount ==
  ASSUME Inv, Inv', AccountInv, Takes
  PROVE  AccountInv'
<1>0. file \in Seq(Line) /\ Len(file) \in Nat /\ fired \in Nat /\ openTail \in BOOLEAN
      /\ Cuts \in Nat
  BY AccountTypes
<1>1. PICK k \in 0..Len(file) :
        /\ MalformedPrefix(k) /\ file' = Kept(k)
        /\ openTail' = (openTail /\ k < Len(file))
        /\ inFlight' = IF k < Len(file) THEN file[k + 1] ELSE 0
  BY DEF Takes
<1>2. UNCHANGED <<written, dropped, fired, Memory, Cuts>>
  BY DEF Takes, RestKept
<1>3. /\ Len(file') = Len(file) - k
      /\ \A i \in 1..(Len(file) - k) : file'[i] = file[k + i]
      /\ Held(file') = Held(file)
  BY <1>0, <1>1, KeptLines
<1>4. Pending' = Pending /\ Gone' = Gone
  BY <1>2, <1>3 DEF Pending, Gone, Items
<1>5. inFlight' <= fired
  <2>1. CASE k < Len(file)
    <3>1. file[k + 1] \in Held(file)
      <4>1. k + 1 \in 1..Len(file) /\ file[k + 1] # 0
        BY <1>0, <1>1, <2>1 DEF MalformedPrefix, Malformed
      <4> QED
        BY <1>0, <4>1, HeldAt
    <3> QED
      BY <1>1, <2>1, <3>1 DEF AccountInv, Pending
  <2>2. CASE ~(k < Len(file))
    BY <1>0, <1>1, <2>2
  <2> QED
    BY <2>1, <2>2
<1>6. openTail' => file'[Len(file')] = file[Len(file)] /\ openTail
  <2>1. SUFFICES ASSUME k < Len(file) PROVE file'[Len(file')] = file[Len(file)]
    BY <1>1
  <2>2. Len(file) - k \in 1..(Len(file) - k) /\ k + (Len(file) - k) = Len(file)
    BY <1>0, <2>1
  <2> QED
    BY <1>3, <2>2
<1>7. Cardinality(Gone') + (IF openTail' THEN 1 ELSE 0) <= Cuts'
  <2>1. openTail' \in BOOLEAN /\ (openTail' => openTail) /\ Cuts' = Cuts /\ Cuts' \in Nat
        /\ fired' \in Nat
    BY <1>0, <1>1, <1>2
  <2> QED
    BY <1>4, <2>1, AccountStep
<1> QED
  BY <1>2, <1>4, <1>5, <1>6, <1>7 DEF AccountInv

LEMMA WritesAccount ==
  ASSUME Inv, Inv', AccountInv, Writes
  PROVE  AccountInv'
<1>1. /\ file' = file /\ openTail' = openTail /\ inFlight' = inFlight
      /\ dropped' = dropped /\ fired' = fired /\ Memory' = Memory /\ Cuts' = Cuts
      /\ written' = written \cup {inFlight}
  BY DEF Writes, LinesKept
<1>2. Pending' = Pending /\ fired \in Nat /\ openTail \in BOOLEAN /\ Cuts \in Nat
  BY <1>1, AccountTypes DEF Pending
<1>3. \A z \in Gone' : z \in Gone
  BY <1>1, <1>2 DEF Gone, Items
<1>4. Cardinality(Gone') + (IF openTail' THEN 1 ELSE 0) <= Cuts'
  BY <1>1, <1>2, <1>3, AccountStep
<1> QED
  BY <1>1, <1>2, <1>4 DEF AccountInv

LEMMA FinishesAccount ==
  ASSUME Inv, Inv', AccountInv, Finishes
  PROVE  AccountInv'
<1>0. file \in Seq(Line) /\ Len(file) \in Nat /\ fired \in Nat /\ openTail \in BOOLEAN
      /\ Cuts \in Nat
  BY AccountTypes
<1>1. /\ file # <<>> /\ file' = Tail(file) /\ openTail' = (openTail /\ Len(file) > 1)
      /\ inFlight' = 0 /\ inFlight # 0 /\ inFlight \in written
      /\ UNCHANGED <<written, dropped, fired, Memory, Cuts>>
  BY DEF Finishes, RestKept, TaskDone, NoInFlight
<1>2. file[1] \in {inFlight, 0}
  BY <1>1 DEF Inv, FrontIsInFlight, NoInFlight, Malformed
<1>3. /\ Len(file') = Len(file) - 1
      /\ \A i \in 1..(Len(file) - 1) : file'[i] = file[i + 1]
      /\ \A x \in Held(file') : x \in Held(file)
      /\ \A x \in Held(file) : x \in Held(file') \/ x = file[1]
  BY <1>0, <1>1, TailLines
<1>4. \A x \in Pending' : x \in Pending
  BY <1>1, <1>3 DEF Pending
<1>5. \A z \in Gone' : z \in Gone
  <2>1. ASSUME NEW x \in Held(file) PROVE x \in Held(file') \cup written
    <3>1. x # 0
      BY DEF Held, Malformed
    <3> QED
      BY <1>1, <1>2, <1>3, <2>1, <3>1
  <2> QED
    BY <1>1, <2>1 DEF Gone, Items, Pending
<1>6. openTail' => file'[Len(file')] = file[Len(file)] /\ openTail
  <2>1. SUFFICES ASSUME Len(file) > 1 PROVE file'[Len(file')] = file[Len(file)]
    BY <1>1
  <2>2. Len(file) - 1 \in 1..(Len(file) - 1) /\ (Len(file) - 1) + 1 = Len(file)
    BY <1>0, <2>1
  <2> QED
    BY <1>3, <2>2
<1>7. Cardinality(Gone') + (IF openTail' THEN 1 ELSE 0) <= Cuts'
  <2>1. openTail' \in BOOLEAN /\ (openTail' => openTail) /\ Cuts' = Cuts /\ Cuts' \in Nat
        /\ fired' \in Nat
    BY <1>0, <1>1
  <2> QED
    BY <1>5, <2>1, AccountStep
<1> QED
  <2>1. fired' = fired /\ dropped' = dropped /\ Memory' = Memory /\ inFlight' = 0
    BY <1>1
  <2>2. openTail' => file'[Len(file')] \in {0} \cup dropped' \cup Memory'
    BY <1>6, <2>1 DEF AccountInv
  <2>3. (\A x \in Pending' : x <= fired') /\ inFlight' <= fired'
    BY <1>0, <1>4, <2>1 DEF AccountInv
  <2> QED
    BY <1>7, <2>2, <2>3 DEF AccountInv

\* A completed append that finds an open line loses the first item of its batch; what
\* that line held is safe.
LEMMA LandsAccount ==
  ASSUME Inv, Inv', AccountInv, NEW items \in Seq(Item), Lands(items)
  PROVE  AccountInv'
<1>0. /\ file \in Seq(Line) /\ fired \in Nat /\ openTail \in BOOLEAN /\ Cuts \in Nat
      /\ (openTail => file # <<>>) /\ items \in Seq(Line)
      /\ \A x \in Held(file) : x # 0
  BY AccountTypes, ItemsAreLines DEF Held, Malformed
<1>1. /\ UNCHANGED <<inFlight, written, dropped, fired, Cuts>>
      /\ items # <<>> /\ file' = Appended(items) /\ openTail' = FALSE
      /\ \A m \in Memory' : m \in Memory
      /\ \A m \in Memory : m \in Memory' \/ m \in Held(items)
      /\ \A x \in Held(items) : x \in Memory
  BY DEF Lands, Oldest
<1>2. /\ \A x \in Held(file) : x \in Held(file') \/ (openTail /\ x = file[Len(file)])
      /\ \A x \in Held(items) : x \in Held(file') \/ (openTail /\ x = items[1])
      /\ \A x \in Held(file') : x \in Held(file) \/ x \in Held(items)
  <2> DEFINE F == Appended(items)
  <2>1. /\ \A x \in Held(file) : x \in Held(F) \/ (openTail /\ x = file[Len(file)])
        /\ \A x \in Held(items) : x \in Held(F) \/ (openTail /\ x = items[1])
        /\ \A x \in Held(F) : x \in Held(file) \/ x \in Held(items)
    BY <1>0, <1>1, AppendedHeld
  <2>2. file' = F
    BY <1>1
  <2> HIDE DEF F
  <2> QED
    BY <2>1, <2>2
<1>3. \A x \in Pending' : x \in Pending
  BY <1>1, <1>2 DEF Pending
<1>4. \A z \in Gone' : z \in Gone \/ (openTail /\ z = items[1])
  <2>1. ASSUME NEW x \in Memory
        PROVE  x \in Memory' \/ x \in Held(file') \/ (openTail /\ x = items[1])
    BY <1>1, <1>2
  <2>2. ASSUME NEW x \in Held(file)
        PROVE  x \in Held(file') \/ x \in dropped \/ x \in Memory
    <3>1. openTail /\ x = file[Len(file)] => x \in dropped \/ x \in Memory
      BY <1>0 DEF AccountInv
    <3> QED
      BY <1>2, <3>1
  <2> QED
    BY <1>1, <2>1, <2>2 DEF Gone, Items, Pending
<1>5. Cardinality(Gone') + (IF openTail' THEN 1 ELSE 0) <= Cuts'
  <2>1. CASE openTail
    <3>1. \E x : \A z \in Gone' : z \in Gone \/ z = x
      BY <1>4
    <3> QED
      BY <1>0, <1>1, <2>1, <3>1, AccountStep
  <2>2. CASE ~openTail
    BY <1>0, <1>1, <1>4, <2>2, AccountStep
  <2> QED
    BY <2>1, <2>2
<1> QED
  BY <1>1, <1>3, <1>5 DEF AccountInv

\* An interrupted append loses nothing yet, but may leave an open line; memory, or what
\* is given up with it, still holds the items of the batch.
LEMMA TearsAccount ==
  ASSUME Inv, Inv', AccountInv, NEW items \in Seq(Item), Tears(items)
  PROVE  AccountInv'
<1>0. /\ file \in Seq(Line) /\ fired \in Nat /\ openTail \in BOOLEAN /\ Cuts \in Nat
      /\ (openTail => file # <<>>) /\ inFlight \in Nat
  BY AccountTypes
<1>1. /\ UNCHANGED <<written, fired>> /\ inFlight' \in {inFlight, 0}
      /\ Cuts' = Cuts + 1 /\ openTail' \in BOOLEAN
      /\ \A m \in Memory' : m \in Memory
      /\ \A m \in Memory : m \in Memory' \/ m \in dropped'
      /\ \A m \in dropped : m \in dropped'
      /\ \A x \in Held(items) : x \in Memory
  BY DEF Tears, Oldest
<1>2. /\ \A x \in Held(file) : x \in Held(file') \/ (openTail /\ x = file[Len(file)])
      /\ \A x \in Held(file') : x \in Held(file) \/ x \in Held(items)
      /\ openTail' => file'[Len(file')] \in {0} \cup dropped' \cup Memory'
  <2>1. CASE UNCHANGED fileVars
    BY <1>1, <2>1 DEF fileVars, AccountInv
  <2>2. ASSUME NEW s \in Seq(Line), PartOf(s, items), file' = Appended(s)
        PROVE  /\ \A x \in Held(file) :
                     x \in Held(file') \/ (openTail /\ x = file[Len(file)])
               /\ \A x \in Held(file') : x \in Held(file) \/ x \in Held(items)
               /\ openTail' => file'[Len(file')] \in {0} \cup dropped' \cup Memory'
    <3> DEFINE F == Appended(s)
    <3>1. /\ F[Len(F)] \in {0, s[Len(s)]}
          /\ \A x \in Held(file) : x \in Held(F) \/ (openTail /\ x = file[Len(file)])
          /\ \A x \in Held(F) : x \in Held(file) \/ x \in Held(s)
      BY <1>0, <2>2, AppendedHeld DEF PartOf
    <3>2. file' = F
      BY <2>2
    <3> HIDE DEF F
    <3>3. \A x \in Held(s) : x \in Held(items)
      BY <2>2, PartHeld
    <3>4. s[Len(s)] # 0 => s[Len(s)] \in Held(s)
      <4>1. Len(s) \in 1..Len(s)
        BY <2>2, EmptySeq DEF PartOf
      <4> QED
        BY <4>1, HeldAt
    <3> QED
      BY <1>1, <3>1, <3>2, <3>3, <3>4
  <2> QED
    BY <2>1, <2>2 DEF Tears
<1>3. \A x \in Pending' : x \in Pending
  BY <1>1, <1>2 DEF Pending
<1>4. \A z \in Gone' : z \in Gone
  <2>1. ASSUME NEW x \in Held(file)
        PROVE  x \in Held(file') \/ x \in dropped \/ x \in Memory
    <3>1. x # 0
      BY DEF Held, Malformed
    <3>2. openTail /\ x = file[Len(file)] => x \in dropped \/ x \in Memory
      BY <3>1 DEF AccountInv
    <3> QED
      BY <1>2, <3>2
  <2> QED
    BY <1>1, <2>1 DEF Gone, Items, Pending
<1>5. Cardinality(Gone') + (IF openTail' THEN 1 ELSE 0) <= Cuts'
  BY <1>0, <1>1, <1>4, AccountStep
<1> QED
  BY <1>0, <1>1, <1>2, <1>3, <1>5 DEF AccountInv

LEMMA AllHold == Spec => [](Inv /\ MemoryInv /\ AccountInv)
<1> DEFINE All == Inv /\ MemoryInv /\ AccountInv
<1>1. Init => All
  BY InitInv, InitMemory, InitAccount
<1>2. All /\ [Next]_vars => All'
  <2> SUFFICES ASSUME All, [Next]_vars PROVE All'
    OBVIOUS
  <2>1. Inv' /\ MemoryInv'
    BY NextInv, NextMemory
  <2>2. AccountInv'
    BY <2>1, NextEffect, StaysAccount, ArrivesAccount, TakesAccount, WritesAccount,
       FinishesAccount, LandsAccount, TearsAccount DEF Effect
  <2> QED
    BY <2>1, <2>2
<1> QED
  BY <1>1, <1>2, PTL DEF Spec

\* Registry changes are not forgotten (registry_listener.py 309-366, 714-772): for any
\* number of events and faults, an item that is nowhere any more cost an interrupted
\* write of its own.
THEOREM LossIsBounded == Spec => []LossBounded
<1>1. Inv /\ AccountInv => LossBounded
  <2> SUFFICES ASSUME Inv, AccountInv PROVE LossBounded
    OBVIOUS
  <2>1. Cardinality(Gone) \in Nat
    <3>1. fired \in Nat
      BY AccountTypes
    <3> QED
      BY <3>1, CountGone DEF Gone, Items
  <2>2. Cuts \in Nat
    BY AccountTypes
  <2>3. Cardinality(Gone) <= Cuts
    BY <2>1, <2>2 DEF AccountInv
  <2> QED
    BY <2>3 DEF LossBounded, Gone, Cuts
<1> QED
  BY <1>1, AllHold, PTL

-----------------------------------------------------------------------------
(* The third inductive invariant: the order of the lines.                  *)

\* Before a line that is still to be written for the first time stand all older items
\* of P that are not written.
InOrder(f, W, P) ==
  \A p \in 1..Len(f) : f[p] # 0 /\ f[p] \notin W =>
    \A m \in P : m < f[p] /\ m \notin W => \E q \in 1..(p - 1) : f[q] = m

OrderInv ==
  Cuts <= 1 =>
    /\ InOrder(file, written, Pending)
    /\ inFlight # 0 /\ inFlight \notin written =>
         \A m \in Pending : m < inFlight => m \in written

\* Fewer items to wait for, and more of them written, keep the order.
LEMMA OrderWeaker ==
  ASSUME NEW f, NEW W, NEW P, InOrder(f, W, P), NEW X, NEW R,
         \A x \in W : x \in X, \A m \in R : m \in P
  PROVE  InOrder(f, X, R)
BY DEF InOrder

LEMMA StaysOrder ==
  ASSUME OrderInv, Stays
  PROVE  OrderInv'
<1>1. /\ file' = file /\ written' = written /\ Memory' = Memory /\ Cuts' = Cuts
      /\ inFlight' \in {inFlight, 0}
  BY DEF Stays, RestKept, fileVars
<1>2. Pending' = Pending
  BY <1>1 DEF Pending
<1> QED
  BY <1>1, <1>2 DEF OrderInv

LEMMA ArrivesOrder ==
  ASSUME Inv, AccountInv, OrderInv, Arrives
  PROVE  OrderInv'
<1>1. /\ file' = file /\ written' = written /\ Memory' = Memory \cup {fired + 1}
      /\ Cuts' = Cuts /\ inFlight' = inFlight
  BY DEF Arrives, LinesKept
<1>2. Pending' = Pending \cup {fired + 1}
  BY <1>1 DEF Pending
<1>3. file \in Seq(Line) /\ fired \in Nat /\ inFlight \in Nat
  BY AccountTypes
<1>4. ASSUME NEW p \in 1..Len(file), file[p] # 0 PROVE ~(fired + 1 < file[p])
  <2>1. file[p] \in Pending
    BY <1>3, <1>4, HeldAt DEF Pending
  <2>2. file[p] <= fired /\ file[p] \in Nat
    BY <2>1, AccountTypes DEF AccountInv, Item
  <2> QED
    BY <1>3, <2>2
<1>5. ~(fired + 1 < inFlight)
  BY <1>3 DEF AccountInv
<1>6. Cuts <= 1 => InOrder(file, written, Pending')
  BY <1>2, <1>4 DEF OrderInv, InOrder
<1> QED
  BY <1>1, <1>2, <1>5, <1>6 DEF OrderInv

\* The lines get() drops hold no item, so what it takes is the oldest unwritten one.
LEMMA TakesOrder ==
  ASSUME Inv, OrderInv, Takes
  PROVE  OrderInv'
<1>0. file \in Seq(Line) /\ Len(file) \in Nat /\ \A x \in Pending : x \in Item
  BY AccountTypes
<1>1. PICK k \in 0..Len(file) :
        /\ MalformedPrefix(k) /\ file' = Kept(k)
        /\ inFlight' = IF k < Len(file) THEN file[k + 1] ELSE 0
  BY DEF Takes
<1>2. UNCHANGED <<written, Memory, Cuts>>
  BY DEF Takes, RestKept
<1>3. /\ Len(file') = Len(file) - k
      /\ \A i \in 1..(Len(file) - k) : file'[i] = file[k + i]
      /\ Held(file') = Held(file)
  BY <1>0, <1>1, KeptLines
<1>4. Pending' = Pending
  BY <1>2, <1>3 DEF Pending
<1>5. \A q \in 1..k, m \in Pending : file[q] # m
  BY <1>0, <1>1, ListenerAssumption DEF MalformedPrefix, Malformed, Item
<1> SUFFICES ASSUME Cuts <= 1
             PROVE  /\ InOrder(file', written, Pending)
                    /\ inFlight' # 0 /\ inFlight' \notin written =>
                         \A m \in Pending : m < inFlight' => m \in written
  BY <1>2, <1>4 DEF OrderInv
<1>6. InOrder(file, written, Pending)
  BY DEF OrderInv
<1>7. ASSUME NEW p \in 1..Len(file'), file'[p] # 0, file'[p] \notin written,
             NEW m \in Pending, m < file'[p], m \notin written
      PROVE  \E q \in 1..(p - 1) : file'[q] = m
  <2>1. k + p \in 1..Len(file) /\ file[k + p] = file'[p]
    BY <1>0, <1>3
  <2>2. PICK q \in 1..(k + p - 1) : file[q] = m
    BY <1>6, <1>7, <2>1 DEF InOrder
  <2>3. q > k
    BY <1>0, <1>5, <2>2
  <2>4. q - k \in 1..(p - 1) /\ q - k \in 1..(Len(file) - k) /\ k + (q - k) = q
    BY <1>0, <1>3, <2>2, <2>3
  <2> QED
    BY <1>3, <2>2, <2>4
<1>8. ASSUME inFlight' # 0, inFlight' \notin written, NEW m \in Pending, m < inFlight',
             m \notin written
      PROVE  FALSE
  <2>1. k + 1 \in 1..Len(file) /\ inFlight' = file[k + 1]
    BY <1>0, <1>1, <1>8
  <2>2. PICK q \in 1..(k + 1 - 1) : file[q] = m
    BY <1>6, <1>8, <2>1 DEF InOrder
  <2> QED
    BY <1>0, <1>5, <2>2
<1> QED
  BY <1>7, <1>8 DEF InOrder

LEMMA WritesOrder ==
  ASSUME OrderInv, Writes
  PROVE  OrderInv'
<1>1. /\ file' = file /\ inFlight' = inFlight /\ written' = written \cup {inFlight}
      /\ Memory' = Memory /\ Cuts' = Cuts
  BY DEF Writes, LinesKept
<1>2. Pending' = Pending
  BY <1>1 DEF Pending
<1>3. Cuts <= 1 => InOrder(file, written', Pending)
  BY <1>1, OrderWeaker DEF OrderInv
<1> QED
  BY <1>1, <1>2, <1>3 DEF OrderInv

\* The line task_done removes is written, or holds no item.
LEMMA FinishesOrder ==
  ASSUME Inv, OrderInv, Finishes
  PROVE  OrderInv'
<1>0. file \in Seq(Line) /\ Len(file) \in Nat /\ \A x \in Pending : x \in Item
  BY AccountTypes
<1>1. /\ file # <<>> /\ file' = Tail(file) /\ inFlight' = 0
      /\ inFlight # 0 /\ inFlight \in written /\ UNCHANGED <<written, Memory, Cuts>>
  BY DEF Finishes, RestKept, TaskDone, NoInFlight
<1>2. file[1] \in written \cup {0}
  BY <1>1 DEF Inv, FrontIsInFlight, NoInFlight, Malformed
<1>3. /\ Len(file') = Len(file) - 1
      /\ \A i \in 1..(Len(file) - 1) : file'[i] = file[i + 1]
      /\ \A x \in Held(file') : x \in Held(file)
  BY <1>0, <1>1, TailLines
<1>4. \A m \in Pending' : m \in Pending
  BY <1>1, <1>3 DEF Pending
<1> SUFFICES ASSUME Cuts <= 1 PROVE InOrder(file', written, Pending')
  BY <1>1 DEF OrderInv
<1>5. InOrder(file, written, Pending)
  BY DEF OrderInv
<1>6. ASSUME NEW p \in 1..Len(file'), file'[p] # 0, file'[p] \notin written,
             NEW m \in Pending', m < file'[p], m \notin written
      PROVE  \E q \in 1..(p - 1) : file'[q] = m
  <2>1. p + 1 \in 1..Len(file) /\ file[p + 1] = file'[p] /\ m \in Pending /\ m # 0
    BY <1>0, <1>3, <1>4, ListenerAssumption DEF Item
  <2>2. PICK q \in 1..(p + 1 - 1) : file[q] = m
    BY <1>5, <1>6, <2>1 DEF InOrder
  <2>3. q # 1
    BY <1>2, <1>6, <2>1, <2>2
  <2>4. q - 1 \in 1..(p - 1) /\ q - 1 \in 1..(Len(file) - 1) /\ (q - 1) + 1 = q
    BY <1>0, <1>3, <2>2, <2>3
  <2> QED
    BY <1>3, <2>2, <2>4
<1> QED
  BY <1>6 DEF InOrder

\* A whole batch in its order behind the file: each of its items finds the older ones
\* in the file before it, and those that memory keeps are younger.
LEMMA LandsOrder ==
  ASSUME Inv, AccountInv, OrderInv, NEW items \in Seq(Item), Lands(items)
  PROVE  OrderInv'
<1>0. file \in Seq(Line) /\ Len(file) \in Nat /\ openTail \in BOOLEAN
      /\ (openTail => file # <<>>) /\ \A x \in Pending : x \in Item
  BY AccountTypes
<1>1. /\ UNCHANGED <<inFlight, written, Cuts>>
      /\ items # <<>> /\ Rising(items) /\ file' = Appended(items)
      /\ \A m \in Memory' : m \in Memory /\ \A i \in 1..Len(items) : items[i] < m
      /\ \A x \in Held(items) : x \in Memory
  BY DEF Lands, Oldest
<1>2. items \in Seq(Line) /\ Len(items) \in Nat /\ \A i \in 1..Len(items) : items[i] \in Item
  BY ItemsAreLines
<1> DEFINE F == Appended(items)
           o == IF openTail THEN 1 ELSE 0
<1>3. /\ F \in Seq(Line) /\ Len(F) = Len(file) + Len(items) - o
      /\ \A i \in 1..Len(file) : F[i] = IF openTail /\ i = Len(file) THEN 0 ELSE file[i]
      /\ \A i \in (Len(file) + 1)..Len(F) : F[i] = items[i - Len(file) + o]
  BY <1>0, <1>1, <1>2, AppendedLines
<1>4. \A x \in Held(F) : x \in Held(file) \/ x \in Held(items)
  BY <1>0, <1>1, <1>2, AppendedHeld
<1>5. \A x \in Held(F) : \E i \in 1..Len(F) : F[i] = x
  BY <1>3, HeldAt
<1>6. file' = F /\ o \in {0, 1} /\ (openTail => Len(file) > 0)
  BY <1>0, <1>1, EmptySeq
<1> HIDE DEF F, o
<1>7. \A m \in Pending' : m \in Pending
  BY <1>1, <1>4, <1>6 DEF Pending
<1> SUFFICES ASSUME Cuts <= 1 PROVE InOrder(F, written, Pending')
  <2>1. Cuts <= 1 /\ inFlight # 0 /\ inFlight \notin written =>
          \A m \in Pending : m < inFlight => m \in written
    BY DEF OrderInv
  <2> QED
    BY <1>1, <1>6, <1>7, <2>1 DEF OrderInv
<1>8. InOrder(file, written, Pending)
  BY DEF OrderInv
<1>9. ASSUME NEW p \in 1..Len(F), F[p] # 0, F[p] \notin written,
             NEW m \in Pending', m < F[p], m \notin written
      PROVE  \E q \in 1..(p - 1) : F[q] = m
  <2>0. m \in Pending /\ m \in Nat /\ Len(F) \in Nat
    BY <1>0, <1>3, <1>7 DEF Item
  <2>1. CASE p <= Len(file)
    <3>1. p \in 1..Len(file) /\ F[p] = file[p] /\ ~(openTail /\ p = Len(file))
      BY <1>0, <1>3, <1>9, <2>1
    <3>2. PICK q \in 1..(p - 1) : file[q] = m
      BY <1>8, <1>9, <2>0, <3>1 DEF InOrder
    <3>3. q \in 1..Len(file) /\ q # Len(file)
      BY <1>0, <3>1, <3>2
    <3> QED
      BY <1>3, <3>2, <3>3
  <2>2. CASE p > Len(file)
    <3> DEFINE j == p - Len(file) + o
    <3>1. p \in (Len(file) + 1)..Len(F) /\ j \in 1..Len(items)
      BY <1>0, <1>2, <1>3, <1>6, <2>0, <2>2
    <3>2. F[p] = items[j]
      BY <1>3, <3>1
    <3>3. m \notin Memory'
      <4>1. ~(items[j] < m)
        BY <1>2, <1>9, <2>0, <3>1, <3>2 DEF Item
      <4> QED
        BY <1>1, <3>1, <4>1
    <3>4. PICK q \in 1..Len(F) : F[q] = m
      BY <1>5, <1>6, <3>3 DEF Pending
    <3>5. CASE q <= Len(file)
      BY <1>0, <2>0, <2>2, <3>4, <3>5
    <3>6. CASE q > Len(file)
      <4> DEFINE i == q - Len(file) + o
      <4>1. q \in (Len(file) + 1)..Len(F) /\ i \in 1..Len(items) /\ (i < j <=> q < p)
            /\ (i = j <=> q = p)
        BY <1>0, <1>2, <1>3, <1>6, <2>0, <3>1, <3>4, <3>6
      <4>2. F[q] = items[i]
        BY <1>3, <4>1
      <4> HIDE DEF i, j
      <4>3. items[i] < items[j] /\ items[i] \in Nat /\ items[j] \in Nat
        BY <1>2, <1>9, <3>1, <3>2, <3>4, <4>1, <4>2 DEF Item
      <4>4. i < j
        BY <1>1, <1>2, <3>1, <4>1, <4>3 DEF Rising
      <4> QED
        BY <2>0, <3>4, <4>1, <4>4
    <3> QED
      BY <1>0, <2>0, <3>4, <3>5, <3>6
  <2> QED
    BY <1>0, <2>0, <2>1, <2>2
<1> QED
  BY <1>9 DEF InOrder

\* The first interrupted write finds no open line: it leaves the first items of the
\* batch in their order, and whatever memory keeps is younger or the same batch.
LEMMA TearsOrder ==
  ASSUME Inv, AccountInv, OrderInv, NEW items \in Seq(Item), Tears(items)
  PROVE  OrderInv'
<1>0. /\ file \in Seq(Line) /\ Len(file) \in Nat /\ openTail \in BOOLEAN
      /\ (\A x \in Pending : x \in Item) /\ Cuts \in Nat
  BY AccountTypes
<1>1. /\ written' = written /\ inFlight' \in {inFlight, 0} /\ Cuts' = Cuts + 1
      /\ Rising(items) /\ \A m \in Memory' : m \in Memory
      /\ \A x \in Held(items) : x \in Memory
      /\ \A m \in Memory : m \in Held(items) \/ \A i \in 1..Len(items) : items[i] < m
  BY DEF Tears, Oldest
<1> SUFFICES ASSUME Cuts' <= 1
             PROVE  /\ InOrder(file', written, Pending')
                    /\ \A m \in Pending' : m \in Pending
  <2>1. Cuts' <= 1 => Cuts <= 1
    BY <1>0, <1>1
  <2> QED
    BY <1>1, <2>1 DEF OrderInv
<1>2. ~openTail
  <2>1. Cardinality(Gone) \in Nat
    BY CountGone, AccountTypes DEF Gone, Items
  <2>2. Cuts = 0 /\ Cardinality(Gone) + (IF openTail THEN 1 ELSE 0) <= 0
    BY <1>0, <1>1 DEF AccountInv
  <2> QED
    BY <1>0, <2>1, <2>2
<1>3. InOrder(file, written, Pending)
  BY <1>0, <1>1 DEF OrderInv
<1>4. CASE UNCHANGED fileVars
  <2>1. file' = file /\ \A m \in Pending' : m \in Pending
    BY <1>1, <1>4 DEF fileVars, Pending
  <2> QED
    BY <1>3, <2>1, OrderWeaker
<1>5. ASSUME NEW s \in Seq(Line), PartOf(s, items), file' = Appended(s)
      PROVE  /\ InOrder(file', written, Pending')
             /\ \A m \in Pending' : m \in Pending
  <2> DEFINE F == Appended(s)
  <2>1. /\ F \in Seq(Line) /\ Len(F) = Len(file) + Len(s)
        /\ \A i \in 1..Len(file) : F[i] = file[i]
        /\ \A i \in (Len(file) + 1)..Len(F) : F[i] = s[i - Len(file)]
    <3>1. s # <<>> /\ Len(s) \in Nat
      BY <1>5 DEF PartOf
    <3>2. /\ F \in Seq(Line) /\ Len(F) = Len(file) + Len(s) - 0
          /\ \A i \in 1..Len(file) : F[i] = file[i]
          /\ \A i \in (Len(file) + 1)..Len(F) : F[i] = s[i - Len(file) + 0]
      BY <1>0, <1>2, <3>1, AppendedLines
    <3> HIDE DEF F
    <3>3. Len(F) = Len(file) + Len(s) /\ \A i \in (Len(file) + 1)..Len(F) : i - Len(file) + 0 = i - Len(file)
      BY <1>0, <3>1, <3>2
    <3> QED
      BY <3>2, <3>3
  <2>2. \A x \in Held(F) : x \in Held(file) \/ x \in Held(items)
    BY <1>0, <1>2, <1>5, AppendedHeld, PartHeld DEF PartOf
  <2>3. file' = F
    BY <1>5
  <2> HIDE DEF F
  <2>4. \A m \in Pending' : m \in Pending
    BY <1>1, <2>2, <2>3 DEF Pending
  <2>5. /\ Len(s) \in Nat /\ Len(items) \in Nat /\ Len(s) <= Len(items)
        /\ \A i \in 1..Len(items) : items[i] \in Item
        /\ \A j \in 1..Len(s) : s[j] # items[j] => s[j] = 0 /\ j = Len(s)
        /\ \A x \in Held(items) : \E i \in 1..Len(items) : items[i] = x
    BY <1>5, ItemsAreLines DEF PartOf
  <2>6. ASSUME NEW p \in 1..Len(F), F[p] # 0, F[p] \notin written,
               NEW m \in Pending, m < F[p], m \notin written
        PROVE  \E q \in 1..(p - 1) : F[q] = m
    <3>0. m \in Nat /\ Len(F) \in Nat
      BY <1>0, <2>1 DEF Item
    <3>1. CASE p <= Len(file)
      <4>1. p \in 1..Len(file) /\ F[p] = file[p]
        BY <1>0, <2>1, <2>6, <3>1
      <4>2. PICK q \in 1..(p - 1) : file[q] = m
        BY <1>3, <2>6, <4>1 DEF InOrder
      <4>3. q \in 1..Len(file)
        BY <1>0, <4>1, <4>2
      <4> QED
        BY <2>1, <4>2, <4>3
    <3>2. CASE p > Len(file)
      <4> DEFINE j == p - Len(file)
      <4>1. p \in (Len(file) + 1)..Len(F) /\ j \in 1..Len(s) /\ p = Len(file) + j
        BY <1>0, <2>1, <2>5, <3>0, <3>2
      <4> HIDE DEF j
      <4>2. F[p] = s[j]
        BY <2>1, <4>1 DEF j
      <4>3. F[p] = items[j] /\ j \in 1..Len(items)
        BY <2>5, <2>6, <4>1, <4>2
      <4>4. CASE m \in Held(file)
        <5>1. PICK q \in 1..Len(file) : file[q] = m
          BY <1>0, <4>4, HeldAt
        <5> QED
          BY <1>0, <2>1, <3>2, <5>1
      <4>5. CASE m \in Memory
        <5>1. ~(items[j] < m)
          BY <2>5, <2>6, <3>0, <4>3 DEF Item
        <5>2. PICK i \in 1..Len(items) : items[i] = m
          BY <1>1, <2>5, <4>3, <4>5, <5>1
        <5>3. i < j
          <6>1. items[i] < items[j] /\ items[i] \in Nat /\ items[j] \in Nat
            BY <2>5, <2>6, <4>3, <5>2 DEF Item
          <6> QED
            BY <1>1, <2>5, <4>3, <5>2, <6>1 DEF Rising
        <5>4. i \in 1..Len(s) /\ i # Len(s)
          BY <2>5, <4>1, <5>2, <5>3
        <5>5. s[i] = m
          BY <2>5, <5>2, <5>4
        <5>6. Len(file) + i \in (Len(file) + 1)..Len(F) /\ (Len(file) + i) - Len(file) = i
              /\ Len(file) + i \in 1..(p - 1)
          BY <1>0, <2>1, <2>5, <4>1, <5>3, <5>4
        <5>7. F[Len(file) + i] = m
          BY <2>1, <5>5, <5>6
        <5> QED
          BY <5>6, <5>7
      <4> QED
        BY <2>6, <4>4, <4>5 DEF Pending
    <3> QED
      BY <1>0, <3>0, <3>1, <3>2
  <2>7. InOrder(F, written, Pending)
    BY <2>6 DEF InOrder
  <2>8. InOrder(F, written, Pending')
    BY <2>4, <2>7, OrderWeaker
  <2> QED
    BY <2>3, <2>4, <2>8
<1> QED
  BY <1>4, <1>5 DEF Tears

\* While at most one write was interrupted, items are written for the first time in the
\* order of their events (registry_listener.py 155-165), whatever was retried, requeued,
\* replayed or delivered twice.
THEOREM FirstWritesAreInOrder == Spec => FirstWriteInOrder
<1> DEFINE All == Inv /\ MemoryInv /\ AccountInv
           Promise == Cuts <= 1 =>
                        \A n \in written' \ written : \A m \in 1..(n - 1) :
                          m \in Pending => m \in written'
<1>1. Init => OrderInv
  <2> SUFFICES ASSUME Init PROVE OrderInv
    OBVIOUS
  <2>1. Len(file) = 0 /\ inFlight = 0
    BY DEF Init, PQInit, NoInFlight
  <2> QED
    BY <2>1 DEF OrderInv, InOrder
<1>2. All /\ OrderInv /\ [Next]_vars => OrderInv'
  <2> SUFFICES ASSUME All, OrderInv, [Next]_vars PROVE OrderInv'
    OBVIOUS
  <2>1. Effect
    BY NextEffect
  <2> QED
    BY <2>1, StaysOrder, ArrivesOrder, TakesOrder, WritesOrder, FinishesOrder, LandsOrder,
       TearsOrder DEF Effect
<1>3. All /\ OrderInv /\ [Next]_vars => Promise
  <2> SUFFICES ASSUME All, OrderInv, [Next]_vars, Cuts <= 1,
                      NEW n \in written' \ written, NEW m \in 1..(n - 1), m \in Pending
               PROVE  m \in written'
    OBVIOUS
  <2>1. Effect
    BY NextEffect
  <2>2. written' = written \/ Writes
    BY <2>1 DEF Effect, Stays, RestKept, Arrives, Takes, Finishes, Lands, Tears
  <2>3. inFlight # 0 /\ written' = written \cup {inFlight} /\ n = inFlight
    BY <2>2 DEF Writes
  <2>4. m < n
    BY <2>3, AccountTypes
  <2> QED
    BY <2>3, <2>4 DEF OrderInv
<1>4. Spec => []OrderInv
  BY <1>1, <1>2, AllHold, PTL DEF Spec
<1>5. Promise => [faults["append"] + faults["crash"] <= 1 =>
                    \A n \in written' \ written : \A m \in 1..(n - 1) :
                      m \in Pending => m \in written']_vars
  BY DEF Cuts
<1>6. All /\ OrderInv /\ [Next]_vars =>
        [faults["append"] + faults["crash"] <= 1 =>
           \A n \in written' \ written : \A m \in 1..(n - 1) :
             m \in Pending => m \in written']_vars
  BY <1>3, <1>5
<1> QED
  BY <1>4, <1>6, AllHold, PTL DEF Spec, FirstWriteInOrder
=============================================================================
