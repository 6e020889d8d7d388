-------------------------- MODULE Scd2RepairProofs --------------------------
(***************************************************************************)
(* Theorems about Scd2Repair, for every value of its constants.  A table   *)
(* that verifies clean is one whose versions are apart; this is what each  *)
(* statement of the repair keeps.                                          *)
(***************************************************************************)
EXTENDS Scd2Repair, FiniteSetTheorems, WellFoundedInduction, TLAPS

-----------------------------------------------------------------------------
(* Instants, and the least and the greatest of a set.                      *)

LEMMA TimesFacts ==
  /\ MaxTime \in Nat /\ MaxRows \in Nat /\ MergePasses \in Nat /\ MaxRuns \in Nat
  /\ Open \in Nat /\ Open \notin Times /\ Times \subseteq Nat
  /\ \A t \in Times : t < Open
  /\ \A t \in Nat : t < Open => t \in Times
  /\ \A t \in Times \cup {Open} : t \in Nat /\ t <= Open
BY RepairAssumption DEF Times, Open

LEMMA RowFacts ==
  ASSUME NEW r \in Row
  PROVE  /\ r.rid \in Nat /\ r.from \in Nat /\ r.to \in Nat /\ r.from < Open /\ r.to <= Open
         /\ r.from \in Times /\ r.to \in Times \cup {Open} /\ r.pay \in Payloads
<1>1. r.rid \in 1..MaxRows /\ r.from \in Times /\ r.to \in Times \cup {Open} /\ r.pay \in Payloads
  BY DEF Row
<1>2. r.rid \in Nat
  BY ONLY <1>1, TimesFacts
<1>3. r.from \in Nat /\ r.from < Open
  BY ONLY <1>1, TimesFacts
<1>4. r.to \in Nat /\ r.to <= Open
  BY ONLY <1>1, TimesFacts
<1> QED
  BY <1>1, <1>2, <1>3, <1>4

\* The least of a set of naturals.
LEMMA MinOfSet ==
  ASSUME NEW S, S \subseteq Nat, S # {}
  PROVE  Min(S) \in S /\ \A y \in S : Min(S) <= y
<1> DEFINE L == OpToRel(<, Nat)
<1>1. IsWellFoundedOn(L, Nat)
  BY NatLessThanWellFounded
<1>2. \A a, b \in Nat : <<a, b>> \in L <=> a < b
  BY DEF OpToRel
<1> HIDE DEF L
<1>3. PICK x \in S : \A y \in S : ~(<<y, x>> \in L)
  BY <1>1, WFMin
<1>4. \A y \in S : x <= y
  <2> TAKE y \in S
  <2>1. ~(y < x)
    BY <1>2, <1>3
  <2> QED
    BY <2>1
<1> QED
  BY <1>4 DEF Min

LEMMA MinOfTwo ==
  ASSUME NEW a \in Nat, NEW b \in Nat
  PROVE  Min({a, b}) = IF a <= b THEN a ELSE b
<1>1. Min({a, b}) \in {a, b} /\ \A y \in {a, b} : Min({a, b}) <= y
  BY MinOfSet
<1> QED
  BY <1>1

LEMMA MaxOfTwo ==
  ASSUME NEW a \in Nat, NEW b \in Nat
  PROVE  Max({a, b}) = IF a <= b THEN b ELSE a
<1>1. \E x \in {a, b} : \A y \in {a, b} : x >= y
  OBVIOUS
<1>2. Max({a, b}) \in {a, b} /\ \A y \in {a, b} : Max({a, b}) >= y
  BY <1>1 DEF Max
<1> QED
  BY <1>2

\* A set of naturals with a bound has a greatest element.
LEMMA MaxExists ==
  ASSUME NEW k \in Nat, NEW S, S \subseteq 0..k, S # {}
  PROVE  \E x \in S : \A y \in S : y <= x
<1> DEFINE D == {k - m : m \in S}
<1>1. D \subseteq Nat /\ D # {}
  <2>1. \A m \in S : k - m \in Nat
    OBVIOUS
  <2>2. D # {}
    OBVIOUS
  <2> QED
    BY <2>1, <2>2
<1>2. Min(D) \in D /\ \A e \in D : Min(D) <= e
  BY <1>1, MinOfSet
<1>3. PICK x \in S : Min(D) = k - x
  BY <1>2
<1>4. \A m \in S : k - x <= k - m
  BY <1>2, <1>3
<1> QED
  BY <1>4

\* What holds of 0 and is passed on holds up to N.
LEMMA Climb ==
  ASSUME NEW N \in Nat, NEW S, 0 \in S, \A k \in 0..(N - 1) : k \in S => k + 1 \in S
  PROVE  N \in S
<1> SUFFICES ASSUME N \notin S PROVE FALSE
  OBVIOUS
<1> DEFINE B == {k \in 0..N : k \notin S}
<1>1. B \subseteq Nat /\ B # {}
  OBVIOUS
<1>2. Min(B) \in B /\ \A k \in B : Min(B) <= k
  BY <1>1, MinOfSet
<1> DEFINE m == Min(B)
<1>3. m \in Nat /\ m <= N /\ m \notin S /\ \A k \in B : m <= k
  BY <1>2
<1> HIDE DEF m
<1>4. m # 0 /\ m - 1 \in 0..(N - 1) /\ (m - 1) + 1 = m
  BY <1>3
<1>5. m - 1 \in S
  BY <1>3, <1>4
<1> QED
  BY <1>3, <1>4, <1>5

-----------------------------------------------------------------------------
(* A version table and the order of its versions.                          *)

Table(T) == T \subseteq Row /\ \A r, s \in T : r.rid = s.rid => r = s

\* Two versions of a table are in one order or the other.
LEMMA InOrder ==
  ASSUME NEW T, Table(T), NEW r \in T, NEW s \in T, r # s
  PROVE  Before(r, s) \/ Before(s, r)
<1>1. r \in Row /\ s \in Row /\ r.rid # s.rid
  BY DEF Table
<1>2. /\ r.rid \in Nat /\ r.from \in Nat /\ r.to \in Nat
      /\ s.rid \in Nat /\ s.from \in Nat /\ s.to \in Nat
  BY <1>1, RowFacts
<1> QED
  BY <1>1, <1>2 DEF Before

LEMMA OrderFacts ==
  ASSUME NEW r \in Row, NEW s \in Row
  PROVE  /\ ~(Before(r, s) /\ Before(s, r))
         /\ Before(r, s) => r.from <= s.from /\ (r.from = s.from => r.to <= s.to)
         /\ r.from < s.from => Before(r, s)
<1>1. /\ r.rid \in Nat /\ r.from \in Nat /\ r.to \in Nat
      /\ s.rid \in Nat /\ s.from \in Nat /\ s.to \in Nat
  BY RowFacts
<1> QED
  BY <1>1 DEF Before

LEMMA NextFacts ==
  ASSUME NEW T, Table(T), NEW r \in T
  PROVE  /\ NextFrom(r, T) \in Nat /\ NextFrom(r, T) <= Open /\ r.from <= NextFrom(r, T)
         /\ NextFrom(r, T) \in Times \cup {Open}
         /\ \A s \in T : Before(r, s) => NextFrom(r, T) <= s.from
         /\ NextFrom(r, T) = Open \/ \E s \in T : Before(r, s) /\ NextFrom(r, T) = s.from
<1> DEFINE S == {s.from : s \in After(r, T)} \cup {Open}
<1>1. \A s \in T : s \in Row /\ s.from \in Nat /\ s.from < Open /\ s.from \in Times
  BY RowFacts DEF Table
<1>2. \A s \in After(r, T) : s \in T /\ Before(r, s) /\ r.from <= s.from
  BY <1>1, OrderFacts DEF After
<1>3. S \subseteq Nat /\ S # {} /\ Open \in S
  BY <1>1, <1>2, TimesFacts
<1>4. Min(S) \in S /\ \A y \in S : Min(S) <= y
  BY <1>3, MinOfSet
<1>5. NextFrom(r, T) = Min(S)
  BY DEF NextFrom
<1>6. \A s \in T : Before(r, s) => s.from \in S
  BY DEF After
<1>7. Min(S) = Open \/ \E s \in T : Before(r, s) /\ Min(S) = s.from
  BY <1>2, <1>4
<1> DEFINE m == Min(S)
<1>8. m \in Nat /\ m <= Open /\ r.from <= m /\ m \in Times \cup {Open}
  <2>1. r.from \in Nat /\ r.from <= Open
    BY <1>1, TimesFacts
  <2>2. m = Open \/ \E s \in T : s.from = m /\ r.from <= s.from
    BY <1>2, <1>4
  <2> HIDE DEF m
  <2> QED
    BY <1>1, <2>1, <2>2, TimesFacts
<1> HIDE DEF S
<1> QED
  BY <1>4, <1>5, <1>6, <1>7, <1>8

\* The versions of a table are apart: none is inverted, each ends before the next start,
\* and of those with one start all but one are empty.
Apart(T) ==
  \A r, s \in T : /\ r.from <= r.to
                  /\ r.from < s.from => r.to <= s.from
                  /\ r # s /\ r.from = s.from => r.to = r.from \/ s.to = s.from

\* The checks of run_verification together say that.
LEMMA CleanIsApart ==
  ASSUME NEW T, Table(T)
  PROVE  Clean(T) <=> Apart(T)
<1>1. \A r \in T : /\ r \in Row /\ r.from \in Nat /\ r.to \in Nat /\ r.from < Open /\ r.to <= Open
  BY RowFacts DEF Table
<1>2. ASSUME Clean(T) PROVE Apart(T)
  <2> SUFFICES ASSUME NEW r \in T, NEW s \in T
               PROVE  /\ r.from <= r.to
                      /\ r.from < s.from => r.to <= s.from
                      /\ r # s /\ r.from = s.from => r.to = r.from \/ s.to = s.from
    BY DEF Apart
  <2>1. r.from <= r.to
    BY <1>1, <1>2 DEF Clean, Inverted
  <2>2. \A a \in T : a.to <= NextFrom(a, T)
    BY <1>1, <1>2, NextFacts DEF Clean, Overrun
  <2>3. \A a, b \in T : Before(a, b) => a.to <= b.from
    <3> SUFFICES ASSUME NEW a \in T, NEW b \in T, Before(a, b) PROVE a.to <= b.from
      OBVIOUS
    <3>1. NextFrom(a, T) \in Nat /\ NextFrom(a, T) <= b.from
      BY NextFacts
    <3> QED
      BY <1>1, <2>2, <3>1
  <2>4. r.from < s.from => r.to <= s.from
    BY <1>1, <2>3, OrderFacts
  <2>5. ASSUME r # s, r.from = s.from PROVE r.to = r.from \/ s.to = s.from
    <3>1. Before(r, s) \/ Before(s, r)
      BY <2>5, InOrder
    <3>2. r.to <= s.from \/ s.to <= r.from
      BY <2>3, <3>1
    <3>3. s.from <= s.to
      BY <1>1, <1>2 DEF Clean, Inverted
    <3> QED
      BY <1>1, <2>1, <2>5, <3>2, <3>3
  <2> QED
    BY <2>1, <2>4, <2>5
<1>3. ASSUME Apart(T) PROVE Clean(T)
  <2>1. Inverted(T) = {}
    BY <1>1, <1>3 DEF Inverted, Apart
  <2>2. ~MultiOpen(T)
    <3> SUFFICES ASSUME NEW a \in T, NEW b \in T, a # b, a.to = Open, b.to = Open PROVE FALSE
      BY DEF MultiOpen
    <3>1. a.from < b.from \/ b.from < a.from \/ a.from = b.from
      BY <1>1
    <3> QED
      BY <1>1, <1>3, <3>1, TimesFacts DEF Apart
  <2>3. Overrun(T) = {}
    <3> SUFFICES ASSUME NEW r \in T, r.to > NextFrom(r, T) PROVE FALSE
      BY DEF Overrun
    <3>1. NextFrom(r, T) \in Nat /\ NextFrom(r, T) # Open
      BY <1>1, NextFacts, TimesFacts
    <3>2. PICK s \in T : Before(r, s) /\ NextFrom(r, T) = s.from
      BY <3>1, NextFacts
    <3>3. r.from <= s.from /\ (r.from = s.from => r.to <= s.to) /\ r # s
      BY <1>1, <3>2, OrderFacts
    <3> QED
      BY <1>1, <1>3, <3>1, <3>2, <3>3 DEF Apart
  <2>4. ~RangeOverlap(T)
    <3> SUFFICES ASSUME NEW a \in T, NEW b \in T, a # b, Overlap(a, b) PROVE FALSE
      BY DEF RangeOverlap
    <3>1. a.from < b.from \/ b.from < a.from \/ a.from = b.from
      BY <1>1
    <3> QED
      BY <1>1, <1>3, <3>1 DEF Apart, Overlap
  <2> QED
    BY <2>1, <2>2, <2>3, <2>4 DEF Clean
<1> QED
  BY <1>2, <1>3

-----------------------------------------------------------------------------
(* What the transaction of a table does to its intervals.                  *)

\* A part of a table is one.
LEMMA KeptTable ==
  ASSUME NEW T, Table(T)
  PROVE  Kept(T) \subseteq T /\ Table(Kept(T))
BY DEF Kept, Table

\* A version that is collapsed has a twin of the same payload that stays, alone at its
\* start and closed no earlier.
LEMMA KeptTwin ==
  ASSUME NEW T, Table(T), NEW r \in T
  PROVE  \E x \in Kept(T) : /\ x.from = r.from /\ x.pay = r.pay /\ r.to <= x.to
                            /\ x = r \/ \A s \in Kept(T) : s.from = r.from => s = x
<1>1. \A s \in T : s \in Row /\ s.rid \in Nat /\ s.to \in Nat /\ s.to <= Open /\ s.from \in Nat
  BY RowFacts DEF Table
<1>2. CASE r \in Kept(T)
  BY <1>1, <1>2
<1>3. CASE r \notin Kept(T)
  <2>1. r \in Losers(T) /\ Kept(T) = T \ Losers(T)
    BY <1>3 DEF Kept
  <2>2. \A s \in Twins(r, T) : s.pay = r.pay
    BY <2>1 DEF Losers
  <2> DEFINE W == Twins(r, T)
             A == {s.to : s \in W}
  <2>3. W = {s \in T : s.from = r.from} /\ r \in W
    BY DEF Twins
  <2> HIDE DEF W
  <2>4. A \subseteq 0..Open /\ A # {}
    BY <1>1, <2>3, TimesFacts
  <2>5. PICK m \in A : \A a \in A : a <= m
    BY <2>4, TimesFacts, MaxExists
  <2> DEFINE B == {s.rid : s \in {w \in W : w.to = m}}
  <2>6. B \subseteq Nat /\ B # {}
    BY <1>1, <2>3, <2>5
  <2>7. Min(B) \in B /\ \A b \in B : Min(B) <= b
    BY <2>6, MinOfSet
  <2>8. PICK x \in W : x.to = m /\ x.rid = Min(B)
    BY <2>7
  <2>9. \A s \in W : s.to < m \/ (s.to = m /\ x.rid <= s.rid)
    <3> SUFFICES ASSUME NEW s \in W PROVE s.to < m \/ (s.to = m /\ x.rid <= s.rid)
      OBVIOUS
    <3>1. s.to <= m /\ s.to \in Nat /\ m \in Nat
      BY <1>1, <2>3, <2>4, <2>5
    <3>2. s.to = m => s.rid \in B
      OBVIOUS
    <3> QED
      BY <2>7, <2>8, <3>1, <3>2
  <2> HIDE DEF A, B
  <2>10. x \in T /\ x.from = r.from /\ x.pay = r.pay
    BY <2>2, <2>3 DEF W
  <2>11. \A s \in T : Twins(s, T) = {w \in T : w.from = s.from}
    BY DEF Twins
  <2>12. x \notin Losers(T)
    <3> SUFFICES ASSUME NEW s \in W, s.to > x.to \/ (s.to = x.to /\ s.rid < x.rid) PROVE FALSE
      BY <2>3, <2>10, <2>11 DEF Losers
    <3> QED
      BY <1>1, <2>3, <2>8, <2>9
  <2>13. \A s \in T : s.from = r.from /\ s # x => s \in Losers(T)
    <3> SUFFICES ASSUME NEW s \in T, s.from = r.from, s # x PROVE s \in Losers(T)
      OBVIOUS
    <3>1. Twins(s, T) = W /\ s \in W
      BY <2>3, <2>11
    <3>2. \A w \in Twins(s, T) : w.pay = s.pay
      BY <2>2, <3>1 DEF W
    <3>3. x.rid # s.rid
      BY <2>10 DEF Table
    <3>4. x.to > s.to \/ (x.to = s.to /\ x.rid < s.rid)
      BY <1>1, <2>8, <2>9, <2>10, <3>1, <3>3
    <3>5. \E w \in Twins(s, T) : w.to > s.to \/ (w.to = s.to /\ w.rid < s.rid)
      BY <3>1, <3>4
    <3> QED
      BY <3>2, <3>5 DEF Losers
  <2>14. r.to <= x.to
    BY <1>1, <2>3, <2>8, <2>9, <2>10
  <2>15. x \in Kept(T)
    BY <2>1, <2>10, <2>12
  <2>16. \A s \in Kept(T) : s.from = r.from => s = x
    BY <2>1, <2>13
  <2> QED
    BY <2>10, <2>14, <2>15, <2>16
<1> QED
  BY <1>2, <1>3

\* Where the version r of K ends after the rebuild and the clamp.
Cut(r, K) == Max({Min({r.to, NextFrom(r, K)}), r.from})

LEMMA CutFacts ==
  ASSUME NEW K, Table(K), NEW r \in K
  PROVE  /\ Cut(r, K) \in Times \cup {Open} /\ Cut(r, K) \in Nat
         /\ r.from <= Cut(r, K) /\ Cut(r, K) <= NextFrom(r, K)
         /\ Cut(r, K) = IF r.to < r.from THEN r.from
                        ELSE IF r.to <= NextFrom(r, K) THEN r.to ELSE NextFrom(r, K)
<1>1. /\ r.from \in Nat /\ r.to \in Nat /\ r.from \in Times /\ r.to \in Times \cup {Open}
  BY RowFacts DEF Table
<1> DEFINE n == NextFrom(r, K)
<1>2. n \in Nat /\ r.from <= n /\ n \in Times \cup {Open}
  BY NextFacts
<1> HIDE DEF n
<1> DEFINE m == Min({r.to, n})
<1>3. m = IF r.to <= n THEN r.to ELSE n
  BY <1>1, <1>2, MinOfTwo
<1> HIDE DEF m
<1>4. Max({m, r.from}) = IF m <= r.from THEN r.from ELSE m
  BY <1>1, <1>2, <1>3, MaxOfTwo
<1>5. Cut(r, K) = Max({m, r.from})
  BY DEF Cut, m, n
<1>6. Cut(r, K) = IF r.to < r.from THEN r.from ELSE IF r.to <= n THEN r.to ELSE n
  BY <1>1, <1>2, <1>3, <1>4, <1>5
<1>7. Cut(r, K) \in Times \cup {Open} /\ Cut(r, K) \in Nat /\ r.from <= Cut(r, K) /\ Cut(r, K) <= n
  BY <1>1, <1>2, <1>6
<1> QED
  BY <1>6, <1>7 DEF n

LEMMA NormalisedRows ==
  ASSUME NEW T, Table(T)
  PROVE  Normalised(T) = {[r EXCEPT !.to = Cut(r, Kept(T))] : r \in Kept(T)}
<1> DEFINE K == Kept(T)
           rb(r) == [r EXCEPT !.to = Min({r.to, NextFrom(r, K)})]
           cl(r) == [r EXCEPT !.to = Max({r.to, r.from})]
<1>1. K \subseteq Row
  BY KeptTable DEF Table
<1> HIDE DEF K
<1>2. \A r \in K : cl(rb(r)) = [r EXCEPT !.to = Cut(r, K)]
  <2> SUFFICES ASSUME NEW r \in K PROVE cl(rb(r)) = [r EXCEPT !.to = Cut(r, K)]
    OBVIOUS
  <2>1. r \in Row
    BY <1>1
  <2> DEFINE m == Min({r.to, NextFrom(r, K)})
  <2>2. Cut(r, K) = Max({m, r.from})
    BY DEF Cut
  <2> HIDE DEF m
  <2>3. rb(r).to = m /\ rb(r).from = r.from
    BY <2>1 DEF Row, m
  <2>4. rb(r) = [r EXCEPT !.to = m]
    BY DEF m
  <2> HIDE DEF rb
  <2>5. cl(rb(r)) = [rb(r) EXCEPT !.to = Max({m, r.from})]
    BY <2>3
  <2> QED
    BY <2>1, <2>2, <2>4, <2>5 DEF Row
<1>3. Rebuilt(K) = {rb(r) : r \in K}
  BY DEF Rebuilt
<1>4. Normalised(T) = {cl(s) : s \in Rebuilt(K)}
  BY DEF Normalised, Clamped, K
<1> HIDE DEF rb, cl
<1>5. {cl(s) : s \in {rb(r) : r \in K}} = {cl(rb(r)) : r \in K}
  OBVIOUS
<1>6. {cl(rb(r)) : r \in K} = {[r EXCEPT !.to = Cut(r, K)] : r \in K}
  BY <1>2
<1> QED
  BY <1>3, <1>4, <1>5, <1>6 DEF K

\* A normalised table is apart.
LEMMA NormalisedApart ==
  ASSUME NEW T, Table(T)
  PROVE  Table(Normalised(T)) /\ Apart(Normalised(T))
<1> DEFINE K == Kept(T)
           R == Normalised(T)
<1>1. Table(K)
  BY KeptTable
<1>2. R = {[r EXCEPT !.to = Cut(r, K)] : r \in K}
  BY NormalisedRows
<1> HIDE DEF K, R
<1>3. \A r \in K : r \in Row /\ r.from \in Nat /\ r.to \in Nat
  BY <1>1, RowFacts DEF Table
<1>4. \A x \in R : \E r \in K : /\ x.rid = r.rid /\ x.from = r.from /\ x.to = Cut(r, K)
                                /\ x = [r EXCEPT !.to = Cut(r, K)] /\ x \in Row
  <2> SUFFICES ASSUME NEW r \in K, NEW x, x = [r EXCEPT !.to = Cut(r, K)]
               PROVE  /\ x.rid = r.rid /\ x.from = r.from /\ x.to = Cut(r, K) /\ x \in Row
    BY <1>2
  <2>1. Cut(r, K) \in Times \cup {Open}
    BY <1>1, CutFacts
  <2> QED
    BY <1>3, <2>1 DEF Row
<1>5. Table(R)
  <2>1. \A r, s \in K : r.rid = s.rid => r = s
    BY <1>1 DEF Table
  <2> QED
    BY <1>4, <2>1 DEF Table
<1>6. ASSUME NEW a \in K, NEW b \in K
      PROVE  /\ a.from <= Cut(a, K)
             /\ a.from < b.from => Cut(a, K) <= b.from
             /\ a # b /\ a.from = b.from => Cut(a, K) = a.from \/ Cut(b, K) = b.from
  <2>1. /\ a.from <= Cut(a, K) /\ Cut(a, K) <= NextFrom(a, K) /\ Cut(a, K) \in Nat
        /\ NextFrom(a, K) \in Nat
    BY <1>1, CutFacts, NextFacts
  <2>2. /\ b.from <= Cut(b, K) /\ Cut(b, K) <= NextFrom(b, K) /\ Cut(b, K) \in Nat
        /\ NextFrom(b, K) \in Nat
    BY <1>1, CutFacts, NextFacts
  <2>3. /\ Before(a, b) => NextFrom(a, K) <= b.from
        /\ Before(b, a) => NextFrom(b, K) <= a.from
    BY <1>1, NextFacts
  <2>4. a.from < b.from => Before(a, b)
    BY <1>3, OrderFacts
  <2>5. a # b => Before(a, b) \/ Before(b, a)
    BY <1>1, InOrder
  <2> QED
    BY <1>3, <2>1, <2>2, <2>3, <2>4, <2>5
<1>7. Apart(R)
  <2> SUFFICES ASSUME NEW x \in R, NEW y \in R
               PROVE  /\ x.from <= x.to
                      /\ x.from < y.from => x.to <= y.from
                      /\ x # y /\ x.from = y.from => x.to = x.from \/ y.to = y.from
    BY DEF Apart
  <2>1. PICK a \in K : x.from = a.from /\ x.to = Cut(a, K) /\ x = [a EXCEPT !.to = Cut(a, K)]
    BY <1>4
  <2>2. PICK b \in K : y.from = b.from /\ y.to = Cut(b, K) /\ y = [b EXCEPT !.to = Cut(b, K)]
    BY <1>4
  <2>3. x # y => a # b
    BY <2>1, <2>2
  <2> QED
    BY <1>6, <2>1, <2>2, <2>3
<1> QED
  BY <1>5, <1>7 DEF R

-----------------------------------------------------------------------------
(* The starts that are moved.                                              *)

StatesType == states \subseteq Times
CreatedType == created \in Created

LEMMA CreatedFacts ==
  ASSUME CreatedType
  PROVE  created.entity \in Nat /\ created.device \in Nat
<1>1. created \in [entity : 0..(MaxTime + 1), device : 0..(MaxTime + 1)]
  BY RepairAssumption DEF CreatedType
<1> QED
  BY <1>1, TimesFacts

LEMMA FirstStateFacts ==
  ASSUME StatesType
  PROVE  /\ FirstState \in Nat /\ FirstState <= Open /\ \A s \in states : FirstState <= s
         /\ FirstState \in states \/ FirstState = Open
<1> DEFINE S == states \cup {Open}
<1>1. S \subseteq Nat /\ S # {} /\ Open \in S
  BY TimesFacts DEF StatesType
<1>2. Min(S) \in S /\ \A y \in S : Min(S) <= y
  BY <1>1, MinOfSet
<1>3. FirstState = Min(S)
  BY DEF FirstState
<1> QED
  BY <1>1, <1>2, <1>3

\* The version that a plan moves stands alone at the start of its table.
LEMMA FirstFacts ==
  ASSUME NEW T, Table(T), NEW r \in T, IsFirst(r, T), ~Tied(r, T)
  PROVE  \A s \in T \ {r} : r.from < s.from /\ Before(r, s)
<1> SUFFICES ASSUME NEW s \in T \ {r} PROVE r.from < s.from /\ Before(r, s)
  OBVIOUS
<1>1. Before(r, s) /\ r.from # s.from
  BY DEF IsFirst, Tied
<1>2. r \in Row /\ s \in Row /\ r.from \in Nat /\ s.from \in Nat
  BY RowFacts DEF Table
<1> QED
  BY <1>1, <1>2, OrderFacts

\* A plan that moves the first version of T to start, not past its end or the next start.
Movable(T, plan, start) ==
  \A r \in plan : /\ r \in T /\ start \in Times /\ start <= r.to
                  /\ \A s \in T \ {r} : r.from < s.from /\ start <= s.from

LEMMA MovedApart ==
  ASSUME NEW T, Table(T), Apart(T), NEW plan, NEW start, Movable(T, plan, start)
  PROVE  Table(Moved(T, plan, start)) /\ Apart(Moved(T, plan, start))
<1> DEFINE M == Moved(T, plan, start)
           mv(r) == IF r \in plan THEN [r EXCEPT !.from = start] ELSE r
<1>1. M = {mv(r) : r \in T}
  BY DEF Moved
<1>2. \A r \in T : r \in Row /\ r.from \in Nat /\ r.to \in Nat
  BY RowFacts DEF Table
<1>3. \A r \in T : /\ mv(r).rid = r.rid /\ mv(r).to = r.to /\ mv(r) \in Row
                   /\ mv(r).from = IF r \in plan THEN start ELSE r.from
  <2> SUFFICES ASSUME NEW r \in T
               PROVE  /\ mv(r).rid = r.rid /\ mv(r).to = r.to /\ mv(r) \in Row
                      /\ mv(r).from = IF r \in plan THEN start ELSE r.from
    OBVIOUS
  <2>1. r \in plan => start \in Times
    BY DEF Movable
  <2> QED
    BY <1>2, <2>1 DEF Row
<1> HIDE DEF M, mv
<1>4. Table(M)
  <2>1. \A r, s \in T : mv(r).rid = mv(s).rid => r = s
    BY <1>3 DEF Table
  <2> QED
    BY <1>1, <1>3, <2>1 DEF Table
<1>5. ASSUME NEW a \in T, NEW b \in T
      PROVE  /\ mv(a).from <= mv(a).to
             /\ mv(a).from < mv(b).from => mv(a).to <= mv(b).from
             /\ a # b /\ mv(a).from = mv(b).from => mv(a).to = mv(a).from \/ mv(b).to = mv(b).from
  <2>1. /\ mv(a).to = a.to /\ mv(a).from = IF a \in plan THEN start ELSE a.from
        /\ mv(b).to = b.to /\ mv(b).from = IF b \in plan THEN start ELSE b.from
    BY <1>3
  <2>2. /\ a.from <= a.to /\ b.from <= b.to
        /\ (a.from < b.from => a.to <= b.from) /\ (b.from < a.from => b.to <= a.from)
        /\ (a # b /\ a.from = b.from => a.to = a.from \/ b.to = b.from)
    BY DEF Apart
  <2>3. /\ a \in plan => start \in Nat /\ start <= a.to /\ (a # b => a.from < b.from /\ start <= b.from)
        /\ b \in plan => start \in Nat /\ start <= b.to /\ (a # b => b.from < a.from /\ start <= a.from)
    BY TimesFacts DEF Movable
  <2>4. a.from \in Nat /\ a.to \in Nat /\ b.from \in Nat /\ b.to \in Nat
    BY <1>2
  <2>5. CASE a = b
    BY <2>1, <2>2, <2>3, <2>4, <2>5
  <2>6. CASE a # b
    BY <2>1, <2>2, <2>3, <2>4, <2>6
  <2> QED
    BY <2>5, <2>6
<1>6. Apart(M)
  BY <1>1, <1>5 DEF Apart
<1> QED
  BY <1>4, <1>6 DEF M

LEMMA AlignFacts ==
  ASSUME NEW E, Table(E), NEW D, Table(D), StatesType, NEW r \in AlignPlan(E, D)
  PROVE  /\ r \in E /\ AlignedFrom(D) \in Times /\ r.from < AlignedFrom(D) /\ AlignedFrom(D) < r.to
         /\ AlignedFrom(D) <= FirstState
         /\ \A s \in E \ {r} : r.from < s.from /\ AlignedFrom(D) < s.from
<1>1. /\ r \in E /\ IsFirst(r, E) /\ ~Tied(r, E) /\ AlignedFrom(D) > r.from
      /\ AlignedFrom(D) < Min({r.to, NextFrom(r, E)})
  BY DEF AlignPlan
<1>2. DeviceFrom(D) \in Nat
  <2> DEFINE S == {d.from : d \in D} \cup {Open}
  <2>1. \A d \in D : d.from \in Nat
    BY RowFacts DEF Table
  <2>2. S \subseteq Nat /\ S # {}
    BY <2>1, TimesFacts
  <2>3. Min(S) \in Nat
    BY <2>2, MinOfSet
  <2> QED
    BY <2>3 DEF DeviceFrom
<1>3. FirstState \in Nat
  BY FirstStateFacts
<1>4. AlignedFrom(D) \in Nat /\ AlignedFrom(D) <= FirstState
  BY <1>2, <1>3, MinOfTwo DEF AlignedFrom
<1>5. /\ r.from \in Nat /\ r.to \in Nat /\ r.to <= Open /\ NextFrom(r, E) \in Nat
  BY <1>1, RowFacts, NextFacts DEF Table
<1>6. Min({r.to, NextFrom(r, E)}) = IF r.to <= NextFrom(r, E) THEN r.to ELSE NextFrom(r, E)
  BY <1>5, MinOfTwo
<1>7. AlignedFrom(D) < r.to /\ AlignedFrom(D) < NextFrom(r, E)
  BY <1>1, <1>4, <1>5, <1>6
<1>8. AlignedFrom(D) \in Times
  BY <1>4, <1>5, <1>7, TimesFacts
<1>9. ASSUME NEW s \in E \ {r} PROVE r.from < s.from /\ AlignedFrom(D) < s.from
  <2>1. r.from < s.from /\ Before(r, s)
    BY <1>1, FirstFacts
  <2>2. NextFrom(r, E) <= s.from /\ s.from \in Nat
    BY <1>1, <2>1, NextFacts, RowFacts DEF Table
  <2> QED
    BY <1>4, <1>5, <1>7, <2>1, <2>2
<1> QED
  BY <1>1, <1>4, <1>5, <1>7, <1>8, <1>9

LEMMA ExtendFacts ==
  ASSUME NEW E, Table(E), StatesType, NEW r \in ExtendPlan(E)
  PROVE  /\ r \in E /\ FirstState \in Times /\ FirstState < r.from /\ created.entity <= FirstState
         /\ \A s \in E \ {r} : r.from < s.from /\ FirstState < s.from
<1>1. /\ r \in E /\ IsFirst(r, E) /\ ~Tied(r, E) /\ FirstState < r.from /\ created.entity <= FirstState
  BY DEF ExtendPlan
<1>2. FirstState \in Nat /\ r.from \in Nat /\ r.from < Open /\ \A s \in E : s.from \in Nat
  BY <1>1, FirstStateFacts, RowFacts DEF Table
<1>3. FirstState < Open
  BY <1>1, <1>2, TimesFacts
<1>4. FirstState \in Times
  BY <1>2, <1>3, TimesFacts
<1>5. \A s \in E \ {r} : r.from < s.from
  BY <1>1, FirstFacts
<1> QED
  BY <1>1, <1>2, <1>4, <1>5

LEMMA DeviceFacts ==
  ASSUME NEW E, Table(E), NEW D, Table(D), StatesType, CreatedType, NEW d \in DevicePlan(E, D)
  PROVE  /\ d \in D /\ DeviceStart(E) \in Times /\ DeviceStart(E) < d.from
         /\ created.device <= DeviceStart(E)
         /\ \A s \in D \ {d} : d.from < s.from /\ DeviceStart(E) < s.from
         /\ \E r \in E : /\ r.pay \in Linked
                         /\ (IF r \in ExtendPlan(E) THEN FirstState ELSE r.from) <= DeviceStart(E)
<1>1. d \in D /\ IsFirst(d, D) /\ ~Tied(d, D) /\ EntityStarts(E) # {} /\ DeviceStart(E) < d.from
  BY DEF DevicePlan
<1>2. FirstState \in Nat /\ d.from \in Nat /\ d.from < Open /\ \A s \in D : s.from \in Nat
  BY <1>1, FirstStateFacts, RowFacts DEF Table
<1>3. \A r \in E : r.from \in Nat
  BY RowFacts DEF Table
<1>4. EntityStarts(E) \subseteq Nat
  BY <1>2, <1>3 DEF EntityStarts
<1> DEFINE m == Min(EntityStarts(E))
<1>5. m \in EntityStarts(E) /\ m \in Nat
  BY <1>1, <1>4, MinOfSet
<1>6. PICK r \in E : r.pay \in Linked /\ m = IF r \in ExtendPlan(E) THEN FirstState ELSE r.from
  BY <1>5 DEF EntityStarts
<1> HIDE DEF m
<1>7. created.device \in Nat
  BY CreatedFacts
<1>8. DeviceStart(E) = IF m <= created.device THEN created.device ELSE m
  BY <1>5, <1>7, MaxOfTwo DEF DeviceStart, m
<1>9. DeviceStart(E) \in Nat /\ m <= DeviceStart(E) /\ created.device <= DeviceStart(E)
  BY <1>5, <1>7, <1>8
<1>10. DeviceStart(E) < Open
  BY <1>1, <1>2, <1>9, TimesFacts
<1>11. DeviceStart(E) \in Times
  BY <1>9, <1>10, TimesFacts
<1>12. \A s \in D \ {d} : d.from < s.from /\ DeviceStart(E) < s.from
  <2>1. \A s \in D \ {d} : d.from < s.from
    BY <1>1, FirstFacts
  <2> QED
    BY <1>1, <1>2, <1>9, <2>1
<1> QED
  BY <1>1, <1>6, <1>9, <1>11, <1>12

-----------------------------------------------------------------------------
(* The merge of neighbours.                                                *)

\* Every other version lies before the first of a pair or after its second.
LEMMA PairFacts ==
  ASSUME NEW E, Table(E), NEW p \in MergePairs(E)
  PROVE  /\ p[1] \in E /\ p[2] \in E /\ Before(p[1], p[2]) /\ p[1].to < p[2].from
         /\ p[1].pay = p[2].pay /\ p[1] # p[2]
         /\ \E s \in states : p[1].to <= s /\ s < p[2].from
         /\ \A x \in E : x = p[1] \/ x = p[2] \/ Before(x, p[1]) \/ Before(p[2], x)
<1>1. /\ p[1] \in E /\ p[2] \in E /\ Before(p[1], p[2]) /\ p[1].to < p[2].from
      /\ p[1].pay = p[2].pay /\ ~\E x \in E : Before(p[1], x) /\ Before(x, p[2])
      /\ \E s \in states : p[1].to <= s /\ s < p[2].from
  BY DEF MergePairs
<1>2. p[1] # p[2]
  BY <1>1, OrderFacts DEF Table
<1>3. ASSUME NEW x \in E, x # p[1], x # p[2] PROVE Before(x, p[1]) \/ Before(p[2], x)
  <2>1. Before(x, p[1]) \/ Before(p[1], x)
    BY <1>1, <1>3, InOrder
  <2>2. Before(x, p[2]) \/ Before(p[2], x)
    BY <1>1, <1>3, InOrder
  <2> QED
    BY <1>1, <2>1, <2>2
<1> QED
  BY <1>1, <1>2, <1>3

\* A version is the first of one pair at most.
LEMMA PairUnique ==
  ASSUME NEW E, Table(E), NEW p \in MergePairs(E), NEW q \in MergePairs(E), p[1] = q[1]
  PROVE  p[2] = q[2]
<1>1. /\ p[1] \in Row /\ p[2] \in E /\ p[2] \in Row /\ Before(p[1], p[2])
      /\ \A x \in E : x = p[1] \/ x = p[2] \/ Before(x, p[1]) \/ Before(p[2], x)
  BY PairFacts DEF Table
<1>2. /\ q[1] \in Row /\ q[2] \in E /\ q[2] \in Row /\ Before(q[1], q[2])
      /\ \A x \in E : x = q[1] \/ x = q[2] \/ Before(x, q[1]) \/ Before(q[2], x)
  BY PairFacts DEF Table
<1>3. q[2] = p[2] \/ Before(p[2], q[2])
  BY <1>1, <1>2, OrderFacts
<1>4. p[2] = q[2] \/ Before(q[2], p[2])
  BY <1>1, <1>2, OrderFacts
<1> QED
  BY <1>1, <1>2, <1>3, <1>4, OrderFacts

Seconds(E) == {p[2] : p \in MergePlan(E)}

\* x is what a pass makes of the version r.
Outcome(E, r, x) ==
  /\ x \in Row /\ x.rid = r.rid /\ x.from = r.from /\ x.pay = r.pay
  /\ \/ x = r /\ ~\E p \in MergePlan(E) : p[1] = r
     \/ \E p \in MergePlan(E) : p[1] = r /\ x.to = p[2].to

LEMMA PassRows ==
  ASSUME NEW m, Table(m.rows)
  PROVE  /\ \A x \in MergePass(m).rows : \E r \in m.rows \ Seconds(m.rows) : Outcome(m.rows, r, x)
         /\ \A r \in m.rows \ Seconds(m.rows) : \E x \in MergePass(m).rows : Outcome(m.rows, r, x)
         /\ MergePass(m).gone = m.gone \cup Seconds(m.rows)
         /\ Seconds(m.rows) \subseteq m.rows
<1> DEFINE E == m.rows
           plan == MergePlan(E)
           out(r) == IF \E p \in plan : p[1] = r
                       THEN [r EXCEPT !.to = (CHOOSE p \in plan : p[1] = r)[2].to]
                       ELSE r
<1>1. MergePass(m).rows = {out(r) : r \in E \ Seconds(E)} /\ MergePass(m).gone = m.gone \cup Seconds(E)
  BY DEF MergePass, Seconds
<1>2. plan \subseteq MergePairs(E)
  BY DEF MergePlan
<1>3. ASSUME NEW r \in E PROVE Outcome(E, r, out(r))
  <2>1. r \in Row
    BY DEF Table
  <2>2. CASE \E p \in plan : p[1] = r
    <3> DEFINE q == CHOOSE p \in plan : p[1] = r
    <3>1. q \in plan /\ q[1] = r
      BY <2>2
    <3> HIDE DEF q
    <3>2. q[2] \in Row
      BY <1>2, <3>1, PairFacts DEF Table
    <3>3. out(r) = [r EXCEPT !.to = q[2].to]
      BY <2>2 DEF q
    <3> HIDE DEF out
    <3>4. out(r) \in Row /\ out(r).rid = r.rid /\ out(r).from = r.from /\ out(r).pay = r.pay
          /\ out(r).to = q[2].to
      BY <2>1, <3>2, <3>3 DEF Row
    <3> QED
      BY <3>1, <3>4 DEF Outcome
  <2>3. CASE ~\E p \in plan : p[1] = r
    BY <2>1, <2>3 DEF Outcome
  <2> QED
    BY <2>2, <2>3
<1>4. Seconds(E) \subseteq E
  BY <1>2, PairFacts DEF Seconds
<1> HIDE DEF out, plan
<1> QED
  BY <1>1, <1>3, <1>4

\* A pass leaves a table that is apart so.
LEMMA PassApart ==
  ASSUME NEW m, Table(m.rows), Apart(m.rows)
  PROVE  Table(MergePass(m).rows) /\ Apart(MergePass(m).rows)
<1> DEFINE E == m.rows
           R == MergePass(m).rows
<1>1. \A x \in R : \E r \in E \ Seconds(E) : Outcome(E, r, x)
  BY PassRows
<1>2. Table(E) /\ Apart(E)
  OBVIOUS
<1> HIDE DEF E, R
<1>3. \A r \in E : r \in Row /\ r.from \in Nat /\ r.to \in Nat
  BY <1>2, RowFacts DEF Table
<1>4. \A r \in E, x, y \in R : Outcome(E, r, x) /\ Outcome(E, r, y) => x = y
  <2> SUFFICES ASSUME NEW r \in E, NEW x \in R, NEW y \in R, Outcome(E, r, x), Outcome(E, r, y)
               PROVE  x = y
    OBVIOUS
  <2>1. \A p, q \in MergePlan(E) : p[1] = r /\ q[1] = r => p[2] = q[2]
    BY <1>2, PairUnique DEF MergePlan
  <2>2. x \in Row /\ y \in Row /\ x.to = y.to /\ x.rid = y.rid /\ x.from = y.from /\ x.pay = y.pay
    BY <2>1 DEF Outcome
  <2> QED
    BY <2>2 DEF Row
<1>5. Table(R)
  <2>1. R \subseteq Row
    BY <1>1 DEF Outcome
  <2>2. \A x, y \in R : x.rid = y.rid => x = y
    <3> SUFFICES ASSUME NEW x \in R, NEW y \in R, x.rid = y.rid PROVE x = y
      OBVIOUS
    <3>1. PICK r \in E : Outcome(E, r, x)
      BY <1>1
    <3>2. PICK s \in E : Outcome(E, s, y)
      BY <1>1
    <3>3. r = s
      BY <1>2, <3>1, <3>2 DEF Outcome, Table
    <3> QED
      BY <1>4, <3>1, <3>2, <3>3
  <2> QED
    BY <2>1, <2>2 DEF Table
\* Where a version ends up, next to one that started no earlier.
<1>6. ASSUME NEW r \in E, NEW s \in E \ Seconds(E), NEW x \in R, NEW y \in R, Outcome(E, r, x), Outcome(E, s, y)
      PROVE  /\ r.from <= x.to
             /\ r.from < s.from => x.to <= s.from
             /\ r # s /\ r.from = s.from /\ ~(\E p \in MergePlan(E) : p[1] = s)
                  => x.to = r.from \/ y.to = s.from
  <2>1. CASE x = r
    BY <1>2, <1>3, <1>6, <2>1 DEF Outcome, Apart
  <2>2. CASE \E p \in MergePlan(E) : p[1] = r /\ x.to = p[2].to
    <3>1. PICK p \in MergePlan(E) : p[1] = r /\ x.to = p[2].to
      BY <2>2
    <3>2. p \in MergePairs(E) /\ p[2] \in Seconds(E)
      BY DEF MergePlan, Seconds
    <3>3. /\ p[2] \in E /\ Before(r, p[2]) /\ r.to < p[2].from
          /\ s = r \/ s = p[2] \/ Before(s, r) \/ Before(p[2], s)
      BY <1>2, <3>1, <3>2, PairFacts
    <3>4. s # p[2]
      BY <3>2
    <3>5. /\ p[2].from \in Nat /\ p[2].to \in Nat /\ p[2] \in Row /\ s \in Row /\ r \in Row
          /\ r.from \in Nat /\ r.to \in Nat /\ s.from \in Nat /\ s.to \in Nat
      BY <1>3, <3>3
    <3>6. /\ r.from <= r.to /\ p[2].from <= p[2].to /\ s.from <= s.to
          /\ p[2].from < s.from => p[2].to <= s.from
          /\ p[2] # s /\ p[2].from = s.from => p[2].to = p[2].from \/ s.to = s.from
          /\ r # s /\ r.from = s.from => r.to = r.from \/ s.to = s.from
      BY <1>2, <3>3 DEF Apart
    <3>7. r.from <= x.to
      BY <3>1, <3>3, <3>5, <3>6
    <3>8. ASSUME r.from < s.from PROVE x.to <= s.from
      <4>1. Before(p[2], s)
        BY <3>3, <3>4, <3>5, <3>8, OrderFacts
      <4>2. p[2].from <= s.from /\ (p[2].from = s.from => p[2].to <= s.to)
        BY <3>5, <4>1, OrderFacts
      <4> QED
        BY <3>1, <3>4, <3>5, <3>6, <4>2
    <3>9. ASSUME r # s, r.from = s.from, ~(\E q \in MergePlan(E) : q[1] = s)
          PROVE  x.to = r.from \/ y.to = s.from
      <4>1. ~Before(p[2], s)
        BY <3>3, <3>5, <3>6, <3>9, OrderFacts
      <4>2. Before(s, r)
        BY <3>3, <3>4, <3>9, <4>1
      <4>3. s.to <= r.to
        BY <3>5, <3>9, <4>2, OrderFacts
      <4>4. s.to = s.from
        BY <3>5, <3>6, <3>9, <4>3
      <4>5. y = s
        BY <1>6, <3>9 DEF Outcome
      <4> QED
        BY <4>4, <4>5
    <3> QED
      BY <3>7, <3>8, <3>9
  <2> QED
    BY <1>6, <2>1, <2>2 DEF Outcome
\* Two versions of one start are not both extended: the earlier one ends before the other.
<1>7. ASSUME NEW r \in E \ Seconds(E), NEW s \in E \ Seconds(E), r # s, r.from = s.from,
             NEW p \in MergePlan(E), p[1] = r, NEW q \in MergePlan(E), q[1] = s
      PROVE  FALSE
  <2>1. p \in MergePairs(E) /\ q \in MergePairs(E) /\ p[2] # s /\ q[2] # r
    BY <1>7 DEF MergePlan, Seconds
  <2>2. /\ p[2] \in E /\ r.to < p[2].from /\ (s = r \/ s = p[2] \/ Before(s, r) \/ Before(p[2], s))
        /\ q[2] \in E /\ s.to < q[2].from /\ (r = s \/ r = q[2] \/ Before(r, s) \/ Before(q[2], r))
    BY <1>2, <1>7, <2>1, PairFacts
  <2>3. /\ p[2] \in Row /\ q[2] \in Row /\ r \in Row /\ s \in Row
        /\ p[2].from \in Nat /\ q[2].from \in Nat /\ r.from \in Nat /\ s.from \in Nat
        /\ r.to \in Nat /\ s.to \in Nat
    BY <1>3, <2>2
  <2>4. r.from <= r.to /\ s.from <= s.to
    BY <1>2 DEF Apart
  <2>5. ~Before(p[2], s) /\ ~Before(q[2], r)
    BY <1>7, <2>2, <2>3, <2>4, OrderFacts
  <2> QED
    BY <1>7, <2>1, <2>2, <2>3, <2>5, OrderFacts
<1>8. Apart(R)
  <2> SUFFICES ASSUME NEW x \in R, NEW y \in R
               PROVE  /\ x.from <= x.to
                      /\ x.from < y.from => x.to <= y.from
                      /\ x # y /\ x.from = y.from => x.to = x.from \/ y.to = y.from
    BY DEF Apart
  <2>1. PICK r \in E \ Seconds(E) : Outcome(E, r, x)
    BY <1>1
  <2>2. PICK s \in E \ Seconds(E) : Outcome(E, s, y)
    BY <1>1
  <2>3. x.from = r.from /\ y.from = s.from /\ (x # y => r # s)
    BY <1>4, <2>1, <2>2 DEF Outcome
  <2>4. x.from <= x.to /\ (x.from < y.from => x.to <= y.from)
    BY <1>6, <2>1, <2>2, <2>3
  <2>5. ASSUME x # y, x.from = y.from PROVE x.to = x.from \/ y.to = y.from
    <3>0. r # s /\ r.from = s.from
      BY <2>3, <2>5
    <3>1. CASE ~\E p \in MergePlan(E) : p[1] = s
      <4>1. x.to = r.from \/ y.to = s.from
        BY <1>6, <2>1, <2>2, <3>0, <3>1
      <4> QED
        BY <2>3, <4>1
    <3>2. CASE ~\E p \in MergePlan(E) : p[1] = r
      <4>1. y.to = s.from \/ x.to = r.from
        BY <1>6, <2>1, <2>2, <3>0, <3>2
      <4> QED
        BY <2>3, <4>1
    <3> QED
      BY <1>7, <2>3, <2>5, <3>1, <3>2
  <2> QED
    BY <2>4, <2>5
<1> QED
  BY <1>5, <1>8 DEF R

\* The tables the passes go through, with what they have deleted.
Midway == {m \in [rows : SUBSET Row, gone : SUBSET Row] : Table(m.rows) /\ Apart(m.rows)}
Unmerged(E) == [rows |-> E, gone |-> {}]

LEMMA PassMidway ==
  ASSUME NEW m \in Midway
  PROVE  MergePass(m) \in Midway
<1>1. Table(m.rows) /\ Apart(m.rows) /\ m.gone \subseteq Row
  BY DEF Midway
<1> DEFINE o == MergePass(m)
<1>2. Table(o.rows) /\ Apart(o.rows)
  BY <1>1, PassApart
<1>3. o.gone = m.gone \cup Seconds(m.rows) /\ Seconds(m.rows) \subseteq m.rows
  BY <1>1, PassRows
<1>4. o = [rows |-> o.rows, gone |-> o.gone]
  BY DEF MergePass
<1> HIDE DEF o
<1>5. o.rows \in SUBSET Row /\ o.gone \in SUBSET Row
  BY <1>1, <1>2, <1>3 DEF Table
<1> QED
  BY <1>2, <1>4, <1>5 DEF Midway, o

\* The passes, one after the other.
Passes(g, k, E) ==
  /\ g \in [0..k -> Midway] /\ g[0] = Unmerged(E)
  /\ \A n \in 1..k : g[n] = MergePass(g[n - 1])

LEMMA PassesExist ==
  ASSUME NEW E, Table(E), Apart(E), NEW N \in Nat
  PROVE  \E g : Passes(g, N, E)
<1> DEFINE S == {k \in 0..N : \E g : Passes(g, k, E)}
<1>1. 0 \in S
  <2> DEFINE g == [n \in 0..0 |-> Unmerged(E)]
  <2>1. Unmerged(E) \in Midway
    BY DEF Midway, Unmerged, Table
  <2>2. g \in [0..0 -> Midway] /\ g[0] = Unmerged(E)
    BY <2>1
  <2>3. Passes(g, 0, E)
    BY <2>2 DEF Passes
  <2> QED
    BY <2>3
<1>2. ASSUME NEW k \in 0..(N - 1), k \in S PROVE k + 1 \in S
  <2>1. PICK g : Passes(g, k, E)
    BY <1>2
  <2>2. g \in [0..k -> Midway] /\ g[0] = Unmerged(E) /\ \A n \in 1..k : g[n] = MergePass(g[n - 1])
    BY <2>1 DEF Passes
  <2> DEFINE h == [n \in 0..(k + 1) |-> IF n = k + 1 THEN MergePass(g[k]) ELSE g[n]]
  <2>3. MergePass(g[k]) \in Midway
    BY <2>2, PassMidway
  <2>4. h \in [0..(k + 1) -> Midway] /\ h[0] = Unmerged(E)
    BY <2>2, <2>3
  <2>5. ASSUME NEW n \in 1..(k + 1) PROVE h[n] = MergePass(h[n - 1])
    <3>1. CASE n = k + 1
      <4>1. h[n] = MergePass(g[k]) /\ n - 1 = k /\ h[k] = g[k]
        BY <3>1
      <4> QED
        BY <4>1
    <3>2. CASE n # k + 1
      <4>1. n \in 1..k /\ n \in 0..(k + 1) /\ n - 1 \in 0..(k + 1) /\ n - 1 # k + 1
        BY <3>2
      <4>2. h[n] = g[n] /\ h[n - 1] = g[n - 1]
        BY <3>2, <4>1
      <4> QED
        BY <2>2, <4>1, <4>2
    <3> QED
      BY <3>1, <3>2
  <2> HIDE DEF h
  <2>6. Passes(h, k + 1, E)
    BY <2>4, <2>5 DEF Passes
  <2>7. k + 1 \in 0..N
    OBVIOUS
  <2> QED
    BY <2>6, <2>7
<1> HIDE DEF S
<1>3. N \in S
  BY <1>1, <1>2, Climb
<1> QED
  BY <1>3 DEF S

\* Merged is what they lead to.
LEMMA MergedPasses ==
  ASSUME NEW E, Table(E), Apart(E)
  PROVE  \E g : Passes(g, MergePasses, E) /\ Merged(E) = g[MergePasses]
<1> DEFINE N == MergePasses
           step(f) == [n \in 0..N |-> IF n = 0 THEN Unmerged(E) ELSE MergePass(f[n - 1])]
           after == CHOOSE f : f = step(f)
<1>1. N \in Nat
  BY TimesFacts
<1>2. Merged(E) = after[N]
  BY DEF Merged, Unmerged
<1> HIDE DEF N
<1>3. PICK g : Passes(g, N, E)
  BY <1>1, PassesExist
<1>4. g = step(g)
  BY <1>1, <1>3 DEF Passes
<1>5. after = step(after)
  BY <1>4
<1> HIDE DEF after
<1>6. \A n \in 0..N : after[n] = IF n = 0 THEN Unmerged(E) ELSE MergePass(after[n - 1])
  BY <1>5
<1>7. \A n \in 0..N : g[n] = IF n = 0 THEN Unmerged(E) ELSE MergePass(g[n - 1])
  BY <1>4
<1> DEFINE S == {k \in 0..N : after[k] = g[k]}
<1>8. 0 \in S
  BY <1>1, <1>6, <1>7
<1>9. ASSUME NEW k \in 0..(N - 1), k \in S PROVE k + 1 \in S
  <2>1. k + 1 \in 0..N /\ k + 1 # 0 /\ (k + 1) - 1 = k /\ after[k] = g[k]
    BY <1>1, <1>9
  <2> QED
    BY <1>6, <1>7, <2>1
<1> HIDE DEF S
<1>10. N \in S
  BY <1>1, <1>8, <1>9, Climb
<1> QED
  BY <1>2, <1>3, <1>10 DEF S, N

-----------------------------------------------------------------------------
(* What each transaction leaves is a table whose versions are apart.       *)

Fine(T) == Table(T) /\ Apart(T)

LEMMA AlignedFine ==
  ASSUME NEW E, Fine(E), NEW D, Table(D), StatesType
  PROVE  Fine(Moved(E, AlignPlan(E, D), AlignedFrom(D)))
<1>1. \A r \in AlignPlan(E, D) :
         /\ r \in E /\ AlignedFrom(D) \in Times /\ AlignedFrom(D) < r.to
         /\ \A s \in E \ {r} : r.from < s.from /\ AlignedFrom(D) < s.from
  BY AlignFacts DEF Fine
<1>2. \A r \in E : r.from \in Nat /\ r.to \in Nat
  BY RowFacts DEF Fine, Table
<1>3. Movable(E, AlignPlan(E, D), AlignedFrom(D))
  <2> SUFFICES ASSUME NEW r \in AlignPlan(E, D)
               PROVE  /\ r \in E /\ AlignedFrom(D) \in Times /\ AlignedFrom(D) <= r.to
                      /\ \A s \in E \ {r} : r.from < s.from /\ AlignedFrom(D) <= s.from
    BY DEF Movable
  <2>1. AlignedFrom(D) \in Nat
    BY <1>1, TimesFacts
  <2> QED
    BY <1>1, <1>2, <2>1
<1> QED
  BY <1>3, MovedApart DEF Fine

LEMMA ExtendedFine ==
  ASSUME NEW E, Fine(E), StatesType
  PROVE  Fine(Moved(E, ExtendPlan(E), FirstState))
<1>1. \A r \in E : r.from \in Nat /\ r.to \in Nat /\ r.from <= r.to
  BY RowFacts DEF Fine, Table, Apart
<1>2. Movable(E, ExtendPlan(E), FirstState)
  <2> SUFFICES ASSUME NEW r \in ExtendPlan(E)
               PROVE  /\ r \in E /\ FirstState \in Times /\ FirstState <= r.to
                      /\ \A s \in E \ {r} : r.from < s.from /\ FirstState <= s.from
    BY DEF Movable
  <2>1. /\ r \in E /\ FirstState \in Times /\ FirstState < r.from
        /\ \A s \in E \ {r} : r.from < s.from /\ FirstState < s.from
    BY ExtendFacts DEF Fine
  <2>2. FirstState \in Nat
    BY <2>1, TimesFacts
  <2> QED
    BY <1>1, <2>1, <2>2
<1> QED
  BY <1>2, MovedApart DEF Fine

LEMMA DevicesFine ==
  ASSUME NEW E, Table(E), NEW D, Fine(D), StatesType, CreatedType
  PROVE  Fine(Moved(D, DevicePlan(E, D), DeviceStart(E)))
<1>1. \A r \in D : r.from \in Nat /\ r.to \in Nat /\ r.from <= r.to
  BY RowFacts DEF Fine, Table, Apart
<1>2. Movable(D, DevicePlan(E, D), DeviceStart(E))
  <2> SUFFICES ASSUME NEW d \in DevicePlan(E, D)
               PROVE  /\ d \in D /\ DeviceStart(E) \in Times /\ DeviceStart(E) <= d.to
                      /\ \A s \in D \ {d} : d.from < s.from /\ DeviceStart(E) <= s.from
    BY DEF Movable
  <2>1. /\ d \in D /\ DeviceStart(E) \in Times /\ DeviceStart(E) < d.from
        /\ \A s \in D \ {d} : d.from < s.from /\ DeviceStart(E) < s.from
    BY DeviceFacts DEF Fine
  <2>2. DeviceStart(E) \in Nat
    BY <2>1, TimesFacts
  <2> QED
    BY <1>1, <2>1, <2>2
<1> QED
  BY <1>2, MovedApart DEF Fine

\* An empty plan moves nothing.
LEMMA MovedNone ==
  ASSUME NEW T, NEW start
  PROVE  Moved(T, {}, start) = T
BY DEF Moved

LEMMA MergedFine ==
  ASSUME NEW E, Fine(E)
  PROVE  Fine(Merged(E).rows)
<1>1. PICK g : Passes(g, MergePasses, E) /\ Merged(E) = g[MergePasses]
  BY MergedPasses DEF Fine
<1>2. g[MergePasses] \in Midway
  BY <1>1, TimesFacts DEF Passes
<1> QED
  BY <1>1, <1>2 DEF Midway, Fine

LEMMA FineIsClean ==
  ASSUME NEW T, Table(T)
  PROVE  /\ Fine(T) <=> Clean(T)
         /\ Fine(T) => ~RangeOverlap(T) /\ Inverted(T) = {}
BY CleanIsApart DEF Fine, Clean

LEMMA EntitiesRepaired ==
  ASSUME Table(entities), Table(devices), StatesType, RepairEntities
  PROVE  Fine(entities')
<1> DEFINE repaired == Normalised(entities)
           aligned == Moved(repaired, AlignPlan(repaired, devices), AlignedFrom(devices))
<1>1. entities' = Moved(aligned, ExtendPlan(aligned), FirstState)
  BY DEF RepairEntities
<1>2. Fine(repaired)
  BY NormalisedApart DEF Fine
<1> HIDE DEF repaired
<1>3. Fine(aligned)
  BY <1>2, AlignedFine
<1> HIDE DEF aligned
<1> QED
  BY <1>1, <1>3, ExtendedFine

LEMMA DevicesRepaired ==
  ASSUME Table(entities), Table(devices), StatesType, CreatedType, RepairDevices
  PROVE  Fine(devices')
<1> DEFINE repaired == Normalised(devices)
           plan == DevicePlan(entities, repaired)
<1>1. \/ plan = {} /\ devices' = repaired
      \/ devices' = Moved(repaired, plan, DeviceStart(entities))
  BY DEF RepairDevices
<1>2. Fine(repaired)
  BY NormalisedApart DEF Fine
<1> HIDE DEF repaired
<1>3. Fine(Moved(repaired, plan, DeviceStart(entities)))
  BY <1>2, DevicesFine
<1> QED
  BY <1>1, <1>2, <1>3

-----------------------------------------------------------------------------
(* Types, clean results and the constraint.                                *)

Running == {"entities", "devices", "merge", "enforce"}

Inv ==
  /\ TypeOK /\ (pc \in Running => applied < runs)
  /\ Table(entities) /\ Table(devices) /\ Table(backup.entities) /\ Table(backup.devices)
  /\ pc = "history" =>
       /\ enforced = {} /\ runs = 0 /\ IsFiniteSet(entities) /\ IsFiniteSet(devices)
       /\ \A r \in entities \cup devices : r.rid <= Cardinality(entities) + Cardinality(devices)
  /\ RepairedIsClean /\ ConstraintHolds

LEMMA InvInit == Init => Inv
<1> SUFFICES ASSUME Init PROVE Inv
  OBVIOUS
<1>1. /\ entities = {} /\ devices = {} /\ backup = [entities |-> {}, devices |-> {}]
      /\ enforced = {} /\ pc = "history" /\ runs = 0 /\ applied = 0
      /\ states \in SUBSET Times /\ created \in Created /\ flags \in FlagSets
  BY DEF Init
<1>2. TypeOK
  BY <1>1, TimesFacts DEF TypeOK
<1>3. RepairedIsClean /\ ConstraintHolds
  BY <1>1 DEF RepairedIsClean, ConstraintHolds
<1>4. IsFiniteSet({})
  BY FS_EmptySet
<1> QED
  BY <1>1, <1>2, <1>3, <1>4 DEF Inv, Running, Table

\* A version is entered in a table with a ctid that no other has.
LEMMA AddedVersion ==
  ASSUME NEW T, Table(T), IsFiniteSet(T), NEW n \in Nat, \A s \in T : s.rid <= n,
         NEW r \in Row, r.rid = n + 1
  PROVE  /\ Table(T \cup {r}) /\ IsFiniteSet(T \cup {r})
         /\ Cardinality(T \cup {r}) = Cardinality(T) + 1
<1>1. \A s \in T : s.rid \in Nat
  BY RowFacts DEF Table
<1>2. \A s \in T : s.rid # r.rid
  BY <1>1
<1>3. r \notin T
  BY <1>2
<1> QED
  BY <1>2, <1>3, FS_AddElement DEF Table

LEMMA InvStep == Inv /\ [Next]_vars => Inv'
<1> SUFFICES ASSUME Inv, [Next]_vars PROVE Inv'
  OBVIOUS
<1>inv. /\ Table(entities) /\ Table(devices) /\ Table(backup.entities) /\ Table(backup.devices)
        /\ StatesType /\ CreatedType /\ runs \in Nat /\ applied \in Nat /\ runs <= MaxRuns
        /\ applied <= runs /\ RepairedIsClean /\ ConstraintHolds /\ flags \in FlagSets
        /\ enforced \subseteq {"entities", "devices"} /\ (pc \in Running => applied < runs)
  BY TimesFacts DEF Inv, TypeOK, StatesType, CreatedType
\* The parts of Inv that do not depend on the step.
<1>a. ASSUME Table(entities'), Table(devices'), Table(backup'.entities), Table(backup'.devices),
             states' = states, created' = created, flags' = flags, enforced' \subseteq {"entities", "devices"},
             pc' \in {"idle"} \cup Running, runs' \in 0..MaxRuns, applied' \in 0..runs',
             pc' \in Running => applied' < runs', RepairedIsClean', ConstraintHolds'
      PROVE  Inv'
  <2>1. TypeOK'
    BY <1>inv, <1>a DEF TypeOK, Table, StatesType, CreatedType, Running
  <2>2. pc' # "history"
    BY <1>a DEF Running
  <2> QED
    BY <1>a, <2>1, <2>2 DEF Inv
<1>legacy. CASE LegacyVersion
  <2> DEFINE n == Cardinality(entities) + Cardinality(devices)
  <2>1. /\ pc = "history" /\ n + 1 <= MaxRows
        /\ UNCHANGED <<states, created, backup, quarantine, enforced, flags, pc, runs, applied>>
    BY <1>legacy DEF LegacyVersion
  <2>2. /\ enforced = {} /\ runs = 0 /\ IsFiniteSet(entities) /\ IsFiniteSet(devices)
        /\ \A r \in entities \cup devices : r.rid <= n
    BY <2>1 DEF Inv
  <2>3. Cardinality(entities) \in Nat /\ Cardinality(devices) \in Nat /\ n \in Nat
    BY <2>2, FS_CardinalityType
  <2>4. PICK r \in Row :
          /\ r.rid = n + 1
          /\ \/ entities' = entities \cup {r} /\ UNCHANGED devices
             \/ devices' = devices \cup {r} /\ UNCHANGED entities
    <3>1. PICK from \in Times, to \in Times \cup {Open}, pay \in Payloads :
            LET r == [rid |-> n + 1, from |-> from, to |-> to, pay |-> pay] IN
            \/ entities' = entities \cup {r} /\ UNCHANGED devices
            \/ devices' = devices \cup {r} /\ UNCHANGED entities
      BY <1>legacy DEF LegacyVersion
    <3> DEFINE r == [rid |-> n + 1, from |-> from, to |-> to, pay |-> pay]
    <3>2. r \in Row /\ r.rid = n + 1
      BY <2>1, <2>3, TimesFacts DEF Row
    <3> QED
      BY <3>1, <3>2
  <2>5. /\ Table(entities') /\ Table(devices') /\ IsFiniteSet(entities') /\ IsFiniteSet(devices')
        /\ Cardinality(entities') + Cardinality(devices') = n + 1
    <3>1. CASE entities' = entities \cup {r} /\ UNCHANGED devices
      <4>1. /\ Table(entities \cup {r}) /\ IsFiniteSet(entities \cup {r})
            /\ Cardinality(entities \cup {r}) = Cardinality(entities) + 1
        BY <1>inv, <2>2, <2>3, <2>4, AddedVersion
      <4> QED
        BY <1>inv, <2>2, <2>3, <3>1, <4>1
    <3>2. CASE devices' = devices \cup {r} /\ UNCHANGED entities
      <4>1. /\ Table(devices \cup {r}) /\ IsFiniteSet(devices \cup {r})
            /\ Cardinality(devices \cup {r}) = Cardinality(devices) + 1
        BY <1>inv, <2>2, <2>3, <2>4, AddedVersion
      <4> QED
        BY <1>inv, <2>2, <2>3, <3>2, <4>1
    <3> QED
      BY <2>4, <3>1, <3>2
  <2>6. \A s \in entities' \cup devices' : s.rid <= n + 1
    <3>1. \A s \in entities \cup devices : s.rid \in Nat
      BY <1>inv, RowFacts DEF Table
    <3>2. \A s \in entities' \cup devices' : s \in entities \cup devices \/ s = r
      BY <2>4
    <3> QED
      BY <2>2, <2>3, <2>4, <3>1, <3>2
  <2> HIDE DEF n
  <2>7. TypeOK'
    BY <1>inv, <2>1, <2>5 DEF Inv, TypeOK, Table
  <2>8. RepairedIsClean' /\ ConstraintHolds'
    BY <2>1, <2>2 DEF RepairedIsClean, ConstraintHolds
  <2> QED
    BY <1>inv, <2>1, <2>2, <2>5, <2>6, <2>7, <2>8 DEF Inv, Running
<1>start. CASE Start
  <2>1. /\ runs < MaxRuns /\ runs' = runs + 1 /\ pc' = IF Mutating THEN "entities" ELSE "enforce"
        /\ backup' = [entities |-> entities, devices |-> devices]
        /\ UNCHANGED <<entities, devices, states, created, quarantine, enforced, flags, applied>>
    BY <1>start DEF Start
  <2>2. runs' \in 0..MaxRuns /\ applied' \in 0..runs' /\ applied' < runs'
    BY <1>inv, <2>1, TimesFacts
  <2>3. RepairedIsClean'
    BY <2>1 DEF RepairedIsClean, Mutating
  <2>4. ConstraintHolds'
    BY <1>inv, <2>1 DEF ConstraintHolds
  <2>5. pc' \in {"idle"} \cup Running
    BY <2>1 DEF Running
  <2> QED
    BY <1>a, <1>inv, <2>1, <2>2, <2>3, <2>4, <2>5
<1>entities. CASE RepairEntities
  <2>1. Fine(entities')
    BY <1>entities, <1>inv, EntitiesRepaired
  <2>2. /\ pc = "entities" /\ pc' = "devices"
        /\ UNCHANGED <<devices, states, created, backup, enforced, flags, runs, applied>>
    BY <1>entities DEF RepairEntities
  <2>3. Clean(entities') /\ ~RangeOverlap(entities') /\ Inverted(entities') = {} /\ Table(entities')
    BY <2>1, FineIsClean DEF Fine
  <2>4. RepairedIsClean' /\ ConstraintHolds'
    BY <1>inv, <2>2, <2>3 DEF RepairedIsClean, ConstraintHolds
  <2> QED
    BY <1>a, <1>inv, <2>2, <2>3, <2>4 DEF Running
<1>devices. CASE RepairDevices
  <2>1. Fine(devices')
    BY <1>devices, <1>inv, DevicesRepaired
  <2>2. /\ pc = "devices" /\ pc' \in {"merge", "enforce"}
        /\ UNCHANGED <<entities, states, created, backup, enforced, flags, runs, applied>>
    BY <1>devices DEF RepairDevices
  <2>3. Clean(devices') /\ ~RangeOverlap(devices') /\ Inverted(devices') = {} /\ Table(devices')
    BY <2>1, FineIsClean DEF Fine
  <2>4. RepairedIsClean' /\ ConstraintHolds'
    BY <1>inv, <2>2, <2>3 DEF RepairedIsClean, ConstraintHolds
  <2> QED
    BY <1>a, <1>inv, <2>2, <2>3, <2>4 DEF Running
<1>merge. CASE MergeGaps
  <2>1. /\ pc = "merge" /\ entities' = Merged(entities).rows /\ pc' = "enforce"
        /\ UNCHANGED <<devices, states, created, backup, enforced, flags, runs, applied>>
    BY <1>merge DEF MergeGaps
  <2>2. Fine(entities)
    BY <1>inv, <2>1, FineIsClean DEF RepairedIsClean
  <2>3. Fine(entities')
    BY <2>1, <2>2, MergedFine
  <2>4. Clean(entities') /\ ~RangeOverlap(entities') /\ Inverted(entities') = {} /\ Table(entities')
    BY <2>3, FineIsClean DEF Fine
  <2>5. RepairedIsClean' /\ ConstraintHolds'
    BY <1>inv, <2>1, <2>4 DEF RepairedIsClean, ConstraintHolds
  <2> QED
    BY <1>a, <1>inv, <2>1, <2>4, <2>5 DEF Running
<1>enforce. CASE Enforce
  <2>1. /\ pc = "enforce" /\ pc' = "idle" /\ applied' = applied + 1 /\ enforced' = enforced \cup Verified
        /\ UNCHANGED <<entities, devices, states, created, backup, quarantine, flags, runs>>
    BY <1>enforce DEF Enforce
  <2>2. applied' \in 0..runs'
    BY <1>inv, <2>1 DEF Running
  <2>3. RepairedIsClean'
    BY <2>1 DEF RepairedIsClean
  <2>4. ConstraintHolds'
    <3>1. Fine(entities) /\ Fine(devices)
      BY <1>inv, <2>1, FineIsClean DEF RepairedIsClean
    <3> QED
      BY <1>inv, <2>1, <3>1, FineIsClean DEF ConstraintHolds
  <2>5. enforced' \subseteq {"entities", "devices"}
    BY <1>inv, <2>1 DEF Verified
  <2> QED
    BY <1>a, <1>inv, <2>1, <2>2, <2>3, <2>4, <2>5 DEF Running
<1>abort. CASE Abort
  <2>1. pc' = "idle" /\ UNCHANGED <<entities, devices, states, created, backup, quarantine,
                                    enforced, flags, runs, applied>>
    BY <1>abort DEF Abort
  <2>2. RepairedIsClean' /\ ConstraintHolds'
    BY <1>inv, <2>1 DEF RepairedIsClean, ConstraintHolds
  <2> QED
    BY <1>a, <1>inv, <2>1, <2>2 DEF Running
<1>stutter. CASE UNCHANGED vars
  BY <1>stutter DEF vars, Inv, TypeOK, RepairedIsClean, ConstraintHolds
<1> QED
  BY <1>legacy, <1>start, <1>entities, <1>devices, <1>merge, <1>enforce, <1>abort, <1>stutter DEF Next

LEMMA InvHolds == Spec => []Inv
<1> QED
  BY InvInit, InvStep, PTL DEF Spec

\* Types of the repair: whatever starts it moves and intervals it cuts, clamps or merges, a
\* table holds versions, and the quarantined starts are instants (repair_scd2.py).
THEOREM TypeCorrect == Spec => []TypeOK
<1>1. Inv => TypeOK
  BY DEF Inv
<1> QED
  BY <1>1, InvHolds, PTL

\* Every table a transaction of the repair commits passes all checks of run_verification,
\* also after starts were moved and gaps merged (const.py:719).
THEOREM RepairsAreClean == Spec => []RepairedIsClean
<1>1. Inv => RepairedIsClean
  BY DEF Inv
<1> QED
  BY <1>1, InvHolds, PTL

\* Once the exclusion constraint is on a table, nothing the script does violates it.
THEOREM ConstraintIsKept == Spec => []ConstraintHolds
<1>1. Inv => ConstraintHolds
  BY DEF Inv
<1> QED
  BY <1>1, InvHolds, PTL

-----------------------------------------------------------------------------
(* What becomes of each version of a table.                                *)

HasOpen(T) == \E r \in T : r.to = Open

\* A table that is not empty has a last version.
LEMMA LastExists ==
  ASSUME NEW T, Table(T), T # {}
  PROVE  \E l \in T : \A s \in T \ {l} : Before(s, l)
<1>1. \A s \in T : s.rid \in Nat /\ s.from \in Nat /\ s.to \in Nat /\ s.from <= Open /\ s.to <= Open
                   /\ s.rid <= MaxRows
  BY RowFacts, TimesFacts DEF Table, Row
<1> DEFINE A == {s.from : s \in T}
<1>2. A \subseteq 0..Open /\ A # {}
  BY <1>1, TimesFacts
<1>3. PICK a \in A : \A x \in A : x <= a
  BY <1>2, TimesFacts, MaxExists
<1> DEFINE B == {s.to : s \in {x \in T : x.from = a}}
<1>4. B \subseteq 0..Open /\ B # {}
  BY <1>1, <1>3, TimesFacts
<1>5. PICK b \in B : \A x \in B : x <= b
  BY <1>4, TimesFacts, MaxExists
<1> DEFINE C == {s.rid : s \in {x \in T : x.from = a /\ x.to = b}}
<1>6. C \subseteq 0..MaxRows /\ C # {}
  BY <1>1, <1>5, TimesFacts
<1>7. PICK c \in C : \A x \in C : x <= c
  BY <1>6, TimesFacts, MaxExists
<1>8. PICK l \in T : l.from = a /\ l.to = b /\ l.rid = c
  BY <1>7
<1>9. ASSUME NEW s \in T \ {l} PROVE Before(s, l)
  <2>1. s.from \in A /\ (s.from = a => s.to \in B) /\ (s.from = a /\ s.to = b => s.rid \in C)
    OBVIOUS
  <2>2. s.rid # l.rid
    BY DEF Table
  <2>3. s.from <= a /\ (s.from = a => s.to <= b) /\ (s.from = a /\ s.to = b => s.rid <= c)
    BY <1>3, <1>5, <1>7, <2>1
  <2> HIDE DEF A, B, C
  <2> QED
    BY <1>1, <1>8, <2>2, <2>3 DEF Before
<1> QED
  BY <1>9

\* The version a normalised table is left with for r of what was kept.
LEMMA NormalisedKeeps ==
  ASSUME NEW T, Table(T)
  PROVE  /\ \A r \in Kept(T) : \E x \in Normalised(T) :
              /\ x.rid = r.rid /\ x.from = r.from /\ x.pay = r.pay /\ x.to = Cut(r, Kept(T))
         /\ \A x \in Normalised(T) : \E r \in Kept(T) :
              /\ x.rid = r.rid /\ x.from = r.from /\ x.pay = r.pay /\ x.to = Cut(r, Kept(T))
<1>1. Normalised(T) = {[r EXCEPT !.to = Cut(r, Kept(T))] : r \in Kept(T)}
  BY NormalisedRows
<1>2. \A r \in Kept(T) : r \in Row
  BY KeptTable DEF Table
<1> DEFINE f(r) == [r EXCEPT !.to = Cut(r, Kept(T))]
<1>3. \A r \in Kept(T) : /\ f(r).rid = r.rid /\ f(r).from = r.from /\ f(r).pay = r.pay
                         /\ f(r).to = Cut(r, Kept(T))
  BY <1>2 DEF Row
<1>4. Normalised(T) = {f(r) : r \in Kept(T)}
  BY <1>1
<1> HIDE DEF f
<1> QED
  BY <1>3, <1>4

\* The last version decides whether the id keeps a current one.
LEMMA NormalisedOpen ==
  ASSUME NEW T, Table(T)
  PROVE  NoCurrent(T) <=> HasOpen(T) /\ ~HasOpen(Normalised(T))
<1>1. CASE T = {}
  BY <1>1 DEF NoCurrent, HasOpen
<1>2. CASE T # {}
  <2> DEFINE K == Kept(T)
             R == Normalised(T)
  <2>1. PICK l \in T : \A s \in T \ {l} : Before(s, l)
    BY <1>2, LastExists
  <2>2. \A s \in T : s \in Row /\ s.from \in Nat /\ s.to \in Nat /\ s.from < Open /\ s.to <= Open
    BY RowFacts DEF Table
  <2>3. \A r \in T : After(r, T) = {} <=> r = l
    <3> SUFFICES ASSUME NEW r \in T PROVE After(r, T) = {} <=> r = l
      OBVIOUS
    <3>1. r # l => l \in After(r, T)
      BY <2>1 DEF After
    <3>2. \A s \in T : ~Before(l, s)
      BY <2>1, <2>2, OrderFacts
    <3> QED
      BY <3>1, <3>2 DEF After
  <2>4. NoCurrent(T) <=> HasOpen(T) /\ l.to # Open
    BY <2>3 DEF NoCurrent, HasOpen
  <2>5. PICK x \in K : /\ x.from = l.from /\ l.to <= x.to
                       /\ x = l \/ \A s \in K : s.from = l.from => s = x
    BY KeptTwin
  <2>6. K \subseteq T /\ Table(K)
    BY KeptTable
  <2>7. x.to = l.to
    <3>1. x # l => x.to <= l.to
      BY <2>1, <2>2, <2>5, <2>6, OrderFacts
    <3> QED
      BY <2>2, <2>5, <2>6, <3>1
  <2>8. \A s \in K : s # x => s.from < l.from \/ Before(s, x)
    <3> SUFFICES ASSUME NEW s \in K, s # x PROVE s.from < l.from \/ Before(s, x)
      OBVIOUS
    <3>1. s = l \/ Before(s, l)
      BY <2>1, <2>6
    <3>2. s.from <= l.from /\ s.from \in Nat /\ l.from \in Nat
      BY <2>2, <2>6, <3>1, OrderFacts
    <3> QED
      BY <2>5, <3>1, <3>2
  <2>9. \A s \in K : s # x => Before(s, x)
    BY <2>2, <2>5, <2>6, <2>8, OrderFacts
  <2>10. NextFrom(x, K) = Open
    <3>1. \A s \in K : ~Before(x, s)
      BY <2>2, <2>6, <2>9, OrderFacts
    <3> QED
      BY <2>6, <3>1, NextFacts
  <2>11. \A s \in K : s # x => NextFrom(s, K) <= x.from /\ NextFrom(s, K) \in Nat
    BY <2>6, <2>9, NextFacts
  <2>12. \A s \in K : Cut(s, K) <= NextFrom(s, K) /\ Cut(s, K) \in Nat
    BY <2>6, CutFacts
  <2>13. \A s \in K : s # x => Cut(s, K) # Open
    <3> SUFFICES ASSUME NEW s \in K, s # x PROVE Cut(s, K) # Open
      OBVIOUS
    <3>1. NextFrom(s, K) <= x.from /\ NextFrom(s, K) \in Nat /\ Cut(s, K) <= NextFrom(s, K) /\ Cut(s, K) \in Nat
      BY <2>11, <2>12
    <3>2. x.from \in Nat /\ x.from < Open
      BY <2>2, <2>6
    <3> QED
      BY <3>1, <3>2, TimesFacts
  <2>14. Cut(x, K) = Open <=> x.to = Open
    <3>1. Cut(x, K) = IF x.to < x.from THEN x.from ELSE IF x.to <= Open THEN x.to ELSE Open
      BY <2>6, <2>10, CutFacts
    <3>2. x.to \in Nat /\ x.from \in Nat /\ x.to <= Open /\ x.from < Open
      BY <2>2, <2>6
    <3> QED
      BY <3>1, <3>2, TimesFacts
  <2>15. HasOpen(R) <=> l.to = Open
    <3>1. \A s \in K : \E y \in R : y.to = Cut(s, K)
      BY NormalisedKeeps
    <3>2. \A y \in R : \E s \in K : y.to = Cut(s, K)
      BY NormalisedKeeps
    <3> HIDE DEF K, R
    <3> QED
      BY <2>7, <2>13, <2>14, <3>1, <3>2 DEF HasOpen
  <2> QED
    BY <2>4, <2>15
<1> QED
  BY <1>1, <1>2

\* A clean table is not one whose newest version is closed while an older is open.
LEMMA FineCurrent ==
  ASSUME NEW T, Fine(T)
  PROVE  ~NoCurrent(T)
<1> SUFFICES ASSUME NEW r \in T, r.to = Open, NEW s \in T, After(s, T) = {}, s.to # Open PROVE FALSE
  BY DEF NoCurrent
<1>1. Before(r, s)
  BY InOrder DEF Fine, After
<1>2. r \in Row /\ s \in Row /\ r.from \in Nat /\ s.from \in Nat /\ s.to \in Nat /\ s.from < Open /\ s.to <= Open
  BY RowFacts DEF Fine, Table
<1>3. r.from <= s.from /\ (r.from = s.from => r.to <= s.to)
  BY <1>1, <1>2, OrderFacts
<1>4. r.from < s.from => r.to <= s.from
  BY DEF Fine, Apart
<1> QED
  BY <1>2, <1>3, <1>4, TimesFacts

\* A plan moves one version, the first, or none.
Shifted(R, M, p, start) ==
  /\ p \in R /\ start \in Times /\ M = (R \ {p}) \cup {[p EXCEPT !.from = start]}
  /\ \A s \in R \ {p} : p.from < s.from /\ start < s.from

LEMMA MovedShape ==
  ASSUME NEW T, Table(T), NEW plan, NEW start,
         \A r \in plan : /\ r \in T /\ start \in Times
                         /\ \A s \in T \ {r} : r.from < s.from /\ start < s.from
  PROVE  \/ plan = {} /\ Moved(T, plan, start) = T
         \/ \E p \in T : plan = {p} /\ Shifted(T, Moved(T, plan, start), p, start)
<1>1. CASE plan = {}
  BY <1>1, MovedNone
<1>2. CASE plan # {}
  <2>1. PICK p \in plan : TRUE
    BY <1>2
  <2>2. p \in T /\ start \in Times /\ \A s \in T \ {p} : p.from < s.from /\ start < s.from
    BY <2>1
  <2>3. \A s \in T : s.from \in Nat
    BY RowFacts DEF Table
  <2>4. \A q \in plan : q = p
    <3> SUFFICES ASSUME NEW q \in plan, q # p PROVE FALSE
      OBVIOUS
    <3>1. q \in T /\ q.from < p.from /\ p.from < q.from
      BY <2>1, <2>2
    <3> QED
      BY <2>2, <2>3, <3>1
  <2>5. plan = {p}
    BY <2>1, <2>4
  <2>6. Moved(T, plan, start) = (T \ {p}) \cup {[p EXCEPT !.from = start]}
    BY <2>2, <2>5 DEF Moved
  <2> QED
    BY <2>2, <2>5, <2>6 DEF Shifted
<1> QED
  BY <1>1, <1>2

\* How the transaction of the entities changes the normalised table R: not at all, or the
\* first version starts with its device, or it starts with the first state.
Forward(R, M, p, a) == Shifted(R, M, p, a) /\ p.from < a /\ a < p.to /\ a <= FirstState
Backward(R, M, p) ==
  Shifted(R, M, p, FirstState) /\ FirstState < p.from /\ created.entity <= FirstState

Restarted(p, a) == [p EXCEPT !.from = a]

LEMMA ShiftedRow ==
  ASSUME NEW R, Table(R), NEW M, NEW p, NEW a, Shifted(R, M, p, a)
  PROVE  /\ Restarted(p, a) \in M /\ Restarted(p, a) \in Row
         /\ Restarted(p, a).from = a /\ Restarted(p, a).to = p.to
         /\ Restarted(p, a).rid = p.rid /\ Restarted(p, a).pay = p.pay
         /\ \A x \in M : x = Restarted(p, a) \/ (x \in R /\ x # p /\ a < x.from /\ p.from < x.from)
         /\ \A x \in R : x # p => x \in M
<1> DEFINE q == Restarted(p, a)
<1>1. p \in R /\ a \in Times /\ M = (R \ {p}) \cup {q} /\ \A s \in R \ {p} : p.from < s.from /\ a < s.from
  BY DEF Shifted, Restarted
<1>2. q.from = a /\ q.to = p.to /\ q.rid = p.rid /\ q.pay = p.pay /\ q \in Row
  BY <1>1 DEF Table, Row, Restarted
<1> QED
  BY <1>1, <1>2

LEMMA EntitiesShape ==
  ASSUME Table(entities), Table(devices), StatesType, CreatedType, RepairEntities
  PROVE  /\ \/ entities' = Normalised(entities)
            \/ \E p \in Normalised(entities), a \in Times :
                 Forward(Normalised(entities), entities', p, a) /\ <<"aligned", p>> \in quarantine'
            \/ \E p \in Normalised(entities) :
                 Backward(Normalised(entities), entities', p) /\ <<"extended", p>> \in quarantine'
         /\ ExtendPlan(entities') = {}
         /\ SetAside(entities) \subseteq quarantine'
         /\ quarantine \subseteq quarantine'
<1> DEFINE R == Normalised(entities)
           al == AlignPlan(R, devices)
           a == AlignedFrom(devices)
           A == Moved(R, al, a)
           ex == ExtendPlan(A)
           F == FirstState
<1>1. /\ entities' = Moved(A, ex, F)
      /\ quarantine' = quarantine \cup SetAside(entities) \cup StartArchive("aligned", al)
                         \cup StartArchive("extended", ex)
  BY DEF RepairEntities
<1>2. SetAside(entities) \subseteq quarantine' /\ quarantine \subseteq quarantine'
  BY <1>1
<1>3. /\ \A p \in al : <<"aligned", p>> \in quarantine'
      /\ \A p \in ex : <<"extended", p>> \in quarantine'
  BY <1>1 DEF StartArchive, Archive
<1>4. Fine(R)
  BY NormalisedApart DEF Fine
<1>5. Fine(A)
  <2> HIDE DEF R
  <2> QED
    BY <1>4, AlignedFine
<1> HIDE DEF R
<1>6. \A r \in al : /\ r \in R /\ a \in Times /\ r.from < a /\ a < r.to /\ a <= FirstState
                    /\ \A s \in R \ {r} : r.from < s.from /\ a < s.from
  BY <1>4, AlignFacts DEF Fine
<1> HIDE DEF al, a
<1>7. \/ al = {} /\ A = R
      \/ \E p \in R : al = {p} /\ Shifted(R, A, p, a)
  BY <1>4, <1>6, MovedShape DEF Fine
<1> HIDE DEF A
<1>8. \A r \in ex : /\ r \in A /\ F \in Times /\ F < r.from /\ created.entity <= F
                    /\ \A s \in A \ {r} : r.from < s.from /\ F < s.from
  BY <1>5, ExtendFacts DEF Fine
<1>f. F \in Nat
  BY FirstStateFacts
<1>q. Table(A) /\ \A r \in A : r.from \in Nat
  BY <1>5, RowFacts DEF Fine, Table
<1>9. ex = {} \/ al = {}
  <2> SUFFICES ASSUME al # {}, NEW x \in ex PROVE FALSE
    OBVIOUS
  <2>1. PICK p \in R : al = {p} /\ Shifted(R, A, p, a)
    BY <1>7
  <2> DEFINE q == Restarted(p, a)
  <2>2. q \in A /\ q.from = a
    BY <1>4, <2>1, ShiftedRow DEF Fine
  <2> HIDE DEF q
  <2>3. a <= F /\ a \in Nat
    BY <1>6, <2>1, TimesFacts
  <2>4. x \in A /\ F < x.from /\ \A s \in A \ {x} : F < s.from
    BY <1>8
  <2> QED
    BY <1>f, <1>q, <2>2, <2>3, <2>4
<1>m. \/ ex = {} /\ Moved(A, ex, F) = A
      \/ \E p \in A : ex = {p} /\ Shifted(A, Moved(A, ex, F), p, F)
  <2> HIDE DEF ex, F
  <2> QED
    BY <1>8, <1>q, MovedShape
<1>10. ExtendPlan(entities') = {}
  <2>1. CASE ex = {} /\ Moved(A, ex, F) = A
    BY <1>1, <2>1
  <2>2. CASE \E p \in A : ex = {p} /\ Shifted(A, Moved(A, ex, F), p, F)
    <3>1. PICK p \in A : ex = {p} /\ Shifted(A, entities', p, F)
      BY <1>1, <2>2
    <3> SUFFICES ASSUME NEW x \in ExtendPlan(entities') PROVE FALSE
      OBVIOUS
    <3> DEFINE q == Restarted(p, F)
    <3>2. q \in entities' /\ q.from = F
      BY <1>q, <3>1, ShiftedRow
    <3>3. /\ x \in entities' /\ F < x.from
          /\ \A s \in entities' \ {x} : Before(x, s)
      BY DEF ExtendPlan, IsFirst
    <3> HIDE DEF q
    <3>4. Table(entities')
      BY EntitiesRepaired DEF Fine
    <3>5. x \in Row /\ q \in Row /\ x.from \in Nat
      BY <3>2, <3>3, <3>4, RowFacts DEF Table
    <3>6. q # x
      BY <1>f, <3>2, <3>3, <3>5
    <3>7. x.from <= q.from
      BY <3>2, <3>3, <3>5, <3>6, OrderFacts
    <3> QED
      BY <1>f, <3>2, <3>3, <3>5, <3>7
  <2> QED
    BY <1>m, <2>1, <2>2
<1> HIDE DEF ex
<1>11. \/ entities' = R
       \/ \E p \in R, b \in Times : Forward(R, entities', p, b) /\ <<"aligned", p>> \in quarantine'
       \/ \E p \in R : Backward(R, entities', p) /\ <<"extended", p>> \in quarantine'
  <2>1. CASE ex = {} /\ al = {}
    BY <1>1, <1>7, <1>m, <2>1
  <2>2. CASE ex = {} /\ al # {}
    <3>1. PICK p \in R : al = {p} /\ Shifted(R, A, p, a)
      BY <1>7, <2>2
    <3>2. entities' = A
      BY <1>1, <1>m, <2>2
    <3> QED
      BY <1>3, <1>6, <3>1, <3>2 DEF Forward
  <2>3. CASE ex # {}
    <3>1. al = {} /\ A = R
      BY <1>7, <1>9, <2>3
    <3>2. PICK p \in A : ex = {p} /\ Shifted(A, entities', p, F)
      BY <1>1, <1>m, <2>3
    <3> QED
      BY <1>3, <1>8, <3>1, <3>2 DEF Backward
  <2> QED
    BY <2>1, <2>2, <2>3
<1> QED
  BY <1>2, <1>10, <1>11 DEF R

-----------------------------------------------------------------------------
(* How a repaired table T relates to the table T0 that the run found.      *)

SameVersion(x, r) == x.rid = r.rid /\ x.from = r.from /\ x.pay = r.pay

\* Every version is there, or its original is in the quarantine Q.
Accounted(T0, T, Q, merged) ==
  \A r \in T0 : \/ \E x \in T : SameVersion(x, r) /\ (x.to <= r.to \/ merged)
                \/ \E q \in Q : SameVersion(q[2], r)

\* A recorded state that lay in the version started last is still labelled with it.
Anchored(T0, T) ==
  \A t \in states, r \in T0 :
    Covers(r, t) /\ (\A x \in After(r, T0) : x.from > t) => \E y \in T : Covers(y, t) /\ y.pay = r.pay

\* Instants before every version, since the first state of an entry that existed then.
Earlier(T0, t) == FirstState <= t /\ created.entity <= t /\ \A r \in T0 : t < r.from
NothingInvented(T0, T) == \A t \in Times : Covered(T, t) => Covered(T0, t) \/ Earlier(T0, t)

\* Every version stems from one with its payload and its start, unless it is the first.
Leading(x, T) == \A y \in T \ {x} : x.from < y.from
Stems(T0, T) ==
  \A x \in T : \E a \in T0 : a.pay = x.pay /\ (a.from = x.from \/ (a.from <= x.to /\ Leading(x, T)))

LEMMA NormalisedHistory ==
  ASSUME NEW T, Table(T), NEW Q, SetAside(T) \subseteq Q, StatesType
  PROVE  /\ Accounted(T, Normalised(T), Q, FALSE) /\ Anchored(T, Normalised(T))
         /\ \A t \in Nat : Covered(Normalised(T), t) => Covered(T, t)
         /\ \A x \in Normalised(T) : \E a \in T : a.pay = x.pay /\ a.from = x.from
         /\ \A r \in T : \E x \in Normalised(T) : x.from = r.from
<1> DEFINE K == Kept(T)
           R == Normalised(T)
<1>1. K \subseteq T /\ Table(K)
  BY KeptTable
<1>2. \A r \in T : r \in Row /\ r.from \in Nat /\ r.to \in Nat /\ r.from < Open /\ r.to <= Open
  BY RowFacts DEF Table
<1>3. \A r \in K : \E x \in R : /\ x.rid = r.rid /\ x.from = r.from /\ x.pay = r.pay /\ x.to = Cut(r, K)
  BY NormalisedKeeps
<1>4. \A x \in R : \E r \in K : /\ x.rid = r.rid /\ x.from = r.from /\ x.pay = r.pay /\ x.to = Cut(r, K)
  BY NormalisedKeeps
<1>5. ASSUME NEW r \in T, r \notin K PROVE <<"duplicate", r>> \in Q
  BY <1>5 DEF SetAside, Archive
<1>6. ASSUME NEW r \in K, r.to < r.from PROVE <<"clamped", r>> \in Q
  BY <1>6 DEF SetAside, Archive, Inverted
<1> HIDE DEF K, R
<1>7. \A r \in K : /\ Cut(r, K) \in Nat /\ r.from <= Cut(r, K) /\ Cut(r, K) <= NextFrom(r, K)
                   /\ NextFrom(r, K) \in Nat
                   /\ Cut(r, K) = IF r.to < r.from THEN r.from
                                  ELSE IF r.to <= NextFrom(r, K) THEN r.to ELSE NextFrom(r, K)
  BY <1>1, CutFacts, NextFacts
<1>8. Accounted(T, R, Q, FALSE)
  <2> SUFFICES ASSUME NEW r \in T
               PROVE  \/ \E x \in R : SameVersion(x, r) /\ x.to <= r.to
                      \/ \E q \in Q : SameVersion(q[2], r)
    BY DEF Accounted
  <2>1. CASE r \notin K
    <3>1. <<"duplicate", r>> \in Q /\ <<"duplicate", r>>[2] = r
      BY <1>5, <2>1
    <3> QED
      BY <3>1 DEF SameVersion
  <2>2. CASE r \in K /\ r.to < r.from
    <3>1. <<"clamped", r>> \in Q /\ <<"clamped", r>>[2] = r
      BY <1>6, <2>2
    <3> QED
      BY <3>1 DEF SameVersion
  <2>3. CASE r \in K /\ ~(r.to < r.from)
    <3>1. Cut(r, K) <= r.to
      BY <1>2, <1>7, <2>3
    <3>2. PICK x \in R : x.rid = r.rid /\ x.from = r.from /\ x.pay = r.pay /\ x.to = Cut(r, K)
      BY <1>3, <2>3
    <3> QED
      BY <3>1, <3>2 DEF SameVersion
  <2> QED
    BY <2>1, <2>2, <2>3
<1>9. Anchored(T, R)
  <2> SUFFICES ASSUME NEW t \in states, NEW r \in T, Covers(r, t), \A x \in After(r, T) : x.from > t
               PROVE  \E y \in R : Covers(y, t) /\ y.pay = r.pay
    BY DEF Anchored
  <2>1. t \in Nat /\ t < Open /\ r.from <= t /\ t < r.to
    BY TimesFacts DEF StatesType, Covers
  <2>2. PICK x \in K : /\ x.from = r.from /\ x.pay = r.pay /\ r.to <= x.to
                       /\ x = r \/ \A s \in K : s.from = r.from => s = x
    BY KeptTwin DEF K
  <2>3. ASSUME NEW s \in K, Before(x, s) PROVE t < s.from
    <3>1. s \in T /\ s # x
      BY <1>1, <1>2, <2>2, <2>3, OrderFacts
    <3>2. x.from <= s.from /\ x \in T
      BY <1>1, <1>2, <2>2, <2>3, OrderFacts
    <3>3. CASE x = r
      BY <1>2, <2>1, <2>3, <3>1, <3>3 DEF After
    <3>4. CASE \A u \in K : u.from = r.from => u = x
      <4>1. r.from < s.from
        BY <1>2, <2>2, <3>1, <3>2, <3>4
      <4>2. Before(r, s)
        BY <1>2, <3>1, <4>1, OrderFacts
      <4> QED
        BY <1>2, <2>1, <3>1, <4>2 DEF After
    <3> QED
      BY <2>2, <3>3, <3>4
  <2>4. t < NextFrom(x, K)
    <3>1. NextFrom(x, K) = Open \/ \E s \in K : Before(x, s) /\ NextFrom(x, K) = s.from
      BY <1>1, NextFacts
    <3> QED
      BY <2>1, <2>3, <3>1
  <2>5. t < Cut(x, K)
    <3>1. x \in T /\ x.to \in Nat /\ x.from \in Nat /\ r.to \in Nat
      BY <1>1, <1>2
    <3>2. ~(x.to < x.from) /\ t < x.to
      BY <2>1, <2>2, <3>1
    <3> QED
      BY <1>7, <2>4, <3>2
  <2>6. PICK y \in R : y.from = x.from /\ y.pay = x.pay /\ y.to = Cut(x, K)
    BY <1>3
  <2> QED
    BY <2>1, <2>2, <2>5, <2>6 DEF Covers
<1>10. \A t \in Nat : Covered(R, t) => Covered(T, t)
  <2> SUFFICES ASSUME NEW t \in Nat, NEW x \in R, Covers(x, t) PROVE Covered(T, t)
    BY DEF Covered
  <2>1. PICK r \in K : x.from = r.from /\ x.to = Cut(r, K)
    BY <1>4
  <2>2. r.from <= t /\ t < Cut(r, K)
    BY <2>1 DEF Covers
  <2>3. r \in T /\ r.from \in Nat /\ r.to \in Nat
    BY <1>1, <1>2
  <2>4. t < r.to
    BY <1>7, <2>2, <2>3
  <2> QED
    BY <2>2, <2>3, <2>4 DEF Covered, Covers
<1>11. \A x \in R : \E a \in T : a.pay = x.pay /\ a.from = x.from
  BY <1>1, <1>4
<1>12. \A r \in T : \E x \in R : x.from = r.from
  <2> SUFFICES ASSUME NEW r \in T PROVE \E x \in R : x.from = r.from
    OBVIOUS
  <2>1. PICK x \in K : x.from = r.from
    BY KeptTwin DEF K
  <2> QED
    BY <1>3, <2>1
<1> QED
  BY <1>8, <1>9, <1>10, <1>11, <1>12 DEF R

\* The start of a version was archived before it was moved.
LEMMA ShiftedAccounted ==
  ASSUME NEW T, NEW R, Table(R), NEW Q, Accounted(T, R, Q, FALSE), NEW M, NEW p, NEW a, Shifted(R, M, p, a),
         NEW reason, <<reason, p>> \in Q
  PROVE  Accounted(T, M, Q, FALSE) /\ (HasOpen(M) <=> HasOpen(R))
<1> DEFINE q == Restarted(p, a)
<1>a. q \in M /\ q.to = p.to
  BY ShiftedRow
<1>b. (\A x \in M : x = q \/ x \in R) /\ (\A x \in R : x # p => x \in M)
  BY ShiftedRow
<1>1. q \in M /\ q.to = p.to /\ (\A x \in M : x = q \/ x \in R) /\ (\A x \in R : x # p => x \in M)
  BY <1>a, <1>b
<1> HIDE DEF q
<1>2. p \in R /\ <<reason, p>>[2] = p
  BY DEF Shifted
<1>3. HasOpen(M) <=> HasOpen(R)
  BY <1>1, <1>2 DEF HasOpen
<1>4. Accounted(T, M, Q, FALSE)
  <2> SUFFICES ASSUME NEW r \in T
               PROVE  \/ \E x \in M : SameVersion(x, r) /\ x.to <= r.to
                      \/ \E z \in Q : SameVersion(z[2], r)
    BY DEF Accounted
  <2>1. CASE \E x \in R : SameVersion(x, r) /\ x.to <= r.to
    BY <1>1, <1>2, <2>1
  <2>2. CASE \E z \in Q : SameVersion(z[2], r)
    BY <2>2
  <2> QED
    BY <2>1, <2>2 DEF Accounted
<1> QED
  BY <1>3, <1>4

EntitiesKept(T0, T, Q) ==
  /\ Accounted(T0, T, Q, FALSE) /\ (NoCurrent(T0) <=> HasOpen(T0) /\ ~HasOpen(T))
  /\ Anchored(T0, T) /\ NothingInvented(T0, T) /\ Stems(T0, T)

LEMMA EntitiesHistory ==
  ASSUME Table(entities), Table(devices), StatesType, CreatedType, RepairEntities
  PROVE  EntitiesKept(entities, entities', quarantine')
<1> DEFINE T == entities
           R == Normalised(entities)
           M == entities'
           Q == quarantine'
<1>1. /\ \/ M = R
         \/ \E p \in R, a \in Times : Forward(R, M, p, a) /\ <<"aligned", p>> \in Q
         \/ \E p \in R : Backward(R, M, p) /\ <<"extended", p>> \in Q
      /\ SetAside(T) \subseteq Q
  BY EntitiesShape
<1>2. /\ Accounted(T, R, Q, FALSE) /\ Anchored(T, R)
      /\ \A t \in Nat : Covered(R, t) => Covered(T, t)
      /\ \A x \in R : \E a \in T : a.pay = x.pay /\ a.from = x.from
      /\ \A r \in T : \E x \in R : x.from = r.from
  BY <1>1, NormalisedHistory
<1>3. NoCurrent(T) <=> HasOpen(T) /\ ~HasOpen(R)
  BY NormalisedOpen
<1>4. Table(R) /\ Apart(R)
  BY NormalisedApart
<1> HIDE DEF T, R, M, Q
<1>5. \A x \in R : x.from \in Nat /\ x.to \in Nat /\ x.from <= x.to
  BY <1>4, RowFacts DEF Table, Apart
<1>f. FirstState \in Nat /\ \A s \in states : FirstState <= s /\ s \in Nat
  BY FirstStateFacts, TimesFacts DEF StatesType
<1>e. created.entity \in Nat
  BY CreatedFacts
<1>t. Times \subseteq Nat
  BY TimesFacts
<1>6. ASSUME M = R PROVE EntitiesKept(T, M, Q)
  <2>1. NothingInvented(T, R)
    BY <1>2, <1>t DEF NothingInvented
  <2>2. Stems(T, R)
    BY <1>2 DEF Stems
  <2> QED
    BY <1>2, <1>3, <1>6, <2>1, <2>2 DEF EntitiesKept
<1>7. ASSUME NEW p \in R, NEW a \in Times, Shifted(R, M, p, a), NEW reason, <<reason, p>> \in Q,
             (a < p.to /\ p.from < a /\ a <= FirstState) \/ (a = FirstState /\ a < p.from /\ created.entity <= a)
      PROVE  EntitiesKept(T, M, Q)
  <2> DEFINE q == Restarted(p, a)
  <2>1. q \in M /\ q.from = a /\ q.to = p.to /\ q.pay = p.pay
    BY <1>4, <1>7, ShiftedRow
  <2>2. \A x \in M : x = q \/ (x \in R /\ x # p /\ a < x.from /\ p.from < x.from)
    BY <1>4, <1>7, ShiftedRow
  <2>3. \A x \in R : x # p => x \in M
    BY <1>4, <1>7, ShiftedRow
  <2> HIDE DEF q
  <2>4. a \in Nat /\ p.from \in Nat /\ p.to \in Nat /\ p.from <= p.to /\ a <= FirstState /\ a <= p.to
    BY <1>5, <1>7, <1>f, <1>t
  <2>5. Accounted(T, M, Q, FALSE) /\ (HasOpen(M) <=> HasOpen(R))
    BY <1>2, <1>4, <1>7, ShiftedAccounted
  <2>6. Anchored(T, M)
    <3> SUFFICES ASSUME NEW t \in states, NEW r \in T, Covers(r, t), \A x \in After(r, T) : x.from > t
                 PROVE  \E y \in M : Covers(y, t) /\ y.pay = r.pay
      BY DEF Anchored
    <3>1. PICK y \in R : Covers(y, t) /\ y.pay = r.pay
      BY <1>2 DEF Anchored
    <3>2. CASE y # p
      BY <2>3, <3>1, <3>2
    <3>3. CASE y = p
      <4>1. a <= t
        BY <1>f, <2>4
      <4>2. Covers(q, t)
        BY <2>1, <3>1, <3>3, <4>1 DEF Covers
      <4> QED
        BY <2>1, <3>1, <3>3, <4>2
    <3> QED
      BY <3>2, <3>3
  <2>7. NothingInvented(T, M)
    <3> SUFFICES ASSUME NEW t \in Times, NEW x \in M, Covers(x, t), ~Covered(T, t)
                 PROVE  Earlier(T, t)
      BY DEF NothingInvented, Covered
    <3>1. t \in Nat /\ ~Covered(R, t)
      BY <1>2, <1>t
    <3>2. x = q
      BY <2>2, <3>1 DEF Covered
    <3>3. a <= t /\ t < p.to
      BY <2>1, <3>2 DEF Covers
    <3>4. t < p.from
      BY <2>4, <3>1, <3>3 DEF Covered, Covers
    <3>5. a = FirstState /\ created.entity <= a
      BY <1>7, <2>4, <3>1, <3>3, <3>4
    <3>6. \A z \in R : t < z.from
      <4> SUFFICES ASSUME NEW z \in R, z # p PROVE t < z.from
        BY <3>4
      <4>1. p.from < z.from /\ z.from \in Nat
        BY <1>5, <1>7 DEF Shifted
      <4> QED
        BY <2>4, <3>1, <3>4, <4>1
    <3>7. \A r \in T : t < r.from
      BY <1>2, <3>6
    <3> QED
      BY <1>e, <1>f, <3>1, <3>3, <3>5, <3>7 DEF Earlier
  <2>8. Stems(T, M)
    <3> SUFFICES ASSUME NEW x \in M
                 PROVE  \E z \in T : z.pay = x.pay /\ (z.from = x.from \/ (z.from <= x.to /\ Leading(x, M)))
      BY DEF Stems
    <3>1. CASE x = q
      <4>1. PICK z \in T : z.pay = p.pay /\ z.from = p.from
        BY <1>2
      <4>2. z.from <= x.to
        BY <2>1, <2>4, <3>1, <4>1
      <4>3. Leading(x, M)
        BY <2>1, <2>2, <3>1 DEF Leading
      <4> QED
        BY <2>1, <3>1, <4>1, <4>2, <4>3
    <3>2. CASE x # q
      BY <1>2, <2>2, <3>2
    <3> QED
      BY <3>1, <3>2
  <2> QED
    BY <1>3, <2>5, <2>6, <2>7, <2>8 DEF EntitiesKept
<1>8. ASSUME NEW p \in R, NEW a \in Times, Forward(R, M, p, a), <<"aligned", p>> \in Q
      PROVE  EntitiesKept(T, M, Q)
  <2>1. Shifted(R, M, p, a) /\ a < p.to /\ p.from < a /\ a <= FirstState
    BY <1>8 DEF Forward
  <2> QED
    BY <1>7, <1>8, <2>1
<1>9. ASSUME NEW p \in R, Backward(R, M, p), <<"extended", p>> \in Q
      PROVE  EntitiesKept(T, M, Q)
  <2>1. Shifted(R, M, p, FirstState) /\ FirstState < p.from /\ created.entity <= FirstState
    BY <1>9 DEF Backward
  <2>2. FirstState \in Times
    BY <2>1 DEF Shifted
  <2> QED
    BY <1>7, <1>9, <2>1, <2>2
<1>10. EntitiesKept(T, M, Q)
  BY <1>1, <1>6, <1>8, <1>9
<1> QED
  BY <1>10 DEF T, M, Q

\* The device table: its first version starts no earlier than its registry entry, nor than
\* an entity that refers to it.
LEMMA DevicesHistory ==
  ASSUME Table(entities), Table(devices), StatesType, CreatedType, RepairDevices, ExtendPlan(entities) = {}
  PROVE  /\ Accounted(devices, devices', quarantine', FALSE)
         /\ NoCurrent(devices) <=> HasOpen(devices) /\ ~HasOpen(devices')
         /\ \A t \in Times : Covered(devices', t) =>
              \/ Covered(devices, t)
              \/ created.device <= t /\ \E r \in entities : r.pay \in Linked /\ r.from <= t
<1> DEFINE T == devices
           R == Normalised(devices)
           plan == DevicePlan(entities, R)
           s == DeviceStart(entities)
           M == devices'
           Q == quarantine'
<1>1. /\ M = IF plan = {} THEN R ELSE Moved(R, plan, s)
      /\ Q = quarantine \cup SetAside(T) \cup StartArchive("extended", plan)
  BY DEF RepairDevices
<1>2. SetAside(T) \subseteq Q /\ \A p \in plan : <<"extended", p>> \in Q
  BY <1>1 DEF StartArchive, Archive
<1>3. /\ Accounted(T, R, Q, FALSE)
      /\ \A t \in Nat : Covered(R, t) => Covered(T, t)
  BY <1>2, NormalisedHistory
<1>4. NoCurrent(T) <=> HasOpen(T) /\ ~HasOpen(R)
  BY NormalisedOpen
<1>5. Table(R) /\ Apart(R)
  BY NormalisedApart
<1> HIDE DEF T, R, Q
<1>6. \A d \in plan : /\ d \in R /\ s \in Times /\ s < d.from /\ created.device <= s
                      /\ \A x \in R \ {d} : d.from < x.from /\ s < x.from
                      /\ \E r \in entities : r.pay \in Linked /\ r.from <= s
  BY <1>5, DeviceFacts
<1>7. \A x \in R : x.from \in Nat /\ x.to \in Nat
  BY <1>5, RowFacts DEF Table
<1>8. created.device \in Nat /\ \A r \in entities : r.from \in Nat
  BY CreatedFacts, RowFacts DEF Table
<1> HIDE DEF plan, s
<1>9. \/ plan = {} /\ Moved(R, plan, s) = R
      \/ \E p \in R : plan = {p} /\ Shifted(R, Moved(R, plan, s), p, s)
  BY <1>5, <1>6, MovedShape
<1> HIDE DEF M
<1>10. CASE plan = {}
  <2>1. M = R
    BY <1>1, <1>10 DEF M
  <2>2. \A t \in Times : Covered(M, t) => Covered(T, t)
    BY <1>3, <2>1, TimesFacts
  <2> QED
    BY <1>3, <1>4, <2>1, <2>2 DEF T, Q, M
<1>11. CASE plan # {}
  <2>1. PICK p \in R : plan = {p} /\ Shifted(R, M, p, s)
    BY <1>1, <1>9, <1>11 DEF M
  <2>2. s \in Times /\ s \in Nat /\ s < p.from /\ created.device <= s
        /\ \E r \in entities : r.pay \in Linked /\ r.from <= s
    BY <1>6, <2>1, TimesFacts
  <2>3. Accounted(T, M, Q, FALSE) /\ (HasOpen(M) <=> HasOpen(R))
    <3>1. <<"extended", p>> \in Q
      BY <1>2, <2>1
    <3> QED
      BY <1>3, <1>5, <2>1, <3>1, ShiftedAccounted
  <2> DEFINE q == Restarted(p, s)
  <2>4. q.from = s /\ \A x \in M : x = q \/ x \in R
    BY <1>5, <2>1, ShiftedRow
  <2> HIDE DEF q
  <2>5. ASSUME NEW t \in Times, Covered(M, t), ~Covered(T, t)
        PROVE  created.device <= t /\ \E r \in entities : r.pay \in Linked /\ r.from <= t
    <3>1. t \in Nat /\ ~Covered(R, t)
      BY <1>3, <2>5, TimesFacts
    <3>2. PICK x \in M : Covers(x, t)
      BY <2>5 DEF Covered
    <3>3. x = q
      BY <2>4, <3>1, <3>2 DEF Covered
    <3>4. s <= t
      BY <2>4, <3>2, <3>3 DEF Covers
    <3>5. PICK r \in entities : r.pay \in Linked /\ r.from <= s
      BY <2>2
    <3>6. created.device <= t /\ r.from <= t
      BY <1>8, <2>2, <3>1, <3>4, <3>5
    <3> QED
      BY <3>5, <3>6
  <2> QED
    BY <1>4, <2>3, <2>5 DEF T, Q, M
<1> QED
  BY <1>10, <1>11

-----------------------------------------------------------------------------
(* What the passes of the merge keep.                                      *)

\* A version is deleted by a pass, or it is there and ends no earlier; one with its payload
\* covers all it covered; and one that ends later ends with a later version behind a gap.
PassKept(E, R) ==
  /\ \A r \in E : r \in Seconds(E) \/ \E x \in R : SameVersion(x, r)
  /\ \A r \in E : \E x \in R : x.pay = r.pay /\ x.from <= r.from /\ r.to <= x.to
  /\ \A x \in R : \E r \in E :
       /\ SameVersion(x, r) /\ r.to <= x.to
       /\ \/ x.to = r.to
          \/ \E s \in E : /\ s.to = x.to /\ s.pay = r.pay /\ r.to < s.from
                          /\ \E u \in states : u < s.from

LEMMA PassKeeps ==
  ASSUME NEW m, Fine(m.rows)
  PROVE  PassKept(m.rows, MergePass(m).rows)
<1> DEFINE E == m.rows
           R == MergePass(m).rows
<1>1. /\ \A x \in R : \E r \in E \ Seconds(E) : Outcome(E, r, x)
      /\ \A r \in E \ Seconds(E) : \E x \in R : Outcome(E, r, x)
  BY PassRows DEF Fine
<1>2. Table(E) /\ Apart(E)
  BY DEF Fine
<1> HIDE DEF E, R
<1>3. \A r \in E : r.from \in Nat /\ r.to \in Nat /\ r.from <= r.to
  BY <1>2, RowFacts DEF Table, Apart
<1>4. ASSUME NEW p \in MergePlan(E)
      PROVE  /\ p[1] \in E \ Seconds(E) /\ p[2] \in E /\ p[1].to < p[2].from /\ p[1].pay = p[2].pay
             /\ \E u \in states : u < p[2].from
             /\ \A q \in MergePlan(E) : q[1] = p[1] => q[2] = p[2]
  <2>1. p \in MergePairs(E) /\ ~\E q \in MergePairs(E) : q[2] = p[1]
    BY DEF MergePlan
  <2>2. p[1] \notin Seconds(E)
    BY <2>1 DEF Seconds, MergePlan
  <2>3. \A q \in MergePlan(E) : q[1] = p[1] => q[2] = p[2]
    BY <1>2, <2>1, PairUnique DEF MergePlan
  <2> QED
    BY <1>2, <2>1, <2>2, <2>3, PairFacts
\* What comes of a version that is not deleted.
<1>5. ASSUME NEW r \in E, NEW x \in R, Outcome(E, r, x)
      PROVE  /\ SameVersion(x, r) /\ r.to <= x.to
             /\ \/ x.to = r.to
                \/ \E s \in E : /\ s.to = x.to /\ s.pay = r.pay /\ r.to < s.from
                                /\ \E u \in states : u < s.from
  <2>1. SameVersion(x, r)
    BY <1>5 DEF Outcome, SameVersion
  <2>2. CASE x = r
    BY <1>3, <2>1, <2>2
  <2>3. CASE \E p \in MergePlan(E) : p[1] = r /\ x.to = p[2].to
    <3>1. PICK p \in MergePlan(E) : p[1] = r /\ x.to = p[2].to
      BY <2>3
    <3>2. p[2] \in E /\ r.to < p[2].from /\ r.pay = p[2].pay /\ \E u \in states : u < p[2].from
      BY <1>4, <3>1
    <3>3. r.to <= x.to
      BY <1>3, <3>1, <3>2
    <3> QED
      BY <2>1, <3>1, <3>2, <3>3
  <2> QED
    BY <1>5, <2>2, <2>3 DEF Outcome
<1>6. ASSUME NEW r \in E PROVE r \in Seconds(E) \/ \E x \in R : SameVersion(x, r)
  BY <1>1, <1>5
<1>7. ASSUME NEW r \in E PROVE \E x \in R : x.pay = r.pay /\ x.from <= r.from /\ r.to <= x.to
  <2>1. CASE r \notin Seconds(E)
    BY <1>1, <1>3, <1>5, <2>1 DEF SameVersion
  <2>2. CASE r \in Seconds(E)
    <3>1. PICK p \in MergePlan(E) : p[2] = r
      BY <2>2 DEF Seconds
    <3>2. p[1] \in E \ Seconds(E) /\ p[1].to < r.from /\ p[1].pay = r.pay
      BY <1>4, <3>1
    <3>3. PICK x \in R : Outcome(E, p[1], x)
      BY <1>1, <3>2
    <3>4. x.to = r.to
      BY <1>4, <3>1, <3>3 DEF Outcome
    <3>5. x.from = p[1].from /\ x.pay = p[1].pay
      BY <3>3 DEF Outcome
    <3> QED
      BY <1>3, <3>2, <3>4, <3>5
  <2> QED
    BY <2>1, <2>2
<1>8. ASSUME NEW x \in R
      PROVE  \E r \in E :
               /\ SameVersion(x, r) /\ r.to <= x.to
               /\ \/ x.to = r.to
                  \/ \E s \in E : /\ s.to = x.to /\ s.pay = r.pay /\ r.to < s.from
                                  /\ \E u \in states : u < s.from
  BY <1>1, <1>5
<1> QED
  BY <1>6, <1>7, <1>8 DEF PassKept, E, R

\* The gap between two equal versions that a state contradicts.
Bridged(E, t) ==
  \E a, b \in E : a.pay = b.pay /\ a.from <= t /\ a.to <= t /\ t < b.from /\ \E s \in states : s < b.from

\* What the passes have made of the table E so far.
MergeKept(E, m) ==
  /\ \A r \in E : \E y \in m.rows \cup m.gone : SameVersion(y, r)
  /\ \A r \in E : \E x \in m.rows : x.pay = r.pay /\ x.from <= r.from /\ r.to <= x.to
  /\ \A x \in m.rows : \E r \in E : SameVersion(x, r) /\ r.to <= x.to
  /\ \A t \in Nat : Covered(m.rows, t) => Covered(E, t) \/ Bridged(E, t)
  /\ HasOpen(m.rows) => HasOpen(E)

LEMMA MergeKeeps ==
  ASSUME NEW E, Fine(E), NEW m \in Midway, MergeKept(E, m)
  PROVE  MergeKept(E, MergePass(m))
<1> DEFINE F == m.rows
           R == MergePass(m).rows
<1>1. Fine(F)
  BY DEF Midway, Fine
<1>2. PassKept(F, R)
  BY <1>1, PassKeeps
<1>3. MergePass(m).gone = m.gone \cup Seconds(F)
  BY <1>1, PassRows DEF Fine
<1>4. Table(R)
  BY <1>1, PassApart DEF Fine
<1>k. /\ \A r \in E : \E y \in F \cup m.gone : SameVersion(y, r)
      /\ \A r \in E : \E x \in F : x.pay = r.pay /\ x.from <= r.from /\ r.to <= x.to
      /\ \A x \in F : \E r \in E : SameVersion(x, r) /\ r.to <= x.to
      /\ \A t \in Nat : Covered(F, t) => Covered(E, t) \/ Bridged(E, t)
      /\ HasOpen(F) => HasOpen(E)
  BY DEF MergeKept
<1>p. /\ \A r \in F : r \in Seconds(F) \/ \E x \in R : SameVersion(x, r)
      /\ \A r \in F : \E x \in R : x.pay = r.pay /\ x.from <= r.from /\ r.to <= x.to
      /\ \A x \in R : \E r \in F :
           /\ SameVersion(x, r) /\ r.to <= x.to
           /\ \/ x.to = r.to
              \/ \E s \in F : /\ s.to = x.to /\ s.pay = r.pay /\ r.to < s.from
                              /\ \E u \in states : u < s.from
  BY <1>2 DEF PassKept
<1> HIDE DEF F, R
<1>5. /\ \A r \in E : r.from \in Nat /\ r.to \in Nat
      /\ \A r \in F : r.from \in Nat /\ r.to \in Nat
      /\ \A r \in R : r.from \in Nat /\ r.to \in Nat
  BY <1>1, <1>4, RowFacts DEF Fine, Table
<1>6. ASSUME NEW r \in E PROVE \E y \in R \cup MergePass(m).gone : SameVersion(y, r)
  <2>1. PICK y \in F \cup m.gone : SameVersion(y, r)
    BY <1>k
  <2>2. CASE y \in m.gone \/ y \in Seconds(F)
    BY <1>3, <2>1, <2>2
  <2>3. CASE y \in F /\ y \notin Seconds(F)
    <3>1. PICK x \in R : SameVersion(x, y)
      BY <1>p, <2>3
    <3> QED
      BY <2>1, <3>1 DEF SameVersion
  <2> QED
    BY <2>1, <2>2, <2>3
<1>7. ASSUME NEW r \in E PROVE \E x \in R : x.pay = r.pay /\ x.from <= r.from /\ r.to <= x.to
  <2>1. PICK y \in F : y.pay = r.pay /\ y.from <= r.from /\ r.to <= y.to
    BY <1>k
  <2>2. PICK x \in R : x.pay = y.pay /\ x.from <= y.from /\ y.to <= x.to
    BY <1>p
  <2> QED
    BY <1>5, <2>1, <2>2
<1>8. ASSUME NEW x \in R PROVE \E r \in E : SameVersion(x, r) /\ r.to <= x.to
  <2>1. PICK y \in F : SameVersion(x, y) /\ y.to <= x.to
    BY <1>p
  <2>2. PICK r \in E : SameVersion(y, r) /\ r.to <= y.to
    BY <1>k
  <2> QED
    BY <1>5, <2>1, <2>2 DEF SameVersion
<1>9. ASSUME NEW t \in Nat, Covered(R, t) PROVE Covered(E, t) \/ Bridged(E, t)
  <2>1. PICK x \in R : x.from <= t /\ t < x.to
    BY <1>9 DEF Covered, Covers
  <2>2. PICK r \in F :
           /\ SameVersion(x, r) /\ r.to <= x.to
           /\ \/ x.to = r.to
              \/ \E s \in F : /\ s.to = x.to /\ s.pay = r.pay /\ r.to < s.from
                              /\ \E u \in states : u < s.from
    BY <1>p
  <2>3. r.from = x.from
    BY <2>2 DEF SameVersion
  <2>4. CASE t < r.to
    BY <1>k, <2>1, <2>3, <2>4 DEF Covered, Covers
  <2>5. CASE ~(t < r.to)
    <3>1. r.to <= t
      BY <1>5, <2>5
    <3>2. PICK s \in F : /\ s.to = x.to /\ s.pay = r.pay /\ r.to < s.from
                         /\ \E u \in states : u < s.from
      BY <2>1, <2>2, <2>5
    <3>3. CASE s.from <= t
      BY <1>k, <2>1, <3>2, <3>3 DEF Covered, Covers
    <3>4. CASE ~(s.from <= t)
      <4>1. t < s.from
        BY <1>5, <3>4
      <4>2. PICK a \in E : SameVersion(r, a) /\ a.to <= r.to
        BY <1>k
      <4>3. PICK b \in E : SameVersion(s, b) /\ b.to <= s.to
        BY <1>k
      <4>4. a.pay = b.pay /\ a.from = r.from /\ b.from = s.from
        BY <3>2, <4>2, <4>3 DEF SameVersion
      <4>5. a.from <= t /\ a.to <= t /\ t < b.from
        BY <1>5, <2>1, <2>3, <3>1, <4>1, <4>2, <4>4
      <4> QED
        BY <3>2, <4>4, <4>5 DEF Bridged
    <3> QED
      BY <3>3, <3>4
  <2> QED
    BY <2>4, <2>5
<1>10. ASSUME HasOpen(R) PROVE HasOpen(E)
  <2>1. PICK x \in R : x.to = Open
    BY <1>10 DEF HasOpen
  <2>2. \E r \in F : r.to = Open
    BY <1>p, <2>1
  <2> QED
    BY <1>k, <2>2 DEF HasOpen
<1> QED
  BY <1>6, <1>7, <1>8, <1>9, <1>10 DEF MergeKept, R

LEMMA MergedKept ==
  ASSUME NEW E, Fine(E)
  PROVE  MergeKept(E, Merged(E)) /\ (HasOpen(E) <=> HasOpen(Merged(E).rows))
<1> DEFINE N == MergePasses
<1>1. PICK g : Passes(g, N, E) /\ Merged(E) = g[N]
  BY MergedPasses DEF Fine
<1>2. N \in Nat
  BY TimesFacts
<1>3. /\ g \in [0..N -> Midway] /\ g[0] = Unmerged(E)
      /\ \A n \in 1..N : g[n] = MergePass(g[n - 1])
  BY <1>1 DEF Passes
<1> HIDE DEF N
<1> DEFINE S == {k \in 0..N : MergeKept(E, g[k])}
<1>4. 0 \in S
  <2>1. \A r \in E : r.from \in Nat /\ r.to \in Nat
    BY RowFacts DEF Fine, Table
  <2>2. MergeKept(E, Unmerged(E))
    BY <2>1 DEF MergeKept, Unmerged, SameVersion
  <2> QED
    BY <1>2, <1>3, <2>2
<1>5. ASSUME NEW k \in 0..(N - 1), k \in S PROVE k + 1 \in S
  <2>1. k + 1 \in 1..N /\ (k + 1) - 1 = k /\ k \in 0..N /\ k + 1 \in 0..N
    BY <1>2
  <2>2. g[k] \in Midway /\ MergeKept(E, g[k]) /\ g[k + 1] = MergePass(g[k])
    BY <1>3, <1>5, <2>1
  <2>3. MergeKept(E, MergePass(g[k]))
    BY <2>2, MergeKeeps
  <2> QED
    BY <2>1, <2>2, <2>3
<1> HIDE DEF S
<1>6. N \in S
  BY <1>2, <1>4, <1>5, Climb
<1>7. MergeKept(E, Merged(E))
  BY <1>1, <1>6 DEF S
<1>8. ASSUME HasOpen(E) PROVE HasOpen(Merged(E).rows)
  <2>1. PICK r \in E : r.to = Open
    BY <1>8 DEF HasOpen
  <2>2. PICK x \in Merged(E).rows : Open <= x.to
    BY <1>7, <2>1 DEF MergeKept
  <2>3. Table(Merged(E).rows)
    BY MergedFine DEF Fine
  <2>4. x.to \in Nat /\ x.to <= Open
    BY <2>2, <2>3, RowFacts DEF Table
  <2>5. x.to = Open
    BY <2>2, <2>4, TimesFacts
  <2> QED
    BY <2>2, <2>5 DEF HasOpen
<1> QED
  BY <1>7, <1>8 DEF MergeKept

-----------------------------------------------------------------------------
(* What a run keeps of the tables it found, from each commit to the next.  *)

\* A gap of the merge, seen from the table the run found.
InMergedGap(T0, t) ==
  /\ "merge" \in flags
  /\ \E a, b \in T0 : a.pay = b.pay /\ a.from <= t /\ t < b.from /\ \E s \in states : s < b.from
EntitiesTrue(T0, T) ==
  \A t \in Times : Covered(T, t) => Covered(T0, t) \/ Earlier(T0, t) \/ InMergedGap(T0, t)
DevicesTrue(T0, T, E) ==
  \A t \in Times : Covered(T, t) =>
    \/ Covered(T0, t)
    \/ created.device <= t /\ \E r \in E : r.pay \in Linked /\ r.from <= t

\* The current version is lost exactly if the newest one is closed.
Reported(T0, T) == NoCurrent(T0) <=> HasOpen(T0) /\ ~HasOpen(T)

\* Step p of a run that found the tables B, with the tables E and D and the quarantine Q.
Hist(p, B, E, D, Q) ==
  /\ p = "entities" => B.entities = E
  /\ p \in {"entities", "devices"} => B.devices = D
  /\ p = "devices" => ExtendPlan(E) = {}
  /\ p = "merge" => "merge" \in flags
  /\ p \in {"devices", "merge"} => NothingInvented(B.entities, E) /\ Stems(B.entities, E)
  /\ p \in {"devices", "merge", "enforce"} =>
       /\ Accounted(B.entities, E, Q, "merge" \in flags) /\ Reported(B.entities, E)
       /\ Anchored(B.entities, E) /\ EntitiesTrue(B.entities, E)
  /\ p \in {"merge", "enforce"} =>
       /\ Accounted(B.devices, D, Q, "merge" \in flags) /\ Reported(B.devices, D)
       /\ DevicesTrue(B.devices, D, E)

HistInv == Hist(pc, backup, entities, devices, quarantine)

LEMMA HistUnprimed ==
  ASSUME UNCHANGED <<states, created, flags>>, Hist(pc', backup', entities', devices', quarantine')
  PROVE  HistInv'
<1>1. states' = states /\ created' = created /\ flags' = flags
  OBVIOUS
<1>2. FirstState' = FirstState
  BY <1>1 DEF FirstState
<1>3. ExtendPlan(entities)' = ExtendPlan(entities')
  BY <1>1, <1>2 DEF ExtendPlan
<1>4. Anchored(backup.entities, entities)' <=> Anchored(backup'.entities, entities')
  BY <1>1 DEF Anchored
<1>5. \A t : Earlier(backup.entities, t)' <=> Earlier(backup'.entities, t)
  BY <1>1, <1>2 DEF Earlier
<1>6. \A t : InMergedGap(backup.entities, t)' <=> InMergedGap(backup'.entities, t)
  BY <1>1 DEF InMergedGap
<1>7. NothingInvented(backup.entities, entities)' <=> NothingInvented(backup'.entities, entities')
  BY <1>5 DEF NothingInvented
<1>8. EntitiesTrue(backup.entities, entities)' <=> EntitiesTrue(backup'.entities, entities')
  BY <1>5, <1>6 DEF EntitiesTrue
<1>9. DevicesTrue(backup.devices, devices, entities)' <=> DevicesTrue(backup'.devices, devices', entities')
  BY <1>1 DEF DevicesTrue
<1> QED
  BY <1>1, <1>3, <1>4, <1>7, <1>8, <1>9 DEF HistInv, Hist

LEMMA AccountedMore ==
  ASSUME NEW T0, NEW T, NEW Q, NEW QQ, Q \subseteq QQ, NEW b, NEW c, b => c, Accounted(T0, T, Q, b)
  PROVE  Accounted(T0, T, QQ, c)
BY DEF Accounted

\* A run that has nothing to change finds tables that are apart.
LEMMA UntouchedHistory ==
  ASSUME NEW E, Fine(E), NEW D, Fine(D), NEW Q
  PROVE  Hist("enforce", [entities |-> E, devices |-> D], E, D, Q)
<1>1. ~NoCurrent(E) /\ ~NoCurrent(D)
  BY FineCurrent
<1>2. \A r \in E \cup D : r.to \in Nat
  BY RowFacts DEF Fine, Table
<1>3. Accounted(E, E, Q, "merge" \in flags) /\ Accounted(D, D, Q, "merge" \in flags)
  BY <1>2 DEF Accounted, SameVersion
<1>4. Reported(E, E) /\ Reported(D, D)
  BY <1>1 DEF Reported
<1>5. Anchored(E, E)
  BY DEF Anchored
<1>6. EntitiesTrue(E, E) /\ DevicesTrue(D, D, E)
  BY DEF EntitiesTrue, DevicesTrue
<1> QED
  BY <1>3, <1>4, <1>5, <1>6 DEF Hist

LEMMA EntitiesHist ==
  ASSUME Table(entities), Table(devices), StatesType, CreatedType, HistInv, RepairEntities
  PROVE  Hist("devices", backup, entities', devices, quarantine')
<1>1. backup.entities = entities /\ backup.devices = devices
  BY DEF HistInv, Hist, RepairEntities
<1>2. EntitiesKept(entities, entities', quarantine')
  BY EntitiesHistory
<1>3. ExtendPlan(entities') = {}
  BY EntitiesShape
<1>4. /\ Accounted(entities, entities', quarantine', FALSE) /\ Reported(entities, entities')
      /\ Anchored(entities, entities') /\ NothingInvented(entities, entities')
      /\ Stems(entities, entities')
  BY <1>2 DEF EntitiesKept, Reported
<1>5. Accounted(entities, entities', quarantine', "merge" \in flags)
  BY <1>4, AccountedMore
<1>6. EntitiesTrue(entities, entities')
  BY <1>4 DEF EntitiesTrue, NothingInvented
<1> QED
  BY <1>1, <1>3, <1>4, <1>5, <1>6 DEF Hist

LEMMA DevicesHist ==
  ASSUME Table(entities), Table(devices), StatesType, CreatedType, HistInv, RepairDevices
  PROVE  Hist(pc', backup, entities, devices', quarantine')
<1>1. /\ pc = "devices" /\ pc' = IF "merge" \in flags THEN "merge" ELSE "enforce"
      /\ quarantine \subseteq quarantine'
  BY DEF RepairDevices
<1>2. /\ backup.devices = devices /\ ExtendPlan(entities) = {}
      /\ NothingInvented(backup.entities, entities) /\ Stems(backup.entities, entities)
      /\ Accounted(backup.entities, entities, quarantine, "merge" \in flags)
      /\ Reported(backup.entities, entities) /\ Anchored(backup.entities, entities)
      /\ EntitiesTrue(backup.entities, entities)
  BY <1>1 DEF HistInv, Hist
<1>3. /\ Accounted(devices, devices', quarantine', FALSE)
      /\ NoCurrent(devices) <=> HasOpen(devices) /\ ~HasOpen(devices')
      /\ \A t \in Times : Covered(devices', t) =>
           \/ Covered(devices, t)
           \/ created.device <= t /\ \E r \in entities : r.pay \in Linked /\ r.from <= t
  BY <1>2, DevicesHistory
<1>4. Accounted(backup.entities, entities, quarantine', "merge" \in flags)
  BY <1>1, <1>2, AccountedMore
<1>5. Accounted(devices, devices', quarantine', "merge" \in flags)
  BY <1>3, AccountedMore
<1>6. Reported(devices, devices') /\ DevicesTrue(devices, devices', entities)
  BY <1>3 DEF Reported, DevicesTrue
<1> QED
  BY <1>1, <1>2, <1>4, <1>5, <1>6 DEF Hist

LEMMA MergeHist ==
  ASSUME Fine(entities), Table(backup.entities), StatesType, HistInv, MergeGaps
  PROVE  Hist("enforce", backup, entities', devices, quarantine')
<1> DEFINE B == backup.entities
           E == entities
           M == entities'
           Q == quarantine'
<1>1. /\ pc = "merge" /\ M = Merged(E).rows
      /\ Q = quarantine \cup Archive("merged", Merged(E).gone)
  BY DEF MergeGaps
<1>2. MergeKept(E, Merged(E)) /\ (HasOpen(E) <=> HasOpen(M))
  BY <1>1, MergedKept
<1>3. /\ "merge" \in flags /\ NothingInvented(B, E) /\ Stems(B, E)
      /\ Accounted(B, E, quarantine, TRUE) /\ Reported(B, E) /\ Anchored(B, E)
      /\ Accounted(backup.devices, devices, quarantine, TRUE) /\ Reported(backup.devices, devices)
      /\ DevicesTrue(backup.devices, devices, E)
  BY <1>1 DEF HistInv, Hist
<1>4. /\ \A r \in E : \E y \in M \cup Merged(E).gone : SameVersion(y, r)
      /\ \A r \in E : \E x \in M : x.pay = r.pay /\ x.from <= r.from /\ r.to <= x.to
      /\ \A t \in Nat : Covered(M, t) => Covered(E, t) \/ Bridged(E, t)
  BY <1>1, <1>2 DEF MergeKept
<1>5. \A y \in Merged(E).gone : <<"merged", y>> \in Q
  BY <1>1 DEF Archive
<1>6. quarantine \subseteq Q
  BY <1>1
<1>7. Table(M)
  BY <1>1, MergedFine DEF Fine
<1> HIDE DEF M, Q, E, B
<1>8. /\ \A r \in E : r.from \in Nat /\ r.to \in Nat
      /\ \A r \in M : r.from \in Nat /\ r.to \in Nat
      /\ \A r \in B : r.from \in Nat /\ r.to \in Nat
      /\ Times \subseteq Nat /\ \A s \in states : s \in Nat
  BY <1>7, RowFacts, TimesFacts DEF Fine, Table, StatesType, E, B
<1>9. Accounted(B, M, Q, TRUE)
  <2> SUFFICES ASSUME NEW r \in B
               PROVE  (\E x \in M : SameVersion(x, r)) \/ \E q \in Q : SameVersion(q[2], r)
    BY DEF Accounted
  <2>1. CASE \E q \in quarantine : SameVersion(q[2], r)
    BY <1>6, <2>1
  <2>2. CASE \E x \in E : SameVersion(x, r)
    <3>1. PICK x \in E : SameVersion(x, r)
      BY <2>2
    <3>2. PICK y \in M \cup Merged(E).gone : SameVersion(y, x)
      BY <1>4
    <3>3. SameVersion(y, r)
      BY <3>1, <3>2 DEF SameVersion
    <3>4. CASE y \in Merged(E).gone
      <4>1. <<"merged", y>> \in Q /\ <<"merged", y>>[2] = y
        BY <1>5, <3>4
      <4> QED
        BY <3>3, <4>1
    <3> QED
      BY <3>2, <3>3, <3>4
  <2> QED
    BY <1>3, <2>1, <2>2 DEF Accounted
<1>10. Reported(B, M)
  BY <1>2, <1>3 DEF Reported
<1>11. Anchored(B, M)
  <2> SUFFICES ASSUME NEW t \in states, NEW r \in B, Covers(r, t), \A x \in After(r, B) : x.from > t
               PROVE  \E y \in M : Covers(y, t) /\ y.pay = r.pay
    BY DEF Anchored
  <2>1. PICK y \in E : Covers(y, t) /\ y.pay = r.pay
    BY <1>3 DEF Anchored
  <2>2. PICK x \in M : x.pay = y.pay /\ x.from <= y.from /\ y.to <= x.to
    BY <1>4
  <2>3. x.from <= t /\ t < x.to
    BY <1>8, <2>1, <2>2 DEF Covers
  <2> QED
    BY <2>1, <2>2, <2>3 DEF Covers
<1>12. EntitiesTrue(B, M)
  <2> SUFFICES ASSUME NEW t \in Times, Covered(M, t), ~Covered(B, t), ~Earlier(B, t)
               PROVE  InMergedGap(B, t)
    BY DEF EntitiesTrue
  <2>1. t \in Nat /\ ~Covered(E, t)
    BY <1>3, <1>8 DEF NothingInvented
  <2>2. PICK a \in E, b \in E :
           a.pay = b.pay /\ a.from <= t /\ a.to <= t /\ t < b.from /\ \E s \in states : s < b.from
    BY <1>4, <2>1 DEF Bridged
  <2>3. PICK c \in B : c.pay = a.pay /\ (c.from = a.from \/ (c.from <= a.to /\ Leading(a, E)))
    BY <1>3 DEF Stems
  <2>4. c.from <= t
    BY <1>8, <2>1, <2>2, <2>3
  <2>5. PICK d \in B : d.pay = b.pay /\ (d.from = b.from \/ (d.from <= b.to /\ Leading(b, E)))
    BY <1>3 DEF Stems
  <2>6. ~Leading(b, E)
    <3>1. a.from < b.from
      BY <1>8, <2>1, <2>2
    <3>2. a # b /\ ~(b.from < a.from)
      BY <1>8, <3>1
    <3> QED
      BY <3>2 DEF Leading
  <2>7. d.from = b.from
    BY <2>5, <2>6
  <2>8. c.pay = d.pay /\ t < d.from /\ \E s \in states : s < d.from
    BY <2>2, <2>3, <2>5, <2>7
  <2> QED
    BY <1>3, <2>4, <2>8 DEF InMergedGap
<1>13. DevicesTrue(backup.devices, devices, M)
  <2> SUFFICES ASSUME NEW t \in Times, Covered(devices, t), ~Covered(backup.devices, t)
               PROVE  created.device <= t /\ \E r \in M : r.pay \in Linked /\ r.from <= t
    BY DEF DevicesTrue
  <2>1. created.device <= t /\ \E r \in E : r.pay \in Linked /\ r.from <= t
    BY <1>3 DEF DevicesTrue
  <2>2. PICK r \in E : r.pay \in Linked /\ r.from <= t
    BY <2>1
  <2>3. PICK x \in M : x.pay = r.pay /\ x.from <= r.from
    BY <1>4
  <2>4. x.from <= t
    BY <1>8, <2>2, <2>3
  <2> QED
    BY <2>1, <2>2, <2>3, <2>4
<1>14. Accounted(backup.devices, devices, Q, TRUE)
  BY <1>3, <1>6, AccountedMore
<1> HIDE DEF MergeGaps
<1> QED
  BY <1>3, <1>9, <1>10, <1>11, <1>12, <1>13, <1>14 DEF Hist, B, M, Q

LEMMA HistInit == Init => HistInv
BY DEF Init, HistInv, Hist

LEMMA HistStep == Inv /\ HistInv /\ [Next]_vars => HistInv'
<1> SUFFICES ASSUME Inv, HistInv, [Next]_vars PROVE HistInv'
  OBVIOUS
<1>inv. /\ Table(entities) /\ Table(devices) /\ Table(backup.entities) /\ StatesType /\ CreatedType
        /\ RepairedIsClean
  BY DEF Inv, TypeOK, StatesType, CreatedType
\* Between the runs nothing is claimed.
<1>a. ASSUME UNCHANGED <<states, created, flags>>, pc' \in {"history", "idle"} PROVE HistInv'
  <2>1. Hist(pc', backup', entities', devices', quarantine')
    BY <1>a DEF Hist
  <2> QED
    BY <1>a, <2>1, HistUnprimed
<1>legacy. CASE LegacyVersion
  <2>1. pc' \in {"history", "idle"} /\ UNCHANGED <<states, created, flags>>
    BY <1>legacy DEF LegacyVersion
  <2> QED
    BY <1>a, <2>1
<1>start. CASE Start
  <2>1. /\ pc' = IF Mutating THEN "entities" ELSE "enforce"
        /\ backup' = [entities |-> entities, devices |-> devices]
        /\ UNCHANGED <<entities, devices, states, created, quarantine, flags>>
    BY <1>start DEF Start
  <2>2. Hist(pc', backup', entities', devices', quarantine')
    <3>1. CASE Mutating
      BY <2>1, <3>1 DEF Hist
    <3>2. CASE ~Mutating
      <4>1. Fine(entities) /\ Fine(devices)
        BY <1>inv, <3>2, FineIsClean DEF Mutating
      <4>2. Hist("enforce", [entities |-> entities, devices |-> devices], entities, devices, quarantine)
        BY <4>1, UntouchedHistory
      <4> QED
        BY <2>1, <3>2, <4>2
    <3> QED
      BY <3>1, <3>2
  <2> QED
    BY <2>1, <2>2, HistUnprimed
<1>entities. CASE RepairEntities
  <2>1. pc' = "devices" /\ UNCHANGED <<devices, states, created, backup, flags>>
    BY <1>entities DEF RepairEntities
  <2>2. Hist("devices", backup, entities', devices, quarantine')
    BY <1>entities, <1>inv, EntitiesHist
  <2>3. Hist(pc', backup', entities', devices', quarantine')
    BY <2>1, <2>2
  <2> QED
    BY <2>1, <2>3, HistUnprimed
<1>devices. CASE RepairDevices
  <2>1. UNCHANGED <<entities, states, created, backup, flags>>
    BY <1>devices DEF RepairDevices
  <2>2. Hist(pc', backup, entities, devices', quarantine')
    BY <1>devices, <1>inv, DevicesHist
  <2>3. Hist(pc', backup', entities', devices', quarantine')
    BY <2>1, <2>2
  <2> QED
    BY <2>1, <2>3, HistUnprimed
<1>merge. CASE MergeGaps
  <2>1. pc = "merge" /\ pc' = "enforce" /\ UNCHANGED <<devices, states, created, backup, flags>>
    BY <1>merge DEF MergeGaps
  <2>2. Fine(entities)
    BY <1>inv, <2>1, FineIsClean DEF RepairedIsClean
  <2>3. Hist("enforce", backup, entities', devices, quarantine')
    BY <1>merge, <1>inv, <2>2, MergeHist
  <2>4. Hist(pc', backup', entities', devices', quarantine')
    BY <2>1, <2>3
  <2> QED
    BY <2>1, <2>4, HistUnprimed
<1>enforce. CASE Enforce
  <2>1. pc' \in {"history", "idle"} /\ UNCHANGED <<states, created, flags>>
    BY <1>enforce DEF Enforce
  <2> QED
    BY <1>a, <2>1
<1>abort. CASE Abort
  <2>1. pc' \in {"history", "idle"} /\ UNCHANGED <<states, created, flags>>
    BY <1>abort DEF Abort
  <2> QED
    BY <1>a, <2>1
<1>stutter. CASE UNCHANGED vars
  <2>1. UNCHANGED <<entities, devices, states, created, backup, quarantine, flags, pc>>
    BY <1>stutter DEF vars
  <2>2. Hist(pc', backup', entities', devices', quarantine')
    BY <2>1 DEF HistInv
  <2> QED
    BY <2>1, <2>2, HistUnprimed
<1> QED
  BY <1>legacy, <1>start, <1>entities, <1>devices, <1>merge, <1>enforce, <1>abort, <1>stutter DEF Next

LEMMA HistHolds == Spec => [](Inv /\ HistInv)
<1>1. Init => Inv /\ HistInv
  BY InvInit, HistInit
<1>2. Inv /\ HistInv /\ [Next]_vars => (Inv /\ HistInv)'
  BY InvStep, HistStep
<1> QED
  BY <1>1, <1>2, PTL DEF Spec

\* scd2_repair_quarantine holds every row that a run deleted, clamped, merged away or whose
\* start it moved (repair_scd2.py, docstring), whatever run was aborted before.
THEOREM LossesAreArchived == Spec => []LossesArchived
<1>1. HistInv => LossesArchived
  <2> SUFFICES ASSUME HistInv PROVE LossesArchived
    OBVIOUS
  <2>1. Committed("entities") => Accounted(backup.entities, entities, quarantine, "merge" \in flags)
    BY DEF HistInv, Hist, Committed
  <2>2. Committed("devices") => Accounted(backup.devices, devices, quarantine, "merge" \in flags)
    BY DEF HistInv, Hist, Committed
  <2> QED
    BY <2>1, <2>2 DEF LossesArchived, Accounted, SameVersion
<1> QED
  BY <1>1, HistHolds, PTL

\* An id loses its current version exactly when the Fidelity section announced it: nothing
\* is reopened and no open version is closed in silence (const.py:1382-1390).
THEOREM LossIsReported == Spec => []CurrentLossReported
<1>1. HistInv => CurrentLossReported
  <2> SUFFICES ASSUME HistInv PROVE CurrentLossReported
    OBVIOUS
  <2>1. Committed("entities") => Reported(backup.entities, entities)
    BY DEF HistInv, Hist, Committed
  <2>2. Committed("devices") => Reported(backup.devices, devices)
    BY DEF HistInv, Hist, Committed
  <2> QED
    BY <2>1, <2>2 DEF CurrentLossReported, Reported, HasOpen
<1> QED
  BY <1>1, HistHolds, PTL

\* A recorded state keeps the label of the version started last before it, if it lay in it:
\* valid_from is trusted by every statement of the repair (const.py:706-717).
THEOREM LabelsAreKept == Spec => []AnchorLabelsKept
<1>1. Inv /\ HistInv => AnchorLabelsKept
  <2> SUFFICES ASSUME Inv, HistInv, Committed("entities"),
                      NEW t \in states, NEW r \in backup.entities,
                      Covers(r, t), \A x \in After(r, backup.entities) : x.from > t
               PROVE  {x.pay : x \in {y \in entities : Covers(y, t)}} = {r.pay}
    BY DEF AnchorLabelsKept
  <2>1. Anchored(backup.entities, entities)
    BY DEF HistInv, Hist, Committed
  <2>2. PICK y \in entities : Covers(y, t) /\ y.pay = r.pay
    BY <2>1 DEF Anchored
  <2>3. Fine(entities)
    BY FineIsClean DEF Inv, RepairedIsClean, Committed
  <2>4. \A z \in entities : z.from \in Nat /\ z.to \in Nat
    BY <2>3, RowFacts DEF Fine, Table
  <2>5. t \in Nat
    BY TimesFacts DEF Inv, TypeOK
  <2>6. ASSUME NEW z \in entities, Covers(z, t) PROVE z = y
    <3>1. /\ y.from <= t /\ t < y.to /\ z.from <= t /\ t < z.to
      BY <2>2, <2>6 DEF Covers
    <3>2. /\ y.from < z.from => y.to <= z.from
          /\ z.from < y.from => z.to <= y.from
          /\ y # z /\ y.from = z.from => y.to = y.from \/ z.to = z.from
      BY <2>3 DEF Fine, Apart
    <3> QED
      BY <2>4, <2>5, <3>1, <3>2
  <2> QED
    BY <2>2, <2>6
<1> QED
  BY <1>1, HistHolds, PTL

\* The repair invents no history: an instant that no version covered is covered afterwards
\* only before the first version of an entity, since its first state and its registration,
\* in a gap that was asked to be merged, or since the creation of a device that an entity
\* referred to by then (const.py:716-717, the plans of SCD2_EXTEND_*).
THEOREM NothingIsInvented == Spec => []NoInventedHistory
<1>1. HistInv => NoInventedHistory
  <2> SUFFICES ASSUME HistInv PROVE NoInventedHistory
    OBVIOUS
  <2>1. Committed("entities") => EntitiesTrue(backup.entities, entities)
    BY DEF HistInv, Hist, Committed
  <2>2. Committed("devices") => DevicesTrue(backup.devices, devices, entities)
    BY DEF HistInv, Hist, Committed
  <2> QED
    BY <2>1, <2>2 DEF NoInventedHistory, EntitiesTrue, DevicesTrue, Earlier, InMergedGap
<1> QED
  BY <1>1, HistHolds, PTL

-----------------------------------------------------------------------------
(* Re-running.  What a run leaves holds no twins to collapse, but for those *)
(* that its merge laid bare.                                               *)

NoLosers(T) == "collapse" \in flags => Losers(T) = {}

LEMMA KeptAll ==
  ASSUME NEW T
  PROVE  NoLosers(T) <=> Kept(T) = T
BY DEF NoLosers, Kept, Losers

\* Of two twins in a group of one payload one is collapsed.
LEMMA LoserExists ==
  ASSUME NEW T, Table(T), NEW r \in T, NEW s \in T, r # s, r.from = s.from,
         \A u \in T : u.from = r.from => u.pay = r.pay
  PROVE  Losers(T) # {}
<1>1. /\ r.to \in Nat /\ s.to \in Nat /\ r.rid \in Nat /\ s.rid \in Nat /\ r.rid # s.rid
  BY RowFacts DEF Table
<1>2. r \in Twins(s, T) /\ s \in Twins(r, T)
  BY DEF Twins
<1>3. \A u \in Twins(r, T) : u.pay = r.pay
  BY DEF Twins
<1>4. \A u \in Twins(s, T) : u.pay = s.pay
  BY DEF Twins
<1>5. CASE s.to > r.to \/ (s.to = r.to /\ s.rid < r.rid)
  <2>1. r \in Losers(T)
    BY <1>2, <1>3, <1>5 DEF Losers
  <2> QED
    BY <2>1
<1>6. CASE r.to > s.to \/ (r.to = s.to /\ r.rid < s.rid)
  <2>1. s \in Losers(T)
    BY <1>2, <1>4, <1>6 DEF Losers
  <2> QED
    BY <2>1
<1> QED
  BY <1>1, <1>5, <1>6

\* A version that is collapsed has a twin, and its group one payload.
LEMMA LoserFacts ==
  ASSUME NEW T, Table(T), NEW x \in Losers(T)
  PROVE  /\ x \in T /\ \A u \in T : u.from = x.from => u.pay = x.pay
         /\ \E y \in T : y # x /\ y.from = x.from
<1>1. /\ x \in T /\ \A u \in Twins(x, T) : u.pay = x.pay
      /\ \E y \in Twins(x, T) : y.to > x.to \/ (y.to = x.to /\ y.rid < x.rid)
  BY DEF Losers
<1>2. PICK y \in Twins(x, T) : y.to > x.to \/ (y.to = x.to /\ y.rid < x.rid)
  BY <1>1
<1>3. y \in T /\ y.from = x.from
  BY DEF Twins
<1>4. x.to \in Nat /\ x.rid \in Nat
  BY <1>1, RowFacts DEF Table
<1>5. y # x
  BY <1>2, <1>4
<1> QED
  BY <1>1, <1>3, <1>5 DEF Twins

LEMMA KeptHasNone ==
  ASSUME NEW T, Table(T)
  PROVE  NoLosers(Kept(T))
<1> DEFINE K == Kept(T)
<1>1. Table(K) /\ K \subseteq T
  BY KeptTable
<1> SUFFICES ASSUME "collapse" \in flags, NEW x \in Losers(K) PROVE FALSE
  BY DEF NoLosers
<1>2. K = T \ Losers(T)
  BY DEF Kept
<1> HIDE DEF K
<1>3. x \in K /\ \A u \in K : u.from = x.from => u.pay = x.pay
  BY <1>1, LoserFacts
<1>4. PICK y \in K : y # x /\ y.from = x.from
  BY <1>1, LoserFacts
<1>5. ASSUME NEW u \in T, u.from = x.from PROVE u.pay = x.pay
  <2>1. CASE u \in K
    BY <1>3, <1>5, <2>1
  <2>2. CASE u \in Losers(T)
    <3>1. \A v \in T : v.from = u.from => v.pay = u.pay
      BY <2>2, LoserFacts
    <3> QED
      BY <1>1, <1>3, <1>5, <3>1
  <2> QED
    BY <1>2, <2>1, <2>2
\* Whichever of the two wins against the other is the kept one.
<1>6. /\ x \in T /\ y \in T /\ x.to \in Nat /\ y.to \in Nat /\ x.rid \in Nat /\ y.rid \in Nat /\ x.rid # y.rid
  BY <1>1, <1>3, <1>4, RowFacts DEF Table
<1>7. /\ \A u \in Twins(x, T) : u.pay = x.pay
      /\ \A u \in Twins(y, T) : u.pay = y.pay
      /\ x \in Twins(y, T) /\ y \in Twins(x, T)
  BY <1>3, <1>4, <1>5, <1>6 DEF Twins
<1>8. x \in Losers(T) \/ y \in Losers(T)
  <2>1. CASE y.to > x.to \/ (y.to = x.to /\ y.rid < x.rid)
    BY <1>6, <1>7, <2>1 DEF Losers
  <2>2. CASE x.to > y.to \/ (x.to = y.to /\ x.rid < y.rid)
    BY <1>6, <1>7, <2>2 DEF Losers
  <2> QED
    BY <1>6, <2>1, <2>2
<1> QED
  BY <1>2, <1>3, <1>4, <1>8

\* Whether there are twins to collapse does not depend on the ends.
LEMMA SameShape ==
  ASSUME NEW T, Table(T), NEW R, Table(R), NoLosers(T),
         \A x \in R : \E r \in T : SameVersion(x, r), \A r \in T : \E x \in R : SameVersion(x, r)
  PROVE  NoLosers(R)
<1> SUFFICES ASSUME "collapse" \in flags, NEW x \in Losers(R) PROVE FALSE
  BY DEF NoLosers
<1>1. x \in R /\ \A u \in R : u.from = x.from => u.pay = x.pay
  BY LoserFacts
<1>2. PICK y \in R : y # x /\ y.from = x.from
  BY LoserFacts
<1>3. PICK r \in T : SameVersion(x, r)
  BY <1>1
<1>4. PICK s \in T : SameVersion(y, s)
  OBVIOUS
<1>5. r # s /\ r.from = s.from
  BY <1>1, <1>2, <1>3, <1>4 DEF SameVersion, Table
<1>6. ASSUME NEW u \in T, u.from = r.from PROVE u.pay = r.pay
  <2>1. PICK z \in R : SameVersion(z, u)
    OBVIOUS
  <2> QED
    BY <1>1, <1>3, <1>6, <2>1 DEF SameVersion
<1> QED
  BY <1>5, <1>6, LoserExists DEF NoLosers

LEMMA NormalisedHasNone ==
  ASSUME NEW T, Table(T)
  PROVE  NoLosers(Normalised(T))
<1>1. Table(Kept(T)) /\ NoLosers(Kept(T)) /\ Table(Normalised(T))
  BY KeptTable, KeptHasNone, NormalisedApart
<1>2. \A r \in Kept(T) : \E x \in Normalised(T) : SameVersion(x, r)
  BY NormalisedKeeps DEF SameVersion
<1>3. \A x \in Normalised(T) : \E r \in Kept(T) : SameVersion(x, r)
  BY NormalisedKeeps DEF SameVersion
<1> QED
  BY <1>1, <1>2, <1>3, SameShape

LEMMA ShiftedHasNone ==
  ASSUME NEW R, Table(R), NoLosers(R), NEW M, Table(M), NEW p, NEW a, Shifted(R, M, p, a)
  PROVE  NoLosers(M)
<1> SUFFICES ASSUME "collapse" \in flags, NEW x \in Losers(M) PROVE FALSE
  BY DEF NoLosers
<1> DEFINE q == Restarted(p, a)
<1>1. /\ q.from = a /\ \A z \in M : z = q \/ (z \in R /\ z # p /\ a < z.from /\ p.from < z.from)
      /\ \A z \in R : z # p => z \in M
  BY ShiftedRow
<1> HIDE DEF q
<1>2. x \in M /\ \A u \in M : u.from = x.from => u.pay = x.pay
  BY LoserFacts
<1>3. PICK y \in M : y # x /\ y.from = x.from
  BY LoserFacts
<1>4. a \in Nat /\ p \in R /\ (\A z \in R : z.from \in Nat) /\ (\A z \in M : z.from \in Nat)
  BY RowFacts, TimesFacts DEF Shifted, Table
<1>5. x # q /\ y # q
  BY <1>1, <1>2, <1>3, <1>4
<1>6. x \in R /\ y \in R /\ p.from < x.from
  BY <1>1, <1>2, <1>5
<1>7. \A u \in R : u.from = x.from => u.pay = x.pay
  BY <1>1, <1>2, <1>4, <1>6
<1> QED
  BY <1>3, <1>6, <1>7, LoserExists DEF NoLosers

\* A table that is apart is not changed by the rebuild and the clamp.
LEMMA FineNormalised ==
  ASSUME NEW T, Fine(T)
  PROVE  Normalised(T) = Kept(T) /\ Fine(Kept(T))
<1> DEFINE K == Kept(T)
<1>1. K \subseteq T /\ Table(K)
  BY KeptTable DEF Fine
<1>2. Apart(K)
  BY <1>1 DEF Fine, Apart
<1>3. Normalised(T) = {[r EXCEPT !.to = Cut(r, K)] : r \in K}
  BY NormalisedRows DEF Fine
<1> HIDE DEF K
<1>4. ASSUME NEW r \in K PROVE [r EXCEPT !.to = Cut(r, K)] = r
  <2>1. /\ r \in Row /\ r.from \in Nat /\ r.to \in Nat /\ r.to <= Open /\ r.from <= r.to
    BY <1>1, <1>2, RowFacts DEF Table, Apart
  <2>2. r.to <= NextFrom(r, K)
    <3>1. CASE NextFrom(r, K) = Open
      BY <2>1, <3>1
    <3>2. CASE \E s \in K : Before(r, s) /\ NextFrom(r, K) = s.from
      <4>1. PICK s \in K : Before(r, s) /\ NextFrom(r, K) = s.from
        BY <3>2
      <4>2. s \in Row /\ s.from \in Nat /\ s.to \in Nat
        BY <1>1, RowFacts DEF Table
      <4>3. r.from <= s.from /\ (r.from = s.from => r.to <= s.to) /\ r # s
        BY <2>1, <4>1, <4>2, OrderFacts
      <4>4. /\ r.from < s.from => r.to <= s.from
            /\ r.from = s.from => r.to = r.from \/ s.to = s.from
        BY <1>2, <4>3 DEF Apart
      <4> QED
        BY <2>1, <4>1, <4>2, <4>3, <4>4
    <3> QED
      BY <1>1, <3>1, <3>2, NextFacts
  <2>3. Cut(r, K) = IF r.to < r.from THEN r.from ELSE IF r.to <= NextFrom(r, K) THEN r.to ELSE NextFrom(r, K)
    BY <1>1, CutFacts
  <2>4. Cut(r, K) = r.to
    BY <2>1, <2>2, <2>3
  <2> QED
    BY <2>1, <2>4 DEF Row
<1>5. Normalised(T) = {r : r \in K}
  BY <1>3, <1>4
<1> QED
  BY <1>1, <1>2, <1>5 DEF Fine, K

\* The tables that a run leaves, and those on which nothing is left to do.
Steady(E, D) ==
  /\ Fine(E) /\ Fine(D) /\ NoLosers(D)
  /\ ExtendPlan(Kept(E)) = {} /\ DevicePlan(Kept(E), D) = {}
  /\ "merge" \in flags => MergePairs(Kept(E)) = {}
Still(E, D) == Steady(E, D) /\ NoLosers(E) /\ AlignPlan(E, D) = {}

\* A device that no entity precedes stays where it is if no entity starts earlier.
LEMMA DeviceStays ==
  ASSUME NEW E, Table(E), NEW F, Table(F), NEW D, Table(D), StatesType, CreatedType,
         ExtendPlan(E) = {}, ExtendPlan(F) = {}, DevicePlan(E, D) = {},
         \A x \in F : x.pay \in Linked => \E r \in E : r.pay \in Linked /\ r.from <= x.from
  PROVE  DevicePlan(F, D) = {}
<1> SUFFICES ASSUME NEW d \in DevicePlan(F, D) PROVE FALSE
  OBVIOUS
<1>1. /\ DeviceStart(F) \in Times /\ DeviceStart(F) < d.from /\ created.device <= DeviceStart(F)
      /\ \E x \in F : /\ x.pay \in Linked
                      /\ (IF x \in ExtendPlan(F) THEN FirstState ELSE x.from) <= DeviceStart(F)
  BY DeviceFacts
<1>2. PICK x \in F : x.pay \in Linked /\ x.from <= DeviceStart(F)
  BY <1>1
<1>3. PICK r \in E : r.pay \in Linked /\ r.from <= x.from
  BY <1>2
<1>4. \A s \in E : s.from \in Nat
  BY RowFacts DEF Table
<1>5. /\ DeviceStart(F) \in Nat /\ created.device \in Nat /\ x.from \in Nat /\ d \in D /\ d.from \in Nat
  BY <1>1, CreatedFacts, TimesFacts, RowFacts DEF Table, DevicePlan
<1> DEFINE S == EntityStarts(E)
<1>6. S = {s.from : s \in {y \in E : y.pay \in Linked}}
  BY DEF EntityStarts
<1>7. S \subseteq Nat /\ r.from \in S
  BY <1>3, <1>4, <1>6
<1>8. Min(S) \in Nat /\ Min(S) <= r.from
  BY <1>7, MinOfSet
<1>9. DeviceStart(E) = IF Min(S) <= created.device THEN created.device ELSE Min(S)
  BY <1>5, <1>8, MaxOfTwo DEF DeviceStart
<1>10. S # {}
  BY <1>7
<1> HIDE DEF S
<1>11. DeviceStart(E) < d.from
  BY <1>1, <1>2, <1>3, <1>4, <1>5, <1>8, <1>9
<1>12. IsFirst(d, D) /\ ~Tied(d, D)
  BY DEF DevicePlan
<1>13. d \in DevicePlan(E, D)
  BY <1>5, <1>10, <1>11, <1>12 DEF DevicePlan, S
<1> QED
  BY <1>13

\* The pairs do not depend on the start of the first version.
LEMMA ShiftedPairs ==
  ASSUME NEW R, Table(R), MergePairs(R) = {}, NEW M, Table(M), NEW p, NEW a, Shifted(R, M, p, a)
  PROVE  MergePairs(M) = {}
<1> SUFFICES ASSUME NEW w \in MergePairs(M) PROVE FALSE
  OBVIOUS
<1> DEFINE q == Restarted(p, a)
<1>1. /\ q \in M /\ q.from = a /\ q.to = p.to /\ q.pay = p.pay
      /\ \A z \in M : z = q \/ (z \in R /\ z # p /\ a < z.from /\ p.from < z.from)
      /\ \A z \in R : z # p => z \in M
  BY ShiftedRow
<1> HIDE DEF q
<1>2. /\ w[1] \in M /\ w[2] \in M /\ Before(w[1], w[2]) /\ w[1].to < w[2].from /\ w[1].pay = w[2].pay
      /\ \E s \in states : w[1].to <= s /\ s < w[2].from
      /\ \A x \in M : x = w[1] \/ x = w[2] \/ Before(x, w[1]) \/ Before(w[2], x)
  BY PairFacts
<1>3. /\ a \in Nat /\ p \in R /\ (\A z \in R : z \in Row /\ z.from \in Nat)
      /\ (\A z \in M : z \in Row /\ z.from \in Nat)
  BY RowFacts, TimesFacts DEF Shifted, Table
<1>4. w[2] # q
  <2> SUFFICES ASSUME w[2] = q PROVE FALSE
    OBVIOUS
  <2>1. w[1].from <= a /\ w[1] # q
    BY <1>1, <1>2, <1>3, OrderFacts
  <2> QED
    BY <1>1, <1>2, <1>3, <2>1
<1>5. w[2] \in R /\ w[2] # p /\ a < w[2].from /\ p.from < w[2].from
  BY <1>1, <1>2, <1>4
<1> DEFINE u == IF w[1] = q THEN p ELSE w[1]
<1>6. u \in R /\ u.to = w[1].to /\ u.pay = w[1].pay
  BY <1>1, <1>2, <1>3
<1>7. Before(u, w[2])
  BY <1>2, <1>3, <1>5, OrderFacts
<1>8. ASSUME NEW x \in R, Before(u, x), Before(x, w[2]) PROVE FALSE
  <2>1. CASE x = p
    <3>1. u # p
      BY <1>3, <1>8, <2>1, OrderFacts
    <3>2. w[1] # q /\ u = w[1]
      BY <3>1
    <3>3. p.from < u.from
      BY <1>1, <1>2, <3>2
    <3> QED
      BY <1>3, <1>6, <1>8, <2>1, <3>3, OrderFacts
  <2>2. CASE x # p
    <3>1. x \in M /\ a < x.from
      BY <1>1, <2>2, <1>3, <1>8 DEF Shifted
    <3>2. Before(w[1], x)
      BY <1>1, <1>2, <1>3, <1>8, <3>1, OrderFacts
    <3> QED
      BY <1>2, <1>3, <1>8, <3>1, <3>2, OrderFacts
  <2> QED
    BY <2>1, <2>2
<1> HIDE DEF u
<1>9. <<u, w[2]>> \in MergePairs(R)
  BY <1>2, <1>5, <1>6, <1>7, <1>8 DEF MergePairs
<1> QED
  BY <1>9

\* The transaction of the entities on tables that a run has left.
LEMMA SteadyEntities ==
  ASSUME Steady(entities, devices), StatesType, CreatedType, RepairEntities
  PROVE  /\ Still(entities', devices) /\ Unanchored(entities') = Unanchored(Kept(entities))
         /\ Still(entities, devices) => entities' = entities
<1> DEFINE R == Kept(entities)
           D == devices
           al == AlignPlan(R, D)
           a == AlignedFrom(D)
           A == Moved(R, al, a)
<1>1. Normalised(entities) = R /\ Fine(R)
  BY FineNormalised DEF Steady
<1>2. entities' = Moved(A, ExtendPlan(A), FirstState)
  BY <1>1 DEF RepairEntities
<1>3. NoLosers(R)
  BY KeptHasNone DEF Steady, Fine
<1>4. /\ Fine(D) /\ NoLosers(D) /\ ExtendPlan(R) = {} /\ DevicePlan(R, D) = {}
      /\ "merge" \in flags => MergePairs(R) = {}
  BY DEF Steady
<1>s. Still(entities, D) => R = entities /\ AlignPlan(entities, D) = {}
  BY KeptAll DEF Still
<1> HIDE DEF R
<1>5. \A r \in al : /\ r \in R /\ a \in Times /\ r.from < a /\ a < r.to /\ a <= FirstState
                    /\ \A s \in R \ {r} : r.from < s.from /\ a < s.from
  BY <1>1, <1>4, AlignFacts DEF Fine
<1>6. Fine(A)
  BY <1>1, <1>4, AlignedFine DEF Fine
<1> HIDE DEF al
<1>7. \/ al = {} /\ A = R
      \/ \E p \in R : al = {p} /\ Shifted(R, A, p, a)
  BY <1>1, <1>5, MovedShape DEF Fine
<1> HIDE DEF A
<1>8. /\ ExtendPlan(A) = {} /\ NoLosers(A) /\ AlignPlan(A, D) = {} /\ DevicePlan(A, D) = {}
      /\ Unanchored(A) = Unanchored(R) /\ ("merge" \in flags => MergePairs(A) = {})
  <2>1. CASE al = {} /\ A = R
    BY <1>3, <1>4, <2>1 DEF al
  <2>2. CASE \E p \in R : al = {p} /\ Shifted(R, A, p, a)
    <3>1. PICK p \in R : al = {p} /\ Shifted(R, A, p, a)
      BY <2>2
    <3> DEFINE q == Restarted(p, a)
    <3>2. /\ q \in A /\ q.from = a /\ q.pay = p.pay
          /\ \A z \in A : z = q \/ (z \in R /\ z # p /\ a < z.from /\ p.from < z.from)
          /\ \A z \in R : z # p => z \in A
      BY <1>1, <3>1, ShiftedRow DEF Fine
    <3>3. [q EXCEPT !.from = 0] = [p EXCEPT !.from = 0]
      BY DEF Restarted
    <3> HIDE DEF q
    <3>4. a \in Nat /\ FirstState \in Nat /\ a <= FirstState /\ p.from < a /\ p.from \in Nat
          /\ \A z \in A : z.from \in Nat
      BY <1>1, <1>5, <1>6, <3>1, FirstStateFacts, TimesFacts, RowFacts DEF Fine, Table
    <3>5. ExtendPlan(A) = {}
      <4> SUFFICES ASSUME NEW x \in ExtendPlan(A) PROVE FALSE
        OBVIOUS
      <4>1. x \in A /\ FirstState < x.from /\ \A s \in A \ {x} : FirstState < s.from
        BY <1>6, ExtendFacts DEF Fine
      <4> QED
        BY <3>2, <3>4, <4>1
    <3>6. NoLosers(A)
      BY <1>1, <1>3, <1>6, <3>1, ShiftedHasNone DEF Fine
    <3>7. AlignPlan(A, D) = {}
      <4> SUFFICES ASSUME NEW x \in AlignPlan(A, D) PROVE FALSE
        OBVIOUS
      <4>1. x \in A /\ x.from < a
        BY <1>4, <1>6, AlignFacts DEF Fine
      <4> HIDE DEF a
      <4> QED
        BY <3>2, <3>4, <4>1
    <3>8. DevicePlan(A, D) = {}
      <4>1. ASSUME NEW x \in A, x.pay \in Linked PROVE \E r \in R : r.pay \in Linked /\ r.from <= x.from
        <5>1. CASE x = q
          BY <3>1, <3>2, <3>4, <4>1, <5>1
        <5>2. CASE x # q
          BY <3>2, <3>4, <4>1, <5>2
        <5> QED
          BY <5>1, <5>2
      <4> QED
        BY <1>1, <1>4, <1>6, <3>5, <4>1, DeviceStays DEF Fine
    <3>9. Unanchored(A) = Unanchored(R)
      BY <3>2, <3>3 DEF Unanchored
    <3>10. "merge" \in flags => MergePairs(A) = {}
      BY <1>1, <1>4, <1>6, <3>1, ShiftedPairs DEF Fine
    <3> QED
      BY <3>5, <3>6, <3>7, <3>8, <3>9, <3>10
  <2> QED
    BY <1>7, <2>1, <2>2
<1>9. entities' = A
  BY <1>2, <1>8, MovedNone
<1>10. Kept(A) = A
  BY <1>8, KeptAll
<1>11. Still(A, D)
  BY <1>4, <1>6, <1>8, <1>10 DEF Still, Steady
<1>12. Still(entities, D) => A = entities
  <2> SUFFICES ASSUME Still(entities, D) PROVE A = entities
    OBVIOUS
  <2>1. R = entities /\ al = {}
    BY <1>s DEF al
  <2> QED
    BY <1>7, <2>1
<1> QED
  BY <1>8, <1>9, <1>11, <1>12 DEF R

\* The transaction of the entities leaves no twins to collapse and no start to extend.
LEMMA EntitiesSettle ==
  ASSUME Table(entities), Table(devices), StatesType, CreatedType, RepairEntities
  PROVE  NoLosers(entities') /\ ExtendPlan(entities') = {}
<1> DEFINE R == Normalised(entities)
           M == entities'
<1>1. Table(R) /\ NoLosers(R)
  BY NormalisedApart, NormalisedHasNone
<1>2. Table(M)
  BY EntitiesRepaired DEF Fine
<1>3. /\ ExtendPlan(M) = {}
      /\ \/ M = R
         \/ \E p \in R, a \in Times : Shifted(R, M, p, a)
         \/ \E p \in R : Shifted(R, M, p, FirstState)
  BY EntitiesShape DEF Forward, Backward
<1> HIDE DEF R, M
<1>4. NoLosers(M)
  BY <1>1, <1>2, <1>3, ShiftedHasNone
<1> QED
  BY <1>3, <1>4 DEF M

\* The transaction of the devices leaves no device that an entity precedes.
LEMMA DevicesSettle ==
  ASSUME Table(entities), Table(devices), StatesType, CreatedType, RepairDevices
  PROVE  NoLosers(devices') /\ DevicePlan(entities, devices') = {}
<1> DEFINE R == Normalised(devices)
           plan == DevicePlan(entities, R)
           b == DeviceStart(entities)
           M == Moved(R, plan, b)
<1>1. \/ plan = {} /\ devices' = R
      \/ devices' = M
  BY DEF RepairDevices
<1>2. Fine(R) /\ NoLosers(R)
  BY NormalisedApart, NormalisedHasNone DEF Fine
<1> HIDE DEF R
<1>3. Fine(M)
  BY <1>2, DevicesFine
<1>4. \A d \in plan : d \in R /\ b \in Times /\ \A s \in R \ {d} : d.from < s.from /\ b < s.from
  BY <1>2, DeviceFacts DEF Fine
<1> HIDE DEF plan
<1>5. \/ plan = {} /\ M = R
      \/ \E p \in R : plan = {p} /\ Shifted(R, M, p, b)
  <2> HIDE DEF b
  <2> QED
    BY <1>2, <1>4, MovedShape DEF Fine
<1> HIDE DEF M
<1>6. CASE plan = {}
  BY <1>1, <1>2, <1>5, <1>6 DEF plan
<1>7. CASE plan # {}
  <2>1. PICK p \in R : Shifted(R, M, p, b)
    BY <1>5, <1>7
  <2>2. NoLosers(M)
    BY <1>2, <1>3, <2>1, ShiftedHasNone DEF Fine
  <2> DEFINE q == Restarted(p, b)
  <2>3. q \in M /\ q.from = b
    BY <1>2, <2>1, ShiftedRow DEF Fine
  <2> HIDE DEF q
  <2>4. DevicePlan(entities, M) = {}
    <3> SUFFICES ASSUME NEW d \in DevicePlan(entities, M) PROVE FALSE
      OBVIOUS
    <3>1. d \in M /\ b \in Times /\ b < d.from /\ \A s \in M \ {d} : b < s.from
      BY <1>3, DeviceFacts DEF Fine
    <3>2. b < q.from /\ b \in Nat
      BY <2>3, <3>1, TimesFacts
    <3> QED
      BY <2>3, <3>2
  <2> QED
    BY <1>1, <1>7, <2>2, <2>4
<1> QED
  BY <1>6, <1>7

\* On tables with nothing left to do it does nothing.
LEMMA StillDevices ==
  ASSUME Still(entities, devices), RepairDevices
  PROVE  devices' = devices
<1>1. Kept(entities) = entities /\ Kept(devices) = devices
  BY KeptAll DEF Still, Steady
<1>2. Normalised(devices) = devices /\ DevicePlan(entities, devices) = {}
  BY <1>1, FineNormalised DEF Still, Steady
<1> QED
  BY <1>2 DEF RepairDevices

\* A merge that has come to its end has merged every pair.
LEMMA NoPairs ==
  ASSUME NEW T, Fine(T), MergePlan(T) = {}
  PROVE  MergePairs(T) = {}
<1> SUFFICES ASSUME NEW w \in MergePairs(T) PROVE FALSE
  OBVIOUS
<1> DEFINE S == {p[1].from : p \in MergePairs(T)}
<1>1. \A p \in MergePairs(T) : /\ p[1] \in T /\ p[1].from \in Nat /\ p[1].to \in Nat /\ p[2].from \in Nat
                               /\ p[1].from <= p[1].to /\ p[1].to < p[2].from
  BY PairFacts, RowFacts DEF Fine, Table, Apart
<1>2. S \subseteq Nat /\ S # {}
  BY <1>1
<1>3. Min(S) \in S /\ \A y \in S : Min(S) <= y
  BY <1>2, MinOfSet
<1>4. PICK p \in MergePairs(T) : \A q \in MergePairs(T) : p[1].from <= q[1].from
  BY <1>3
<1>5. PICK q \in MergePairs(T) : q[2] = p[1]
  BY DEF MergePlan
<1> QED
  BY <1>1, <1>4, <1>5

\* A table that is not empty has a first version.
LEMMA FirstExists ==
  ASSUME NEW T, Table(T), T # {}
  PROVE  \E f \in T : \A s \in T \ {f} : Before(f, s)
<1>1. \A s \in T : s.rid \in Nat /\ s.from \in Nat /\ s.to \in Nat
  BY RowFacts DEF Table
<1> DEFINE A == {s.from : s \in T}
<1>2. A \subseteq Nat /\ A # {}
  BY <1>1
<1>3. PICK a \in A : \A x \in A : a <= x
  BY <1>2, MinOfSet
<1> DEFINE B == {s.to : s \in {x \in T : x.from = a}}
<1>4. B \subseteq Nat /\ B # {}
  BY <1>1, <1>3
<1>5. PICK b \in B : \A x \in B : b <= x
  BY <1>4, MinOfSet
<1> DEFINE C == {s.rid : s \in {x \in T : x.from = a /\ x.to = b}}
<1>6. C \subseteq Nat /\ C # {}
  BY <1>1, <1>5
<1>7. PICK c \in C : \A x \in C : c <= x
  BY <1>6, MinOfSet
<1>8. PICK f \in T : f.from = a /\ f.to = b /\ f.rid = c
  BY <1>7
<1>9. ASSUME NEW s \in T \ {f} PROVE Before(f, s)
  <2>1. s.from \in A /\ (s.from = a => s.to \in B) /\ (s.from = a /\ s.to = b => s.rid \in C)
    OBVIOUS
  <2>2. s.rid # f.rid
    BY DEF Table
  <2>3. a <= s.from /\ (s.from = a => b <= s.to) /\ (s.from = a /\ s.to = b => c <= s.rid)
    BY <1>3, <1>5, <1>7, <2>1
  <2> HIDE DEF A, B, C
  <2> QED
    BY <1>1, <1>8, <2>2, <2>3 DEF Before
<1> QED
  BY <1>9

\* Collapsing twins brings no new pair together.
LEMMA KeptPairs ==
  ASSUME NEW T, Fine(T), StatesType, MergePairs(T) = {}
  PROVE  MergePairs(Kept(T)) = {}
<1> DEFINE K == Kept(T)
<1> SUFFICES ASSUME NEW w \in MergePairs(K) PROVE FALSE
  OBVIOUS
<1>1. K \subseteq T /\ Table(K) /\ Table(T)
  BY KeptTable DEF Fine
<1> DEFINE a == w[1]
           b == w[2]
<1>2. /\ a \in K /\ b \in K /\ a.to < b.from /\ a.pay = b.pay
      /\ \E s \in states : a.to <= s /\ s < b.from
      /\ \A x \in K : x = a \/ x = b \/ Before(x, a) \/ Before(b, x)
  BY <1>1, PairFacts
<1> HIDE DEF a, b
<1>3. \A x \in T : x \in Row /\ x.from \in Nat /\ x.to \in Nat /\ x.from <= x.to
  BY RowFacts DEF Fine, Table, Apart
<1>k. \A r \in T : \E x \in K : /\ x.from = r.from /\ x.pay = r.pay /\ r.to <= x.to
                                /\ x = r \/ \A s \in K : s.from = r.from => s = x
  BY <1>1, KeptTwin
<1> HIDE DEF K
<1> DEFINE U == {x \in T : x.from < b.from}
           V == {x \in T : x.from = b.from}
<1>4. a \in U /\ b \in V /\ Table(U) /\ Table(V)
  BY <1>1, <1>2, <1>3 DEF Table
<1>5. PICK u \in U : \A s \in U \ {u} : Before(s, u)
  BY <1>4, LastExists
<1>6. PICK v \in V : \A s \in V \ {v} : Before(v, s)
  BY <1>4, FirstExists
<1>7. u \in T /\ v \in T /\ u.from < b.from /\ v.from = b.from
  OBVIOUS
<1>8. Before(u, v)
  BY <1>1, <1>2, <1>3, <1>7, OrderFacts
<1>9. ASSUME NEW x \in T, Before(u, x), Before(x, v) PROVE FALSE
  <2>1. x.from <= b.from
    BY <1>3, <1>7, <1>9, OrderFacts
  <2>2. x # u /\ x # v
    BY <1>3, <1>7, <1>9, OrderFacts
  <2>3. CASE x.from < b.from
    <3>1. Before(x, u)
      BY <1>5, <2>2, <2>3
    <3> QED
      BY <1>3, <1>7, <1>9, <3>1, OrderFacts
  <2>4. CASE x.from = b.from
    <3>1. Before(v, x)
      BY <1>6, <2>2, <2>4
    <3> QED
      BY <1>3, <1>7, <1>9, <3>1, OrderFacts
  <2> QED
    BY <1>1, <1>2, <1>3, <2>1, <2>3, <2>4
\* The last version before b is a, or a twin of it that is collapsed.
<1>10. u.pay = a.pay /\ u.to <= a.to
  <2>1. CASE u = a
    BY <1>1, <1>2, <1>3, <2>1
  <2>2. CASE u # a
    <3>1. Before(a, u)
      BY <1>4, <1>5, <2>2
    <3>2. u \notin K
      <4>1. ~Before(u, a) /\ ~Before(b, u) /\ u # b
        BY <1>1, <1>2, <1>3, <1>7, <3>1, OrderFacts
      <4> QED
        BY <1>2, <2>2, <4>1
    <3>3. PICK x \in K : /\ x.from = u.from /\ x.pay = u.pay /\ u.to <= x.to
                         /\ x = u \/ \A s \in K : s.from = u.from => s = x
      BY <1>7, <1>k
    <3>4. x # b /\ ~Before(b, x)
      BY <1>1, <1>2, <1>3, <1>7, <3>3, OrderFacts
    <3>5. x = a \/ Before(x, a)
      BY <1>2, <3>3, <3>4
    <3>6. x.from <= a.from /\ a.from <= u.from
      BY <1>1, <1>2, <1>3, <1>7, <3>1, <3>3, <3>5, OrderFacts
    <3>7. a.from = u.from
      BY <1>1, <1>2, <1>3, <1>7, <3>3, <3>6
    <3>8. x = a
      BY <1>2, <3>2, <3>3, <3>7
    <3> QED
      BY <3>3, <3>8
  <2> QED
    BY <2>1, <2>2
\* The first version at the start of b is b, or a twin of it that is collapsed.
<1>11. v.pay = b.pay
  <2>1. CASE v # b
    <3>1. Before(v, b)
      BY <1>4, <1>6, <2>1
    <3>2. v \notin K
      <4>1. a.from < v.from
        BY <1>1, <1>2, <1>3, <1>7
      <4>2. ~Before(v, a) /\ ~Before(b, v) /\ v # a
        BY <1>1, <1>2, <1>3, <1>7, <3>1, <4>1, OrderFacts
      <4> QED
        BY <1>2, <2>1, <4>2
    <3>3. PICK x \in K : /\ x.from = v.from /\ x.pay = v.pay
                         /\ x = v \/ \A s \in K : s.from = v.from => s = x
      BY <1>7, <1>k
    <3>4. b = x
      BY <1>2, <1>7, <3>2, <3>3
    <3> QED
      BY <3>3, <3>4
  <2> QED
    BY <2>1
<1>12. \E s \in states : u.to <= s /\ s < v.from
  <2>1. PICK s \in states : a.to <= s /\ s < b.from
    BY <1>2
  <2>2. a.to \in Nat /\ u.to \in Nat /\ b.from \in Nat
    BY <1>1, <1>2, <1>3, <1>7
  <2>3. s \in Nat
    BY TimesFacts DEF StatesType
  <2>4. u.to <= s /\ s < v.from
    BY <1>7, <1>10, <2>1, <2>2, <2>3
  <2> QED
    BY <2>4
<1>13. u.to < v.from
  BY <1>1, <1>2, <1>3, <1>7, <1>10
<1>14. <<u, v>> \in MergePairs(T)
  BY <1>2, <1>7, <1>8, <1>9, <1>10, <1>11, <1>12, <1>13 DEF MergePairs
<1> QED
  BY <1>14

\* On a table without pairs the passes do nothing.
LEMMA MergeIdle ==
  ASSUME NEW E, Fine(E), MergePairs(E) = {}
  PROVE  Merged(E).rows = E
<1> DEFINE N == MergePasses
<1>1. PICK g : Passes(g, N, E) /\ Merged(E) = g[N]
  BY MergedPasses DEF Fine
<1>2. N \in Nat
  BY TimesFacts
<1>3. g[0].rows = E /\ \A n \in 1..N : g[n] = MergePass(g[n - 1])
  BY <1>1 DEF Passes, Unmerged
<1> HIDE DEF N
<1>4. ASSUME NEW m, m.rows = E PROVE MergePass(m).rows = E
  <2>1. MergePlan(E) = {}
    BY DEF MergePlan
  <2> QED
    BY <1>4, <2>1 DEF MergePass
<1> DEFINE S == {k \in 0..N : g[k].rows = E}
<1>5. 0 \in S
  BY <1>2, <1>3
<1>6. ASSUME NEW k \in 0..(N - 1), k \in S PROVE k + 1 \in S
  <2>1. k + 1 \in 1..N /\ (k + 1) - 1 = k /\ k + 1 \in 0..N
    BY <1>2
  <2>2. g[k].rows = E /\ g[k + 1] = MergePass(g[k])
    BY <1>3, <1>6, <2>1
  <2>3. MergePass(g[k]).rows = E
    BY <1>4, <2>2
  <2> QED
    BY <2>1, <2>2, <2>3
<1> HIDE DEF S
<1>7. N \in S
  BY <1>2, <1>5, <1>6, Climb
<1> QED
  BY <1>1, <1>7 DEF S

\* No pass deletes a version of the earliest start.
Foremost(r, E) == \A s \in E : r.from <= s.from
FirstsKept(E, R) == \A r \in E : Foremost(r, E) => \E x \in R : SameVersion(x, r)

LEMMA PassFirsts ==
  ASSUME NEW m, Fine(m.rows)
  PROVE  FirstsKept(m.rows, MergePass(m).rows)
<1> DEFINE E == m.rows
<1> SUFFICES ASSUME NEW r \in E, Foremost(r, E) PROVE \E x \in MergePass(m).rows : SameVersion(x, r)
  BY DEF FirstsKept
<1>1. PassKept(m.rows, MergePass(m).rows)
  BY PassKeeps
<1>2. r \notin Seconds(E)
  <2> SUFFICES ASSUME NEW p \in MergePairs(E), p[2] = r PROVE FALSE
    BY DEF Seconds, MergePlan
  <2>1. p[1] \in E /\ p[1].to < r.from
    BY PairFacts DEF Fine
  <2>2. p[1].from <= p[1].to /\ p[1].from \in Nat /\ p[1].to \in Nat /\ r.from \in Nat
    BY <2>1, RowFacts DEF Fine, Table, Apart
  <2>3. r.from <= p[1].from
    BY <2>1 DEF Foremost
  <2> QED
    BY <2>1, <2>2, <2>3
<1> QED
  BY <1>1, <1>2 DEF PassKept

LEMMA MergedFirsts ==
  ASSUME NEW E, Fine(E)
  PROVE  FirstsKept(E, Merged(E).rows)
<1> DEFINE N == MergePasses
<1>1. PICK g : Passes(g, N, E) /\ Merged(E) = g[N]
  BY MergedPasses DEF Fine
<1>2. N \in Nat
  BY TimesFacts
<1>3. /\ g \in [0..N -> Midway] /\ g[0] = Unmerged(E)
      /\ \A n \in 1..N : g[n] = MergePass(g[n - 1])
  BY <1>1 DEF Passes
<1> HIDE DEF N
<1> DEFINE S == {k \in 0..N : MergeKept(E, g[k]) /\ FirstsKept(E, g[k].rows)}
<1>4. 0 \in S
  <2>1. \A r \in E : r.from \in Nat /\ r.to \in Nat
    BY RowFacts DEF Fine, Table
  <2>2. MergeKept(E, Unmerged(E)) /\ FirstsKept(E, Unmerged(E).rows)
    BY <2>1 DEF MergeKept, Unmerged, SameVersion, FirstsKept
  <2> QED
    BY <1>2, <1>3, <2>2
<1>5. ASSUME NEW k \in 0..(N - 1), k \in S PROVE k + 1 \in S
  <2>1. k + 1 \in 1..N /\ (k + 1) - 1 = k /\ k \in 0..N /\ k + 1 \in 0..N
    BY <1>2
  <2> DEFINE m == g[k]
             F == m.rows
  <2>2. m \in Midway /\ MergeKept(E, m) /\ FirstsKept(E, F) /\ g[k + 1] = MergePass(m)
    BY <1>3, <1>5, <2>1
  <2> HIDE DEF m
  <2>3. MergeKept(E, MergePass(m))
    BY <2>2, MergeKeeps
  <2>4. FirstsKept(F, MergePass(m).rows)
    BY <2>2, PassFirsts DEF Midway, Fine
  <2>5. \A x \in F : \E r \in E : SameVersion(x, r)
    BY <2>2 DEF MergeKept
  <2> HIDE DEF F
  <2>6. ASSUME NEW r \in E, Foremost(r, E) PROVE \E x \in MergePass(m).rows : SameVersion(x, r)
    <3>1. PICK y \in F : SameVersion(y, r)
      BY <2>2, <2>6 DEF FirstsKept
    <3>2. Foremost(y, F)
      BY <2>5, <2>6, <3>1 DEF Foremost, SameVersion
    <3>3. PICK x \in MergePass(m).rows : SameVersion(x, y)
      BY <2>4, <3>2 DEF FirstsKept
    <3> QED
      BY <3>1, <3>3 DEF SameVersion
  <2>7. FirstsKept(E, MergePass(m).rows)
    BY <2>6 DEF FirstsKept
  <2> QED
    BY <2>1, <2>2, <2>3, <2>7
<1> HIDE DEF S
<1>6. N \in S
  BY <1>2, <1>4, <1>5, Climb
<1> QED
  BY <1>1, <1>6 DEF S

\* A merge brings no version to the start that an earlier state could move.
LEMMA MergedExtends ==
  ASSUME NEW E, Fine(E), StatesType, NoLosers(E), ExtendPlan(E) = {}
  PROVE  ExtendPlan(Kept(Merged(E).rows)) = {}
<1> DEFINE M == Merged(E).rows
           K == Kept(M)
<1> SUFFICES ASSUME NEW x \in ExtendPlan(K) PROVE FALSE
  OBVIOUS
<1>1. Table(E) /\ Table(M) /\ K \subseteq M /\ Table(K)
  BY MergedFine, KeptTable DEF Fine
<1>2. /\ FirstsKept(E, M)
      /\ \A r \in E : \E y \in M : y.from <= r.from
      /\ \A y \in M : \E r \in E : SameVersion(y, r)
  BY MergedFirsts, MergedKept DEF MergeKept
<1>3. /\ x \in K /\ FirstState < x.from /\ created.entity <= FirstState /\ \A s \in K \ {x} : x.from < s.from
  BY <1>1, ExtendFacts
<1>4. \A y \in M : \E z \in K : z.from = y.from
  BY <1>1, KeptTwin
<1>k. ("collapse" \in flags /\ K = M \ Losers(M)) \/ K = M
  BY DEF Kept
<1> HIDE DEF M, K
<1>5. PICK r \in E : SameVersion(x, r)
  BY <1>1, <1>2, <1>3
<1>6. /\ \A s \in E : s \in Row /\ s.from \in Nat
      /\ \A s \in M : s \in Row /\ s.from \in Nat
  BY <1>1, RowFacts DEF Table
<1>7. Foremost(r, E)
  <2> SUFFICES ASSUME NEW s \in E PROVE r.from <= s.from
    BY DEF Foremost
  <2>1. PICK y \in M : y.from <= s.from
    BY <1>2
  <2>2. PICK z \in K : z.from = y.from
    BY <1>4
  <2>3. x.from <= z.from
    BY <1>1, <1>3, <1>6, <2>2
  <2> QED
    BY <1>1, <1>3, <1>5, <1>6, <2>1, <2>2, <2>3 DEF SameVersion
<1>8. \E s \in E \ {r} : s.from = r.from
  <2> SUFFICES ASSUME \A s \in E \ {r} : s.from # r.from PROVE FALSE
    OBVIOUS
  <2>1. \A s \in E \ {r} : r.from < s.from
    BY <1>6, <1>7 DEF Foremost
  <2>2. IsFirst(r, E) /\ ~Tied(r, E)
    BY <1>6, <2>1, OrderFacts DEF IsFirst, Tied
  <2>3. FirstState < r.from
    BY <1>3, <1>5 DEF SameVersion
  <2> QED
    BY <1>3, <2>2, <2>3 DEF ExtendPlan
<1>9. PICK s \in E \ {r} : s.from = r.from
  BY <1>8
<1>10. \A u \in E : u.from = r.from => \E y \in M : SameVersion(y, u)
  BY <1>2, <1>7 DEF FirstsKept, Foremost
<1>11. PICK y \in M : SameVersion(y, s)
  BY <1>9, <1>10
<1>12. y # x /\ y.from = x.from
  BY <1>1, <1>5, <1>9, <1>11 DEF SameVersion, Table
<1>13. y \notin K
  BY <1>1, <1>3, <1>6, <1>12
<1>14. "collapse" \in flags /\ y \in Losers(M)
  BY <1>k, <1>13
<1>15. \A u \in M : u.from = y.from => u.pay = y.pay
  BY <1>1, <1>14, LoserFacts
<1>16. ASSUME NEW u \in E, u.from = r.from PROVE u.pay = r.pay
  <2>1. PICK z \in M : SameVersion(z, u)
    BY <1>10, <1>16
  <2> QED
    BY <1>1, <1>3, <1>5, <1>12, <1>15, <1>16, <2>1 DEF SameVersion
<1>17. Losers(E) # {}
  BY <1>1, <1>9, <1>16, LoserExists
<1> QED
  BY <1>14, <1>17 DEF NoLosers

\* What the merge of a first run leaves.
LEMMA MergeSettle ==
  ASSUME NEW E, Fine(E), NEW D, Fine(D), StatesType, CreatedType, NoLosers(E), NoLosers(D),
         ExtendPlan(E) = {}, DevicePlan(E, D) = {}, MergePlan(Merged(E).rows) = {}
  PROVE  Steady(Merged(E).rows, D)
<1> DEFINE M == Merged(E).rows
           K == Kept(M)
<1>1. Fine(M) /\ MergePlan(M) = {}
  BY MergedFine
<1>2. K \subseteq M /\ Table(K)
  BY <1>1, KeptTable DEF Fine
<1>3. ExtendPlan(K) = {}
  BY MergedExtends
<1>4. \A x \in M : \E r \in E : SameVersion(x, r)
  BY MergedKept DEF MergeKept
<1> HIDE DEF M
<1>5. MergePairs(K) = {}
  BY <1>1, NoPairs, KeptPairs
<1> HIDE DEF K
<1>6. ASSUME NEW x \in K, x.pay \in Linked PROVE \E r \in E : r.pay \in Linked /\ r.from <= x.from
  <2>1. PICK r \in E : SameVersion(x, r)
    BY <1>2, <1>4
  <2>2. x.from \in Nat
    BY <1>2, RowFacts DEF Table
  <2> QED
    BY <1>6, <2>1, <2>2 DEF SameVersion
<1>7. DevicePlan(K, D) = {}
  BY <1>2, <1>3, <1>6, DeviceStays DEF Fine
<1> QED
  BY <1>1, <1>3, <1>5, <1>7 DEF Steady, K, M

\* Step p of a script of which n runs have come to their end, with the tables E and D.
Settled(p, n, E, D) ==
  /\ n >= 1 => Steady(E, D)
  /\ n >= 2 \/ (n >= 1 /\ p \in {"devices", "merge", "enforce"}) => Still(E, D)
  /\ p = "devices" => NoLosers(E) /\ ExtendPlan(E) = {}
  /\ p = "merge" => /\ "merge" \in flags /\ NoLosers(E) /\ NoLosers(D)
                    /\ ExtendPlan(E) = {} /\ DevicePlan(E, D) = {}
  /\ p = "enforce" => Steady(E, D)

SettleInv == Settled(pc, applied, entities, devices)

LEMMA SettleUnprimed ==
  ASSUME UNCHANGED <<states, created, flags>>, Settled(pc', applied', entities', devices')
  PROVE  SettleInv'
<1>1. states' = states /\ created' = created /\ flags' = flags
  OBVIOUS
<1>2. FirstState' = FirstState /\ (\A T : ExtendPlan(T)' = ExtendPlan(T))
  BY <1>1 DEF FirstState, ExtendPlan
<1>3. /\ Kept(entities)' = Kept(entities') /\ Kept(devices)' = Kept(devices')
      /\ NoLosers(entities)' = NoLosers(entities') /\ NoLosers(devices)' = NoLosers(devices')
      /\ ExtendPlan(entities)' = ExtendPlan(entities')
      /\ ExtendPlan(Kept(entities))' = ExtendPlan(Kept(entities'))
      /\ MergePairs(Kept(entities))' = MergePairs(Kept(entities'))
      /\ AlignPlan(entities, devices)' = AlignPlan(entities', devices')
      /\ DevicePlan(entities, devices)' = DevicePlan(entities', devices')
      /\ DevicePlan(Kept(entities), devices)' = DevicePlan(Kept(entities'), devices')
  BY <1>1, <1>2 DEF Kept, NoLosers, ExtendPlan, MergePairs, AlignPlan, AlignedFrom, DevicePlan,
                    DeviceStart, EntityStarts
<1>4. /\ Steady(entities, devices)' <=> Steady(entities', devices')
      /\ Still(entities, devices)' <=> Still(entities', devices')
  BY <1>1, <1>3 DEF Steady, Still
<1> QED
  BY <1>1, <1>3, <1>4 DEF SettleInv, Settled

LEMMA SettleInit == Init => SettleInv
BY DEF Init, SettleInv, Settled

\* A run that has nothing to change finds tables on which nothing is left to do.
LEMMA UntouchedStill ==
  ASSUME Table(entities), Table(devices), ~Mutating
  PROVE  Still(entities, devices)
<1>1. Fine(entities) /\ Fine(devices) /\ flags = {} /\ Pending = {}
  BY FineIsClean DEF Mutating
<1>2. Kept(entities) = entities /\ NoLosers(entities) /\ NoLosers(devices) /\ "merge" \notin flags
  BY <1>1 DEF Kept, NoLosers
<1>3. /\ ExtendPlan(entities) = {} /\ AlignPlan(entities, devices) = {}
      /\ DevicePlan(entities, devices) = {}
  BY <1>1 DEF Pending
<1> QED
  BY <1>1, <1>2, <1>3 DEF Still, Steady

\* What a step may change once a run has come to its end.
Settling ==
  /\ applied >= 1 => /\ devices' = devices
                     /\ Unanchored(entities') \in {Unanchored(entities), Unanchored(Kept(entities))}
  /\ applied >= 2 => entities' = entities

LEMMA SettleStep == Inv /\ SettleInv /\ [Next]_vars => SettleInv' /\ Settling
<1> SUFFICES ASSUME Inv, SettleInv, [Next]_vars PROVE SettleInv' /\ Settling
  OBVIOUS
<1> DEFINE E == entities
           D == devices
           n == applied
<1>inv. /\ Table(E) /\ Table(D) /\ StatesType /\ CreatedType /\ RepairedIsClean /\ n \in Nat
        /\ pc = "history" => n = 0
  BY TimesFacts DEF Inv, TypeOK, StatesType, CreatedType
<1>set. /\ n >= 1 => Steady(E, D)
        /\ n >= 2 \/ (n >= 1 /\ pc \in {"devices", "merge", "enforce"}) => Still(E, D)
        /\ pc = "devices" => NoLosers(E) /\ ExtendPlan(E) = {}
        /\ pc = "merge" => /\ "merge" \in flags /\ NoLosers(E) /\ NoLosers(D)
                           /\ ExtendPlan(E) = {} /\ DevicePlan(E, D) = {}
        /\ pc = "enforce" => Steady(E, D)
  BY DEF SettleInv, Settled
\* A step that changes no table.
<1>a. ASSUME UNCHANGED <<entities, devices>> PROVE Settling
  BY <1>a DEF Settling
<1>legacy. CASE LegacyVersion
  <2>1. pc = "history" /\ n = 0 /\ UNCHANGED <<states, created, flags, pc, applied>>
    BY <1>inv, <1>legacy DEF LegacyVersion
  <2>2. Settled(pc', applied', entities', devices')
    BY <2>1 DEF Settled
  <2>3. Settling
    BY <2>1 DEF Settling
  <2> QED
    BY <2>1, <2>2, <2>3, SettleUnprimed
<1>start. CASE Start
  <2>1. /\ UNCHANGED <<entities, devices, states, created, flags, applied>>
        /\ pc' = IF Mutating THEN "entities" ELSE "enforce"
    BY <1>start DEF Start
  <2>2. ~Mutating => Still(E, D)
    BY <1>inv, UntouchedStill
  <2>3. Settled(pc', n, E, D)
    <3>1. CASE Mutating
      BY <1>set, <2>1, <3>1 DEF Settled
    <3>2. CASE ~Mutating
      <4>1. pc' = "enforce" /\ Still(E, D) /\ Steady(E, D)
        BY <2>1, <2>2, <3>2 DEF Still
      <4> QED
        BY <4>1 DEF Settled
    <3> QED
      BY <3>1, <3>2
  <2> QED
    BY <1>a, <2>1, <2>3, SettleUnprimed
<1>entities. CASE RepairEntities
  <2>1. pc' = "devices" /\ UNCHANGED <<devices, states, created, flags, applied>>
    BY <1>entities DEF RepairEntities
  <2>2. NoLosers(entities') /\ ExtendPlan(entities') = {}
    BY <1>entities, <1>inv, EntitiesSettle
  <2>3. n >= 1 => /\ Still(entities', D) /\ Unanchored(entities') = Unanchored(Kept(E))
                  /\ Still(E, D) => entities' = E
    BY <1>entities, <1>inv, <1>set, SteadyEntities
  <2>4. Settled("devices", n, entities', D)
    BY <1>inv, <2>2, <2>3 DEF Settled, Still
  <2>5. Settling
    <3>1. n >= 2 => entities' = entities
      BY <1>inv, <1>set, <2>3
    <3> QED
      BY <2>1, <2>3, <3>1 DEF Settling
  <2> QED
    BY <2>1, <2>4, <2>5, SettleUnprimed
<1>devices. CASE RepairDevices
  <2>1. /\ pc = "devices" /\ UNCHANGED <<entities, states, created, flags, applied>>
        /\ pc' = IF "merge" \in flags THEN "merge" ELSE "enforce"
    BY <1>devices DEF RepairDevices
  <2>2. NoLosers(E) /\ ExtendPlan(E) = {} /\ Fine(E) /\ Kept(E) = E
    BY <1>inv, <1>set, <2>1, FineIsClean, KeptAll DEF RepairedIsClean
  <2>3. Fine(devices') /\ NoLosers(devices') /\ DevicePlan(E, devices') = {}
    BY <1>devices, <1>inv, DevicesRepaired, DevicesSettle
  <2>4. n >= 1 => Still(E, D) /\ devices' = D
    BY <1>devices, <1>set, <2>1, StillDevices
  <2>5. n >= 1 => Still(E, devices') /\ Steady(E, devices')
    BY <2>4 DEF Still
  <2>6. pc' = "enforce" => Steady(E, devices')
    BY <2>1, <2>2, <2>3 DEF Steady
  <2>7. Settled(pc', n, E, devices')
    BY <1>inv, <2>1, <2>2, <2>3, <2>5, <2>6 DEF Settled
  <2>8. Settling
    BY <2>1, <2>4 DEF Settling
  <2> QED
    BY <2>1, <2>7, <2>8, SettleUnprimed
<1>merge. CASE MergeGaps
  <2>1. /\ pc = "merge" /\ pc' = "enforce" /\ UNCHANGED <<devices, states, created, flags, applied>>
        /\ entities' = Merged(E).rows /\ MergePlan(Merged(E).rows) = {}
    BY <1>merge DEF MergeGaps
  <2>2. Fine(E) /\ Fine(D)
    BY <1>inv, <2>1, FineIsClean DEF RepairedIsClean
  <2>3. Steady(entities', D)
    BY <1>inv, <1>set, <2>1, <2>2, MergeSettle
  <2>4. n >= 1 => Still(E, D) /\ entities' = E
    <3> SUFFICES ASSUME n >= 1 PROVE Still(E, D) /\ entities' = E
      OBVIOUS
    <3>1. Still(E, D) /\ "merge" \in flags
      BY <1>set, <2>1
    <3>2. MergePairs(E) = {}
      BY <3>1, KeptAll DEF Still, Steady
    <3> QED
      BY <2>1, <2>2, <3>1, <3>2, MergeIdle
  <2>5. Settled("enforce", n, entities', D)
    BY <1>inv, <2>3, <2>4 DEF Settled
  <2>6. Settling
    BY <1>inv, <2>1, <2>4 DEF Settling
  <2> QED
    BY <2>1, <2>5, <2>6, SettleUnprimed
<1>enforce. CASE Enforce
  <2>1. /\ pc = "enforce" /\ pc' = "idle" /\ applied' = n + 1
        /\ UNCHANGED <<entities, devices, states, created, flags>>
    BY <1>enforce DEF Enforce
  <2>2. Steady(E, D) /\ (n + 1 >= 2 => Still(E, D))
    BY <1>inv, <1>set, <2>1
  <2>3. Settled("idle", n + 1, E, D)
    BY <1>inv, <2>2 DEF Settled
  <2> QED
    BY <1>a, <2>1, <2>3, SettleUnprimed
<1>abort. CASE Abort
  <2>1. pc' = "idle" /\ UNCHANGED <<entities, devices, states, created, flags, applied>>
    BY <1>abort DEF Abort
  <2>2. Settled("idle", n, E, D)
    BY <1>set DEF Settled
  <2> QED
    BY <1>a, <2>1, <2>2, SettleUnprimed
<1>stutter. CASE UNCHANGED vars
  <2>1. UNCHANGED <<entities, devices, states, created, flags, pc, applied>>
    BY <1>stutter DEF vars
  <2>2. Settled(pc', applied', entities', devices')
    BY <2>1 DEF SettleInv
  <2> QED
    BY <1>a, <2>1, <2>2, SettleUnprimed
<1> QED
  BY <1>legacy, <1>start, <1>entities, <1>devices, <1>merge, <1>enforce, <1>abort, <1>stutter DEF Next

\* Re-running converges (repair_scd2.py:56): once a run has come to its end no later one
\* changes a device or an end, it deletes at most the duplicates its merge laid bare and
\* moves a start at most to follow a device; after two runs nothing changes.
THEOREM RerunsSettle == Spec => LaterRunsSettle
<1>1. Init => Inv /\ SettleInv
  BY InvInit, SettleInit
<1>2. Inv /\ SettleInv /\ [Next]_vars => (Inv /\ SettleInv)' /\ [Settling]_vars
  BY InvStep, SettleStep
<1>3. [Settling]_vars
        <=> [/\ applied >= 1 => /\ devices' = devices
                                /\ Unanchored(entities') \in {Unanchored(entities), Unanchored(Kept(entities))}
             /\ applied >= 2 => entities' = entities]_vars
  BY DEF Settling
<1> QED
  BY <1>1, <1>2, <1>3, PTL DEF Spec, LaterRunsSettle
=============================================================================
