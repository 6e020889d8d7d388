----------------------------- MODULE VersionLog -----------------------------
(***************************************************************************)
(* What a reader of a dimension table may rely on: a log of versions.  A   *)
(* transaction ends some of the open versions at one instant and adds at   *)
(* most one; what is closed stays as it is for ever.  An id has at most    *)
(* one open version, and while disjoint holds no instant belongs to two    *)
(* versions of an id.                                                      *)
(***************************************************************************)
EXTENDS Naturals

CONSTANTS Ids, Open

VARIABLES log, disjoint

Ended == {v \in log : v \notin log'}
ClosedAt(t) == (log \ Ended) \cup {[v EXCEPT !.to = t] : v \in Ended}

Apart(v, w) == v.id = w.id /\ v # w => v.to <= w.from \/ w.to <= v.from
OneOpen(T) == \A v, w \in T : v.id = w.id /\ v.to = Open /\ w.to = Open => v = w

Init == OneOpen(log) /\ \A v, w \in log : Apart(v, w)

Transaction ==
  /\ \A v \in Ended : v.to = Open
  /\ \A w \in log' \ log : w.from < w.to
  /\ OneOpen(log')
  /\ \E t \in {w.to : w \in log' \ log} :
       LET added == log' \ ClosedAt(t)
       IN /\ ClosedAt(t) \subseteq log'
          /\ \A v, w \in added : v = w
          /\ \A w \in added : w.to = Open
          /\ disjoint => \A v \in log', w \in added : Apart(v, w)

Spec == Init /\ [][Transaction]_log
=============================================================================
