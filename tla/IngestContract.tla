-------------------------- MODULE IngestContract --------------------------
(***************************************************************************)
(* What the state-history pipeline promises, whatever it buffers, drops,   *)
(* re-fetches or restarts inside: events are fired, rows appear, some      *)
(* events are given up on, and the table never has a hole further behind   *)
(* its newest row than the late-arrival grace.                             *)
(***************************************************************************)
EXTENDS Naturals

CONSTANTS MaxEvent,   \* bound: events fired in a behaviour
          Grace       \* how far behind the newest row a hole may be

VARIABLES fired,      \* events 1..fired were fired
          stored,     \* events with a row
          excused     \* events nothing can store any more

vars == <<fired, stored, excused>>

Event == 1..MaxEvent

\* Every hole of the table is within reach of a backfill from its newest row.
Recoverable(rows, given) ==
  \A m \in rows, n \in 1..MaxEvent : n + Grace < m => n \in rows \union given

Init ==
  /\ fired \in 0..MaxEvent
  /\ stored \in SUBSET (1..fired) /\ excused \in SUBSET (1..fired)
  /\ Recoverable(stored, excused)

Fire ==
  /\ fired < MaxEvent
  /\ fired' = fired + 1
  /\ UNCHANGED <<stored, excused>>

\* Rows appear, or events are given up on, without a hole out of reach.
Settle ==
  /\ stored' \in SUBSET (1..fired) /\ stored \subseteq stored'
  /\ excused' \in SUBSET (1..fired) /\ excused \subseteq excused'
  /\ Recoverable(stored', excused')
  /\ UNCHANGED fired

Next == Fire \/ Settle

Spec == Init /\ [][Next]_vars
=============================================================================
