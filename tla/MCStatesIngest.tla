--------------------------- MODULE MCStatesIngest ---------------------------
(* Constants of the runs of StatesIngest. *)
EXTENDS StatesIngest

NoFaults == {[k \in FaultKinds |-> 0]}

\* Any two faults of different kinds in the same behaviour.
TwoFaults ==
  {f \in [FaultKinds -> 0..1] : Cardinality({k \in FaultKinds : f[k] = 1}) <= 2}

\* These, and the three together that leave the process alive.
FaultSets ==
  TwoFaults \cup {[k \in FaultKinds |-> IF k \in {"death", "orchestrator", "stop"} THEN 1 ELSE 0]}

\* A worker thread dies once.
OneDeath == {f \in [FaultKinds -> 0..1] : \A k \in FaultKinds \ {"death"} : f[k] = 0}
=============================================================================
