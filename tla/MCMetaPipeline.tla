---------------------------- MODULE MCMetaPipeline ----------------------------
(* Constants of the runs of MetaPipeline. *)
EXTENDS MetaPipeline

\* One fault of every kind in the same behaviour.
EveryFault == [k \in FaultKinds |-> 1]

\* Two appends fail, and nothing else goes wrong.
TwoFailures == [k \in FaultKinds |-> IF k = "append" THEN 2 ELSE 0]
=============================================================================
