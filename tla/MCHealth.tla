------------------------------ MODULE MCHealth ------------------------------
(* Constants of the runs of Health: every bound is in their cfgs. *)
EXTENDS Health
=============================================================================
