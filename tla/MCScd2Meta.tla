----------------------------- MODULE MCScd2Meta -----------------------------
(* Constants of the run of Scd2Meta: every bound is in its cfg. *)
EXTENDS Scd2Meta
=============================================================================
