--------------------------- MODULE MCMinuteRollup ---------------------------
(* Constants of the run of MinuteRollup: every bound is in its cfg. *)
EXTENDS MinuteRollup
=============================================================================
