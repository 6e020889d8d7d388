---------------------------- MODULE MCScd2Repair ----------------------------
(* Constants of the run of Scd2Repair. *)
EXTENDS Scd2Repair

\* The opt-in steps of the operator: none or both.
NoneOrBoth == {{}, {"collapse", "merge"}}

\* Both entries are registered after the first instant, at which versions and states of an
\* earlier entry may lie, and before the last, from which a device can still move back.
Registered == {[entity |-> 1, device |-> 1]}
=============================================================================
