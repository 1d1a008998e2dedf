------------------------------ MODULE MCDelayed ------------------------------
(* DelayedRequest for TLC: a type that waits for the units, one that does   *)
(* not, one that brings no value, and the dimmer.                           *)
EXTENDS DelayedRequest

MCTypes == {"SETPOINT", "SWG", "VSPROGRAM", "LIGHT"}
=============================================================================
