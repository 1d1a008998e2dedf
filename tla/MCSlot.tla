------------------------------- MODULE MCSlot -------------------------------
(* ProgrammingSlot for TLC: the values of its constants.  ONETOUCH and      *)
(* ALLBUTTON are the two protocols an RS panel with an extended id polls:   *)
(* their kicks exclude each other, so that the type in the slot matters.    *)
EXTENDS ProgrammingSlot

CONSTANTS T1, T2

MCThread == {T1, T2}
MCEmulations == {"ALLBUTTON", "ONETOUCH"}
=============================================================================
