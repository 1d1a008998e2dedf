------------------------------- MODULE MCSwg -------------------------------
(* SwgDevice for TLC: the values of its constants.  Two SWGs, of which      *)
(* the program keeps one, report that they work or lack flow; a pump is     *)
(* polled between their polls.                                              *)
EXTENDS SwgDevice

CONSTANTS S1, S2, Pump

MCSwgs == {S1, S2}
MCOther == {Pump}
MCReports == {"ON", "NO_FLOW"}
MCShown == {"NO_FLOW", "GENFAULT"}
MCPercents == {40}
=============================================================================
