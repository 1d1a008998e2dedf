----------------------------- MODULE MCPrograms -----------------------------
EXTENDS Programs

(* The limits of the run are in the proportion that the code's are.         *)
ASSUME RangesFit
=============================================================================
