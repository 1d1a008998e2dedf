------------------------------ MODULE MCTimer ------------------------------
(* Constants of the runs about one device and its timers.                   *)
EXTENDS DeviceTimer

CONSTANTS Net, MainLoop, T1, T2
=============================================================================
