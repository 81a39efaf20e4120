---------------------------- MODULE MCStopAndWait ----------------------------
(* A small instance of StopAndWait for TLC.                                   *)
EXTENDS StopAndWait
==============================================================================
