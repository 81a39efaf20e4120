---------------------------- MODULE MCSplitThreads ----------------------------
(***************************************************************************)
(* A small instance of SplitThreads for TLC.                               *)
(***************************************************************************)
EXTENDS SplitThreads
==============================================================================
