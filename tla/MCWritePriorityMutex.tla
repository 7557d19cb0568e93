----------------------- MODULE MCWritePriorityMutex -----------------------
(* WritePriorityMutex on a small instance for TLC. *)
EXTENDS WritePriorityMutex
=============================================================================
