------------------------- MODULE MCGuestScheduler -------------------------
(* GuestScheduler on a small instance for TLC. *)
EXTENDS GuestScheduler, TLC

ThreadSymmetry == Permutations(Threads)
=============================================================================
