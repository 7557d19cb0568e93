---------------------------- MODULE MCGuestCode ----------------------------
(* GuestCode on a small instance for TLC. *)
EXTENDS GuestCode, TLC

CONSTANTS p1, p2

\* Two blocks that share the slot of the smallest L1 and have one each in the next;
\* only the one whose slot moves is on a page that is written
MCAddress == p1 :> 1 @@ p2 :> 0
MCMaxVersion == p1 :> 1 @@ p2 :> 0

Symmetry == Permutations(Threads)
=============================================================================
