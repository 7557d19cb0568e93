------------------------- MODULE MCCallReturnStack -------------------------
(* CallReturnStack on a small instance for TLC. *)
EXTENDS CallReturnStack, TLC

\* One page, one slot
MCAddress == [p \in Pages |-> 0]
MCMaxVersion == [p \in Pages |-> 1]

Symmetry == Permutations(Threads)
=============================================================================
