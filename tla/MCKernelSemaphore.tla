------------------------- MODULE MCKernelSemaphore -------------------------
(* KernelSemaphore on a small instance for TLC. *)
EXTENDS KernelSemaphore, TLC

CONSTANT Tokens  \* maxCount of every semaphore

MCMaxCount == [s \in Keys |-> Tokens]
MCInitialCount == [s \in Keys |-> 0]
MCCancelCounts == {-1, Tokens}
MCThreadSymmetry == Permutations(Threads)
=============================================================================
