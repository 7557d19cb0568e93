----------------------- MODULE MCKernelSyncOnAddress -----------------------
(* KernelSyncOnAddress on a small instance for TLC. *)
EXTENDS KernelSyncOnAddress, TLC

CONSTANT Wakes  \* wakes of each address

\* The first wake of an address is for one waiter, the others are for two
MCWakeCount == [k \in Keys |-> [n \in 1..Wakes |-> IF n = 1 THEN 1 ELSE 2]]
MCMaxGeneration == [k \in Keys |-> Wakes]
MCGenerations == 0..Wakes
=============================================================================
