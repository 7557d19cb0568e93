------------------------- MODULE MCKernelEventFlag -------------------------
(* KernelEventFlag on a small instance for TLC. *)
EXTENDS KernelEventFlag, TLC

MCInitialBits == [f \in Keys |-> {}]

MCHostDemands == {[pattern |-> {2}, every |-> TRUE, clear |-> "all"]}
MCSetPatterns == {{1, 2}}
MCClearMasks == {{1}}
MCCancelPatterns == {{1}}
=============================================================================
