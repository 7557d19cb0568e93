----------------------------- MODULE EventFlag -----------------------------
(***************************************************************************)
(* What an event flag promises to the clients of sceKernelWaitEventFlag,   *)
(* sceKernelPollEventFlag, sceKernelSetEventFlag, sceKernelClearEventFlag  *)
(* and sceKernelCancelEventFlag: a wait succeeds once, in one step in      *)
(* which its condition holds and its clear mode is applied; so bits that a *)
(* wait clears satisfy no second wait, and a wait that ended without       *)
(* success has cleared nothing.  Nothing else changes a bit but the calls  *)
(* to set, clear and cancel.  Once the session is being stopped, clients   *)
(* are sent away, and the waits they leave behind may still clear bits.    *)
(***************************************************************************)
CONSTANTS
    Flags, Clients,
    Demands,      \* [pattern, every, clear]: WaitAnd is every, clear the clear mode
    InitialBits,
    SetPatterns, ClearMasks, CancelPatterns,  \* the arguments of those calls
    NoRequest

VARIABLES
    bits,    \* the bits of each flag
    ask,     \* the wait or poll of each client: [flag, demand, granted], or NoRequest
    stopped  \* the session is being stopped

Init ==
    /\ bits = InitialBits
    /\ ask = [c \in Clients |-> NoRequest]
    /\ stopped = FALSE

Holds(f, d) ==
    IF d.every THEN d.pattern \subseteq bits[f] ELSE d.pattern \cap bits[f] # {}

Kept(f, d) ==
    CASE d.clear = "all" -> {}
      [] d.clear = "pattern" -> bits[f] \ d.pattern
      [] d.clear = "none" -> bits[f]

Succeed(f, d) == Holds(f, d) /\ bits' = [bits EXCEPT ![f] = Kept(f, d)]

Ask(c) ==
    /\ ask[c] = NoRequest
    /\ \E f \in Flags, d \in Demands :
         ask' = [ask EXCEPT ![c] = [flag |-> f, demand |-> d, granted |-> FALSE]]
    /\ UNCHANGED <<bits, stopped>>

Waits(c) == ask[c] # NoRequest /\ ~ask[c].granted

Grant(c) ==
    /\ Waits(c)
    /\ Succeed(ask[c].flag, ask[c].demand)
    /\ ask' = [ask EXCEPT ![c].granted = TRUE]
    /\ UNCHANGED stopped

\* The call returns OK if it was granted, and TIMED_OUT or EBUSY if not
Return(c) ==
    /\ ask[c] # NoRequest
    /\ ask' = [ask EXCEPT ![c] = NoRequest]
    /\ UNCHANGED <<bits, stopped>>

\* A condition that holds when the client looks succeeds and returns at once
SucceedAndReturn(c) ==
    /\ Waits(c)
    /\ Succeed(ask[c].flag, ask[c].demand)
    /\ ask' = [ask EXCEPT ![c] = NoRequest]
    /\ UNCHANGED stopped

Assign(f, b) == bits' = [bits EXCEPT ![f] = b] /\ UNCHANGED <<ask, stopped>>

Set(f) == \E p \in SetPatterns : Assign(f, bits[f] \cup p)
Clear(f) == \E m \in ClearMasks : Assign(f, bits[f] \cap m)
Cancel(f) == \E p \in CancelPatterns : Assign(f, p)

Stop ==
    /\ stopped' = TRUE
    /\ UNCHANGED <<bits, ask>>

\* A wait whose client has been sent away meanwhile succeeds for nobody
Lose(f, d) == stopped /\ Succeed(f, d) /\ UNCHANGED <<ask, stopped>>

Next ==
    \/ \E f \in Flags : Set(f) \/ Clear(f) \/ Cancel(f)
    \/ \E f \in Flags, d \in Demands : Lose(f, d)
    \/ \E c \in Clients : Ask(c) \/ Grant(c) \/ Return(c) \/ SucceedAndReturn(c)
    \/ Stop

Spec == Init /\ [][Next]_<<bits, ask, stopped>>
=============================================================================
