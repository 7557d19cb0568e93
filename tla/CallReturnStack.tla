--------------------------- MODULE CallReturnStack ---------------------------
(***************************************************************************)
(* The shadow stack of return addresses on top of GuestCode.  A call pushes *)
(* the place in host code to come back to, a return that finds its address on *)
(* top goes there without a lookup.  One entry of each thread is kept.     *)
(***************************************************************************)
EXTENDS GuestCode

VARIABLE callret    \* the top of each thread's shadow stack

stackVars == <<vars, callret>>

StackInit == GuestInit /\ callret = [t \in Threads |-> NoEntry]

\* A call out of the block that is being executed, before its branch
Call(t) ==
    /\ pc[t] = "run" /\ at[t] # NoPage
    /\ callret' = [callret EXCEPT ![t] = [page |-> at[t], code |-> code[t]]]
    /\ UNCHANGED vars

\* A return takes the top entry off, and uses it if it is for the address it
\* returns to; otherwise it goes on as any branch to an address in a register.
Return(t, p) ==
    /\ pc[t] = "run"
    /\ MayUse(t, p)
    /\ callret' = [callret EXCEPT ![t] = NoEntry]
    /\ IF callret[t].page = p
       THEN /\ Enter(t, p, callret[t].code)
            /\ UNCHANGED <<guestVars, mapVars, cacheVars, victim, todo>>
       ELSE LookupL1(t, p) \/ ExitToDispatcher(t, p)

\* InvalidateThreadCachedCodeRange empties the stack of a thread in whose caches
\* it has found the page
DropCallRet(t, u) ==
    /\ Drop(t, u)
    /\ callret' = IF victim[t] \in cached[u] THEN [callret EXCEPT ![u] = NoEntry]
                  ELSE callret

StackNext ==
    \E t \in Threads :
        \/ GuestStep(t) /\ UNCHANGED callret
        \/ Call(t)
        \/ \E p \in Pages : Return(t, p)
        \/ \E u \in Threads : DropCallRet(t, u)

StackSpec == StackInit /\ [][StackNext]_stackVars

-----------------------------------------------------------------------------
\* "This shadow stack is also cleared on block invalidation operations or
\* codebuffer switches, to ensure all pointed-to host code is always valid."
\* (BranchOps.cpp:99).  A thread that has come to the block through a branch
\* another thread patched has nothing of the page in its own caches, and its stack
\* is not cleared.
ShadowStackValid ==
    \A t \in Threads : callret[t] # NoEntry /\ Invalidators(callret[t].page) = {}
        => callret[t].code = blockList[callret[t].page]
=============================================================================
