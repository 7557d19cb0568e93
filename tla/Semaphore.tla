----------------------------- MODULE Semaphore -----------------------------
(***************************************************************************)
(* What a counting semaphore promises to the clients of sceKernelWaitSema, *)
(* sceKernelPollSema, sceKernelSignalSema and sceKernelCancelSema.  Every   *)
(* change of the tokens belongs to a call: only a signal or a cancel that  *)
(* a client has made and not yet returned from adds any, once; only a wait *)
(* or poll takes them, all it needs in one step.  A blocked wait takes its *)
(* tokens before it returns or never: one that expired has taken none.     *)
(* Once the session is being stopped, clients are sent away, and a wait    *)
(* left behind may still take the tokens its client asked for.             *)
(* Nothing is said of threads, queues or wake-ups.                         *)
(***************************************************************************)
EXTENDS Integers

CONSTANTS Semas, Clients, MaxCount, InitialCount, SignalCounts, CancelCounts, NoRequest

VARIABLES
    avail,   \* the tokens of each semaphore
    ask,     \* the call each client is in: [kind, sema, n, granted], or NoRequest
    left,    \* the blocked wait each client was sent away from, or NoRequest
    stopped  \* the session is being stopped

Init ==
    /\ avail = InitialCount
    /\ ask = [c \in Clients |-> NoRequest]
    /\ left = [c \in Clients |-> NoRequest]
    /\ stopped = FALSE

Begin(c, kind, s, n) ==
    ask' = [ask EXCEPT ![c] = [kind |-> kind, sema |-> s, n |-> n, granted |-> FALSE]]

Ask(c) ==
    /\ ask[c] = NoRequest
    /\ \E s \in Semas :
         \/ \E n \in 1..MaxCount[s] : Begin(c, "wait", s, n) \/ Begin(c, "poll", s, n)
         \/ \E n \in SignalCounts : Begin(c, "signal", s, n)
         \/ \E n \in CancelCounts : n <= MaxCount[s] /\ Begin(c, "cancel", s, n)
    /\ UNCHANGED <<avail, left, stopped>>

\* c is in a call of one of these kinds
In(c, kinds) == ask[c] # NoRequest /\ ask[c].kind \in kinds

End(c) == ask' = [ask EXCEPT ![c] = NoRequest]

Enough(c) == ask[c].n <= avail[ask[c].sema]

Take(s, n) == n <= avail[s] /\ avail' = [avail EXCEPT ![s] = @ - n]

\* OK: tokens that are there when the call looks are taken at once
TakeAndReturn(c) ==
    /\ In(c, {"wait", "poll"})
    /\ Take(ask[c].sema, ask[c].n)
    /\ End(c)
    /\ UNCHANGED <<left, stopped>>

\* EBUSY, and TIMED_OUT of a wait that is not blocked
ReturnWithout(c) ==
    /\ In(c, {"wait", "poll"}) /\ ~Enough(c)
    /\ End(c)
    /\ UNCHANGED <<avail, left, stopped>>

Block(c) ==
    /\ In(c, {"wait"}) /\ ~Enough(c)
    /\ ask' = [ask EXCEPT ![c].kind = "blocked"]
    /\ UNCHANGED <<avail, left, stopped>>

Grant(c) ==
    /\ In(c, {"blocked"}) /\ ~ask[c].granted
    /\ Take(ask[c].sema, ask[c].n)
    /\ ask' = [ask EXCEPT ![c].granted = TRUE]
    /\ UNCHANGED <<left, stopped>>

\* A blocked wait returns OK if it was granted, and TIMED_OUT if not
Unblock(c) ==
    /\ In(c, {"blocked"})
    /\ End(c)
    /\ UNCHANGED <<avail, left, stopped>>

Signal(c) ==
    /\ In(c, {"signal"})
    /\ avail[ask[c].sema] + ask[c].n <= MaxCount[ask[c].sema]
    /\ avail' = [avail EXCEPT ![ask[c].sema] = @ + ask[c].n]
    /\ End(c)
    /\ UNCHANGED <<left, stopped>>

\* EINVAL: the tokens would not fit
Refuse(c) ==
    /\ In(c, {"signal"})
    /\ avail[ask[c].sema] + ask[c].n > MaxCount[ask[c].sema]
    /\ End(c)
    /\ UNCHANGED <<avail, left, stopped>>

Cancel(c) ==
    /\ In(c, {"cancel"})
    /\ avail' = [avail EXCEPT ![ask[c].sema] =
                   IF ask[c].n < 0 THEN InitialCount[ask[c].sema] ELSE ask[c].n]
    /\ End(c)
    /\ UNCHANGED <<left, stopped>>

Stop ==
    /\ stopped' = TRUE
    /\ UNCHANGED <<avail, ask, left>>

SendAway(c) ==
    /\ stopped
    /\ In(c, {"blocked"})
    /\ left' = [left EXCEPT ![c] = [ask[c] EXCEPT !.granted = FALSE]]
    /\ End(c)
    /\ UNCHANGED <<avail, stopped>>

\* The wait c was sent away from takes its tokens, or a granted one its own again
Lose(c) ==
    /\ stopped
    /\ \/ left[c] # NoRequest /\ Take(left[c].sema, left[c].n)
       \/ In(c, {"blocked"}) /\ ask[c].granted /\ Take(ask[c].sema, ask[c].n)
    /\ UNCHANGED <<ask, left, stopped>>

\* The waits some clients were sent away from are gone
Forget ==
    /\ UNCHANGED <<avail, ask, stopped>>
    /\ \E C \in SUBSET Clients :
         left' = [c \in Clients |-> IF c \in C THEN NoRequest ELSE left[c]]

Next ==
    \/ Forget \/ Stop
    \/ \E c \in Clients :
         \/ Ask(c) \/ TakeAndReturn(c) \/ ReturnWithout(c)
         \/ Block(c) \/ Grant(c) \/ Unblock(c)
         \/ Signal(c) \/ Refuse(c) \/ Cancel(c)
         \/ SendAway(c) \/ Lose(c)

Spec == Init /\ [][Next]_<<avail, ask, left, stopped>>
=============================================================================
