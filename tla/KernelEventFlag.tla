-------------------------- MODULE KernelEventFlag --------------------------
(***************************************************************************)
(* KernelEventFlagCompatExports on top of the guest scheduler.             *)
(*                                                                         *)
(* A wake key is an event flag and a waiter is the condition of the wait:  *)
(* its pattern, whether all of it is needed (WaitAnd) and its clear mode.  *)
(* Of the ways to change a flag only set wakes the blocked guest threads.  *)
(* The main host thread cannot block; it pumps the scheduler and looks at  *)
(* the bits again until they satisfy it or its time is over.               *)
(* WaitingThreads is left out: it is a number that only cancel reports.    *)
(***************************************************************************)
EXTENDS GuestScheduler

CONSTANTS
    AllBits,
    InitialBits,     \* the initPattern each flag is created with
    SetPatterns,     \* arguments of sceKernelSetEventFlag
    ClearMasks,      \* arguments of sceKernelClearEventFlag: the bits that stay
    CancelPatterns,  \* setPattern arguments of sceKernelCancelEventFlag
    Timeouts,        \* whether the waits of the guest have one
    MayDelete,       \* whether sceKernelDeleteEventFlag is called
    NoOp

\* The conditions of the waits, as validated by IsValidWaitMode
Demands == Waiters

ASSUME EventFlagAssumption ==
    /\ Waiters \subseteq [pattern : (SUBSET AllBits) \ {{}}, every : BOOLEAN,
                          clear : {"none", "all", "pattern"}]
    /\ SetPatterns \subseteq SUBSET AllBits
    /\ ClearMasks \subseteq SUBSET AllBits
    /\ CancelPatterns \subseteq SUBSET AllBits
    /\ InitialBits \in [Keys -> SUBSET AllBits]
    /\ MayDelete \in BOOLEAN
    /\ Timeouts \subseteq BOOLEAN
    /\ Cardinality(Threads) \in WakeLimits

\* The actors that execute guest code
GuestActors == Threads \cup {Main}

\* An export that has found its event flag and not yet taken its lock; want is
\* the condition of a wait or poll, and the pattern of the other calls
Ops == [kind : {"wait", "poll"}, flag : Keys, want : Demands, timed : BOOLEAN]
       \cup [kind : {"set", "clear", "cancel"}, flag : Keys, want : SUBSET AllBits,
             timed : {FALSE}]

\* The loop of a host wait: about to pump, or pumped and about to look
HostWaits == [flag : Keys, want : Demands, timed : BOOLEAN, pumped : BOOLEAN]

\* A wait or poll as its client sees it: its condition, and whether it succeeded
Requests == [flag : Keys, demand : Demands, granted : BOOLEAN]

ASSUME NoOpAssumption == NoOp \notin Ops \cup HostWaits \cup Requests

VARIABLES
    handles,         \* the keys of _eventFlags, once "unused"
    bits,            \* EventFlagState.Bits
    op,              \* the export each actor is in, or NoOp
    hostWait         \* the waiting loop Main is in, or NoOp

flagVars == <<handles, bits>>
exportVars == <<op, hostWait>>
allVars == <<vars, flagVars, exportVars>>

FlagInit ==
    /\ Init
    /\ handles = [f \in Keys |-> "unused"]
    /\ bits = InitialBits
    /\ op = [a \in GuestActors |-> NoOp]
    /\ hostWait = NoOp

-----------------------------------------------------------------------------
\* a is in guest code and outside any export of this module
CanExport(a) == CanCall(a) /\ op[a] = NoOp /\ (a = Main => hostWait = NoOp)

\* Every call looks its handle up
Export(a, kind, f, want, timed) ==
    /\ CanExport(a)
    /\ handles[f] = "live"
    /\ op' = [op EXCEPT ![a] = [kind |-> kind, flag |-> f, want |-> want,
                                timed |-> timed]]
    /\ UNCHANGED <<vars, flagVars, hostWait>>

\* a is about to enter the lock of its flag for an operation of this kind
InExport(a, kind) == pc[a] = "idle" /\ op[a] # NoOp /\ op[a].kind = kind

EndExport(a) == op' = [op EXCEPT ![a] = NoOp]

Create(a, f) ==
    /\ a \in Callers /\ CanExport(a)
    /\ handles[f] = "unused"
    /\ handles' = [handles EXCEPT ![f] = "live"]
    /\ UNCHANGED <<vars, bits, exportVars>>

\* The handle is removed; the flag lives on in whoever holds it
Delete(a, f) ==
    /\ MayDelete
    /\ a \in Callers /\ CanExport(a)
    /\ handles[f] = "live"
    /\ handles' = [handles EXCEPT ![f] = "deleted"]
    /\ UNCHANGED <<vars, bits, exportVars>>

-----------------------------------------------------------------------------
Satisfies(b, d) == IF d.every THEN d.pattern \subseteq b ELSE d.pattern \cap b # {}

IsSatisfied(f, d) == Satisfies(bits[f], d)

ApplyClearMode(f, d) ==
    bits' = [bits EXCEPT ![f] = CASE d.clear = "all" -> {}
                                  [] d.clear = "pattern" -> @ \ d.pattern
                                  [] d.clear = "none" -> @]

\* sceKernelWaitEventFlag and sceKernelPollEventFlag find their condition true
CompleteAtOnce(a) ==
    /\ InExport(a, "wait") \/ InExport(a, "poll")
    /\ IsSatisfied(op[a].flag, op[a].want)
    /\ ApplyClearMode(op[a].flag, op[a].want)
    /\ EndExport(a)
    /\ UNCHANGED <<vars, handles, hostWait>>

PollBusy(a) ==
    /\ InExport(a, "poll")
    /\ ~IsSatisfied(op[a].flag, op[a].want)
    /\ EndExport(a)
    /\ UNCHANGED <<vars, flagVars, hostWait>>

\* A wait of a guest thread: ask to block
WaitBlock(t) ==
    /\ InExport(t, "wait")
    /\ ~IsSatisfied(op[t].flag, op[t].want)
    /\ RequestBlock(t, [key |-> op[t].flag, timed |-> op[t].timed,
                        waiter |-> op[t].want, granted |-> FALSE])
    /\ EndExport(t)
    /\ UNCHANGED <<handles, bits, hostWait>>

\* A wait of the main host thread enters its loop
HostWait ==
    /\ InExport(Main, "wait")
    /\ ~IsSatisfied(op[Main].flag, op[Main].want)
    /\ hostWait' = [flag |-> op[Main].flag, want |-> op[Main].want,
                    timed |-> op[Main].timed, pumped |-> FALSE]
    /\ EndExport(Main)
    /\ UNCHANGED <<vars, handles, bits>>

\* Outside the lock of the flag it pumps the scheduler
HostPump ==
    /\ hostWait # NoOp /\ ~hostWait.pumped
    /\ CallPump(Main) \/ (NothingToPump /\ UNCHANGED vars)
    /\ hostWait' = [hostWait EXCEPT !.pumped = TRUE]
    /\ UNCHANGED <<flagVars, op>>

HostLooks == hostWait # NoOp /\ hostWait.pumped /\ pc[Main] = "idle"

\* Mutant of HostTimeout: the clear mode is applied before the time is tested
HostTimeoutClears ==
    /\ HostLooks
    /\ ~IsSatisfied(hostWait.flag, hostWait.want)
    /\ hostWait.timed
    /\ ApplyClearMode(hostWait.flag, hostWait.want)
    /\ hostWait' = NoOp
    /\ UNCHANGED <<vars, handles, op>>

HostTimeout ==
    /\ HostLooks
    /\ ~IsSatisfied(hostWait.flag, hostWait.want)
    /\ hostWait.timed
    /\ hostWait' = NoOp
    /\ UNCHANGED <<vars, handles, bits, op>>

\* Mutant of HostComplete: the bits must be exactly those of the pattern
HostCompleteExact ==
    /\ HostLooks
    /\ bits[hostWait.flag] = hostWait.want.pattern
    /\ ApplyClearMode(hostWait.flag, hostWait.want)
    /\ hostWait' = NoOp
    /\ UNCHANGED <<vars, handles, op>>

HostComplete ==
    /\ HostLooks
    /\ IsSatisfied(hostWait.flag, hostWait.want)
    /\ ApplyClearMode(hostWait.flag, hostWait.want)
    /\ hostWait' = NoOp
    /\ UNCHANGED <<vars, handles, op>>

\* Woken by PulseAll or after HostWaitPumpMilliseconds it starts over
HostAgain ==
    /\ HostLooks
    /\ ~IsSatisfied(hostWait.flag, hostWait.want)
    /\ hostWait' = [hostWait EXCEPT !.pumped = FALSE]
    /\ UNCHANGED <<vars, flagVars, op>>

\* Mutant of Set: the call is repeated when it comes back
SetAgain(a) ==
    /\ InExport(a, "set")
    /\ bits' = [bits EXCEPT ![op[a].flag] = @ \cup op[a].want]
    /\ CallWake(a, op[a].flag, Cardinality(Threads))
    /\ UNCHANGED <<handles, exportVars>>

\* sceKernelSetEventFlag adds the bits and, outside the lock, wakes the waiters
Set(a) ==
    /\ InExport(a, "set")
    /\ bits' = [bits EXCEPT ![op[a].flag] = @ \cup op[a].want]
    /\ CallWake(a, op[a].flag, Cardinality(Threads))
    /\ EndExport(a)
    /\ UNCHANGED <<handles, hostWait>>

Clear(a) ==
    /\ InExport(a, "clear")
    /\ bits' = [bits EXCEPT ![op[a].flag] = @ \cap op[a].want]
    /\ EndExport(a)
    /\ UNCHANGED <<vars, handles, hostWait>>

\* sceKernelCancelEventFlag assigns the bits and wakes no guest thread
Cancel(a) ==
    /\ InExport(a, "cancel")
    /\ bits' = [bits EXCEPT ![op[a].flag] = op[a].want]
    /\ EndExport(a)
    /\ UNCHANGED <<vars, handles, hostWait>>

-----------------------------------------------------------------------------
(* The scheduler's steps that evaluate the wake handler or run the resume handler *)

Met(w) == IsSatisfied(w.key, w.waiter)

\* TryPrepareBlockedWait succeeds: the clear mode is applied in the same step
Prepare(w) ==
    /\ Met(w)
    /\ ApplyClearMode(w.key, w.waiter)
    /\ UNCHANGED <<handles, exportVars>>

LeavesFlags == UNCHANGED <<flagVars, exportVars>>

NotMet(w) == ~Met(w) /\ LeavesFlags

FlagWake(a, t) == WakeWaiter(a, t) /\ Prepare(wait[t])
FlagPass(a, t) == PassWaiter(a, t) /\ NotMet(wait[t])

\* Mutant of FlagPark: the wake handler is not evaluated once more under the gate
FlagParkBlindly(t) == (StayParked(t) \/ NestedPark(t)) /\ LeavesFlags

FlagPark(t) == (StayParked(t) \/ NestedPark(t)) /\ NotMet(wait[t])
FlagWakeAtPark(t) == (WakeAtPark(t) \/ NestedWake(t)) /\ Prepare(wait[t])

\* The resume handler reports OK or TIMED_OUT
FlagResume(t) == Resume(t) /\ LeavesFlags

\* The steps an HLE call or a background loop of actor a takes by itself
FlagActorStep(a) ==
    \/ LoopStep(a) /\ LeavesFlags
    \/ \E t \in Threads : FlagWake(a, t) \/ FlagPass(a, t)

\* The other steps of the scheduler leave the flags alone, and guest code takes
\* them outside the exports only
SchedulerOnly ==
    /\ \/ \E t \in Threads : RunnerStep(t) \/ (CanExport(t) /\ GuestStep(t))
       \/ \E a \in GuestActors : CanExport(a) /\ CallPump(a)
       \/ \E a \in GuestActors, t \in Threads : CanExport(a) /\ TryStartThread(a, t)
       \/ CanExport(Main) /\ EntryReturn
       \/ BackgroundStep
       \/ SessionStep
    /\ LeavesFlags

\* An export looks its handle up
CallExport(a) ==
    \E f \in Keys :
        \/ \E d \in Demands, timed \in Timeouts : Export(a, "wait", f, d, timed)
        \/ a \in Callers /\ \E d \in Demands : Export(a, "poll", f, d, FALSE)
        \/ a \in Callers /\ \E p \in SetPatterns : Export(a, "set", f, p, FALSE)
        \/ a \in Callers /\ \E p \in ClearMasks : Export(a, "clear", f, p, FALSE)
        \/ a \in Callers /\ \E p \in CancelPatterns : Export(a, "cancel", f, p, FALSE)

\* An export goes on inside the lock of the flag
FinishExport(a) == CompleteAtOnce(a) \/ PollBusy(a) \/ Set(a) \/ Clear(a) \/ Cancel(a)

FlagNext ==
    \/ SchedulerOnly
    \/ \E a \in Actors : FlagActorStep(a)
    \/ \E t \in Threads : FlagPark(t) \/ FlagWakeAtPark(t) \/ FlagResume(t) \/ WaitBlock(t)
    \/ \E a \in GuestActors : CallExport(a) \/ FinishExport(a)
    \/ \E a \in GuestActors, f \in Keys : Create(a, f) \/ Delete(a, f)
    \/ HostWait \/ HostPump \/ HostComplete \/ HostTimeout \/ HostAgain

FlagSpec == FlagInit /\ [][FlagNext]_allVars

-----------------------------------------------------------------------------
(* Fairness: see GuestScheduler.  The loop of the host wait and the pump it calls
   go on, whoever else contends for the gate and for the lock of the flag. *)

HostFairness ==
    /\ WF_allVars(\E a \in Actors : gate = a /\ FlagActorStep(a))
    /\ SF_allVars(FlagActorStep(Main))
    /\ SF_allVars(HostPump)
    /\ WF_allVars(HostComplete \/ HostAgain)

HostSpec == FlagSpec /\ HostFairness

-----------------------------------------------------------------------------
(* Properties *)

\* Types; an actor that wakes or pumps has left the lock of every flag.
FlagTypeOK ==
    /\ handles \in [Keys -> {"unused", "live", "deleted"}]
    /\ bits \in [Keys -> SUBSET AllBits]
    /\ op \in [GuestActors -> Ops \cup {NoOp}]
    /\ hostWait \in HostWaits \cup {NoOp}
    /\ \A a \in GuestActors : pc[a] # "idle" => op[a] = NoOp

Request(f, d, granted) == [flag |-> f, demand |-> d, granted |-> granted]

\* The wait or poll under way in an export, the wait a thread is blocked in, and
\* the wait of the main host thread
ExportAsk(c) ==
    IF op[c].kind \in {"wait", "poll"} THEN Request(op[c].flag, op[c].want, FALSE) ELSE NoOp

BlockedAsk(t) ==
    LET w == HeldWait(t)
    IN IF w = NoWait THEN NoOp ELSE Request(w.key, w.waiter, w.granted)

HostAsk == IF hostWait = NoOp THEN NoOp ELSE Request(hostWait.flag, hostWait.want, FALSE)

\* What a client asks for, from the call of its export to its return
AskOf(c) ==
    IF op[c] # NoOp THEN ExportAsk(c) ELSE IF c = Main THEN HostAsk ELSE BlockedAsk(c)

Asks == [c \in GuestActors |-> AskOf(c)]

\* Waits, sets, clears, polls, timeouts and cancels on this code are those of an
\* event flag: a wait succeeds in one step with the bits it needs and clears
\* them, once, wherever its thread was parked or unwinding, and one that times
\* out clears nothing; after a forced exit a wait whose thread has been sent away
\* may still clear some.
Abstract == INSTANCE EventFlag
    WITH Flags <- Keys, Clients <- GuestActors, ask <- Asks,
         stopped <- forcedExit, NoRequest <- NoOp

ImplementsEventFlag == Abstract!Spec

\* A set of flag f is still to reach t
SetIsComing(f, t) ==
    \E a \in GuestActors : pc[a] = "wake" /\ call[a].key = f /\ t \in Candidates(a)

\* The bits of some cancel satisfy this demand
CancelSatisfies(d) == \E b \in CancelPatterns : Satisfies(b, d)

\* No lost set.  A thread parked on a flag whose bits satisfy it will be visited
\* by a set under way, although bits are set and waits are registered under
\* different locks and other waiters may clear the bits meanwhile.  A demand
\* that the bits of a cancel satisfy is excepted, for cancel wakes no guest thread,
\* and after a forced exit nobody cares.
NoLostSet ==
    ~forcedExit => \A t \in Threads :
        Parked(t) /\ Met(wait[t]) =>
            SetIsComing(wait[t].key, t) \/ CancelSatisfies(wait[t].waiter)

\* The main host thread, which no set wakes through the scheduler, does not wait
\* for ever on a flag whose bits satisfy it: the pump it calls in its loop
\* returns, and it looks again.
HostWaitEnds ==
    []<>(hostWait = NoOp \/ ~IsSatisfied(hostWait.flag, hostWait.want))
=============================================================================
