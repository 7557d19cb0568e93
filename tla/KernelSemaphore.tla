-------------------------- MODULE KernelSemaphore --------------------------
(***************************************************************************)
(* KernelSemaphoreCompatExports on top of the guest scheduler.             *)
(*                                                                         *)
(* A wake key is a semaphore handle and a waiter is the number of tokens   *)
(* the wait needs, so the predicate WakePredicate of a blocked wait is     *)
(* "its tokens are there", evaluated under the scheduler's gate by whoever *)
(* visits the thread.  An export first looks its handle up, then enters    *)
(* the semaphore's own lock: the two are separate steps, with the object   *)
(* found by the first kept in between although the handle may be deleted.  *)
(***************************************************************************)
EXTENDS GuestScheduler, Integers

CONSTANTS
    MaxCount,       \* the maxCount each handle is created with
    InitialCount,   \* and its initialCount
    SignalCounts,   \* signalCount arguments of sceKernelSignalSema
    CancelCounts,   \* setCount arguments of sceKernelCancelSema
    Timeouts,       \* whether the waits of the guest have one
    MayDelete,      \* whether sceKernelDeleteSema is called
    NoOp

Needs == Waiters

ASSUME SemaphoreAssumption ==
    /\ Waiters \subseteq Nat \ {0}
    /\ SignalCounts \subseteq Nat \ {0}
    /\ CancelCounts \subseteq Int
    /\ MaxCount \in [Keys -> Nat \ {0}]
    /\ InitialCount \in [Keys -> Nat]
    /\ \A s \in Keys : InitialCount[s] <= MaxCount[s]
    /\ MayDelete \in BOOLEAN
    /\ Timeouts \subseteq BOOLEAN
    /\ Cardinality(Threads) \in WakeLimits   \* int.MaxValue, the default of maxCount

\* The actors that execute guest code
GuestActors == Threads \cup {Main}

\* An export that has found its semaphore and not yet taken its lock
Ops == [kind : {"wait", "poll", "signal", "cancel"}, sema : Keys, n : Int,
        timed : BOOLEAN]

\* A call as its client sees it, a blocked wait with whether it has its tokens
Requests == [kind : {"wait", "poll", "signal", "cancel", "blocked"}, sema : Keys, n : Int,
             granted : BOOLEAN]

ASSUME NoOpAssumption == NoOp \notin Ops \cup Requests

VARIABLES
    handles,         \* the keys of _semaphores, once "unused"
    count,           \* KernelSemaphoreState.Count
    waitingThreads,  \* KernelSemaphoreState.WaitingThreads
    op,              \* the export each actor is in, or NoOp
    hostWait         \* the wait of Main in WaitSemaphoreOnHostThread, or NoOp

semaVars == <<handles, count, waitingThreads>>
exportVars == <<op, hostWait>>
allVars == <<vars, semaVars, exportVars>>

SemaInit ==
    /\ Init
    /\ handles = [s \in Keys |-> "unused"]
    /\ count = InitialCount
    /\ waitingThreads = [s \in Keys |-> 0]
    /\ op = [a \in GuestActors |-> NoOp]
    /\ hostWait = NoOp

-----------------------------------------------------------------------------
\* a is in guest code and outside any export of this module
CanExport(a) == CanCall(a) /\ op[a] = NoOp /\ (a = Main => hostWait = NoOp)

\* Semaphores the exports of a know: every call looks its handle up
Export(a, kind, s, n, timed) ==
    /\ CanExport(a)
    /\ handles[s] = "live"
    /\ op' = [op EXCEPT ![a] = [kind |-> kind, sema |-> s, n |-> n, timed |-> timed]]
    /\ UNCHANGED <<vars, semaVars, hostWait>>

\* a is about to enter the lock of its semaphore for an operation of this kind
InExport(a, kind) == pc[a] = "idle" /\ op[a] # NoOp /\ op[a].kind = kind

EndExport(a) == op' = [op EXCEPT ![a] = NoOp]

Create(a, s) ==
    /\ a \in Callers /\ CanExport(a)
    /\ handles[s] = "unused"
    /\ handles' = [handles EXCEPT ![s] = "live"]
    /\ UNCHANGED <<vars, count, waitingThreads, exportVars>>

\* The handle is removed; the state object lives on in whoever holds it
Delete(a, s) ==
    /\ MayDelete
    /\ a \in Callers /\ CanExport(a)
    /\ handles[s] = "live"
    /\ handles' = [handles EXCEPT ![s] = "deleted"]
    /\ UNCHANGED <<vars, count, waitingThreads, exportVars>>

-----------------------------------------------------------------------------
TakeTokens(s, n) == count' = [count EXCEPT ![s] = @ - n]

AddWaiter(s) == waitingThreads' = [waitingThreads EXCEPT ![s] = @ + 1]

\* Math.Max(0, WaitingThreads - 1)
DropWaiter(s) ==
    waitingThreads' = [waitingThreads EXCEPT ![s] = IF @ > 0 THEN @ - 1 ELSE 0]

\* sceKernelWaitSema and sceKernelPollSema find the tokens
TakeAtOnce(a) ==
    /\ InExport(a, "wait") \/ InExport(a, "poll")
    /\ count[op[a].sema] >= op[a].n
    /\ TakeTokens(op[a].sema, op[a].n)
    /\ EndExport(a)
    /\ UNCHANGED <<vars, handles, waitingThreads, hostWait>>

PollBusy(a) ==
    /\ InExport(a, "poll")
    /\ count[op[a].sema] < op[a].n
    /\ EndExport(a)
    /\ UNCHANGED <<vars, semaVars, hostWait>>

\* sceKernelWaitSema of a guest thread: count it as waiting and ask to block
WaitBlock(t) ==
    /\ InExport(t, "wait")
    /\ count[op[t].sema] < op[t].n
    /\ AddWaiter(op[t].sema)
    /\ RequestBlock(t, [key |-> op[t].sema, timed |-> op[t].timed,
                        waiter |-> op[t].n, granted |-> FALSE])
    /\ EndExport(t)
    /\ UNCHANGED <<handles, count, hostWait>>

\* sceKernelWaitSema of the main host thread: wait on the semaphore's monitor
HostWait ==
    /\ InExport(Main, "wait")
    /\ count[op[Main].sema] < op[Main].n
    /\ AddWaiter(op[Main].sema)
    /\ hostWait' = op[Main]
    /\ EndExport(Main)
    /\ UNCHANGED <<vars, handles, count>>

\* Mutant of HostTake: the tokens are not looked at again after the wake-up
HostTakeBlindly ==
    /\ hostWait # NoOp
    /\ TakeTokens(hostWait.sema, hostWait.n)
    /\ DropWaiter(hostWait.sema)
    /\ hostWait' = NoOp
    /\ UNCHANGED <<vars, handles, op>>

\* Woken by PulseAll or by its 100 ms poll, it finds the tokens
HostTake ==
    /\ hostWait # NoOp
    /\ count[hostWait.sema] >= hostWait.n
    /\ TakeTokens(hostWait.sema, hostWait.n)
    /\ DropWaiter(hostWait.sema)
    /\ hostWait' = NoOp
    /\ UNCHANGED <<vars, handles, op>>

HostTimeout ==
    /\ hostWait # NoOp
    /\ hostWait.timed
    /\ count[hostWait.sema] < hostWait.n
    /\ DropWaiter(hostWait.sema)
    /\ hostWait' = NoOp
    /\ UNCHANGED <<vars, handles, count, op>>

WakeAll(a, s) == CallWake(a, s, Cardinality(Threads))

\* sceKernelSignalSema adds the tokens and, outside the lock, wakes the waiters
Signal(a) ==
    LET s == op[a].sema  n == op[a].n IN
    /\ InExport(a, "signal")
    /\ count[s] <= MaxCount[s] - n
    /\ count' = [count EXCEPT ![s] = @ + n]
    /\ WakeAll(a, s)
    /\ EndExport(a)
    /\ UNCHANGED <<handles, waitingThreads, hostWait>>

SignalRejected(a) ==
    /\ InExport(a, "signal")
    /\ count[op[a].sema] > MaxCount[op[a].sema] - op[a].n
    /\ EndExport(a)
    /\ UNCHANGED <<vars, semaVars, hostWait>>

\* Mutant of Cancel: a negative setCount does not mean the initial count
CancelNegative(a) ==
    LET s == op[a].sema  n == op[a].n IN
    /\ InExport(a, "cancel")
    /\ count' = [count EXCEPT ![s] = n]
    /\ waitingThreads' = [waitingThreads EXCEPT ![s] = 0]
    /\ WakeAll(a, s)
    /\ EndExport(a)
    /\ UNCHANGED <<handles, hostWait>>

\* Mutant of Cancel: nobody is woken
CancelSilently(a) ==
    LET s == op[a].sema  n == op[a].n IN
    /\ InExport(a, "cancel")
    /\ count' = [count EXCEPT ![s] = IF n < 0 THEN InitialCount[s] ELSE n]
    /\ waitingThreads' = [waitingThreads EXCEPT ![s] = 0]
    /\ EndExport(a)
    /\ UNCHANGED <<vars, handles, hostWait>>

\* sceKernelCancelSema sets the count and forgets how many threads wait
Cancel(a) ==
    LET s == op[a].sema  n == op[a].n IN
    /\ InExport(a, "cancel")
    /\ count' = [count EXCEPT ![s] = IF n < 0 THEN InitialCount[s] ELSE n]
    /\ waitingThreads' = [waitingThreads EXCEPT ![s] = 0]
    /\ WakeAll(a, s)
    /\ EndExport(a)
    /\ UNCHANGED <<handles, hostWait>>

-----------------------------------------------------------------------------
(* The scheduler's steps that evaluate WakePredicate or run ResumeWait *)

Enough(w) == count[w.key] >= w.waiter

\* WakePredicate is true: the tokens are taken in the same step
PredicateTakes(w) ==
    /\ Enough(w)
    /\ TakeTokens(w.key, w.waiter)
    /\ DropWaiter(w.key)
    /\ UNCHANGED <<handles, exportVars>>

PredicateFails(w) == ~Enough(w) /\ UNCHANGED <<semaVars, exportVars>>

SemaWake(a, t) == WakeWaiter(a, t) /\ PredicateTakes(wait[t])
SemaPass(a, t) == PassWaiter(a, t) /\ PredicateFails(wait[t])

\* Mutant of SemaPark: the predicate is not evaluated once more under the gate
SemaParkBlindly(t) ==
    (StayParked(t) \/ NestedPark(t)) /\ UNCHANGED <<semaVars, exportVars>>

SemaPark(t) == (StayParked(t) \/ NestedPark(t)) /\ PredicateFails(wait[t])
SemaWakeAtPark(t) == (WakeAtPark(t) \/ NestedWake(t)) /\ PredicateTakes(wait[t])

\* Mutant of SemaResume: a satisfied wait is taken off once more
SemaResumeTwice(t) ==
    /\ Resume(t)
    /\ DropWaiter(resuming[t].key)
    /\ UNCHANGED <<handles, count, exportVars>>

\* Mutant of SemaResume: a wait that timed out stays counted
SemaResumeCounted(t) ==
    /\ Resume(t)
    /\ UNCHANGED <<semaVars, exportVars>>

\* Mutant of SemaResume: a wait that timed out takes tokens that have come since
SemaResumeLate(t) ==
    LET w == resuming[t]  late == ~w.granted /\ Enough(w) IN
    /\ Resume(t)
    /\ count' = IF late THEN [count EXCEPT ![w.key] = @ - w.waiter] ELSE count
    /\ IF w.granted THEN UNCHANGED waitingThreads ELSE DropWaiter(w.key)
    /\ UNCHANGED <<handles, exportVars>>

\* ResumeWait: OK if the predicate took the tokens, else one waiter less and TIMED_OUT
SemaResume(t) ==
    /\ Resume(t)
    /\ IF resuming[t].granted THEN UNCHANGED waitingThreads
                              ELSE DropWaiter(resuming[t].key)
    /\ UNCHANGED <<handles, count, exportVars>>

LeavesSemaphores == UNCHANGED <<semaVars, exportVars>>

\* The steps an HLE call or a background loop of actor a takes by itself
SemaActorStep(a) ==
    \/ LoopStep(a) /\ LeavesSemaphores
    \/ \E t \in Threads : SemaWake(a, t) \/ SemaPass(a, t)

\* The other steps of the scheduler leave the semaphores alone, and guest code
\* takes them outside the exports only
SchedulerOnly ==
    /\ \/ \E t \in Threads : RunnerStep(t) \/ (CanExport(t) /\ GuestStep(t))
       \/ \E a \in GuestActors : CanExport(a) /\ CallPump(a)
       \/ \E a \in GuestActors, t \in Threads : CanExport(a) /\ TryStartThread(a, t)
       \/ CanExport(Main) /\ EntryReturn
       \/ BackgroundStep
       \/ SessionStep
    /\ LeavesSemaphores

\* An export looks its handle up
CallExport(a) ==
    \E s \in Keys :
        \/ \E n \in Needs, timed \in Timeouts :
             n <= MaxCount[s] /\ Export(a, "wait", s, n, timed)
        \/ a \in Callers /\ \E n \in 1..MaxCount[s] : Export(a, "poll", s, n, FALSE)
        \/ a \in Callers /\ \E n \in SignalCounts : Export(a, "signal", s, n, FALSE)
        \/ a \in Callers /\ \E n \in CancelCounts :
             n <= MaxCount[s] /\ Export(a, "cancel", s, n, FALSE)

\* An export goes on inside the semaphore's lock
FinishExport(a) ==
    TakeAtOnce(a) \/ PollBusy(a) \/ Signal(a) \/ SignalRejected(a) \/ Cancel(a)

SemaNext ==
    \/ SchedulerOnly
    \/ \E a \in Actors : SemaActorStep(a)
    \/ \E t \in Threads : SemaPark(t) \/ SemaWakeAtPark(t) \/ SemaResume(t) \/ WaitBlock(t)
    \/ \E a \in GuestActors : CallExport(a) \/ FinishExport(a)
    \/ \E a \in GuestActors, s \in Keys : Create(a, s) \/ Delete(a, s)
    \/ HostWait \/ HostTake \/ HostTimeout

SemaSpec == SemaInit /\ [][SemaNext]_allVars

-----------------------------------------------------------------------------
(* Fairness: see GuestScheduler.  An HLE call that has woken somebody goes on. *)

WakerFairness ==
    /\ WF_allVars(\E a \in Actors : gate = a /\ SemaActorStep(a))
    /\ \A a \in Callers : SF_allVars(SemaActorStep(a))

WakerSpec == SemaSpec /\ WakerFairness

-----------------------------------------------------------------------------
(* Properties *)

\* Types; a count is a natural number, so no wait ever overdraws a semaphore.
SemaTypeOK ==
    /\ handles \in [Keys -> {"unused", "live", "deleted"}]
    /\ count \in [Keys -> Nat]
    /\ waitingThreads \in [Keys -> Nat]
    /\ op \in [GuestActors -> Ops \cup {NoOp}]
    /\ hostWait \in Ops \cup {NoOp}

Request(kind, s, n, granted) == [kind |-> kind, sema |-> s, n |-> n, granted |-> granted]

\* The call of an export under way, the wait a thread is blocked in, and the wait
\* of the main host thread, which goes on inside its call
ExportAsk(c) == Request(op[c].kind, op[c].sema, op[c].n, FALSE)

BlockedAsk(t) ==
    LET w == HeldWait(t)
    IN IF w = NoWait THEN NoOp ELSE Request("blocked", w.key, w.waiter, w.granted)

HostAsk == IF hostWait = NoOp THEN NoOp ELSE Request("wait", hostWait.sema, hostWait.n, FALSE)

\* What a client asks for, from the call of its export to its return
AskOf(c) ==
    IF op[c] # NoOp THEN ExportAsk(c) ELSE IF c = Main THEN HostAsk ELSE BlockedAsk(c)

\* The wait a forced exit has sent c away from while its thread stays registered in it
LeftOf(c) ==
    IF c # Main /\ Deserted(c) THEN Request("blocked", wait[c].key, wait[c].waiter, FALSE)
                               ELSE NoOp

Asks == [c \in GuestActors |-> AskOf(c)]

Lefts == [c \in GuestActors |-> LeftOf(c)]

\* Waits, wakes, timeouts, polls, signals and cancels on this code are those of a
\* counting semaphore.  Tokens are taken whole and once, for a client that asks
\* and has none yet, wherever its thread was parked or unwinding, and never for
\* a wait that has expired; they are added by a signal or cancel under way, once
\* for each.  After a forced exit the waits of the threads sent away may still
\* take what they asked for, and nobody else anything.
Abstract == INSTANCE Semaphore
    WITH Semas <- Keys, Clients <- GuestActors, avail <- count, ask <- Asks, left <- Lefts,
         stopped <- forcedExit, NoRequest <- NoOp

ImplementsSemaphore == Abstract!Spec

\* Signals are refused rather than exceed maxCount, cancels stay below it.
CountInRange == \A s \in Keys : count[s] \in 0..MaxCount[s]

\* The wake-up of s is still to reach t: some caller is in WakeBlockedThreads
\* for s and has not passed t yet
WakeIsComing(s, t) ==
    \E a \in GuestActors :
        /\ pc[a] = "wake" /\ call[a].key = s
        /\ t \in Candidates(a)

\* No lost wake-up.  A thread parked on a semaphore that holds the tokens it
\* needs will be visited by a wake under way, although tokens are added and
\* waits are registered under different locks.  After a forced exit nobody cares.
NoLostWakeup ==
    ~forcedExit => \A t \in Threads :
        Parked(t) /\ Enough(wait[t]) => WakeIsComing(wait[t].key, t)

\* A thread is blocked on s without its tokens
WaitsOn(t, s) == HeldWait(t) # NoWait /\ HeldWait(t).key = s /\ ~HeldWait(t).granted

\* The clients blocked on s that have neither got their tokens nor returned
Waiting(s) ==
    {t \in Threads : WaitsOn(t, s)}
        \cup {c \in {Main} : hostWait # NoOp /\ hostWait.sema = s}

\* WaitingThreads, which cancel reports to the guest, counts exactly the waits
\* that are neither satisfied nor over, as long as nobody cancels: each wait is
\* taken off once, by its predicate, its resume handler or the host wait.
WaitingThreadsExact ==
    ~forcedExit => \A s \in Keys : waitingThreads[s] = Cardinality(Waiting(s))

\* After a cancel has zeroed it while threads stay parked it may be too low,
\* but never too high.
WaitingThreadsNeverOver ==
    ~forcedExit => \A s \in Keys : waitingThreads[s] <= Cardinality(Waiting(s))

\* A parked thread does not stay parked while its tokens stay there.
SignalledWaiterRuns ==
    \A t \in Watched :
        Parked(t) /\ Enough(wait[t]) ~> ~(Parked(t) /\ Enough(wait[t]))

\* What the comment on WakeKey says: delete wakes through this key as well, so
\* nobody stays parked on a deleted semaphore.
DeleteWakesWaiters ==
    \A t \in Threads, s \in Keys :
        Parked(t) /\ ~wait[t].timed /\ wait[t].key = s /\ handles[s] = "deleted"
            ~> ~Parked(t)
=============================================================================
