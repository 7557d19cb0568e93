-------------------------- MODULE GuestScheduler --------------------------
(***************************************************************************)
(* The cooperative scheduler of guest threads in DirectExecutionBackend.   *)
(*                                                                         *)
(* A guest thread runs in slices.  A slice is started by whoever claims    *)
(* the thread from the ready queue, is executed by the thread's own runner *)
(* (or inline by the main host thread while it drains the session), and    *)
(* ends when the guest code returns, faults or asks to block.  Every       *)
(* critical section of _guestThreadGate is one step, or, for the two loops *)
(* that visit several threads under the gate, one step per visited thread  *)
(* with the gate held in between.  What a blocked thread waits for is left *)
(* open here: the predicate TryWake of its waiter answers either way.      *)
(***************************************************************************)
EXTENDS Naturals, Sequences, FiniteSets

CONSTANTS
    Threads,        \* guest threads that may be created
    Keys,           \* wake keys (BlockWakeKey)
    Waiters,        \* what a waiter waits for behind its key (BlockWaiter)
    Main,           \* the host thread that runs the entry point and disposes
    ReadyDispatch,  \* the background thread of StartReadyThreadDispatcher
    Ticker,         \* the background thread SharpEmu-GuestThreadDispatcher
    NoActor, NoThread, NoWait, NoCall,
    WakeLimits,     \* values of maxCount passed to WakeBlockedThreads
    PumpBatch,      \* claims of one Pump (8 in the code)
    Callers,        \* the actors whose guest code signals and creates threads
    Watched,        \* the threads the liveness properties follow, all alike
    Nesting,        \* the threads whose HLE calls may call back into the guest
    Ends,           \* whether the guest entry may return and the session be stopped
    MaxQueue        \* bound: no nested wait starts with this many queue entries

Actors == Threads \cup {Main, ReadyDispatch, Ticker}

ASSUME ActorsAssumption ==
    /\ IsFiniteSet(Threads)
    /\ Main \notin Threads \cup {ReadyDispatch, Ticker}
    /\ ReadyDispatch \notin Threads \cup {Ticker}
    /\ Ticker \notin Threads
    /\ NoActor \notin Actors
    /\ NoThread \notin Threads

ASSUME BoundsAssumption ==
    /\ WakeLimits \subseteq Nat \ {0}
    /\ PumpBatch \in Nat \ {0}
    /\ MaxQueue \in Nat
    /\ Callers \subseteq Actors
    /\ Nesting \subseteq Threads
    /\ Watched \subseteq Threads
    /\ Ends \in BOOLEAN

\* A blocked continuation: BlockWakeKey, whether BlockDeadlineTimestamp is set,
\* BlockWaiter, and whether the waiter's TryWake has answered true
Waits == [key : Keys, timed : BOOLEAN, waiter : Waiters, granted : BOOLEAN]

\* A wait as an HLE export requests it
NewWaits == {w \in Waits : ~w.granted}

\* A WakeBlockedThreads call under way: its key and the wakes it may still do
Calls == [key : Keys, limit : Nat \ {0}]

ASSUME NoneAssumption == NoWait \notin Waits /\ NoCall \notin Calls

States == {"none", "Ready", "Running", "Blocked", "Exited", "Faulted"}

\* Where the executor of a guest thread is inside RunGuestThread
Slices == {"off", "entered", "entering", "resuming", "guest",
           "yielding", "unwinding", "polling", "leaving"}

Steps == {"idle", "wake", "pump", "enter", "claim", "inline", "dispatch", "tick"}

Sessions == {"guest", "draining", "stopping", "disposing", "clearing",
             "freed", "leaked"}

VARIABLES
    guestThreads,    \* the keys of _guestThreads
    state,           \* GuestThreadState.State
    executorActive,  \* GuestThreadState.ExecutorActive
    wait,            \* the registered blocked continuation, or NoWait
    readyQueue,      \* _readyGuestThreads
    work,            \* GuestExecutionRunner._work is set
    exec,            \* the stage of the thread's slice
    nested,          \* the slice is inside TryCallGuestFunction
    pending,         \* the thread-static block request, or NoWait
    resuming,        \* the continuation consumed by the slice, until Resume()
    gate,            \* who holds _guestThreadGate between two steps
    todo,            \* threads the loop of WakeBlockedThreads has yet to visit
    woken,           \* whether that loop has woken a thread
    left,            \* candidates TryClaimReadyGuestThreadLocked has yet to see
    pc,              \* what each actor is doing
    call,            \* the WakeBlockedThreads call of each actor
    creating,        \* actors inside TryStartThread
    claimed,         \* the thread each actor has claimed and not yet scheduled
    pumpOwner,       \* the actor that set _guestThreadPumpDepth
    budget,          \* iterations its Pump may still do
    inline,          \* the thread the main host thread runs itself
    session,         \* the progress of the main host thread
    forcedExit       \* _forcedGuestExit

tableVars == <<guestThreads, state, executorActive, wait, readyQueue>>
waitVars  == <<pending, resuming>>
sliceVars == <<work, exec, nested, waitVars>>
gateVars  == <<gate, todo, woken, left>>
callVars  == <<pc, call, creating, claimed>>
pumpVars  == <<pumpOwner, budget>>
mainVars  == <<inline, session, forcedExit>>
vars == <<tableVars, sliceVars, gateVars, callVars, pumpVars, mainVars>>

Init ==
    /\ guestThreads = {}
    /\ state = [t \in Threads |-> "none"]
    /\ executorActive = [t \in Threads |-> FALSE]
    /\ wait = [t \in Threads |-> NoWait]
    /\ readyQueue = <<>>
    /\ work = [t \in Threads |-> FALSE]
    /\ exec = [t \in Threads |-> "off"]
    /\ nested = [t \in Threads |-> FALSE]
    /\ pending = [t \in Threads |-> NoWait]
    /\ resuming = [t \in Threads |-> NoWait]
    /\ gate = NoActor
    /\ todo = {}
    /\ woken = FALSE
    /\ left = 0
    /\ pc = [a \in Actors |-> "idle"]
    /\ call = [a \in Actors |-> NoCall]
    /\ creating = {}
    /\ claimed = [a \in Actors |-> NoThread]
    /\ pumpOwner = NoActor
    /\ budget = 0
    /\ inline = NoThread
    /\ session = "guest"
    /\ forcedExit = FALSE

-----------------------------------------------------------------------------
(* What the steps share *)

GateFree == gate = NoActor

\* a may act under the gate: it takes it now or has kept it since its last step
MayEnter(a) == gate \in {NoActor, a}

\* the background threads are still told to run
DispatchersOn == session \in {"guest", "draining"}

InGuestCode(a) == IF a \in Threads THEN exec[a] = "guest"
                                   ELSE a = Main /\ session = "guest"

\* a executes guest code and may start an HLE call
CanCall(a) == InGuestCode(a) /\ pc[a] = "idle"

GoTo(a, step) == pc' = [pc EXCEPT ![a] = step]

SetSlice(t, stage) == exec' = [exec EXCEPT ![t] = stage]

SetState(t, value) == state' = [state EXCEPT ![t] = value]

Parked(t) == t \in guestThreads /\ state[t] = "Blocked" /\ wait[t] # NoWait

ParkedOn(k) == {t \in Threads : Parked(t) /\ wait[t].key = k}

Expirable == {t \in Threads : Parked(t) /\ wait[t].timed}

\* BlockDeadlineTimestamp = 0
Disarmed(w) == [w EXCEPT !.timed = FALSE]

\* The sequences that list the finite set S, each element once
Orderings(S) ==
    {q \in [1..Cardinality(S) -> S] : \A x \in S : \E i \in DOMAIN q : q[i] = x}

\* TryWake has answered true, and the deadline is cleared
Granted(w) == [w EXCEPT !.timed = FALSE, !.granted = TRUE]

\* TryWake answered true: Blocked -> Ready, and the thread is enqueued
MakeReady(t) ==
    /\ SetState(t, "Ready")
    /\ wait' = [wait EXCEPT ![t] = Granted(@)]
    /\ readyQueue' = Append(readyQueue, t)

\* WakeExpiredBlockedGuestThreads with S the threads whose deadline has passed
WakeExpired(S) ==
    /\ GateFree
    /\ S \subseteq Expirable
    /\ state' = [t \in Threads |-> IF t \in S THEN "Ready" ELSE state[t]]
    /\ wait' = [t \in Threads |-> IF t \in S THEN Disarmed(wait[t]) ELSE wait[t]]
    /\ \E order \in Orderings(S) : readyQueue' = readyQueue \o order

-----------------------------------------------------------------------------
(* WakeBlockedThreads *)

\* An HLE export of a signals the objects behind key k
CallWake(a, k, n) ==
    /\ a \in Callers
    /\ CanCall(a)
    /\ GoTo(a, "wake")
    /\ call' = [call EXCEPT ![a] = [key |-> k, limit |-> n]]
    /\ UNCHANGED <<tableVars, sliceVars, gateVars, creating, claimed, pumpVars, mainVars>>

\* The threads the loop may still wake: computed when the gate is taken, and
\* exact until it is released, since State only changes under the gate
Candidates(a) == IF gate = a THEN todo ELSE ParkedOn(call[a].key)

\* The loop goes on with rest, at most n wakes, some thread woken so far or not
ContinueScan(a, rest, n, some) ==
    IF rest = {} \/ n = 0
      THEN /\ gate' = NoActor /\ todo' = {} /\ woken' = FALSE
           /\ call' = [call EXCEPT ![a] = NoCall]
           /\ GoTo(a, IF some THEN "pump" ELSE "idle")
      ELSE /\ gate' = a /\ todo' = rest /\ woken' = some
           /\ call' = [call EXCEPT ![a] = [key |-> call[a].key, limit |-> n]]
           /\ UNCHANGED pc

Scanning(a) == pc[a] = "wake" /\ MayEnter(a)

WokenSoFar(a) == gate = a /\ woken

\* TryWake of t's waiter answers true
WakeWaiter(a, t) ==
    /\ Scanning(a)
    /\ t \in Candidates(a)
    /\ MakeReady(t)
    /\ ContinueScan(a, Candidates(a) \ {t}, call[a].limit - 1, TRUE)
    /\ UNCHANGED <<guestThreads, executorActive, sliceVars, left, creating, claimed,
                   pumpVars, mainVars>>

\* Mutant of PassWaiter: a visit counts as a wake
PassWaiterCounting(a, t) ==
    /\ Scanning(a)
    /\ t \in Candidates(a)
    /\ ContinueScan(a, Candidates(a) \ {t}, call[a].limit - 1, WokenSoFar(a))
    /\ UNCHANGED <<tableVars, sliceVars, left, creating, claimed, pumpVars, mainVars>>

\* TryWake of t's waiter answers false
PassWaiter(a, t) ==
    /\ Scanning(a)
    /\ t \in Candidates(a)
    /\ ContinueScan(a, Candidates(a) \ {t}, call[a].limit, WokenSoFar(a))
    /\ UNCHANGED <<tableVars, sliceVars, left, creating, claimed, pumpVars, mainVars>>

\* Nobody is parked on the key
WakeNobody(a) ==
    /\ Scanning(a)
    /\ Candidates(a) = {}
    /\ ContinueScan(a, {}, 0, WokenSoFar(a))
    /\ UNCHANGED <<tableVars, sliceVars, left, creating, claimed, pumpVars, mainVars>>

-----------------------------------------------------------------------------
(* Pump, DispatchReadyGuestThreads and TryClaimReadyGuestThreadLocked *)

NothingToPump == readyQueue = <<>> /\ Expirable = {}

\* An HLE export of a that sleeps calls Pump first
CallPump(a) ==
    /\ a \in Callers
    /\ CanCall(a)
    /\ ~NothingToPump   \* else the call changes nothing
    /\ GoTo(a, "pump")
    /\ UNCHANGED <<tableVars, sliceVars, gateVars, call, creating, claimed, pumpVars,
                   mainVars>>

AfterPump(a) == IF a \in creating THEN "dispatch" ELSE "idle"

\* Pump begins with WakeExpiredBlockedGuestThreads
PumpWakeExpired(a) ==
    /\ pc[a] = "pump"
    /\ \E S \in SUBSET Expirable : WakeExpired(S)
    /\ GoTo(a, "enter")
    /\ UNCHANGED <<guestThreads, executorActive, sliceVars, gateVars, call, creating,
                   claimed, pumpVars, mainVars>>

\* Mutant of PumpSkip: a nested Pump waits for the outer one
PumpSkipWaiting(a) ==
    /\ pc[a] = "enter"
    /\ readyQueue = <<>>
    /\ GoTo(a, AfterPump(a))
    /\ UNCHANGED <<tableVars, sliceVars, gateVars, call, creating, claimed, pumpVars,
                   mainVars>>

\* No ready thread, or another Pump is active: return at once
PumpSkip(a) ==
    /\ pc[a] = "enter"
    /\ readyQueue = <<>> \/ pumpOwner # NoActor
    /\ GoTo(a, AfterPump(a))
    /\ UNCHANGED <<tableVars, sliceVars, gateVars, call, creating, claimed, pumpVars,
                   mainVars>>

\* Mutant of PumpEnter: the budget is off by one
PumpEnterLong(a) ==
    /\ pc[a] = "enter"
    /\ readyQueue # <<>>
    /\ pumpOwner = NoActor
    /\ pumpOwner' = a
    /\ budget' = PumpBatch + 1
    /\ GoTo(a, "claim")
    /\ UNCHANGED <<tableVars, sliceVars, gateVars, call, creating, claimed, mainVars>>

\* _guestThreadPumpDepth: 0 -> 1
PumpEnter(a) ==
    /\ pc[a] = "enter"
    /\ readyQueue # <<>>
    /\ pumpOwner = NoActor
    /\ pumpOwner' = a
    /\ budget' = PumpBatch
    /\ GoTo(a, "claim")
    /\ UNCHANGED <<tableVars, sliceVars, gateVars, call, creating, claimed, mainVars>>

\* Pump returns when its budget is spent or nothing was claimed, and
\* DispatchReadyGuestThreads when nothing was claimed
LeaveLoop(a) ==
    IF pc[a] = "claim"
      THEN /\ pumpOwner' = NoActor /\ budget' = 0
           /\ GoTo(a, AfterPump(a))
           /\ UNCHANGED creating
      ELSE /\ GoTo(a, "idle")
           /\ creating' = creating \ {a}
           /\ UNCHANGED pumpVars

\* a is inside TryClaimReadyGuestThreadLocked
Claiming(a) == pc[a] \in {"claim", "dispatch"} /\ claimed[a] = NoThread /\ MayEnter(a)

ClaimNothing(a) ==
    /\ Claiming(a)
    /\ readyQueue = <<>>
    /\ LeaveLoop(a)
    /\ UNCHANGED <<tableVars, sliceVars, gateVars, call, claimed, mainVars>>

\* Mutant of ClaimReady: ExecutorActive is not looked at
ClaimReadyTwice(a) ==
    /\ Claiming(a)
    /\ readyQueue # <<>>
    /\ LET t == Head(readyQueue) IN
         /\ state[t] = "Ready"
         /\ SetState(t, "Running")
         /\ executorActive' = [executorActive EXCEPT ![t] = TRUE]
         /\ claimed' = [claimed EXCEPT ![a] = t]
    /\ readyQueue' = Tail(readyQueue)
    /\ gate' = NoActor
    /\ left' = 0
    /\ UNCHANGED <<guestThreads, wait, sliceVars, todo, woken, pc, call, creating,
                   pumpVars, mainVars>>

\* Mutant of ClaimReady: the state of the entry is not looked at
ClaimStale(a) ==
    /\ Claiming(a)
    /\ readyQueue # <<>>
    /\ LET t == Head(readyQueue) IN
         /\ ~executorActive[t]
         /\ SetState(t, "Running")
         /\ executorActive' = [executorActive EXCEPT ![t] = TRUE]
         /\ claimed' = [claimed EXCEPT ![a] = t]
    /\ readyQueue' = Tail(readyQueue)
    /\ gate' = NoActor
    /\ left' = 0
    /\ UNCHANGED <<guestThreads, wait, sliceVars, todo, woken, pc, call, creating,
                   pumpVars, mainVars>>

\* The head of the queue is Ready and nobody executes it
ClaimReady(a) ==
    /\ Claiming(a)
    /\ readyQueue # <<>>
    /\ LET t == Head(readyQueue) IN
         /\ state[t] = "Ready" /\ ~executorActive[t]
         /\ SetState(t, "Running")
         /\ executorActive' = [executorActive EXCEPT ![t] = TRUE]
         /\ claimed' = [claimed EXCEPT ![a] = t]
    /\ readyQueue' = Tail(readyQueue)
    /\ gate' = NoActor
    /\ left' = 0
    /\ UNCHANGED <<guestThreads, wait, sliceVars, todo, woken, pc, call, creating,
                   pumpVars, mainVars>>

\* Mutant of PassHead: an entry whose executor has not left yet is dropped
PassHeadDropping(a) ==
    LET head == Head(readyQueue)
        more == (IF gate = a THEN left ELSE Len(readyQueue)) - 1
    IN
    /\ Claiming(a)
    /\ readyQueue # <<>>
    /\ state[head] # "Ready" \/ executorActive[head]
    /\ readyQueue' = Tail(readyQueue)
    /\ IF more = 0
         THEN gate' = NoActor /\ left' = 0 /\ LeaveLoop(a)
         ELSE gate' = a /\ left' = more /\ UNCHANGED <<pc, creating, pumpVars>>
    /\ UNCHANGED <<guestThreads, state, executorActive, wait, sliceVars, todo, woken,
                   call, claimed, mainVars>>

\* The head is stale and dropped, or its last executor has not left yet and it
\* goes to the back; the loop looks at each entry once
PassHead(a) ==
    LET head == Head(readyQueue)
        more == (IF gate = a THEN left ELSE Len(readyQueue)) - 1
    IN
    /\ Claiming(a)
    /\ readyQueue # <<>>
    /\ state[head] # "Ready" \/ executorActive[head]
    /\ readyQueue' = IF state[head] = "Ready" THEN Append(Tail(readyQueue), head)
                                              ELSE Tail(readyQueue)
    /\ IF more = 0
         THEN gate' = NoActor /\ left' = 0 /\ LeaveLoop(a)
         ELSE gate' = a /\ left' = more /\ UNCHANGED <<pc, creating, pumpVars>>
    /\ UNCHANGED <<guestThreads, state, executorActive, wait, sliceVars, todo, woken,
                   call, claimed, mainVars>>

\* One iteration of Pump's loop is over
EndIteration(a) ==
    IF pc[a] # "claim" THEN UNCHANGED <<pc, creating, pumpVars>>
    ELSE IF budget = 1 THEN LeaveLoop(a)
    ELSE budget' = budget - 1 /\ UNCHANGED <<pc, creating, pumpOwner>>

\* ScheduleGuestThreadExecution hands the claimed thread to its runner
Schedule(a) ==
    /\ pc[a] \in {"claim", "dispatch"}
    /\ claimed[a] # NoThread
    /\ ~(a = Main /\ session = "draining")
    /\ GateFree
    /\ work' = [work EXCEPT ![claimed[a]] = TRUE]
    /\ claimed' = [claimed EXCEPT ![a] = NoThread]
    /\ EndIteration(a)
    /\ UNCHANGED <<tableVars, exec, nested, waitVars, gateVars, call, mainVars>>

\* ClearGuestThreads has disposed the runner, which drops the work silently
ScheduleDropped(a) ==
    /\ session = "freed"
    /\ pc[a] \in {"claim", "dispatch"}
    /\ claimed[a] # NoThread
    /\ GateFree
    /\ claimed' = [claimed EXCEPT ![a] = NoThread]
    /\ EndIteration(a)
    /\ UNCHANGED <<tableVars, sliceVars, gateVars, call, mainVars>>

\* Pump("entry_return") runs the claimed thread on the main host thread
RunInline ==
    /\ pc[Main] = "claim"
    /\ claimed[Main] # NoThread
    /\ session = "draining"
    /\ inline' = claimed[Main]
    /\ claimed' = [claimed EXCEPT ![Main] = NoThread]
    /\ SetSlice(claimed[Main], "entered")
    /\ GoTo(Main, "inline")
    /\ UNCHANGED <<tableVars, work, nested, waitVars, gateVars, call, creating, pumpVars,
                   session, forcedExit>>

\* a's HLE export creates guest thread t
TryStartThread(a, t) ==
    /\ a \in Callers
    /\ CanCall(a)
    /\ GateFree
    /\ state[t] = "none"
    /\ guestThreads' = guestThreads \cup {t}
    /\ SetState(t, "Ready")
    /\ readyQueue' = Append(readyQueue, t)
    /\ creating' = creating \cup {a}
    /\ GoTo(a, "pump")
    /\ UNCHANGED <<executorActive, wait, sliceVars, gateVars, call, claimed, pumpVars,
                   mainVars>>

-----------------------------------------------------------------------------
(* RunGuestThread: one slice of guest thread t *)

\* GuestExecutionRunner.ThreadMain takes the work it was given
TakeWork(t) ==
    /\ work[t]
    /\ exec[t] = "off"
    /\ work' = [work EXCEPT ![t] = FALSE]
    /\ SetSlice(t, "entered")
    /\ UNCHANGED <<tableVars, nested, waitVars, gateVars, callVars, pumpVars, mainVars>>

\* Mutant of ReleaseExecutor: ExecutorActive is not reset
KeepExecutor(t) ==
    /\ SetSlice(t, "off")
    /\ IF inline # t THEN UNCHANGED <<pc, creating, pumpVars, inline>>
       ELSE /\ inline' = NoThread
            /\ IF budget = 1
                 THEN pumpOwner' = NoActor /\ budget' = 0 /\ GoTo(Main, "idle")
                 ELSE budget' = budget - 1 /\ GoTo(Main, "claim") /\ UNCHANGED pumpOwner
            /\ UNCHANGED creating
    /\ UNCHANGED executorActive

\* The executor of t is done; an inline Pump goes on with its next iteration
ReleaseExecutor(t) ==
    /\ executorActive' = [executorActive EXCEPT ![t] = FALSE]
    /\ SetSlice(t, "off")
    /\ IF inline # t THEN UNCHANGED <<pc, creating, pumpVars, inline>>
       ELSE /\ inline' = NoThread
            /\ IF budget = 1
                 THEN pumpOwner' = NoActor /\ budget' = 0 /\ GoTo(Main, "idle")
                 ELSE budget' = budget - 1 /\ GoTo(Main, "claim") /\ UNCHANGED pumpOwner
            /\ UNCHANGED creating

\* _forcedGuestExit is set: never enter guest code again
RefuseSlice(t) ==
    /\ exec[t] = "entered"
    /\ forcedExit
    /\ GateFree
    /\ SetState(t, "Faulted")
    /\ ReleaseExecutor(t)
    /\ UNCHANGED <<guestThreads, wait, readyQueue, work, nested, waitVars, gateVars, call,
                   claimed, session, forcedExit>>

\* Mutant of EnterSlice: _forcedGuestExit is not looked at
EnterAnyway(t) ==
    /\ exec[t] = "entered"
    /\ SetSlice(t, "entering")
    /\ UNCHANGED <<tableVars, work, nested, waitVars, gateVars, callVars, pumpVars, mainVars>>

\* The check of _forcedGuestExit is passed
EnterSlice(t) ==
    /\ exec[t] = "entered"
    /\ ~forcedExit
    /\ SetSlice(t, "entering")
    /\ UNCHANGED <<tableVars, work, nested, waitVars, gateVars, callVars, pumpVars, mainVars>>

\* The continuation is taken out of the thread's state
ConsumeWait(t) ==
    /\ resuming' = [resuming EXCEPT ![t] = wait[t]]
    /\ wait' = [wait EXCEPT ![t] = NoWait]

\* Consume the blocked continuation, if there is one
BeginSlice(t) ==
    /\ exec[t] = "entering"
    /\ GateFree
    /\ SetSlice(t, IF wait[t] = NoWait THEN "guest" ELSE "resuming")
    /\ ConsumeWait(t)
    /\ UNCHANGED <<guestThreads, state, executorActive, readyQueue, work, nested, pending, gateVars, callVars, pumpVars, mainVars>>

\* BlockWaiter.Resume() computes the result of the wait; then guest code runs
Resume(t) ==
    /\ exec[t] = "resuming"
    /\ resuming' = [resuming EXCEPT ![t] = NoWait]
    /\ SetSlice(t, "guest")
    /\ UNCHANGED <<tableVars, work, nested, pending, gateVars, callVars, pumpVars, mainVars>>

\* An HLE export asks to block the current thread (RequestCurrentThreadBlock)
RequestBlock(t, w) ==
    /\ CanCall(t)
    /\ nested[t] => Len(readyQueue) < MaxQueue
    /\ pending' = [pending EXCEPT ![t] = w]
    /\ SetSlice(t, "yielding")
    /\ UNCHANGED <<tableVars, work, nested, resuming, gateVars, callVars, pumpVars, mainVars>>

\* Mutant of RegisterBlocked: only waits with a deadline are registered
RegisterTimed(t) ==
    /\ exec[t] = "yielding"
    /\ GateFree
    /\ wait' = [wait EXCEPT ![t] = IF pending[t].timed THEN pending[t] ELSE NoWait]
    /\ pending' = [pending EXCEPT ![t] = NoWait]
    /\ SetSlice(t, "unwinding")
    /\ UNCHANGED <<guestThreads, state, executorActive, readyQueue, work, nested, resuming,
                   gateVars, callVars, pumpVars, mainVars>>

\* The import dispatch consumes the request and registers the continuation
RegisterBlocked(t) ==
    /\ exec[t] = "yielding"
    /\ GateFree
    /\ wait' = [wait EXCEPT ![t] = pending[t]]
    /\ pending' = [pending EXCEPT ![t] = NoWait]
    /\ SetSlice(t, "unwinding")
    /\ UNCHANGED <<guestThreads, state, executorActive, readyQueue, work, nested, resuming,
                   gateVars, callVars, pumpVars, mainVars>>

Parking(t) == exec[t] = "unwinding" /\ GateFree

\* The exit section: Blocked, and TryWake answers false
StayParked(t) ==
    /\ Parking(t) /\ ~nested[t]
    /\ SetState(t, "Blocked")
    /\ SetSlice(t, "leaving")
    /\ UNCHANGED <<guestThreads, executorActive, wait, readyQueue, work, nested, waitVars, gateVars, callVars, pumpVars, mainVars>>

\* The exit section: the wait was satisfied while the slice was unwinding
WakeAtPark(t) ==
    /\ Parking(t) /\ ~nested[t] /\ wait[t] # NoWait
    /\ MakeReady(t)
    /\ SetSlice(t, "leaving")
    /\ UNCHANGED <<guestThreads, executorActive, work, nested, waitVars, gateVars, callVars,
                   pumpVars, mainVars>>

\* Guest code returns (Exited, or Faulted under a forced exit) or faults
EndGuestCode(t, outcome) ==
    /\ CanCall(t) /\ ~nested[t]
    /\ GateFree
    /\ outcome = "Exited" => ~forcedExit
    /\ SetState(t, outcome)
    /\ SetSlice(t, "leaving")
    /\ UNCHANGED <<guestThreads, executorActive, wait, readyQueue, work, nested, waitVars, gateVars, callVars, pumpVars, mainVars>>

\* The finally block of RunGuestThread
LeaveSlice(t) ==
    /\ exec[t] = "leaving"
    /\ GateFree
    /\ ReleaseExecutor(t)
    /\ UNCHANGED <<guestThreads, state, wait, readyQueue, work, nested, waitVars, gateVars,
                   call, claimed, session, forcedExit>>

-----------------------------------------------------------------------------
(* TryCallGuestFunction: a guest callback nested in an HLE export of t *)

EnterCallback(t) ==
    /\ t \in Nesting
    /\ CanCall(t) /\ ~nested[t]
    /\ ~forcedExit
    /\ nested' = [nested EXCEPT ![t] = TRUE]
    /\ UNCHANGED <<tableVars, work, exec, waitVars, gateVars, callVars, pumpVars, mainVars>>

\* The callback returns or fails; the export goes on
LeaveCallback(t) ==
    /\ CanCall(t) /\ nested[t]
    /\ nested' = [nested EXCEPT ![t] = FALSE]
    /\ UNCHANGED <<tableVars, work, exec, waitVars, gateVars, callVars, pumpVars, mainVars>>

\* ResumeBlockedNestedGuestCallback exposes the owner as Blocked and polls
NestedPark(t) ==
    /\ Parking(t) /\ nested[t] /\ ~forcedExit
    /\ SetState(t, "Blocked")
    /\ SetSlice(t, "polling")
    /\ UNCHANGED <<guestThreads, executorActive, wait, readyQueue, work, nested, waitVars, gateVars, callVars, pumpVars, mainVars>>

\* TryWake answers true there: Ready, but not enqueued
NestedWake(t) ==
    /\ Parking(t) /\ nested[t] /\ ~forcedExit /\ wait[t] # NoWait
    /\ SetState(t, "Ready")
    /\ wait' = [wait EXCEPT ![t] = Granted(@)]
    /\ SetSlice(t, "polling")
    /\ UNCHANGED <<guestThreads, executorActive, readyQueue, work, nested, waitVars, gateVars, callVars, pumpVars, mainVars>>

\* The polling loop runs WakeExpiredBlockedGuestThreads itself
PollExpired(t) ==
    /\ exec[t] = "polling"
    /\ ~forcedExit
    /\ \E S \in SUBSET Expirable : S # {} /\ WakeExpired(S)
    /\ UNCHANGED <<guestThreads, executorActive, sliceVars, gateVars, callVars, pumpVars,
                   mainVars>>

\* The polling loop sees the owner Ready and takes the continuation back
NestedResume(t) ==
    /\ exec[t] = "polling"
    /\ ~forcedExit
    /\ GateFree
    /\ state[t] = "Ready" /\ wait[t] # NoWait
    /\ SetState(t, "Running")
    /\ ConsumeWait(t)
    /\ SetSlice(t, "resuming")
    /\ UNCHANGED <<guestThreads, executorActive, readyQueue, work, nested, pending, gateVars,
                   callVars, pumpVars, mainVars>>

\* A forced exit ends the callback with an error: the export returns to the
\* guest with the owner's state and continuation as they are. The test is made
\* once more after a continuation was taken back, whose waiter is then dropped
NestedForced(t) ==
    /\ \/ exec[t] = "polling"
       \/ exec[t] \in {"unwinding", "resuming"} /\ nested[t]
    /\ forcedExit
    /\ nested' = [nested EXCEPT ![t] = FALSE]
    /\ resuming' = [resuming EXCEPT ![t] = NoWait]
    /\ SetSlice(t, "guest")
    /\ UNCHANGED <<tableVars, work, pending, gateVars, callVars, pumpVars, mainVars>>

-----------------------------------------------------------------------------
(* The background threads *)

\* One iteration of SharpEmu-GuestThreadDispatcher: expired waits first
TickerWake(S) ==
    /\ DispatchersOn
    /\ pc[Ticker] = "idle"
    /\ S # {} \/ readyQueue # <<>>   \* else the iteration changes nothing
    /\ WakeExpired(S)
    /\ GoTo(Ticker, "tick")
    /\ UNCHANGED <<guestThreads, executorActive, sliceVars, gateVars, call, creating,
                   claimed, pumpVars, mainVars>>

\* then a Pump, if the ready count is positive
TickerPump ==
    /\ pc[Ticker] = "tick"
    /\ GoTo(Ticker, IF readyQueue # <<>> THEN "pump" ELSE "idle")
    /\ UNCHANGED <<tableVars, sliceVars, gateVars, call, creating, claimed, pumpVars,
                   mainVars>>

\* Mutant of DispatchTick: respects the depth of Pump
DispatchTickPolite ==
    /\ DispatchersOn
    /\ pc[ReadyDispatch] = "idle"
    /\ readyQueue # <<>>
    /\ pumpOwner = NoActor
    /\ GoTo(ReadyDispatch, "dispatch")
    /\ UNCHANGED <<tableVars, sliceVars, gateVars, call, creating, claimed, pumpVars,
                   mainVars>>

\* One iteration of SharpEmu-ReadyDispatch that finds an entry in the queue
DispatchTick ==
    /\ DispatchersOn
    /\ pc[ReadyDispatch] = "idle"
    /\ readyQueue # <<>>
    /\ GoTo(ReadyDispatch, "dispatch")
    /\ UNCHANGED <<tableVars, sliceVars, gateVars, call, creating, claimed, pumpVars,
                   mainVars>>

-----------------------------------------------------------------------------
(* The session: ExecuteEntry after the guest entry returned, and Dispose *)

EntryReturn ==
    /\ Ends
    /\ CanCall(Main)
    /\ session' = IF forcedExit THEN "stopping" ELSE "draining"
    /\ UNCHANGED <<tableVars, sliceVars, gateVars, callVars, pumpVars, inline, forcedExit>>

\* An iteration of PumpUntilGuestThreadsIdle
DrainPump ==
    /\ session = "draining"
    /\ pc[Main] = "idle"
    /\ ~forcedExit
    /\ GoTo(Main, "pump")
    /\ UNCHANGED <<tableVars, sliceVars, gateVars, call, creating, claimed, pumpVars,
                   mainVars>>

\* No thread is Ready, Running or Blocked, or the session is being stopped;
\* the finally block then stops the two background threads
DrainDone ==
    /\ session = "draining"
    /\ pc[Main] = "idle"
    /\ forcedExit \/ (GateFree /\ \A t \in guestThreads : state[t] \in {"Exited", "Faulted"})
    /\ session' = "stopping"
    /\ UNCHANGED <<tableVars, sliceVars, gateVars, callVars, pumpVars, inline, forcedExit>>

RequestHostShutdown ==
    /\ Ends
    /\ DispatchersOn
    /\ ~forcedExit
    /\ forcedExit' = TRUE
    /\ UNCHANGED <<tableVars, sliceVars, gateVars, callVars, pumpVars, inline, session>>

Dispose ==
    /\ session = "stopping"
    /\ session' = "disposing"
    /\ forcedExit' = TRUE
    /\ UNCHANGED <<tableVars, sliceVars, gateVars, callVars, pumpVars, inline>>

\* WaitForGuestThreadQuiescence sees no active executor
Quiesce ==
    /\ session = "disposing"
    /\ GateFree
    /\ \A t \in guestThreads : ~executorActive[t]
    /\ session' = "clearing"
    /\ UNCHANGED <<tableVars, sliceVars, gateVars, callVars, pumpVars, inline, forcedExit>>

\* or gives up after five seconds and leaves the session allocated
LeakSession ==
    /\ session = "disposing"
    /\ GateFree
    /\ \E t \in guestThreads : executorActive[t]
    /\ session' = "leaked"
    /\ UNCHANGED <<tableVars, sliceVars, gateVars, callVars, pumpVars, inline, forcedExit>>

\* ClearGuestThreads; everything guest code needs is freed after it
ClearGuestThreads ==
    /\ session = "clearing"
    /\ GateFree
    /\ guestThreads' = {}
    /\ readyQueue' = <<>>
    /\ session' = "freed"
    /\ UNCHANGED <<state, executorActive, wait, sliceVars, gateVars, callVars, pumpVars,
                   inline, forcedExit>>

\* The host process goes on without the session
Over == session \in {"freed", "leaked"} /\ UNCHANGED vars

-----------------------------------------------------------------------------
\* Inside Pump, a dispatch or a wake loop that finds nobody, actor a goes on
LoopStep(a) ==
    \/ WakeNobody(a)
    \/ PumpWakeExpired(a) \/ PumpSkip(a) \/ PumpEnter(a)
    \/ ClaimNothing(a) \/ ClaimReady(a) \/ PassHead(a)
    \/ Schedule(a) \/ ScheduleDropped(a)

\* The steps an HLE call or a background loop of actor a takes by itself
ActorStep(a) == LoopStep(a) \/ \E t \in Threads : WakeWaiter(a, t) \/ PassWaiter(a, t)

\* The executor of t goes on, without calling into the waiter
RunnerStep(t) ==
    \/ TakeWork(t) \/ RefuseSlice(t) \/ EnterSlice(t) \/ BeginSlice(t)
    \/ RegisterBlocked(t) \/ LeaveSlice(t) \/ NestedResume(t) \/ NestedForced(t)

\* The steps the executor of t takes by itself
SliceStep(t) ==
    \/ RunnerStep(t) \/ Resume(t)
    \/ StayParked(t) \/ WakeAtPark(t) \/ NestedPark(t) \/ NestedWake(t)

\* Guest code ends, calls back into itself or returns from the callback
GuestStep(t) ==
    \/ \E outcome \in {"Exited", "Faulted"} : EndGuestCode(t, outcome)
    \/ EnterCallback(t) \/ LeaveCallback(t)

BackgroundStep ==
    \/ \E S \in SUBSET Expirable : TickerWake(S)
    \/ TickerPump \/ DispatchTick
    \/ \E t \in Threads : PollExpired(t)

\* The main host thread once the guest entry has returned, and the host's stop
SessionStep ==
    \/ RunInline \/ DrainPump \/ DrainDone
    \/ Dispose \/ Quiesce \/ LeakSession \/ ClearGuestThreads
    \/ RequestHostShutdown
    \/ Over

Next ==
    \/ \E a \in Actors : ActorStep(a)
    \/ \E a \in Actors, k \in Keys, n \in WakeLimits : CallWake(a, k, n)
    \/ \E a \in Actors : CallPump(a)
    \/ \E a \in Actors, t \in Threads : TryStartThread(a, t)
    \/ \E t \in Threads : SliceStep(t) \/ GuestStep(t)
    \/ \E t \in Threads, w \in NewWaits : RequestBlock(t, w)
    \/ BackgroundStep
    \/ EntryReturn
    \/ SessionStep

Spec == Init /\ [][Next]_vars

(* Fairness.  Monitor is not first-come-first-served, but a host thread that
   keeps contending for the gate gets it at last: the steps that need the gate
   are strongly fair.  Guest code is never fair, it may compute for ever.  Each
   group names only the threads its properties depend on.                   *)

\* Who holds the gate between two iterations of a loop goes on
GateFairness == WF_vars(\E a \in Actors : gate = a /\ ActorStep(a))

\* SharpEmu-ReadyDispatch keeps draining, and a slice that is over unwinds
DispatchFairness ==
    /\ WF_vars(DispatchTick)
    /\ SF_vars(ActorStep(ReadyDispatch))
    /\ \A t \in Watched : SF_vars(SliceStep(t))

\* SharpEmu-GuestThreadDispatcher keeps ticking, and every deadline passes
TickerFairness ==
    /\ SF_vars(ActorStep(Ticker))
    /\ WF_vars(TickerPump)
    /\ \A t \in Watched : SF_vars(\E S \in SUBSET Expirable : t \in S /\ TickerWake(S))

\* A guest thread inside an HLE call goes on with it
CallFairness ==
    \A t \in Watched : SF_vars(ActorStep(t))

\* Guest code that only makes imports which do not block keeps making them
ImportFairness ==
    /\ \A t \in Threads : SF_vars(SliceStep(t))
    /\ \A t \in Threads : SF_vars(\E k \in Keys, n \in WakeLimits : CallWake(t, k, n))

ProgressSpec ==
    Spec /\ GateFairness /\ DispatchFairness /\ TickerFairness /\ CallFairness
ImportSpec == Spec /\ GateFairness /\ CallFairness /\ ImportFairness

-----------------------------------------------------------------------------
(* Properties *)

\* A registered wait that t will not take up any more: a forced exit has sent t
\* back to guest code, or has ended it
Abandoned(t) == exec[t] = "guest" \/ state[t] \in {"Exited", "Faulted"}

\* A wait t is registered in although it is not, or not any more, the wait it is in
Deserted(t) == wait[t] # NoWait /\ (pending[t] # NoWait \/ Abandoned(t))

\* The wait t is in, apart from its deadline, whichever part of the scheduler
\* holds it: the block request, the registered continuation or the slice that
\* resumes it.  The primitives' properties are about it.
HeldWait(t) ==
    LET w == IF pending[t] # NoWait THEN pending[t]
             ELSE IF wait[t] # NoWait /\ ~Abandoned(t) THEN wait[t] ELSE resuming[t]
    IN IF w = NoWait THEN NoWait ELSE Disarmed(w)

\* Every variable keeps its type; a thread outside the table has no state.
TypeOK ==
    /\ guestThreads \subseteq Threads
    /\ state \in [Threads -> States]
    /\ executorActive \in [Threads -> BOOLEAN]
    /\ wait \in [Threads -> Waits \cup {NoWait}]
    /\ readyQueue \in Seq(Threads)
    /\ work \in [Threads -> BOOLEAN]
    /\ exec \in [Threads -> Slices]
    /\ nested \in [Threads -> BOOLEAN]
    /\ pending \in [Threads -> Waits \cup {NoWait}]
    /\ resuming \in [Threads -> Waits \cup {NoWait}]
    /\ gate \in Actors \cup {NoActor}
    /\ todo \subseteq Threads
    /\ woken \in BOOLEAN
    /\ left \in Nat
    /\ pc \in [Actors -> Steps]
    /\ call \in [Actors -> Calls \cup {NoCall}]
    /\ creating \subseteq Actors
    /\ claimed \in [Actors -> Threads \cup {NoThread}]
    /\ pumpOwner \in Actors \cup {NoActor}
    /\ budget \in 0..PumpBatch
    /\ inline \in Threads \cup {NoThread}
    /\ session \in Sessions
    /\ forcedExit \in BOOLEAN

\* ExecutorActive is a single-owner token.  A claimed thread, a runner with
\* work and a slice exclude one another, so Schedule never finds pending work
\* (its InvalidOperationException) and RunGuestThread never starts without
\* ownership (its InvalidOperationException).
SingleExecutor ==
    \A t \in Threads :
        /\ \A a \in Actors : claimed[a] = t =>
             /\ executorActive[t] /\ ~work[t] /\ exec[t] = "off"
             /\ \A b \in Actors : claimed[b] = t => b = a
        /\ work[t] => executorActive[t] /\ exec[t] = "off"
        /\ exec[t] # "off" => executorActive[t]

\* The token is never lost: until the table is cleared, an active thread is
\* held by a claimer, by its runner or by a slice, and a Running one is active.
TokenNotLost ==
    session # "freed" =>
        \A t \in Threads :
            /\ executorActive[t] => \/ \E a \in Actors : claimed[a] = t
                                    \/ work[t] \/ exec[t] # "off"
            /\ state[t] = "Running" => executorActive[t]

\* A Ready thread is in the ready queue, so some claim will find it: no wake,
\* expiry, deferral or dropped entry strands it.  The owner of a nested
\* callback that was woken polls instead of waiting for a claim.
NoStrandedReady ==
    ~forcedExit =>
        \A t \in guestThreads :
            state[t] = "Ready" /\ exec[t] # "polling" =>
                \E i \in DOMAIN readyQueue : readyQueue[i] = t

\* A thread that gave its executor back while Blocked has registered the
\* continuation that wakers look for.
ParkedIsWakeable ==
    \A t \in Threads :
        state[t] = "Blocked" /\ ~executorActive[t] => wait[t] # NoWait

\* After Dispose has freed the trampolines and the guest address space, no
\* executor is in guest code, although claims and schedules may still be under
\* way in the background threads.
NoGuestCodeAfterTeardown ==
    session = "freed" => \A t \in Threads : exec[t] \in {"off", "entered"}

\* Exited and Faulted are final: no stale queue entry or late wake revives one.
TerminalIsFinal ==
    [][\A t \in Threads : state[t] \in {"Exited", "Faulted"} => state'[t] = state[t]]_vars

\* No spurious wake-up: until a forced exit a parked thread goes on only because its
\* waiter has answered true or its wait has a deadline, which may have passed, whatever
\* stale entries earlier waits have left in the queue and whoever scans or polls.
NoSpuriousWakeup ==
    [][~forcedExit => \A t \in Threads :
        Parked(t) /\ ~Parked(t)' => wait[t].timed \/ wait'[t] = Granted(wait[t])]_vars

\* A thread that is ready, or parked with a deadline, runs again: the ticker expires
\* the deadline, and whatever the guest threads do the background dispatcher claims
\* the thread ("This background dispatcher closes the hole").
RunsAgain ==
    \A t \in Watched :
        state[t] = "Ready" \/ t \in Expirable
            ~> state[t] \notin {"Ready", "Blocked"} \/ ~DispatchersOn

\* WakeBlockedThreads returns to the guest: its Pump is bounded and never waits
\* for a slice.
SignalReturns ==
    \A t \in Watched : pc[t] = "wake" ~> pc[t] = "idle"

\* What the comment in Dispose says: "Guest workers unwind cooperatively at
\* their next import or block boundary once the forced-exit flag is set."
UnwindsAtNextImport ==
    \A t \in Threads :
        forcedExit /\ exec[t] = "guest" /\ pc[t] # "idle" ~> exec[t] # "guest"
=============================================================================
