------------------------ MODULE KernelSyncOnAddress ------------------------
(***************************************************************************)
(* KernelSyncOnAddressCompatExports on top of the guest scheduler.         *)
(*                                                                         *)
(* A wake key is an address and a waiter is the generation the wait has    *)
(* observed; the predicate of a blocked wait is "the generation moved on". *)
(* A wake bumps the generation, wakes through the scheduler and pulses the *)
(* gate of the host thread, in three steps under three different locks.    *)
(***************************************************************************)
EXTENDS GuestScheduler

CONSTANTS
    WakeCount,      \* waiters the n-th wake of an address releases (rsi, or all)
    MaxGeneration,  \* bound: the wakes of each address in a behaviour
    NoOp

Generations == Waiters

ASSUME AddressAssumption ==
    /\ MaxGeneration \in [Keys -> Nat]
    /\ Waiters = UNION {0..MaxGeneration[k] : k \in Keys}
    /\ \A k \in Keys : WakeCount[k] \in [1..MaxGeneration[k] -> WakeLimits]

\* The actors that execute guest code
GuestActors == Threads \cup {Main}

\* The exports under way: a wait that has read the generation, a wake that has
\* bumped it, and a wake that has called WakeBlockedThreads
Ops == [kind : {"wait", "wake", "pulse"}, address : Keys, seen : Generations]

ASSUME NoOpAssumption == NoOp \notin Ops

VARIABLES
    generation,  \* _wakeGenerations
    op,          \* the export each actor is in, or NoOp
    hostWait     \* the wait of Main on _hostAddressGates, or NoOp

syncVars == <<generation, op, hostWait>>
allVars == <<vars, syncVars>>

SyncInit ==
    /\ Init
    /\ generation = [k \in Keys |-> 0]
    /\ op = [a \in GuestActors |-> NoOp]
    /\ hostWait = NoOp

-----------------------------------------------------------------------------
\* a is in guest code and outside any export of this module
CanExport(a) == CanCall(a) /\ op[a] = NoOp /\ (a = Main => hostWait = NoOp)

\* a goes on in an export of this kind
InExport(a, kind) == pc[a] = "idle" /\ op[a] # NoOp /\ op[a].kind = kind

SetOp(a, value) == op' = [op EXCEPT ![a] = value]

Operation(kind, k) == [kind |-> kind, address |-> k, seen |-> generation[k]]

\* sceKernelSyncOnAddressWait reads the generation
WaitBegin(a, k) ==
    /\ CanExport(a)
    /\ SetOp(a, Operation("wait", k))
    /\ UNCHANGED <<vars, generation, hostWait>>

\* A guest thread asks to block, always with the self-heal deadline
WaitBlock(t) ==
    /\ InExport(t, "wait")
    /\ RequestBlock(t, [key |-> op[t].address, timed |-> TRUE,
                        waiter |-> op[t].seen, granted |-> FALSE])
    /\ SetOp(t, NoOp)
    /\ UNCHANGED <<generation, hostWait>>

\* Mutant of HostWait: the generation is not looked at again under the gate
HostWaitBlindly ==
    /\ InExport(Main, "wait")
    /\ hostWait' = op[Main]
    /\ SetOp(Main, NoOp)
    /\ UNCHANGED <<vars, generation>>

\* The main host thread waits on the monitor of the address, unless the
\* generation has moved on when it holds the monitor
HostWait ==
    /\ InExport(Main, "wait")
    /\ hostWait' = IF generation[op[Main].address] = op[Main].seen THEN op[Main]
                                                                  ELSE NoOp
    /\ SetOp(Main, NoOp)
    /\ UNCHANGED <<vars, generation>>

\* Monitor.Wait returns after WaitSelfHealTimeout
HostTimeout ==
    /\ hostWait # NoOp
    /\ hostWait' = NoOp
    /\ UNCHANGED <<vars, generation, op>>

\* Mutant of WakeBegin: the entry of the address is dropped instead of bumped
WakeBeginForgetful(a, k) ==
    /\ a \in Callers /\ CanExport(a)
    /\ generation[k] < MaxGeneration[k]
    /\ generation' = [generation EXCEPT ![k] = IF @ = 0 THEN 1 ELSE 0]
    /\ SetOp(a, Operation("wake", k))
    /\ UNCHANGED <<vars, hostWait>>

\* sceKernelSyncOnAddressWake bumps the generation first
WakeBegin(a, k) ==
    /\ a \in Callers /\ CanExport(a)
    /\ generation[k] < MaxGeneration[k]
    /\ generation' = [generation EXCEPT ![k] = @ + 1]
    /\ SetOp(a, Operation("wake", k))
    /\ UNCHANGED <<vars, hostWait>>

\* then wakes the waiters through the scheduler
WakeCall(a) ==
    /\ InExport(a, "wake")
    /\ CallWake(a, op[a].address, WakeCount[op[a].address][op[a].seen + 1])
    /\ SetOp(a, [op[a] EXCEPT !.kind = "pulse"])
    /\ UNCHANGED <<generation, hostWait>>

\* and at last pulses the monitor of the address
WakePulse(a) ==
    /\ InExport(a, "pulse")
    /\ hostWait' = IF hostWait # NoOp /\ hostWait.address = op[a].address THEN NoOp
                                                                         ELSE hostWait
    /\ SetOp(a, NoOp)
    /\ UNCHANGED <<vars, generation>>

-----------------------------------------------------------------------------
(* The scheduler's steps that evaluate the wake handler *)

\* The wake handler: the generation is no longer the one observed
MovedOn(w) == generation[w.key] # w.waiter

Leaves == UNCHANGED syncVars

SyncWake(a, t) == WakeWaiter(a, t) /\ MovedOn(wait[t]) /\ Leaves
SyncPass(a, t) == PassWaiter(a, t) /\ ~MovedOn(wait[t]) /\ Leaves

\* Mutant of SyncPark: the wake handler is not evaluated once more under the gate
SyncParkBlindly(t) == (StayParked(t) \/ NestedPark(t)) /\ Leaves

SyncPark(t) == (StayParked(t) \/ NestedPark(t)) /\ ~MovedOn(wait[t]) /\ Leaves
SyncWakeAtPark(t) == (WakeAtPark(t) \/ NestedWake(t)) /\ MovedOn(wait[t]) /\ Leaves

\* The other steps of the scheduler leave the addresses alone, and guest code
\* takes them outside the exports only
SchedulerOnly ==
    /\ \/ \E a \in Actors : LoopStep(a)
       \/ \E t \in Threads : RunnerStep(t) \/ Resume(t) \/ (CanExport(t) /\ GuestStep(t))
       \/ \E a \in GuestActors : CanExport(a) /\ CallPump(a)
       \/ \E a \in GuestActors, t \in Threads : CanExport(a) /\ TryStartThread(a, t)
       \/ CanExport(Main) /\ EntryReturn
       \/ BackgroundStep
       \/ SessionStep
    /\ Leaves

SyncNext ==
    \/ SchedulerOnly
    \/ \E a \in Actors, t \in Threads : SyncWake(a, t) \/ SyncPass(a, t)
    \/ \E t \in Threads : SyncPark(t) \/ SyncWakeAtPark(t) \/ WaitBlock(t)
    \/ \E a \in GuestActors, k \in Keys : WaitBegin(a, k) \/ WakeBegin(a, k)
    \/ \E a \in GuestActors : WakeCall(a) \/ WakePulse(a)
    \/ HostWait \/ HostTimeout

SyncSpec == SyncInit /\ [][SyncNext]_allVars

-----------------------------------------------------------------------------
(* Properties *)

\* Types; a wait under way has observed a generation of the past or the present.
SyncTypeOK ==
    /\ generation \in [Keys -> Generations]
    /\ op \in [GuestActors -> Ops \cup {NoOp}]
    /\ hostWait \in Ops \cup {NoOp}
    /\ \A t \in Threads : wait[t] # NoWait => wait[t].waiter <= generation[wait[t].key]

\* A wake of k that has bumped the generation is still to reach t
WakeIsComing(k, t) ==
    \E a \in GuestActors :
        /\ op[a] # NoOp /\ op[a].address = k
        /\ \/ op[a].kind = "wake"
           \/ op[a].kind = "pulse" /\ pc[a] = "wake" /\ t \in Candidates(a)

LeftBehind(t) ==
    Parked(t) /\ MovedOn(wait[t]) /\ ~WakeIsComing(wait[t].key, t)

\* No missed wake.  A thread whose wait began before a wake for all waiters does
\* not stay parked after it, wherever the wake met it: before the block request,
\* unwinding, or parked ("a wake landing in that window bumps the generation").
\* One that is left behind has only seen wakes for fewer.  After a forced exit
\* nobody cares.
NoMissedWake ==
    ~forcedExit => \A t \in Threads :
        LeftBehind(t) =>
            \A n \in wait[t].waiter + 1..generation[wait[t].key] :
                WakeCount[wait[t].key][n] < Cardinality(Threads)

\* A has woken the last thread its limit allows it
LimitReached(a) ==
    call[a].limit = 1 /\ \E t \in Threads : state[t] = "Blocked" /\ state'[t] = "Ready"

\* A limited wake counts the threads it wakes, not those it visits: it leaves a
\* waiter of an older generation behind only after waking as many as it may.
WakeDoesItsShare ==
    [][\A a \in Actors, t \in Threads :
        /\ pc[a] = "wake" /\ pc'[a] # "wake"
        /\ LeftBehind(t)'
        /\ wait'[t].key = call[a].key
        => LimitReached(a)]_allVars

\* The host thread misses no wake either: if the generation has moved on while
\* it waits on the monitor, the pulse of that wake is still to come.
NoMissedPulse ==
    hostWait # NoOp /\ generation[hostWait.address] # hostWait.seen =>
        \E a \in GuestActors :
            op[a] # NoOp /\ op[a].address = hostWait.address
                /\ op[a].kind \in {"wake", "pulse"}
=============================================================================
