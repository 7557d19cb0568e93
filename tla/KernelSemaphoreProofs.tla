------------------------ MODULE KernelSemaphoreProofs ------------------------
(***************************************************************************)
(* What holds of the semaphores for any threads, handles and counts: they  *)
(* are a use of the scheduler, their counts stay in range, no wake-up is   *)
(* lost, they implement the abstract semaphore, and their counters of      *)
(* waiting threads are right.                                              *)
(***************************************************************************)
EXTENDS KernelSemaphore, GuestSchedulerWakes

USE DEF semaVars, exportVars, GuestActors, Needs

\* The arguments the exports have been called with
OpOK(o) ==
    /\ o.kind = "wait" => o.n \in Needs
    /\ o.kind = "poll" => o.n \in Nat
    /\ o.kind = "signal" => o.n \in SignalCounts
    /\ o.kind = "cancel" => o.n \in CancelCounts /\ o.n <= MaxCount[o.sema]

OpsOK ==
    /\ \A a \in GuestActors : op[a] # NoOp => OpOK(op[a])
    /\ hostWait # NoOp => hostWait.n \in Needs

SemaTypes == SemaTypeOK /\ OpsOK /\ CountInRange

\* The exports act on the scheduler in its own steps only.
LEMMA SchedulerStep ==
    ASSUME SemaTypes, [SemaNext]_allVars
    PROVE  [Next]_vars
<1>1. CASE SchedulerOnly
  BY <1>1, ActorsAssumption DEF SchedulerOnly, Next, SliceStep, Actors
<1>2. CASE \E a \in Actors : SemaActorStep(a)
  BY <1>2 DEF SemaActorStep, SemaWake, SemaPass, Next, ActorStep
<1>3. CASE \E t \in Threads : SemaPark(t) \/ SemaWakeAtPark(t) \/ SemaResume(t)
  BY <1>3 DEF SemaPark, SemaWakeAtPark, SemaResume, Next, SliceStep
<1>4. ASSUME NEW t \in Threads, WaitBlock(t)
      PROVE  [Next]_vars
  <2>1. [key |-> op[t].sema, timed |-> op[t].timed, waiter |-> op[t].n, granted |-> FALSE]
          \in NewWaits
    BY <1>4 DEF WaitBlock, InExport, SemaTypes, SemaTypeOK, OpsOK, OpOK, Ops, NewWaits, Waits
  <2>. QED  BY <1>4, <2>1 DEF WaitBlock, Next
<1>5. ASSUME NEW a \in GuestActors, CallExport(a) \/ FinishExport(a)
      PROVE  [Next]_vars
  <2>1. op[a] # NoOp => op[a].sema \in Keys
    BY DEF SemaTypes, SemaTypeOK, Ops
  <2>2. a \in Actors
    BY DEF Actors
  <2>. QED  BY <1>5, <2>1, <2>2, SemaphoreAssumption DEF CallExport, Export, FinishExport,
            TakeAtOnce, PollBusy, Signal, SignalRejected, Cancel, WakeAll, InExport, Next
<1>6. CASE \E a \in GuestActors, s \in Keys : Create(a, s) \/ Delete(a, s)
  BY <1>6 DEF Create, Delete
<1>7. CASE HostWait \/ HostTake \/ HostTimeout
  BY <1>7 DEF HostWait, HostTake, HostTimeout
<1>8. CASE UNCHANGED allVars
  BY <1>8 DEF allVars
<1>. QED  BY <1>1, <1>2, <1>3, <1>4, <1>5, <1>6, <1>7, <1>8 DEF SemaNext

\* A count may be set to any value in its range.
LEMMA CountSet ==
    ASSUME SemaTypes, NEW s \in Keys, NEW v \in 0..MaxCount[s],
           count' = [count EXCEPT ![s] = v]
    PROVE  count' \in [Keys -> Nat] /\ CountInRange'
<1>1. MaxCount \in [Keys -> Nat] /\ v \in Nat
  BY SemaphoreAssumption
<1>2. count \in [Keys -> Nat] /\ \A r \in Keys : count[r] \in 0..MaxCount[r]
  BY DEF SemaTypes, SemaTypeOK, CountInRange
<1>3. count' \in [Keys -> Nat]
  BY <1>1, <1>2
<1>4. \A r \in Keys : count'[r] \in 0..MaxCount[r]
  BY <1>2
<1>. QED  BY <1>3, <1>4 DEF CountInRange

\* Taking the tokens a wait needs leaves the count in range.
LEMMA TakeInRange ==
    ASSUME SemaTypes, NEW s \in Keys, NEW n \in Nat, count[s] >= n,
           TakeTokens(s, n)
    PROVE  count' \in [Keys -> Nat] /\ CountInRange'
<1>1. n \in Nat /\ count[s] \in 0..MaxCount[s] /\ MaxCount[s] \in Nat
  BY SemaphoreAssumption DEF SemaTypes, CountInRange
<1>2. count[s] - n \in 0..MaxCount[s]
  BY <1>1
<1>. QED  BY <1>2, CountSet DEF TakeTokens

\* A waiter is taken off at zero at the lowest.
LEMMA DropType ==
    ASSUME SemaTypes, NEW s \in Keys, DropWaiter(s)
    PROVE  waitingThreads' \in [Keys -> Nat]
  BY DEF DropWaiter, SemaTypes, SemaTypeOK

\* What the steps of the scheduler with an open predicate do to a semaphore.
LEMMA PredicateTypes ==
    ASSUME SemaTypes, TypeOK, NEW t \in Threads, wait[t] # NoWait,
           PredicateTakes(wait[t]) \/ PredicateFails(wait[t])
    PROVE  SemaTypes'
<1>1. wait[t].key \in Keys /\ wait[t].waiter \in Nat
  BY SemaphoreAssumption DEF TypeOK, Waits
<1>2. CASE PredicateTakes(wait[t])
  BY <1>1, <1>2, TakeInRange, DropType DEF PredicateTakes, Enough, SemaTypes, SemaTypeOK,
     OpsOK, OpOK
<1>3. CASE PredicateFails(wait[t])
  BY <1>3 DEF PredicateFails, SemaTypes, SemaTypeOK, OpsOK, OpOK, CountInRange
<1>. QED  BY <1>2, <1>3

\* An export begins with arguments its guards admit.
LEMMA ExportTypes ==
    ASSUME SemaTypes, NEW a \in GuestActors, CallExport(a)
    PROVE  SemaTypes'
<1>1. ASSUME NEW o \in Ops, OpOK(o), op' = [op EXCEPT ![a] = o], UNCHANGED <<semaVars, hostWait>>
      PROVE  SemaTypes'
  BY <1>1 DEF SemaTypes, SemaTypeOK, OpsOK, CountInRange
<1>2. ASSUME NEW s \in Keys, NEW n \in Needs, NEW timed \in Timeouts,
             Export(a, "wait", s, n, timed)
      PROVE  SemaTypes'
  <2>. DEFINE o == [kind |-> "wait", sema |-> s, n |-> n, timed |-> timed]
  <2>1. o \in Ops /\ OpOK(o)
    BY <1>2, SemaphoreAssumption DEF Ops, OpOK
  <2>2. op' = [op EXCEPT ![a] = o] /\ UNCHANGED <<semaVars, hostWait>>
    BY <1>2 DEF Export
  <2>. HIDE DEF o
  <2>. QED  BY <1>1, <2>1, <2>2
<1>3. ASSUME NEW s \in Keys, NEW n \in 1..MaxCount[s],
             Export(a, "poll", s, n, FALSE)
      PROVE  SemaTypes'
  <2>. DEFINE o == [kind |-> "poll", sema |-> s, n |-> n, timed |-> FALSE]
  <2>1. o \in Ops /\ OpOK(o)
    BY <1>3, SemaphoreAssumption DEF Ops, OpOK
  <2>2. op' = [op EXCEPT ![a] = o] /\ UNCHANGED <<semaVars, hostWait>>
    BY <1>3 DEF Export
  <2>. HIDE DEF o
  <2>. QED  BY <1>1, <2>1, <2>2
<1>4. ASSUME NEW s \in Keys, NEW n \in SignalCounts,
             Export(a, "signal", s, n, FALSE)
      PROVE  SemaTypes'
  <2>. DEFINE o == [kind |-> "signal", sema |-> s, n |-> n, timed |-> FALSE]
  <2>1. o \in Ops /\ OpOK(o)
    BY <1>4, SemaphoreAssumption DEF Ops, OpOK
  <2>2. op' = [op EXCEPT ![a] = o] /\ UNCHANGED <<semaVars, hostWait>>
    BY <1>4 DEF Export
  <2>. HIDE DEF o
  <2>. QED  BY <1>1, <2>1, <2>2
<1>5. ASSUME NEW s \in Keys, NEW n \in CancelCounts, n <= MaxCount[s],
             Export(a, "cancel", s, n, FALSE)
      PROVE  SemaTypes'
  <2>. DEFINE o == [kind |-> "cancel", sema |-> s, n |-> n, timed |-> FALSE]
  <2>1. o \in Ops /\ OpOK(o)
    BY <1>5, SemaphoreAssumption DEF Ops, OpOK
  <2>2. op' = [op EXCEPT ![a] = o] /\ UNCHANGED <<semaVars, hostWait>>
    BY <1>5 DEF Export
  <2>. HIDE DEF o
  <2>. QED  BY <1>1, <2>1, <2>2
<1>. QED  BY <1>2, <1>3, <1>4, <1>5 DEF CallExport

\* Every step keeps the types, the range of the counts and of the arguments.
LEMMA SemaTypesStep ==
    ASSUME SemaTypes, IInv, [SemaNext]_allVars
    PROVE  SemaTypes'
<1>. USE DEF IInv
<1>1. CASE SchedulerOnly
  BY <1>1 DEF SchedulerOnly, LeavesSemaphores, SemaTypes, SemaTypeOK, OpsOK, OpOK, CountInRange
<1>2. ASSUME NEW a \in Actors, SemaActorStep(a)
      PROVE  SemaTypes'
  <2>1. CASE LeavesSemaphores
    BY <2>1 DEF LeavesSemaphores, SemaTypes, SemaTypeOK, OpsOK, OpOK, CountInRange
  <2>2. ASSUME NEW t \in Threads, SemaWake(a, t) \/ SemaPass(a, t)
        PROVE  SemaTypes'
    <3>1. wait[t] # NoWait
      BY <2>2 DEF SemaWake, SemaPass, WakeWaiter, PassWaiter, Candidates, WaitOK, ParkedOn, Parked
    <3>. QED  BY <2>2, <3>1, PredicateTypes DEF SemaWake, SemaPass
  <2>. QED  BY <1>2, <2>1, <2>2 DEF SemaActorStep
<1>3. ASSUME NEW t \in Threads, SemaPark(t) \/ SemaWakeAtPark(t)
      PROVE  SemaTypes'
  <2>1. wait[t] # NoWait
    BY <1>3 DEF SemaPark, SemaWakeAtPark, StayParked, NestedPark, WakeAtPark, NestedWake,
       Parking, WaitOK
  <2>. QED  BY <1>3, <2>1, PredicateTypes DEF SemaPark, SemaWakeAtPark
<1>4. ASSUME NEW t \in Threads, SemaResume(t)
      PROVE  SemaTypes'
  <2>1. resuming[t] # NoWait => resuming[t].key \in Keys
    BY DEF TypeOK, Waits
  <2>2. waitingThreads' \in [Keys -> Nat]
    BY <1>4, DropType DEF SemaResume, DropWaiter, SemaTypes, SemaTypeOK
  <2>. QED  BY <1>4, <2>2 DEF SemaResume, SemaTypes, SemaTypeOK, OpsOK, OpOK, CountInRange
<1>5. ASSUME NEW t \in Threads, WaitBlock(t)
      PROVE  SemaTypes'
  <2>1. op[t].sema \in Keys
    BY <1>5 DEF WaitBlock, InExport, SemaTypes, SemaTypeOK, Ops
  <2>2. waitingThreads' \in [Keys -> Nat]
    BY <1>5, <2>1 DEF WaitBlock, AddWaiter, SemaTypes, SemaTypeOK
  <2>. QED  BY <1>5, <2>2 DEF WaitBlock, EndExport, SemaTypes, SemaTypeOK, OpsOK, OpOK,
               CountInRange
<1>6. ASSUME NEW a \in GuestActors, CallExport(a)
      PROVE  SemaTypes'
  BY <1>6, ExportTypes
<1>7. ASSUME NEW a \in GuestActors, FinishExport(a)
      PROVE  SemaTypes'
  <2>1. op[a] # NoOp => op[a] \in Ops /\ op[a].sema \in Keys /\ op[a].n \in Int
    BY DEF SemaTypes, SemaTypeOK, Ops
  <2>2. CASE TakeAtOnce(a)
    <3>1. op[a].n \in Nat /\ op[a].sema \in Keys
      BY <2>1, <2>2, SemaphoreAssumption DEF TakeAtOnce, InExport, SemaTypes, OpsOK, OpOK
    <3>. QED  BY <2>2, <3>1, TakeInRange DEF TakeAtOnce, EndExport, SemaTypes, SemaTypeOK,
                 OpsOK, OpOK
  <2>3. CASE PollBusy(a) \/ SignalRejected(a)
    BY <2>3 DEF PollBusy, SignalRejected, EndExport, SemaTypes, SemaTypeOK, OpsOK, OpOK,
       CountInRange
  <2>4. CASE Signal(a)
    <3>1. op[a].n \in SignalCounts /\ op[a].sema \in Keys
      BY <2>1, <2>4 DEF Signal, InExport, SemaTypes, OpsOK, OpOK
    <3>2. count' \in [Keys -> Nat] /\ CountInRange'
      <4>. DEFINE s == op[a].sema  n == op[a].n
      <4>1. n \in Nat /\ count[s] \in Nat /\ MaxCount[s] \in Nat /\ count[s] <= MaxCount[s] - n
        BY <2>4, <3>1, SemaphoreAssumption DEF Signal, SemaTypes, SemaTypeOK
      <4>2. count[s] + n \in 0..MaxCount[s]
        BY <4>1
      <4>. QED  BY <2>4, <3>1, <4>2, CountSet DEF Signal
    <3>. QED  BY <2>4, <3>2 DEF Signal, EndExport, SemaTypes, SemaTypeOK, OpsOK, OpOK
  <2>5. CASE Cancel(a)
    <3>1. op[a].n \in Int /\ op[a].sema \in Keys /\ op[a].n <= MaxCount[op[a].sema]
      BY <2>1, <2>5 DEF Cancel, InExport, SemaTypes, OpsOK, OpOK
    <3>2. count' \in [Keys -> Nat] /\ CountInRange'
      <4>. DEFINE s == op[a].sema  n == op[a].n
      <4>1. (IF n < 0 THEN InitialCount[s] ELSE n) \in 0..MaxCount[s]
        BY <3>1, SemaphoreAssumption
      <4>. QED  BY <2>5, <3>1, <4>1, CountSet DEF Cancel
    <3>. QED  BY <2>5, <3>2 DEF Cancel, EndExport, SemaTypes, SemaTypeOK, OpsOK, OpOK
  <2>. QED  BY <1>7, <2>2, <2>3, <2>4, <2>5 DEF FinishExport
<1>8. ASSUME NEW a \in GuestActors, NEW s \in Keys, Create(a, s) \/ Delete(a, s)
      PROVE  SemaTypes'
  BY <1>8 DEF Create, Delete, SemaTypes, SemaTypeOK, OpsOK, OpOK, CountInRange
<1>9. CASE HostWait
  BY <1>9 DEF HostWait, InExport, EndExport, AddWaiter, SemaTypes, SemaTypeOK, OpsOK, OpOK,
     Ops, CountInRange
<1>10. CASE HostTake
  <2>1. hostWait.n \in Nat /\ hostWait.sema \in Keys
    BY <1>10, SemaphoreAssumption DEF HostTake, SemaTypes, SemaTypeOK, OpsOK, OpOK, Ops
  <2>. QED  BY <1>10, <2>1, TakeInRange, DropType DEF HostTake, SemaTypes, SemaTypeOK, OpsOK, OpOK
<1>11. CASE HostTimeout
  <2>1. hostWait.sema \in Keys
    BY <1>11 DEF HostTimeout, SemaTypes, SemaTypeOK, Ops
  <2>. QED  BY <1>11, <2>1, DropType DEF HostTimeout, SemaTypes, SemaTypeOK, OpsOK, OpOK,
               CountInRange
<1>12. CASE UNCHANGED allVars
  BY <1>12 DEF allVars, SemaTypes, SemaTypeOK, OpsOK, OpOK, CountInRange
<1>. QED  BY <1>1, <1>2, <1>3, <1>4, <1>5, <1>6, <1>7, <1>8, <1>9, <1>10, <1>11, <1>12
          DEF SemaNext

\* It all holds at first.
LEMMA SemaTypesInit == SemaInit => SemaTypes /\ IInv
  BY SemaphoreAssumption, SafetyInit DEF SemaInit, SemaTypes, SemaTypeOK, OpsOK, OpOK,
     CountInRange

\* The semaphores live by the scheduler's rules: every behaviour of the guest
\* with semaphores is one of the scheduler, so that whatever holds of it holds here.
THEOREM RunsScheduler == SemaSpec => Spec
<1>1. SemaInit => Init
  BY DEF SemaInit
<1>2. SemaTypes /\ IInv /\ [SemaNext]_allVars => [Next]_vars /\ (SemaTypes /\ IInv)'
  BY SchedulerStep, SemaTypesStep, SafetyStep
<1>. QED  BY <1>1, <1>2, SemaTypesInit, PTL DEF SemaSpec, Spec

\* The types of the semaphores' state and of the exports under way, the
\* arguments these were called with, and the range of the counts.
THEOREM SemaTypesInvariant == SemaSpec => [](SemaTypes /\ IInv)
<1>1. SemaTypes /\ IInv /\ [SemaNext]_allVars => (SemaTypes /\ IInv)'
  BY SchedulerStep, SemaTypesStep, SafetyStep
<1>. QED  BY <1>1, SemaTypesInit, PTL DEF SemaSpec

\* Handles, counts, waiter counts and exports keep their types: no wait, poll or
\* cancel ever leaves a negative count.
THEOREM SemaTypeCorrect == SemaSpec => []SemaTypeOK
BY SemaTypesInvariant, PTL DEF SemaTypes

\* sceKernelSignalSema refuses what would exceed maxCount, whoever signals,
\* cancels and takes tokens meanwhile.
THEOREM CountStaysInRange == SemaSpec => []CountInRange
BY SemaTypesInvariant, PTL DEF SemaTypes

-----------------------------------------------------------------------------
(* No wake-up is lost *)

\* A wait names a semaphore and a number of tokens.
LEMMA WaitType ==
    ASSUME TypeOK, NEW t \in Threads, wait[t] # NoWait
    PROVE  wait[t].key \in Keys /\ wait[t].waiter \in Nat
<1>1. wait[t] \in Waits
  BY DEF TypeOK
<1>. QED  BY <1>1, SemaphoreAssumption DEF Waits

\* A step that parks nobody, touches no wake and adds no token loses no wake-up.
LEMMA QuietKeeps ==
    ASSUME SemaTypes, TypeOK, LimitOK, NoLostWakeup, [Next]_vars,
           WakesStay, ~forcedExit => NobodyParks,
           \A s \in Keys : count'[s] \in Int /\ count'[s] <= count[s]
    PROVE  LimitOK' /\ NoLostWakeup'
<1>1. LimitOK'
  BY DEF LimitOK, WakesStay
<1>2. ASSUME ~forcedExit', NEW t \in Threads, Parked(t)', Enough(wait[t])'
      PROVE  WakeIsComing(wait[t].key, t)'
  <2>1. ~forcedExit /\ Parked(t) /\ wait'[t] = wait[t]
    BY <1>2, ForcedStays DEF NobodyParks
  <2>2. wait[t].key \in Keys /\ wait[t].waiter \in Int
    BY <2>1, WaitType DEF Parked
  <2>3. Enough(wait[t])
    BY <1>2, <2>1, <2>2 DEF Enough, SemaTypes, SemaTypeOK
  <2>4. PICK a \in GuestActors : /\ pc[a] = "wake" /\ call[a].key = wait[t].key
                                 /\ t \in Candidates(a)
    BY <2>1, <2>3 DEF NoLostWakeup, WakeIsComing
  <2>5. a \in Actors
    BY DEF Actors
  <2>6. pc'[a] = "wake" /\ call'[a] = call[a] /\ (gate' = a <=> gate = a) /\ todo' = todo
    BY <2>4, <2>5 DEF WakesStay
  <2>7. t \in ParkedOn(call[a].key)'
    BY <1>2, <2>1, <2>4, <2>6 DEF ParkedOn
  <2>8. t \in Candidates(a)'
    BY <2>4, <2>6, <2>7 DEF Candidates
  <2>. QED  BY <2>1, <2>4, <2>6, <2>8 DEF WakeIsComing
<1>. QED  BY <1>1, <1>2 DEF NoLostWakeup

\* A step that leaves the scheduler alone and adds no token, likewise.
LEMMA StillKeeps ==
    ASSUME SemaTypes, TypeOK, LimitOK, NoLostWakeup, UNCHANGED vars,
           \A s \in Keys : count'[s] \in Int /\ count'[s] <= count[s]
    PROVE  LimitOK' /\ NoLostWakeup'
<1>1. WakesStay /\ NobodyParks
  <2>1. UNCHANGED <<guestThreads, state, wait, gate, todo, pc, call>>
    BY DEF vars, tableVars, gateVars, callVars
  <2>. QED  BY <2>1 DEF WakesStay, NobodyParks, Parked
<1>. QED  BY <1>1, QuietKeeps

\* Signal and cancel add tokens and begin the wake for them in the same step.
LEMMA CallKeeps ==
    ASSUME SemaTypes, IInv, LimitOK, NoLostWakeup, NEW a \in GuestActors, NEW s \in Keys,
           WakeAll(a, s), \A r \in Keys \ {s} : count'[r] = count[r]
    PROVE  LimitOK' /\ NoLostWakeup'
<1>. USE DEF IInv
<1>1. a \in Actors /\ Cardinality(Threads) \in Nat \ {0} /\ Cardinality(Threads) \in WakeLimits
  BY SemaphoreAssumption, BoundsAssumption DEF Actors
<1>2. /\ pc[a] # "wake" /\ pc'[a] = "wake"
      /\ call'[a] = [key |-> s, limit |-> Cardinality(Threads)]
      /\ gate # a /\ gate' = gate /\ todo' = todo
      /\ \A u \in Threads : Parked(u)' => Parked(u) /\ wait'[u] = wait[u]
      /\ \A b \in Actors \ {a} : pc'[b] = pc[b] /\ call'[b] = call[b]
  BY <1>1, CallFrame DEF WakeAll
<1>3. LimitOK'
  BY <1>2 DEF LimitOK
<1>4. [Next]_vars
  BY <1>1 DEF WakeAll, Next
<1>5. ASSUME ~forcedExit', NEW t \in Threads, Parked(t)', Enough(wait[t])'
      PROVE  WakeIsComing(wait[t].key, t)'
  <2>1. ~forcedExit /\ Parked(t) /\ wait'[t] = wait[t]
    BY <1>2, <1>4, <1>5, ForcedStays
  <2>2. wait[t].key \in Keys
    BY <2>1 DEF TypeOK, Parked, Waits
  <2>3. t \in ParkedOn(wait[t].key)'
    BY <1>5, <2>1 DEF ParkedOn
  <2>4. CASE wait[t].key = s
    BY <1>2, <2>1, <2>3, <2>4 DEF WakeIsComing, Candidates
  <2>5. CASE wait[t].key # s
    <3>1. Enough(wait[t])
      BY <1>5, <2>1, <2>2, <2>5 DEF Enough
    <3>2. PICK b \in GuestActors : /\ pc[b] = "wake" /\ call[b].key = wait[t].key
                                   /\ t \in Candidates(b)
      BY <2>1, <3>1 DEF NoLostWakeup, WakeIsComing
    <3>3. b \in Actors \ {a}
      BY <1>2, <3>2 DEF Actors
    <3>. QED  BY <1>2, <2>1, <2>3, <3>2, <3>3 DEF WakeIsComing, Candidates
  <2>. QED  BY <2>4, <2>5
<1>. QED  BY <1>3, <1>5 DEF NoLostWakeup

\* A visit of a wake: its thread leaves, or its tokens are not there; the loop
\* goes on unless nobody is left.
LEMMA VisitKeeps ==
    ASSUME SemaTypes, IInv, LimitOK, NoLostWakeup, NEW a \in Actors, NEW t \in Threads,
           SemaWake(a, t) \/ SemaPass(a, t)
    PROVE  LimitOK' /\ NoLostWakeup'
<1>. USE DEF IInv
<1>1. PICK n \in Nat : \/ SemaWake(a, t) /\ n = call[a].limit - 1
                       \/ SemaPass(a, t) /\ n = call[a].limit
  <2>1. pc[a] = "wake"
    BY DEF SemaWake, SemaPass, WakeWaiter, PassWaiter, Scanning
  <2>2. call[a] \in Calls
    BY <2>1 DEF CallOK
  <2>3. call[a].limit \in Nat \ {0}
    BY <2>2 DEF Calls
  <2>4. CASE SemaWake(a, t)
    <3>1. call[a].limit - 1 \in Nat
      BY <2>3
    <3>. QED  BY <2>4, <3>1
  <2>5. CASE SemaPass(a, t)
    BY <2>3, <2>5
  <2>. QED  BY <2>4, <2>5
<1>2. /\ pc[a] = "wake" /\ call[a] \in Calls /\ gate \in {NoActor, a}
      /\ t \in Candidates(a)
      /\ \A u \in Threads \ {t} : Parked(u)' => Parked(u) /\ wait'[u] = wait[u]
      /\ \A b \in Actors \ {a} : /\ pc'[b] = pc[b] /\ call'[b] = call[b]
                                 /\ gate # b /\ gate' # b
      /\ \/ /\ gate' = a /\ todo' = Candidates(a) \ {t} /\ pc'[a] = "wake"
            /\ call'[a] = [key |-> call[a].key, limit |-> n]
         \/ /\ gate' = NoActor /\ pc'[a] # "wake"
            /\ Candidates(a) \ {t} = {} \/ n = 0
  BY <1>1, ScanFrame DEF SemaWake, SemaPass
<1>3. /\ IsFiniteSet(Candidates(a) \ {t})
      /\ Cardinality(Candidates(a) \ {t}) \in Nat
      /\ Cardinality(Candidates(a) \ {t}) <= n
  <2>1. /\ IsFiniteSet(Candidates(a)) /\ Cardinality(Candidates(a)) \in Nat
        /\ Cardinality(Candidates(a)) <= call[a].limit /\ call[a].limit \in Nat \ {0}
    BY <1>2, CandidatesBound DEF Calls
  <2>2. /\ IsFiniteSet(Candidates(a) \ {t})
        /\ Cardinality(Candidates(a) \ {t}) = Cardinality(Candidates(a)) - 1
        /\ Cardinality(Candidates(a) \ {t}) \in Nat
    BY <1>2, <2>1, FS_RemoveElement, FS_CardinalityType
  <2>3. n = call[a].limit - 1 \/ n = call[a].limit
    BY <1>1
  <2>. QED  BY <2>1, <2>2, <2>3
<1>4. LimitOK'
  <2>1. ASSUME NEW b \in Actors, pc'[b] = "wake"
        PROVE  (IF gate = b THEN Cardinality(todo) <= call[b].limit
                            ELSE call[b].limit = Cardinality(Threads))'
    <3>1. CASE b # a
      BY <1>2, <2>1, <3>1 DEF LimitOK
    <3>2. CASE b = a
      BY <1>2, <1>3, <2>1, <3>2
    <3>. QED  BY <3>1, <3>2
  <2>. QED  BY <2>1 DEF LimitOK
<1>5. [Next]_vars
  BY DEF SemaWake, SemaPass, Next, ActorStep
<1>6. ASSUME Parked(t)', Enough(wait[t])'
      PROVE  FALSE
  <2>1. CASE SemaWake(a, t)
    BY <1>6, <2>1 DEF SemaWake, WakeWaiter, MakeReady, SetState, Parked, TypeOK
  <2>2. CASE SemaPass(a, t)
    BY <1>6, <2>2 DEF SemaPass, PassWaiter, PredicateFails, Enough, tableVars
  <2>. QED  BY <2>1, <2>2
<1>7. \A s \in Keys : count'[s] \in Int /\ count'[s] <= count[s]
  <2>1. wait[t] # NoWait => wait[t].key \in Keys /\ wait[t].waiter \in Nat
    BY WaitType
  <2>2. wait[t] # NoWait
    BY <1>2 DEF Candidates, WaitOK, ParkedOn, Parked
  <2>3. \A s \in Keys : count[s] \in Nat
    BY DEF SemaTypes, SemaTypeOK
  <2>4. count' = count \/ count' = [count EXCEPT ![wait[t].key] = @ - wait[t].waiter]
    BY DEF SemaWake, SemaPass, PredicateTakes, PredicateFails, TakeTokens
  <2>. QED  BY <2>1, <2>2, <2>3, <2>4 DEF SemaTypes, SemaTypeOK
<1>8. ASSUME ~forcedExit', NEW u \in Threads, Parked(u)', Enough(wait[u])'
      PROVE  WakeIsComing(wait[u].key, u)'
  <2>1. u # t /\ ~forcedExit /\ Parked(u) /\ wait'[u] = wait[u]
    BY <1>2, <1>5, <1>6, <1>8, ForcedStays
  <2>2. wait[u].key \in Keys /\ wait[u].waiter \in Int
    BY <2>1, WaitType DEF Parked
  <2>3. Enough(wait[u])
    BY <1>7, <1>8, <2>1, <2>2 DEF Enough, SemaTypes, SemaTypeOK
  <2>4. PICK b \in GuestActors : /\ pc[b] = "wake" /\ call[b].key = wait[u].key
                                 /\ u \in Candidates(b)
    BY <2>1, <2>3 DEF NoLostWakeup, WakeIsComing
  <2>5. b \in Actors
    BY DEF Actors
  <2>6. CASE b # a
    <3>1. u \in ParkedOn(call[b].key)'
      BY <1>2, <1>8, <2>1, <2>4, <2>5, <2>6 DEF ParkedOn
    <3>. QED  BY <1>2, <2>1, <2>4, <2>5, <2>6, <3>1 DEF WakeIsComing, Candidates
  <2>7. CASE b = a
    <3>1. u \in Candidates(a) \ {t}
      BY <2>1, <2>4, <2>7
    <3>2. n # 0
      BY <1>3, <3>1, FS_EmptySet
    <3>3. /\ gate' = a /\ todo' = Candidates(a) \ {t} /\ pc'[a] = "wake"
          /\ call'[a].key = wait[u].key
      BY <1>2, <2>4, <2>7, <3>1, <3>2
    <3>. QED  BY <2>1, <2>7, <3>1, <3>3 DEF WakeIsComing, Candidates
  <2>. QED  BY <2>6, <2>7
<1>. QED  BY <1>4, <1>8 DEF NoLostWakeup

\* A wake that finds nobody was not what anybody was waiting for.
LEMMA NobodyKeeps ==
    ASSUME SemaTypes, IInv, LimitOK, NoLostWakeup, NEW a \in Actors, WakeNobody(a),
           [Next]_vars, count' = count
    PROVE  LimitOK' /\ NoLostWakeup'
<1>1. /\ Candidates(a) = {} /\ pc[a] = "wake" /\ pc'[a] # "wake"
      /\ \A u \in Threads : Parked(u)' => Parked(u) /\ wait'[u] = wait[u]
      /\ \A b \in Actors \ {a} : /\ pc'[b] = pc[b] /\ call'[b] = call[b]
                                 /\ gate # b /\ gate' # b
  BY NobodyFrame
<1>2. LimitOK'
  BY <1>1 DEF LimitOK
<1>3. ASSUME ~forcedExit', NEW t \in Threads, Parked(t)', Enough(wait[t])'
      PROVE  WakeIsComing(wait[t].key, t)'
  <2>1. ~forcedExit /\ Parked(t) /\ wait'[t] = wait[t] /\ Enough(wait[t])
    BY <1>1, <1>3, ForcedStays DEF Enough
  <2>2. PICK b \in GuestActors : /\ pc[b] = "wake" /\ call[b].key = wait[t].key
                                 /\ t \in Candidates(b)
    BY <2>1 DEF NoLostWakeup, WakeIsComing
  <2>3. b \in Actors \ {a}
    BY <1>1, <2>2 DEF Actors
  <2>4. t \in ParkedOn(wait[t].key)'
    BY <1>3, <2>1 DEF ParkedOn
  <2>. QED  BY <1>1, <2>1, <2>2, <2>3, <2>4 DEF WakeIsComing, Candidates
<1>. QED  BY <1>2, <1>3 DEF NoLostWakeup

\* A thread that parks has just found its tokens missing.
LEMMA ParkKeeps ==
    ASSUME SemaTypes, IInv, LimitOK, NoLostWakeup, NEW t \in Threads, SemaPark(t), [Next]_vars
    PROVE  LimitOK' /\ NoLostWakeup'
<1>. USE DEF IInv
<1>1. /\ \A u \in Threads \ {t} : Parked(u)' => Parked(u)
      /\ wait' = wait
      /\ WakesStay
  BY ParkFrame DEF SemaPark
<1>2. count' = count /\ ~Enough(wait[t])
  BY DEF SemaPark, PredicateFails, semaVars
<1>3. LimitOK'
  BY <1>1 DEF LimitOK, WakesStay
<1>4. ASSUME ~forcedExit', NEW u \in Threads, Parked(u)', Enough(wait[u])'
      PROVE  WakeIsComing(wait[u].key, u)'
  <2>1. u # t /\ Enough(wait[u])
    BY <1>1, <1>2, <1>4 DEF Enough
  <2>2. ~forcedExit /\ Parked(u)
    BY <1>1, <1>4, <2>1, ForcedStays
  <2>3. PICK b \in GuestActors : /\ pc[b] = "wake" /\ call[b].key = wait[u].key
                                 /\ u \in Candidates(b)
    BY <2>1, <2>2 DEF NoLostWakeup, WakeIsComing
  <2>4. b \in Actors
    BY DEF Actors
  <2>5. pc'[b] = "wake" /\ call'[b] = call[b] /\ (gate' = b <=> gate = b) /\ todo' = todo
    BY <1>1, <2>3, <2>4 DEF WakesStay
  <2>6. u \in ParkedOn(wait[u].key)'
    BY <1>1, <1>4 DEF ParkedOn
  <2>. QED  BY <1>1, <2>3, <2>5, <2>6 DEF WakeIsComing, Candidates
<1>. QED  BY <1>3, <1>4 DEF NoLostWakeup

\* What all steps keep together
SemaInvariant == IInv /\ RunningOK /\ SemaTypes /\ LimitOK /\ NoLostWakeup

\* The steps that add no token, by the frame of the scheduler's step.
LEMMA OtherKeeps ==
    ASSUME SemaInvariant, QuietStep, \A s \in Keys : count'[s] \in Int /\ count'[s] <= count[s],
           [Next]_vars
    PROVE  LimitOK' /\ NoLostWakeup'
<1>. USE DEF SemaInvariant, IInv
<1>1. WakesStay
  BY QuietWakes
<1>2. ~forcedExit => NobodyParks
  BY QuietParks
<1>. QED  BY <1>1, <1>2, QuietKeeps

\* Every step of the semaphores keeps it.
LEMMA WakeupStep ==
    ASSUME SemaInvariant, [SemaNext]_allVars
    PROVE  LimitOK' /\ NoLostWakeup'
<1>. USE DEF SemaInvariant, IInv
<1>1. [Next]_vars
  BY SchedulerStep
<1>2. count' = count => \A s \in Keys : count'[s] \in Int /\ count'[s] <= count[s]
  <2>1. \A s \in Keys : count[s] \in Nat
    BY DEF SemaTypes, SemaTypeOK
  <2>. QED  BY <2>1
<1>3. ASSUME NEW s \in Keys, NEW n \in Nat, TakeTokens(s, n)
      PROVE  \A r \in Keys : count'[r] \in Int /\ count'[r] <= count[r]
  <2>1. \A r \in Keys : count[r] \in Nat
    BY DEF SemaTypes, SemaTypeOK
  <2>. QED  BY <1>3, <2>1 DEF TakeTokens, SemaTypes, SemaTypeOK
<1>4. CASE SchedulerOnly
  <2>1. QuietStep
    BY <1>4, ActorsAssumption DEF SchedulerOnly, QuietStep, RunnerStep, GuestStep,
       BackgroundStep, SessionStep, GuestActors, Actors
  <2>2. count' = count
    BY <1>4 DEF SchedulerOnly, LeavesSemaphores, semaVars
  <2>. QED  BY <1>1, <1>2, <2>1, <2>2, OtherKeeps
<1>5. ASSUME NEW a \in Actors, LoopStep(a), LeavesSemaphores
      PROVE  LimitOK' /\ NoLostWakeup'
  <2>1. count' = count
    BY <1>5 DEF LeavesSemaphores, semaVars
  <2>2. CASE WakeNobody(a)
    BY <1>1, <1>2, <2>1, <2>2, NobodyKeeps
  <2>3. CASE ~WakeNobody(a)
    <3>1. QuietStep
      BY <1>5, <2>3 DEF LoopStep, QuietStep
    <3>. QED  BY <1>1, <1>2, <2>1, <3>1, OtherKeeps
  <2>. QED  BY <2>2, <2>3
<1>6. ASSUME NEW a \in Actors, NEW t \in Threads, SemaWake(a, t) \/ SemaPass(a, t)
      PROVE  LimitOK' /\ NoLostWakeup'
  BY <1>6, VisitKeeps
<1>7. ASSUME NEW t \in Threads, SemaPark(t)
      PROVE  LimitOK' /\ NoLostWakeup'
  BY <1>1, <1>7, ParkKeeps
<1>8. ASSUME NEW t \in Threads, SemaWakeAtPark(t)
      PROVE  LimitOK' /\ NoLostWakeup'
  <2>1. QuietStep
    BY <1>8 DEF SemaWakeAtPark, QuietStep
  <2>2. wait[t].key \in Keys /\ wait[t].waiter \in Nat
    BY <1>8, WaitType DEF SemaWakeAtPark, WakeAtPark, NestedWake, Parking, WaitOK
  <2>3. TakeTokens(wait[t].key, wait[t].waiter)
    BY <1>8 DEF SemaWakeAtPark, PredicateTakes
  <2>. QED  BY <1>1, <1>3, <2>1, <2>2, <2>3, OtherKeeps
<1>9. ASSUME NEW t \in Threads, SemaResume(t) \/ WaitBlock(t)
      PROVE  LimitOK' /\ NoLostWakeup'
  <2>1. count' = count
    BY <1>9 DEF SemaResume, WaitBlock
  <2>2. CASE SemaResume(t)
    BY <1>1, <1>2, <2>1, <2>2, OtherKeeps DEF SemaResume, QuietStep
  <2>3. CASE WaitBlock(t)
    <3>1. [key |-> op[t].sema, timed |-> op[t].timed, waiter |-> op[t].n, granted |-> FALSE]
            \in NewWaits
      BY <2>3 DEF WaitBlock, InExport, SemaTypes, SemaTypeOK, OpsOK, OpOK, Ops, NewWaits, Waits
    <3>. QED  BY <1>1, <1>2, <2>1, <2>3, <3>1, OtherKeeps DEF WaitBlock, QuietStep
  <2>. QED  BY <1>9, <2>2, <2>3
<1>10. ASSUME NEW a \in GuestActors, CallExport(a) \/ PollBusy(a) \/ SignalRejected(a)
       PROVE  LimitOK' /\ NoLostWakeup'
  <2>1. UNCHANGED vars /\ count' = count
    BY <1>10 DEF CallExport, Export, PollBusy, SignalRejected, semaVars
  <2>. QED  BY <1>2, <2>1, StillKeeps
<1>11. ASSUME NEW a \in GuestActors, TakeAtOnce(a)
       PROVE  LimitOK' /\ NoLostWakeup'
  <2>1. op[a].sema \in Keys /\ op[a].n \in Nat
    BY <1>11, SemaphoreAssumption DEF TakeAtOnce, InExport, SemaTypes, SemaTypeOK, OpsOK, OpOK,
       Ops
  <2>2. UNCHANGED vars /\ TakeTokens(op[a].sema, op[a].n)
    BY <1>11 DEF TakeAtOnce
  <2>. QED  BY <1>3, <2>1, <2>2, StillKeeps
<1>12. ASSUME NEW a \in GuestActors, Signal(a) \/ Cancel(a)
       PROVE  LimitOK' /\ NoLostWakeup'
  <2>1. op[a].sema \in Keys
    BY <1>12 DEF Signal, Cancel, InExport, SemaTypes, SemaTypeOK, Ops
  <2>2. WakeAll(a, op[a].sema) /\ \A r \in Keys \ {op[a].sema} : count'[r] = count[r]
    BY <1>12, <2>1 DEF Signal, Cancel, SemaTypes, SemaTypeOK
  <2>. QED  BY <2>1, <2>2, CallKeeps
<1>13. CASE (\E a \in GuestActors, s \in Keys : Create(a, s) \/ Delete(a, s))
            \/ HostWait \/ HostTimeout \/ UNCHANGED allVars
  <2>1. UNCHANGED vars /\ count' = count
    BY <1>13 DEF Create, Delete, HostWait, HostTimeout, allVars, semaVars
  <2>. QED  BY <1>2, <2>1, StillKeeps
<1>14. CASE HostTake
  <2>1. hostWait.sema \in Keys /\ hostWait.n \in Nat
    BY <1>14, SemaphoreAssumption DEF HostTake, SemaTypes, SemaTypeOK, OpsOK, Ops
  <2>2. UNCHANGED vars /\ TakeTokens(hostWait.sema, hostWait.n)
    BY <1>14 DEF HostTake
  <2>. QED  BY <1>3, <2>1, <2>2, StillKeeps
<1>. QED  BY <1>4, <1>5, <1>6, <1>7, <1>8, <1>9, <1>10, <1>11, <1>12, <1>13, <1>14
          DEF SemaNext, SemaActorStep, FinishExport

\* No thread stays parked on a semaphore that holds its tokens unless a wake
\* under way will still visit it, for any number of threads, semaphores and
\* callers: the predicate is evaluated once more where a thread parks, and a
\* signal adds its tokens before it visits the parked.
THEOREM WakeupsAreNotLost == SemaSpec => []NoLostWakeup
<1>1. SemaInit => SemaInvariant
  <2>1. SemaInit => RunningOK /\ Init
    BY RunningInit DEF SemaInit
  <2>2. Init => LimitOK /\ NoLostWakeup
    BY DEF Init, LimitOK, NoLostWakeup, Parked
  <2>. QED  BY <2>1, <2>2, SemaTypesInit DEF SemaInvariant
<1>2. SemaInvariant /\ [SemaNext]_allVars => SemaInvariant'
  <2>. SUFFICES ASSUME SemaInvariant, [SemaNext]_allVars
                PROVE  SemaInvariant'
    OBVIOUS
  <2>1. [Next]_vars
    BY SchedulerStep DEF SemaInvariant
  <2>2. IInv' /\ SemaTypes'
    BY <2>1, SafetyStep, SemaTypesStep DEF SemaInvariant
  <2>3. RunningOK'
    BY <2>1, RunningStep DEF SemaInvariant
  <2>4. LimitOK' /\ NoLostWakeup'
    BY WakeupStep
  <2>. QED  BY <2>2, <2>3, <2>4 DEF SemaInvariant
<1>. QED  BY <1>1, <1>2, PTL DEF SemaSpec, SemaInvariant

-----------------------------------------------------------------------------
(* The waits of the clients *)

USE DEF tableVars, sliceVars, waitVars, gateVars, callVars, pumpVars, mainVars

\* An export runs in guest code, and outside the host wait of the main host thread.
ExportOK ==
    /\ \A t \in Threads : op[t] # NoOp => exec[t] = "guest"
    /\ op[Main] # NoOp => hostWait = NoOp

\* Only an export, or guest code outside of one, leaves guest code.
LEMMA ExportStep ==
    ASSUME SemaTypes, IInv, ExportOK, [SemaNext]_allVars
    PROVE  ExportOK'
<1>. USE DEF IInv
<1>1. Main \notin Threads
  BY ActorsAssumption
<1>2. ASSUME UNCHANGED exportVars, \A t \in Threads : exec[t] = "guest" => exec'[t] = "guest"
      PROVE  ExportOK'
  BY <1>2 DEF ExportOK
<1>3. CASE SchedulerOnly
  <2>1. UNCHANGED exportVars
    BY <1>3 DEF SchedulerOnly, LeavesSemaphores
  <2>2. ASSUME NEW t \in Threads, RunnerStep(t)
        PROVE  ExportOK'
    BY <1>2, <2>1, <2>2 DEF RunnerStep, TakeWork, RefuseSlice, EnterSlice, BeginSlice,
       RegisterBlocked, LeaveSlice, NestedResume, NestedForced, ReleaseExecutor, SetSlice, TypeOK
  <2>3. ASSUME NEW t \in Threads, CanExport(t), GuestStep(t)
        PROVE  ExportOK'
    BY <1>1, <2>1, <2>3 DEF CanExport, GuestStep, EndGuestCode, EnterCallback, LeaveCallback,
       SetSlice, ExportOK, TypeOK
  <2>4. ASSUME RunInline
        PROVE  ExportOK'
    <3>1. claimed[Main] \in Threads /\ exec[claimed[Main]] = "off"
      BY <2>4, ActorsAssumption DEF RunInline, SingleExecutor, TypeOK, Actors
    <3>. QED  BY <1>2, <2>1, <2>4, <3>1 DEF RunInline, SetSlice, TypeOK
  <2>5. CASE \/ \E a \in GuestActors : CanExport(a) /\ CallPump(a)
             \/ \E a \in GuestActors, t \in Threads : CanExport(a) /\ TryStartThread(a, t)
             \/ CanExport(Main) /\ EntryReturn
    BY <1>2, <2>1, <2>5 DEF CallPump, TryStartThread, EntryReturn
  <2>6. CASE BackgroundStep
    BY <1>2, <2>1, <2>6 DEF BackgroundStep, TickerWake, TickerPump, DispatchTick, PollExpired
  <2>7. CASE SessionStep
    BY <1>2, <2>1, <2>4, <2>7 DEF SessionStep, DrainPump, DrainDone, Dispose, Quiesce,
       LeakSession, ClearGuestThreads, RequestHostShutdown, Over, vars
  <2>. QED  BY <1>3, <2>2, <2>3, <2>5, <2>6, <2>7 DEF SchedulerOnly
<1>4. ASSUME NEW a \in Actors, SemaActorStep(a)
      PROVE  ExportOK'
  BY <1>2, <1>4 DEF SemaActorStep, SemaWake, SemaPass, PredicateTakes, PredicateFails,
     LeavesSemaphores, LoopStep, WakeNobody, PumpWakeExpired, PumpSkip, PumpEnter,
     ClaimNothing, ClaimReady, PassHead, Schedule, ScheduleDropped, WakeWaiter, PassWaiter
<1>5. ASSUME NEW t \in Threads, SemaPark(t) \/ SemaWakeAtPark(t) \/ SemaResume(t)
      PROVE  ExportOK'
  BY <1>2, <1>5 DEF SemaPark, SemaWakeAtPark, SemaResume, PredicateTakes, PredicateFails,
     StayParked, NestedPark, WakeAtPark, NestedWake, Resume, Parking, SetSlice, TypeOK
<1>6. ASSUME NEW t \in Threads, WaitBlock(t)
      PROVE  ExportOK'
  BY <1>1, <1>6 DEF WaitBlock, RequestBlock, EndExport, SetSlice, ExportOK, SemaTypes,
     SemaTypeOK, TypeOK
<1>7. ASSUME NEW a \in GuestActors, CallExport(a)
      PROVE  ExportOK'
  <2>1. CanExport(a) /\ UNCHANGED <<exec, hostWait>> /\ \E o : op' = [op EXCEPT ![a] = o]
    BY <1>7 DEF CallExport, Export, vars
  <2>. QED  BY <1>1, <2>1 DEF CanExport, CanCall, InGuestCode, ExportOK, SemaTypes, SemaTypeOK
<1>8. ASSUME NEW a \in GuestActors, FinishExport(a)
      PROVE  ExportOK'
  <2>1. UNCHANGED <<exec, hostWait>> /\ op' = [op EXCEPT ![a] = NoOp]
    BY <1>8 DEF FinishExport, TakeAtOnce, PollBusy, Signal, SignalRejected, Cancel, EndExport,
       WakeAll, CallWake, vars
  <2>. QED  BY <2>1 DEF ExportOK, SemaTypes, SemaTypeOK
<1>9. CASE \E a \in GuestActors, s \in Keys : Create(a, s) \/ Delete(a, s)
  BY <1>2, <1>9 DEF Create, Delete, vars
<1>10. CASE HostWait
  BY <1>1, <1>10 DEF HostWait, EndExport, vars, ExportOK, SemaTypes, SemaTypeOK
<1>11. CASE HostTake \/ HostTimeout
  BY <1>11 DEF HostTake, HostTimeout, vars, ExportOK
<1>12. CASE UNCHANGED allVars
  BY <1>2, <1>12 DEF allVars, vars
<1>. QED  BY <1>3, <1>4, <1>5, <1>6, <1>7, <1>8, <1>9, <1>10, <1>11, <1>12 DEF SemaNext

-----------------------------------------------------------------------------
(* The refinement of the abstract semaphore *)

\* What the waits of the clients rest on
ClientInv == IInv /\ RunningOK /\ StageOK /\ SemaTypes /\ ExportOK

AbstractStep == [Abstract!Next]_<<count, Asks, Lefts, forcedExit>>

\* A thread in guest code is in no wait, and asks at most by its export.
LEMMA GuestAsks ==
    ASSUME ClientInv, NEW a \in GuestActors,
           IF a = Main THEN hostWait = NoOp ELSE exec[a] = "guest"
    PROVE  op[a] = NoOp => AskOf(a) = NoOp
<1>1. a # Main => HeldWait(a) = NoWait
  BY DEF ClientInv, StageOK, HeldWait, Abandoned
<1>. QED  BY <1>1 DEF AskOf, HostAsk, BlockedAsk

\* A client asks by its export while it is in one.
LEMMA ExportAsks ==
    ASSUME ClientInv, NEW a \in GuestActors, op[a] # NoOp
    PROVE  /\ op[a] \in Ops /\ OpOK(op[a]) /\ AskOf(a) = ExportAsk(a)
           /\ IF a = Main THEN hostWait = NoOp ELSE exec[a] = "guest"
  BY DEF ClientInv, ExportOK, SemaTypes, SemaTypeOK, OpsOK, AskOf

\* A request is told from none.
LEMMA RequestType ==
    \A kind \in {"wait", "poll", "signal", "cancel", "blocked"}, s \in Keys, n \in Int :
        \A g \in BOOLEAN : Request(kind, s, n, g) \in Requests
  BY DEF Request, Requests

\* The parts of a wait may be those of a request.
LEMMA WaitRequest ==
    ASSUME NEW w \in Waits
    PROVE  w.key \in Keys /\ w.waiter \in Int /\ w.granted \in BOOLEAN
<1>1. w.key \in Keys /\ w.waiter \in Waiters /\ w.granted \in BOOLEAN
  BY DEF Waits
<1>2. \A n \in Waiters : n \in Int
  BY SemaphoreAssumption
<1>. QED  BY <1>1, <1>2

\* Requests with the same parts are the same.
LEMMA RequestParts ==
    ASSUME NEW v \in Requests, NEW w \in Requests, v.kind = w.kind, v.sema = w.sema,
           v.n = w.n, v.granted = w.granted
    PROVE  v = w
  BY DEF Requests

\* Granting a request, or taking that back, changes nothing else of it.
LEMMA RequestGranted ==
    ASSUME NEW s \in Keys, NEW n \in Int, NEW g \in BOOLEAN, NEW h \in BOOLEAN
    PROVE  [Request("blocked", s, n, g) EXCEPT !.granted = h] = Request("blocked", s, n, h)
<1>. DEFINE r == Request("blocked", s, n, g)  q == [r EXCEPT !.granted = h]
<1>1. r \in Requests /\ r.kind = "blocked" /\ r.sema = s /\ r.n = n
  BY NoOpAssumption DEF Request, Requests
<1>. HIDE DEF r
<1>2. q \in Requests /\ q.kind = "blocked" /\ q.sema = s /\ q.n = n /\ q.granted = h
  BY <1>1 DEF Requests
<1>. HIDE DEF q
<1>3. q = Request("blocked", s, n, h)
  BY <1>2, NoOpAssumption, RequestParts DEF Request, Requests
<1>. QED  BY <1>3 DEF q, r

\* A call that blocks asks for the same.
LEMMA RequestBlocked ==
    ASSUME NEW s \in Keys, NEW n \in Int
    PROVE  [Request("wait", s, n, FALSE) EXCEPT !.kind = "blocked"]
             = Request("blocked", s, n, FALSE)
<1>. DEFINE r == Request("wait", s, n, FALSE)  q == [r EXCEPT !.kind = "blocked"]
<1>1. r \in Requests /\ r.granted = FALSE /\ r.sema = s /\ r.n = n
  BY NoOpAssumption DEF Request, Requests
<1>. HIDE DEF r
<1>2. q \in Requests /\ q.kind = "blocked" /\ q.sema = s /\ q.n = n /\ q.granted = FALSE
  BY <1>1 DEF Requests
<1>. HIDE DEF q
<1>3. q = Request("blocked", s, n, FALSE)
  BY <1>2, NoOpAssumption, RequestParts DEF Request, Requests
<1>. QED  BY <1>3 DEF q, r

\* One client's request changes.
LEMMA AsksMove ==
    ASSUME NEW c \in GuestActors, NEW v, AskOf(c)' = v,
           \A d \in GuestActors \ {c} : AskOf(d)' = AskOf(d)
    PROVE  Asks' = [Asks EXCEPT ![c] = v]
  BY DEF Asks

LEMMA AsksStay ==
    ASSUME \A d \in GuestActors : AskOf(d)' = AskOf(d)
    PROVE  Asks' = Asks
  BY DEF Asks

\* Who asks keeps asking while neither its export nor its wait moves.
LEMMA OthersAsk ==
    ASSUME NEW d \in GuestActors, op'[d] = op[d], d = Main => hostWait' = hostWait,
           d # Main => HeldWait(d)' = HeldWait(d)
    PROVE  AskOf(d)' = AskOf(d)
  BY DEF AskOf, ExportAsk, HostAsk, BlockedAsk

LEMMA ExportsAsk ==
    ASSUME NEW a \in GuestActors, NEW v, op' = [op EXCEPT ![a] = v], UNCHANGED vars,
           a # Main => hostWait' = hostWait, SemaTypes
    PROVE  \A d \in GuestActors \ {a} : AskOf(d)' = AskOf(d)
<1>1. \A t \in Threads : HeldWait(t)' = HeldWait(t)
  BY DEF vars, HeldWait, Abandoned
<1>. QED  BY <1>1, OthersAsk DEF SemaTypes, SemaTypeOK

\* What a client has deserted depends on its own thread.
LEMMA LeftSteady ==
    ASSUME NEW c \in GuestActors, c # Main => Steady(c)
    PROVE  LeftOf(c)' = LeftOf(c)
  BY DEF Steady, LeftOf

LEMMA LeftFades ==
    ASSUME NEW c \in GuestActors, c # Main => Fades(c)
    PROVE  LeftOf(c)' \in {LeftOf(c), NoOp}
  BY DEF Fades, Steady, LeftOf

LEMMA LeftsStay ==
    ASSUME \A u \in Threads : Steady(u)
    PROVE  Lefts' = Lefts
  BY LeftSteady DEF Lefts

\* The exports and the host wait desert nothing.
LEMMA LeftsStill ==
    ASSUME UNCHANGED <<pending, wait, exec, state>>
    PROVE  Lefts' = Lefts
<1>1. \A u \in Threads : Steady(u)
  BY DEF Steady, Deserted, Abandoned
<1>. QED  BY <1>1, LeftsStay

\* A step that leaves tokens and requests alone and deserts no wait is a stutter,
\* forgets deserted waits, or stops the session: before that there are none.
LEMMA FadeOrStop ==
    ASSUME ClientInv, [Next]_vars, forcedExit' \in BOOLEAN, count' = count, Asks' = Asks,
           \A c \in GuestActors : LeftOf(c)' \in {LeftOf(c), NoOp}
    PROVE  AbstractStep
<1>. USE DEF ClientInv
<1>1. CASE forcedExit' = forcedExit
  <2>. DEFINE C == {c \in GuestActors : LeftOf(c)' = NoOp}
  <2>1. Lefts' = [c \in GuestActors |-> IF c \in C THEN NoOp ELSE Lefts[c]]
    BY DEF Lefts
  <2>2. C \in SUBSET GuestActors
    OBVIOUS
  <2>. HIDE DEF C
  <2>3. Abstract!Forget
    BY <1>1, <2>1, <2>2 DEF Abstract!Forget
  <2>. QED  BY <2>3 DEF AbstractStep, Abstract!Next
<1>2. CASE forcedExit' # forcedExit
  <2>1. ~forcedExit /\ forcedExit' = TRUE
    BY <1>2, ForcedStays DEF IInv, TypeOK
  <2>2. \A t \in Threads : ~Deserted(t)
    BY <2>1 DEF StageOK, Deserted, Abandoned
  <2>3. \A c \in GuestActors : LeftOf(c) = NoOp
    BY <2>2 DEF LeftOf
  <2>4. Lefts' = Lefts
    BY <2>3 DEF Lefts
  <2>5. Abstract!Stop
    BY <2>1, <2>4 DEF Abstract!Stop
  <2>. QED  BY <2>5 DEF AbstractStep, Abstract!Next
<1>. QED  BY <1>1, <1>2

\* The look-up of an export begins its client's call.
LEMMA LookupImplements ==
    ASSUME ClientInv, NEW a \in GuestActors, NEW kind \in {"wait", "poll", "signal", "cancel"},
           NEW s \in Keys, NEW n \in Int, NEW timed \in BOOLEAN, Export(a, kind, s, n, timed),
           kind \in {"wait", "poll"} => n \in 1..MaxCount[s],
           kind = "signal" => n \in SignalCounts,
           kind = "cancel" => n \in CancelCounts /\ n <= MaxCount[s]
    PROVE  AbstractStep
<1>. USE DEF ClientInv
<1>. DEFINE o == [kind |-> kind, sema |-> s, n |-> n, timed |-> timed]
<1>1. /\ op[a] = NoOp /\ IF a = Main THEN hostWait = NoOp ELSE exec[a] = "guest"
      /\ op' = [op EXCEPT ![a] = o] /\ UNCHANGED <<vars, count, hostWait>>
  BY DEF Export, CanExport, CanCall, InGuestCode
<1>2. o \in Ops /\ o.kind = kind /\ o.sema = s /\ o.n = n
  BY DEF Ops
<1>. HIDE DEF o
<1>3. \A d \in GuestActors \ {a} : AskOf(d)' = AskOf(d)
  BY <1>1, ExportsAsk
<1>4. Asks[a] = NoOp
  BY <1>1, GuestAsks DEF Asks
<1>5. op'[a] = o /\ o # NoOp
  BY <1>1, <1>2, NoOpAssumption DEF SemaTypes, SemaTypeOK
<1>6. AskOf(a)' = Request(kind, s, n, FALSE)
  <2>1. AskOf(a)' = ExportAsk(a)'
    BY <1>5 DEF AskOf
  <2>2. ExportAsk(a)' = Request(o.kind, o.sema, o.n, FALSE)
    BY <1>5 DEF ExportAsk
  <2>. QED  BY <1>2, <2>1, <2>2
<1>7. Asks' = [Asks EXCEPT ![a] = Request(kind, s, n, FALSE)]
  BY <1>3, <1>6, AsksMove
<1>8. Lefts' = Lefts /\ UNCHANGED <<count, forcedExit>>
  BY <1>1, LeftsStill DEF vars
<1>9. Abstract!Begin(a, kind, s, n)
  BY <1>7 DEF Abstract!Begin, Request
<1>10. Abstract!Ask(a)
  BY <1>4, <1>8, <1>9 DEF Abstract!Ask
<1>. QED  BY <1>10 DEF AbstractStep, Abstract!Next

LEMMA CallImplements ==
    ASSUME ClientInv, NEW a \in GuestActors, CallExport(a)
    PROVE  AbstractStep
<1>1. ASSUME NEW s \in Keys, NEW n \in Needs, NEW timed \in Timeouts, n <= MaxCount[s],
             Export(a, "wait", s, n, timed)
      PROVE  AbstractStep
  <2>1. n \in 1..MaxCount[s] /\ n \in Int /\ timed \in BOOLEAN
    BY <1>1, SemaphoreAssumption
  <2>. QED  BY <1>1, <2>1, LookupImplements
<1>2. ASSUME NEW s \in Keys, NEW n \in 1..MaxCount[s], Export(a, "poll", s, n, FALSE)
      PROVE  AbstractStep
  <2>1. n \in Int
    OBVIOUS
  <2>. QED  BY <1>2, <2>1, LookupImplements
<1>3. ASSUME NEW s \in Keys, NEW n \in SignalCounts, Export(a, "signal", s, n, FALSE)
      PROVE  AbstractStep
  <2>1. n \in Int
    BY SemaphoreAssumption
  <2>. QED  BY <1>3, <2>1, LookupImplements
<1>4. ASSUME NEW s \in Keys, NEW n \in CancelCounts, n <= MaxCount[s],
             Export(a, "cancel", s, n, FALSE)
      PROVE  AbstractStep
  <2>1. n \in Int
    BY SemaphoreAssumption
  <2>. QED  BY <1>4, <2>1, LookupImplements
<1>. QED  BY <1>1, <1>2, <1>3, <1>4 DEF CallExport

\* When its export is over, its client asks for nothing.
LEMMA ExportEnds ==
    ASSUME ClientInv, NEW a \in GuestActors, op[a] # NoOp, EndExport(a),
           UNCHANGED <<pending, wait, resuming, exec, state, hostWait>>
    PROVE  Asks' = [Asks EXCEPT ![a] = NoOp]
<1>. USE DEF ClientInv
<1>1. op' = [op EXCEPT ![a] = NoOp] /\ op'[a] = NoOp
  BY DEF EndExport, SemaTypes, SemaTypeOK
<1>2. \A t \in Threads : HeldWait(t)' = HeldWait(t)
  BY DEF HeldWait, Abandoned
<1>3. \A d \in GuestActors \ {a} : AskOf(d)' = AskOf(d)
  BY <1>1, <1>2, OthersAsk DEF SemaTypes, SemaTypeOK
<1>4. IF a = Main THEN hostWait = NoOp ELSE exec[a] = "guest"
  BY ExportAsks
<1>5. a # Main => HeldWait(a)' = NoWait
  BY <1>2, <1>4 DEF StageOK, HeldWait, Abandoned
<1>6. AskOf(a)' = NoOp
  <2>1. CASE a = Main
    BY <1>1, <1>4, <2>1 DEF AskOf, HostAsk
  <2>2. CASE a # Main
    BY <1>1, <1>5, <2>2 DEF AskOf, BlockedAsk
  <2>. QED  BY <2>1, <2>2
<1>. QED  BY <1>3, <1>6, AsksMove

\* In its lock an export takes the tokens its client asks for and returns,
\* returns without, or adds the tokens of its own signal or cancel.
LEMMA FinishImplements ==
    ASSUME ClientInv, NEW a \in GuestActors, FinishExport(a)
    PROVE  AbstractStep
<1>. USE DEF ClientInv
<1>. DEFINE s == op[a].sema  n == op[a].n
<1>1. /\ op[a] # NoOp /\ EndExport(a)
      /\ UNCHANGED <<pending, wait, resuming, exec, state, hostWait, forcedExit>>
  BY DEF FinishExport, TakeAtOnce, PollBusy, Signal, SignalRejected, Cancel, InExport, WakeAll,
     CallWake, vars
<1>2. op[a] \in Ops /\ OpOK(op[a]) /\ Asks[a] = ExportAsk(a) /\ s \in Keys /\ n \in Int
  BY <1>1, ExportAsks DEF Asks, Ops
<1>3. /\ Asks[a] # NoOp /\ Asks[a].kind = op[a].kind /\ Asks[a].sema = s /\ Asks[a].n = n
  <2>1. op[a].kind \in {"wait", "poll", "signal", "cancel", "blocked"}
    BY <1>2 DEF Ops
  <2>2. Asks[a] = Request(op[a].kind, s, n, FALSE)
    BY <1>2 DEF ExportAsk
  <2>3. Asks[a] \in Requests
    BY <1>2, <2>1, <2>2, RequestType
  <2>4. Asks[a] # NoOp
    BY <2>3, NoOpAssumption
  <2>. QED  BY <2>2, <2>4 DEF Request
<1>4. Abstract!End(a)
  BY <1>1, ExportEnds DEF Abstract!End
<1>5. Lefts' = Lefts
  BY <1>1, LeftsStill
<1>6. count \in [Keys -> Nat] /\ MaxCount[s] \in Nat
  BY <1>2, SemaphoreAssumption DEF SemaTypes, SemaTypeOK
<1>. HIDE DEF s, n
<1>7. CASE TakeAtOnce(a)
  <2>1. /\ op[a].kind \in {"wait", "poll"} /\ n <= count[s]
        /\ count' = [count EXCEPT ![s] = @ - n]
    BY <1>2, <1>6, <1>7 DEF TakeAtOnce, InExport, TakeTokens, s, n
  <2>2. Abstract!TakeAndReturn(a)
    BY <1>1, <1>3, <1>4, <1>5, <2>1 DEF Abstract!TakeAndReturn, Abstract!In, Abstract!Take
  <2>. QED  BY <2>2 DEF AbstractStep, Abstract!Next
<1>8. CASE PollBusy(a)
  <2>1. op[a].kind = "poll" /\ ~(n <= count[s]) /\ UNCHANGED count
    BY <1>2, <1>6, <1>8 DEF PollBusy, InExport, s, n
  <2>2. Abstract!ReturnWithout(a)
    BY <1>1, <1>3, <1>4, <1>5, <2>1
       DEF Abstract!ReturnWithout, Abstract!In, Abstract!Enough
  <2>. QED  BY <2>2 DEF AbstractStep, Abstract!Next
<1>9. CASE Signal(a)
  <2>1. /\ op[a].kind = "signal" /\ count[s] <= MaxCount[s] - n
        /\ count' = [count EXCEPT ![s] = @ + n]
    BY <1>9 DEF Signal, InExport, s, n
  <2>2. count[s] + n <= MaxCount[s]
    BY <1>2, <1>6, <2>1
  <2>3. Abstract!Signal(a)
    BY <1>1, <1>3, <1>4, <1>5, <2>1, <2>2 DEF Abstract!Signal, Abstract!In
  <2>. QED  BY <2>3 DEF AbstractStep, Abstract!Next
<1>10. CASE SignalRejected(a)
  <2>1. op[a].kind = "signal" /\ count[s] > MaxCount[s] - n /\ UNCHANGED count
    BY <1>10 DEF SignalRejected, InExport, s, n
  <2>2. count[s] + n > MaxCount[s]
    BY <1>2, <1>6, <2>1
  <2>3. Abstract!Refuse(a)
    BY <1>1, <1>3, <1>4, <1>5, <2>1, <2>2 DEF Abstract!Refuse, Abstract!In
  <2>. QED  BY <2>3 DEF AbstractStep, Abstract!Next
<1>11. CASE Cancel(a)
  <2>1. /\ op[a].kind = "cancel"
        /\ count' = [count EXCEPT ![s] = IF n < 0 THEN InitialCount[s] ELSE n]
    BY <1>11 DEF Cancel, InExport, s, n
  <2>2. Abstract!Cancel(a)
    BY <1>1, <1>3, <1>4, <1>5, <2>1 DEF Abstract!Cancel, Abstract!In
  <2>. QED  BY <2>2 DEF AbstractStep, Abstract!Next
<1>. QED  BY <1>7, <1>8, <1>9, <1>10, <1>11 DEF FinishExport

\* The main host thread asks the same in its host wait, and returns from there.
LEMMA HostImplements ==
    ASSUME ClientInv, HostWait \/ HostTake \/ HostTimeout
    PROVE  AbstractStep
<1>. USE DEF ClientInv
<1>1. \A d \in GuestActors \ {Main} : AskOf(d)' = AskOf(d)
  <2>1. UNCHANGED vars /\ (op' = op \/ op' = [op EXCEPT ![Main] = NoOp])
    BY DEF HostWait, HostTake, HostTimeout, EndExport
  <2>2. \A t \in Threads : HeldWait(t)' = HeldWait(t)
    BY <2>1 DEF vars, HeldWait, Abandoned
  <2>. QED  BY <2>1, <2>2, OthersAsk DEF SemaTypes, SemaTypeOK
<1>2. Lefts' = Lefts /\ UNCHANGED forcedExit
  BY LeftsStill DEF HostWait, HostTake, HostTimeout, vars
<1>3. CASE HostWait
  <2>1. op[Main] # NoOp /\ op[Main].kind = "wait"
    BY <1>3 DEF HostWait, InExport
  <2>2. op'[Main] = NoOp /\ hostWait' = op[Main] /\ UNCHANGED count
    BY <1>3 DEF HostWait, EndExport, vars, SemaTypes, SemaTypeOK
  <2>3. AskOf(Main)' = AskOf(Main)
    BY <2>1, <2>2 DEF AskOf, ExportAsk, HostAsk
  <2>4. Asks' = Asks
    BY <1>1, <2>3, AsksStay
  <2>. QED  BY <1>2, <2>2, <2>4 DEF AbstractStep
<1>4. CASE HostTake \/ HostTimeout
  <2>. DEFINE s == hostWait.sema  n == hostWait.n
  <2>1. hostWait # NoOp /\ hostWait' = NoOp /\ op' = op /\ op[Main] = NoOp
    BY <1>4 DEF HostTake, HostTimeout, ExportOK, vars
  <2>2. s \in Keys /\ n \in Int /\ count[s] \in Nat
    BY <2>1, SemaphoreAssumption DEF SemaTypes, SemaTypeOK, OpsOK, Ops
  <2>3. /\ Asks[Main] # NoOp /\ Asks[Main].kind = "wait" /\ Asks[Main].sema = s
        /\ Asks[Main].n = n
    <3>1. Asks[Main] = Request("wait", s, n, FALSE)
      BY <2>1 DEF Asks, AskOf, HostAsk
    <3>2. Asks[Main] # NoOp
      BY <2>2, <3>1, RequestType, NoOpAssumption
    <3>. QED  BY <3>1, <3>2 DEF Request
  <2>4. AskOf(Main)' = NoOp
    BY <2>1 DEF AskOf, HostAsk
  <2>5. Abstract!End(Main)
    BY <1>1, <2>4, AsksMove DEF Abstract!End
  <2>6. CASE HostTake
    <3>1. n <= count[s] /\ count' = [count EXCEPT ![s] = @ - n]
      BY <2>2, <2>6 DEF HostTake, TakeTokens
    <3>. HIDE DEF s, n
    <3>2. Abstract!TakeAndReturn(Main)
      BY <1>2, <2>3, <2>5, <3>1 DEF Abstract!TakeAndReturn, Abstract!In, Abstract!Take
    <3>. QED  BY <3>2 DEF AbstractStep, Abstract!Next
  <2>7. CASE HostTimeout
    <3>1. ~(n <= count[s]) /\ UNCHANGED count
      BY <2>2, <2>7 DEF HostTimeout
    <3>. HIDE DEF s, n
    <3>2. Abstract!ReturnWithout(Main)
      BY <1>2, <2>3, <2>5, <3>1 DEF Abstract!ReturnWithout, Abstract!In, Abstract!Enough
    <3>. QED  BY <3>2 DEF AbstractStep, Abstract!Next
  <2>. QED  BY <1>4, <2>6, <2>7
<1>. QED  BY <1>3, <1>4

\* While a thread is in no export, what it asks is the wait it is in.
LEMMA BlockedAsks ==
    ASSUME NEW t \in Threads, op[t] = NoOp
    PROVE  AskOf(t) = BlockedAsk(t)
  BY ActorsAssumption DEF AskOf

\* A wait is asked for with its key and its tokens.
LEMMA WaitAsks ==
    ASSUME NEW t \in Threads, op[t] = NoOp, HeldWait(t) # NoWait
    PROVE  LET w == HeldWait(t)
           IN Asks[t] = Request("blocked", w.key, w.waiter, w.granted)
  BY BlockedAsks DEF BlockedAsk, Asks

\* A step that leaves the waits and the tokens alone forgets deserted waits at
\* most, or stops the session.
LEMMA HeldImplements ==
    ASSUME ClientInv, [Next]_vars, HoldStep, UNCHANGED <<op, hostWait, count>>
    PROVE  AbstractStep
<1>1. WaitsHeld
  BY HoldFrame DEF ClientInv
<1>2. Asks' = Asks
  BY <1>1, AsksStay, OthersAsk DEF WaitsHeld
<1>3. forcedExit' \in BOOLEAN
  BY SafetyStep DEF ClientInv, IInv, TypeOK
<1>4. \A c \in GuestActors : LeftOf(c)' \in {LeftOf(c), NoOp}
  BY FadeFrame, LeftFades DEF ClientInv
<1>. QED  BY <1>2, <1>3, <1>4, FadeOrStop

\* Who is in no export and loses its wait asks for nothing any more.
LEMMA WaitEnds ==
    ASSUME ClientInv, NEW t \in Threads, exec[t] # "guest", HeldWait(t)' = NoWait,
           OthersHeld(t), UNCHANGED <<op, hostWait>>
    PROVE  /\ op[t] = NoOp /\ Abstract!End(t)
           /\ HeldWait(t) = NoWait => Asks' = Asks
           /\ HeldWait(t) # NoWait => Abstract!In(t, {"blocked"})
<1>. USE DEF ClientInv
<1>1. op[t] = NoOp /\ op'[t] = NoOp
  BY DEF ExportOK
<1>2. \A d \in GuestActors \ {t} : AskOf(d)' = AskOf(d)
  BY OthersAsk DEF OthersHeld
<1>3. AskOf(t)' = NoOp
  BY <1>1, ActorsAssumption DEF AskOf, BlockedAsk
<1>4. Abstract!End(t)
  BY <1>2, <1>3, AsksMove DEF Abstract!End
<1>5. HeldWait(t) = NoWait => Asks' = Asks
  BY <1>1, <1>2, <1>3, AsksStay, BlockedAsks DEF BlockedAsk
<1>6. ASSUME HeldWait(t) # NoWait
      PROVE  Abstract!In(t, {"blocked"})
  <2>. DEFINE w == HeldWait(t)
  <2>1. w \in Waits
    BY <1>6, HeldType DEF IInv
  <2>2. Asks[t] = Request("blocked", w.key, w.waiter, w.granted)
    BY <1>1, <1>6, WaitAsks
  <2>. HIDE DEF w
  <2>3. w.key \in Keys /\ w.waiter \in Int /\ w.granted \in BOOLEAN
    BY <2>1, WaitRequest
  <2>4. Asks[t] # NoOp
    BY <2>2, <2>3, RequestType, NoOpAssumption
  <2>5. Asks[t].kind = "blocked"
    BY <2>2 DEF Request
  <2>. QED  BY <2>4, <2>5 DEF Abstract!In
<1>. QED  BY <1>1, <1>4, <1>5, <1>6

\* A resumed wait is a return of its client, with or without its tokens.
LEMMA ResumeImplements ==
    ASSUME ClientInv, NEW t \in Threads, SemaResume(t)
    PROVE  AbstractStep
<1>. USE DEF ClientInv
<1>1. /\ Resume(t) /\ exec[t] # "guest" /\ UNCHANGED <<op, hostWait, count, forcedExit>>
  BY DEF SemaResume, Resume
<1>2. /\ HeldWait(t) # NoWait /\ HeldWait(t)' = NoWait /\ OthersHeld(t)
  <2>1. resuming[t] \in Waits /\ HeldWait(t) = Disarmed(resuming[t])
    BY <1>1, ResumeFrame
  <2>2. Disarmed(resuming[t]) # NoWait
    BY <2>1, WaitTypes, NoneAssumption
  <2>. QED  BY <1>1, <2>1, <2>2, ResumeFrame
<1>3. Lefts' = Lefts
  BY <1>1, SteadyFrame, LeftsStay
<1>4. Abstract!Unblock(t)
  BY <1>1, <1>2, <1>3, WaitEnds DEF Abstract!Unblock
<1>. QED  BY <1>4 DEF AbstractStep, Abstract!Next

\* A forced exit sends a client away from the wait it is in.
LEMMA ForcedImplements ==
    ASSUME ClientInv, NEW t \in Threads, RefuseSlice(t) \/ NestedForced(t),
           UNCHANGED <<op, hostWait, count>>
    PROVE  AbstractStep
<1>. USE DEF ClientInv
<1>1. forcedExit /\ HeldWait(t)' = NoWait /\ OthersHeld(t)
  BY ForcedFrame
<1>2. exec[t] # "guest" /\ UNCHANGED forcedExit
  BY DEF RefuseSlice, NestedForced
<1>3. \A u \in Threads \ {t} : Steady(u)
  BY DesertFrame
<1>4. \A c \in GuestActors \ {t} : LeftOf(c)' = LeftOf(c)
  BY <1>3, LeftSteady
<1>5. /\ op[t] = NoOp /\ Abstract!End(t)
      /\ HeldWait(t) = NoWait => Asks' = Asks
      /\ HeldWait(t) # NoWait => Abstract!In(t, {"blocked"})
  BY <1>1, <1>2, WaitEnds
<1>6. t # Main
  BY ActorsAssumption
<1>7. /\ wait'[t] = wait[t]
      /\ Deserted(t)' /\ ~Deserted(t) => HeldWait(t) = Disarmed(wait[t])
  BY DesertFrame
<1>8. CASE LeftOf(t)' = LeftOf(t)
  <2>1. Lefts' = Lefts
    BY <1>4, <1>8 DEF Lefts
  <2>2. CASE HeldWait(t) = NoWait
    BY <1>2, <1>5, <2>1, <2>2 DEF AbstractStep
  <2>3. CASE HeldWait(t) # NoWait
    <3>1. Abstract!Unblock(t)
      BY <1>2, <1>5, <2>1, <2>3 DEF Abstract!Unblock
    <3>. QED  BY <3>1 DEF AbstractStep, Abstract!Next
  <2>. QED  BY <2>2, <2>3
<1>9. CASE LeftOf(t)' # LeftOf(t) /\ Deserted(t)'
  <2>. DEFINE w == wait[t]
  <2>1. ~Deserted(t)
    BY <1>6, <1>7, <1>9 DEF LeftOf
  <2>2. HeldWait(t) = Disarmed(w)
    BY <1>7, <1>9, <2>1
  <2>3. w \in Waits
    BY <1>7, <1>9 DEF Deserted, IInv, TypeOK
  <2>4. /\ Disarmed(w) \in Waits /\ Disarmed(w) # NoWait
        /\ Disarmed(w).key = w.key /\ Disarmed(w).waiter = w.waiter
        /\ Disarmed(w).granted = w.granted
    BY <2>3, WaitTypes, NoneAssumption DEF Disarmed, Waits
  <2>5. LeftOf(t)' = Request("blocked", w.key, w.waiter, FALSE)
    BY <1>6, <1>7, <1>9 DEF LeftOf
  <2>6. Asks[t] = Request("blocked", w.key, w.waiter, w.granted)
    BY <1>5, <2>2, <2>4, WaitAsks
  <2>7. w.key \in Keys /\ w.waiter \in Int /\ w.granted \in BOOLEAN
    BY <2>3, WaitRequest
  <2>. HIDE DEF w
  <2>8. LeftOf(t)' = [Asks[t] EXCEPT !.granted = FALSE]
    <3>1. \A g \in BOOLEAN : [Request("blocked", w.key, w.waiter, g) EXCEPT !.granted = FALSE]
                               = Request("blocked", w.key, w.waiter, FALSE)
      BY <2>7, RequestGranted
    <3>. QED  BY <2>5, <2>6, <2>7, <3>1
  <2>9. Lefts' = [Lefts EXCEPT ![t] = [Asks[t] EXCEPT !.granted = FALSE]]
    BY <1>4, <2>8 DEF Lefts
  <2>10. Abstract!SendAway(t)
    BY <1>1, <1>2, <1>5, <2>2, <2>4, <2>9 DEF Abstract!SendAway
  <2>. QED  BY <2>10 DEF AbstractStep, Abstract!Next
<1>10. CASE LeftOf(t)' # LeftOf(t) /\ ~Deserted(t)'
  <2>1. Deserted(t)
    BY <1>6, <1>10 DEF LeftOf
  <2>2. FALSE
    BY <1>10, <2>1 DEF RefuseSlice, NestedForced, ReleaseExecutor, SetSlice, SetState, StageOK,
       Deserted, Abandoned, IInv, TypeOK
  <2>. QED  BY <2>2
<1>. QED  BY <1>8, <1>9, <1>10

\* The predicate grants the call of the thread it is evaluated for.  Once a forced
\* exit has sent that thread away, or has had its wait granted twice, its tokens are
\* lost.
LEMMA WakeImplements ==
    ASSUME ClientInv, NEW t \in Threads,
           (\E a \in Actors : SemaWake(a, t)) \/ SemaWakeAtPark(t)
    PROVE  AbstractStep
<1>. USE DEF ClientInv
<1>. DEFINE s == wait[t].key  n == wait[t].waiter
<1>1. /\ (\E a \in Actors : WakeWaiter(a, t)) \/ WakeAtPark(t) \/ NestedWake(t)
      /\ Enough(wait[t]) /\ TakeTokens(s, n) /\ UNCHANGED <<op, hostWait>>
  BY DEF SemaWake, SemaWakeAtPark, PredicateTakes
<1>2. UNCHANGED forcedExit
  BY <1>1 DEF WakeWaiter, WakeAtPark, NestedWake
<1>3. /\ wait[t] \in Waits
      /\ \/ /\ HeldWait(t) = Disarmed(wait[t]) /\ ~wait[t].granted
            /\ HeldWait(t)' = Granted(wait[t])
            /\ OthersHeld(t)
         \/ forcedExit /\ WaitsHeld
  BY <1>1, WakeFrame
<1>4. /\ Lefts' = Lefts
      /\ ~Deserted(t) => /\ HeldWait(t) = Disarmed(wait[t])
                         /\ HeldWait(t)' = Granted(wait[t])
  BY <1>1, SpendFrame, LeftsStay
<1>5. s \in Keys /\ n \in Int
  BY <1>3, WaitRequest
<1>6. Abstract!Take(s, n)
  BY <1>1, <1>5 DEF Enough, TakeTokens, Abstract!Take, SemaTypes, SemaTypeOK
<1>7. /\ Disarmed(wait[t]) \in Waits /\ Granted(wait[t]) \in Waits
      /\ Disarmed(wait[t]).key = s /\ Disarmed(wait[t]).waiter = n
      /\ Disarmed(wait[t]).granted = wait[t].granted
      /\ Granted(wait[t]).key = s /\ Granted(wait[t]).waiter = n
      /\ Granted(wait[t]).granted = TRUE
  BY <1>3, WaitTypes DEF Disarmed, Granted, Waits
<1>8. Disarmed(wait[t]) # NoWait /\ Granted(wait[t]) # NoWait
  BY <1>7, NoneAssumption
<1>9. /\ \A g \in BOOLEAN : /\ Request("blocked", s, n, g) # NoOp
                            /\ Request("blocked", s, n, g).kind = "blocked"
                            /\ Request("blocked", s, n, g).sema = s
                            /\ Request("blocked", s, n, g).n = n
                            /\ Request("blocked", s, n, g).granted = g
  BY <1>5, RequestType, NoOpAssumption DEF Request
<1>10. CASE /\ HeldWait(t) = Disarmed(wait[t]) /\ ~wait[t].granted
            /\ HeldWait(t)' = Granted(wait[t])
            /\ OthersHeld(t)
  <2>1. op[t] = NoOp /\ op'[t] = NoOp
    BY <1>1, <1>8, <1>10 DEF ExportOK, StageOK, HeldWait, Abandoned
  <2>2. wait[t].granted = FALSE
    BY <1>3, <1>10 DEF Waits
  <2>3. Asks[t] = Request("blocked", s, n, FALSE)
    BY <1>7, <1>8, <1>10, <2>1, <2>2, WaitAsks
  <2>4. AskOf(t)' = Request("blocked", s, n, TRUE)
    <3>1. AskOf(t)' = BlockedAsk(t)'
      BY <2>1, ActorsAssumption DEF AskOf
    <3>2. BlockedAsk(t)' = Request("blocked", Granted(wait[t]).key, Granted(wait[t]).waiter,
                                   Granted(wait[t]).granted)
      BY <1>8, <1>10 DEF BlockedAsk
    <3>. QED  BY <1>7, <3>1, <3>2
  <2>5. \A c \in GuestActors \ {t} : AskOf(c)' = AskOf(c)
    BY <1>1, <1>10, OthersAsk DEF OthersHeld
  <2>. HIDE DEF s, n
  <2>6. Asks' = [Asks EXCEPT ![t] = Request("blocked", s, n, TRUE)]
    BY <2>4, <2>5, AsksMove
  <2>7. Asks' = [Asks EXCEPT ![t].granted = TRUE]
    BY <1>5, <2>3, <2>6, RequestGranted
  <2>8. Asks[t] # NoOp /\ Asks[t].kind = "blocked" /\ Asks[t].sema = s /\ Asks[t].n = n
        /\ ~Asks[t].granted
    BY <1>9, <2>3
  <2>9. Abstract!Grant(t)
    BY <1>2, <1>4, <1>6, <2>7, <2>8 DEF Abstract!Grant, Abstract!In
  <2>. QED  BY <2>9 DEF AbstractStep, Abstract!Next
<1>11. CASE forcedExit /\ WaitsHeld
  <2>1. Asks' = Asks
    BY <1>1, <1>11, AsksStay, OthersAsk DEF WaitsHeld
  <2>2. CASE Deserted(t)
    <3>1. Lefts[t] = Request("blocked", s, n, FALSE)
      BY <2>2, ActorsAssumption DEF Lefts, LeftOf
    <3>. HIDE DEF s, n
    <3>2. Lefts[t] # NoOp /\ Lefts[t].sema = s /\ Lefts[t].n = n
      BY <1>9, <3>1
    <3>3. Abstract!Lose(t)
      BY <1>2, <1>4, <1>6, <1>11, <2>1, <3>2 DEF Abstract!Lose
    <3>. QED  BY <3>3 DEF AbstractStep, Abstract!Next
  <2>3. CASE ~Deserted(t)
    <3>1. HeldWait(t) = Granted(wait[t])
      BY <1>4, <1>11, <2>3 DEF WaitsHeld
    <3>2. op[t] = NoOp
      BY <1>8, <3>1 DEF ExportOK, StageOK, HeldWait, Abandoned
    <3>3. Asks[t] = Request("blocked", s, n, TRUE)
      BY <1>7, <1>8, <3>1, <3>2, WaitAsks
    <3>. HIDE DEF s, n
    <3>4. /\ Asks[t] # NoOp /\ Asks[t].kind = "blocked" /\ Asks[t].sema = s
          /\ Asks[t].n = n /\ Asks[t].granted
      BY <1>9, <3>3
    <3>5. Abstract!Lose(t)
      BY <1>2, <1>4, <1>6, <1>11, <2>1, <3>4 DEF Abstract!Lose, Abstract!In
    <3>. QED  BY <3>5 DEF AbstractStep, Abstract!Next
  <2>. QED  BY <2>2, <2>3
<1>. QED  BY <1>3, <1>10, <1>11

\* A thread that asks to block goes on asking, by its wait instead of its export.
LEMMA BlockImplements ==
    ASSUME ClientInv, NEW t \in Threads, WaitBlock(t)
    PROVE  AbstractStep
<1>. USE DEF ClientInv
<1>. DEFINE w == [key |-> op[t].sema, timed |-> op[t].timed, waiter |-> op[t].n,
                  granted |-> FALSE]
            s == op[t].sema  n == op[t].n
<1>1. w \in NewWaits /\ w \in Waits /\ s \in Keys /\ n \in Int
  BY DEF WaitBlock, InExport, SemaTypes, SemaTypeOK, OpsOK, OpOK, Ops, NewWaits, Waits
<1>2. RequestBlock(t, w) /\ op[t] # NoOp /\ op[t].kind = "wait" /\ count[s] < n
  BY DEF WaitBlock, InExport
<1>3. op' = [op EXCEPT ![t] = NoOp] /\ op'[t] = NoOp /\ UNCHANGED <<count, hostWait>>
  BY DEF WaitBlock, EndExport, SemaTypes, SemaTypeOK
<1>4. w.key = s /\ w.waiter = n /\ w.granted = FALSE
  OBVIOUS
<1>. HIDE DEF w
<1>5. HeldWait(t)' = Disarmed(w) /\ OthersHeld(t) /\ Lefts' = Lefts /\ UNCHANGED forcedExit
  <2>1. UNCHANGED forcedExit
    BY <1>2 DEF RequestBlock
  <2>2. Lefts' = Lefts
    BY <1>1, <1>2, SteadyFrame, LeftsStay
  <2>. QED  BY <1>1, <1>2, <2>1, <2>2, RequestFrame
<1>6. /\ Disarmed(w) # NoWait /\ Disarmed(w).key = s /\ Disarmed(w).waiter = n
      /\ Disarmed(w).granted = FALSE
  BY <1>1, <1>4, NoneAssumption DEF Disarmed, Waits
<1>. HIDE DEF s, n
<1>7. AskOf(t)' = Request("blocked", s, n, FALSE)
  <2>1. AskOf(t)' = BlockedAsk(t)'
    BY <1>3, ActorsAssumption DEF AskOf
  <2>2. BlockedAsk(t)' = Request("blocked", Disarmed(w).key, Disarmed(w).waiter,
                                 Disarmed(w).granted)
    BY <1>5, <1>6 DEF BlockedAsk
  <2>. QED  BY <1>6, <2>1, <2>2
<1>8. Asks[t] = Request("wait", s, n, FALSE)
  BY <1>2 DEF Asks, AskOf, ExportAsk, s, n
<1>9. \A d \in GuestActors \ {t} : AskOf(d)' = AskOf(d)
  BY <1>3, <1>5, OthersAsk DEF OthersHeld, SemaTypes, SemaTypeOK
<1>10. Asks' = [Asks EXCEPT ![t] = Request("blocked", s, n, FALSE)]
  BY <1>7, <1>9, AsksMove
<1>11. Asks' = [Asks EXCEPT ![t].kind = "blocked"]
  BY <1>1, <1>8, <1>10, RequestBlocked
<1>12. Asks[t] # NoOp /\ Asks[t].kind = "wait" /\ Asks[t].sema = s /\ Asks[t].n = n
  <2>1. Asks[t] # NoOp
    BY <1>1, <1>8, RequestType, NoOpAssumption
  <2>. QED  BY <1>8, <2>1 DEF Request
<1>13. ~(n <= count[s])
  BY <1>1, <1>2 DEF SemaTypes, SemaTypeOK
<1>14. Abstract!Block(t)
  BY <1>3, <1>5, <1>11, <1>12, <1>13 DEF Abstract!Block, Abstract!In, Abstract!Enough
<1>. QED  BY <1>14 DEF AbstractStep, Abstract!Next

\* The other steps of the scheduler hold every wait, or send a thread away.
LEMMA SchedulerImplements ==
    ASSUME ClientInv, SchedulerOnly, [Next]_vars
    PROVE  AbstractStep
<1>1. UNCHANGED <<op, hostWait, count>>
  BY DEF SchedulerOnly, LeavesSemaphores
<1>2. ASSUME NEW t \in Threads, RefuseSlice(t) \/ NestedForced(t)
      PROVE  AbstractStep
  BY <1>1, <1>2, ForcedImplements
<1>3. CASE HoldStep
  BY <1>1, <1>3, HeldImplements
<1>4. HoldStep \/ \E t \in Threads : RefuseSlice(t) \/ NestedForced(t)
  <2>1. CASE \E t \in Threads : RunnerStep(t)
    BY <2>1 DEF RunnerStep, HoldStep, StillStep
  <2>2. CASE \E t \in Threads : GuestStep(t)
    BY <2>2 DEF GuestStep, HoldStep, StillStep
  <2>3. CASE \/ \E a \in GuestActors : CallPump(a)
             \/ \E a \in GuestActors, t \in Threads : TryStartThread(a, t)
             \/ EntryReturn \/ BackgroundStep \/ SessionStep
    BY <2>3 DEF HoldStep, StillStep, Actors
  <2>. QED  BY <2>1, <2>2, <2>3 DEF SchedulerOnly
<1>. QED  BY <1>2, <1>3, <1>4

\* Every step on the semaphores is a step of the abstract one, or a stutter.
LEMMA ClientStep ==
    ASSUME ClientInv, [SemaNext]_allVars
    PROVE  ClientInv' /\ AbstractStep
<1>. USE DEF ClientInv
<1>1. [Next]_vars
  BY SchedulerStep
<1>2. ClientInv'
  BY <1>1, SafetyStep, RunningStep, StageStep, SemaTypesStep, ExportStep
<1>3. ASSUME HoldStep, UNCHANGED <<op, hostWait, count>>
      PROVE  AbstractStep
  BY <1>1, <1>3, HeldImplements
<1>4. ASSUME NEW a \in Actors, SemaActorStep(a)
      PROVE  AbstractStep
  <2>1. CASE LoopStep(a) /\ LeavesSemaphores
    BY <1>3, <2>1 DEF HoldStep, StillStep, LeavesSemaphores
  <2>2. CASE \E t \in Threads : SemaWake(a, t)
    BY <2>2, WakeImplements
  <2>3. CASE \E t \in Threads : SemaPass(a, t)
    BY <1>3, <2>3 DEF SemaPass, PredicateFails, HoldStep, StillStep
  <2>. QED  BY <1>4, <2>1, <2>2, <2>3 DEF SemaActorStep
<1>5. ASSUME NEW t \in Threads, SemaPark(t)
      PROVE  AbstractStep
  BY <1>3, <1>5 DEF SemaPark, PredicateFails, HoldStep
<1>6. CASE \E a \in GuestActors, s \in Keys : Create(a, s) \/ Delete(a, s)
  <2>1. UNCHANGED <<vars, op, hostWait, count>>
    BY <1>6 DEF Create, Delete
  <2>. QED  BY <1>2, <1>3, <2>1 DEF HoldStep, StillStep
<1>7. CASE UNCHANGED allVars
  <2>1. UNCHANGED <<vars, op, hostWait, count>>
    BY <1>7 DEF allVars
  <2>. QED  BY <1>2, <1>3, <2>1 DEF HoldStep, StillStep
<1>8. SemaNext => AbstractStep
  BY <1>1, <1>4, <1>5, <1>6, SchedulerImplements, WakeImplements, ResumeImplements,
     BlockImplements, CallImplements, FinishImplements, HostImplements DEF SemaNext
<1>. QED  BY <1>2, <1>7, <1>8

\* At first nobody asks, and the tokens are those of the creation.
LEMMA ClientInit == SemaInit => ClientInv /\ Abstract!Init
<1>. SUFFICES ASSUME SemaInit
              PROVE  ClientInv /\ Abstract!Init
  OBVIOUS
<1>1. Init
  BY DEF SemaInit
<1>2. ExportOK
  BY DEF SemaInit, ExportOK
<1>3. ClientInv
  BY <1>1, <1>2, SemaTypesInit, RunningInit, StageInit DEF ClientInv
<1>4. \A c \in GuestActors : AskOf(c) = NoOp
  BY <1>1 DEF SemaInit, Init, AskOf, HostAsk, BlockedAsk, HeldWait
<1>5. \A c \in GuestActors : LeftOf(c) = NoOp
  BY <1>1 DEF Init, LeftOf, Deserted
<1>6. /\ Asks = [c \in GuestActors |-> NoOp]
      /\ Lefts = [c \in GuestActors |-> NoOp]
  BY <1>4, <1>5 DEF Asks, Lefts
<1>7. count = InitialCount /\ forcedExit = FALSE
  BY <1>1 DEF SemaInit, Init
<1>. QED  BY <1>3, <1>6, <1>7 DEF Abstract!Init

\* The semaphores on the scheduler are counting semaphores, for any threads,
\* handles, counts and arguments: every export, predicate, resume handler, park and
\* timeout maps to one step of the abstract semaphore or to none.  So tokens come
\* from a signal or cancel under way only, go to a wait or poll under way that has
\* none yet, and none go to a blocked wait that returns TIMED_OUT; only after a
\* forced exit may waits that a thread was sent away from take tokens too.
THEOREM ImplementsCountingSemaphore == SemaSpec => ImplementsSemaphore
<1>1. SemaInit => ClientInv /\ Abstract!Init
  BY ClientInit
<1>2. ClientInv /\ [SemaNext]_allVars
        => ClientInv' /\ [Abstract!Next]_<<count, Asks, Lefts, forcedExit>>
  BY ClientStep DEF AbstractStep
<1>. QED  BY <1>1, <1>2, PTL DEF SemaSpec, ImplementsSemaphore, Abstract!Spec

-----------------------------------------------------------------------------
(* The number of waiting threads *)

Comes(s, c) ==
    /\ Waiting(s)' = Waiting(s) \cup {c} /\ c \notin Waiting(s)
    /\ waitingThreads'[s] = waitingThreads[s] + 1

Goes(s, c) ==
    /\ Waiting(s)' = Waiting(s) \ {c} /\ c \in Waiting(s)
    /\ waitingThreads'[s] = IF waitingThreads[s] > 0 THEN waitingThreads[s] - 1 ELSE 0

Stays(s) == Waiting(s)' = Waiting(s) /\ waitingThreads'[s] = waitingThreads[s]

Forgets(s) == Waiting(s)' = Waiting(s) /\ waitingThreads'[s] = 0 /\ CancelCounts # {}

\* A step moves at most one client into or out of those that wait for s, and the
\* counter with it; a cancel forgets them.
CountMoves == \A s \in Keys : Stays(s) \/ Forgets(s) \/ \E c : Comes(s, c) \/ Goes(s, c)

\* Those that wait are the threads whose waits say so, and the host thread.
LEMMA WaitingIs ==
    ASSUME NEW s \in Keys
    PROVE  /\ Waiting(s) \subseteq GuestActors
           /\ \A t \in Threads : t \in Waiting(s) <=> WaitsOn(t, s)
           /\ Main \in Waiting(s) <=> hostWait # NoOp /\ hostWait.sema = s
  BY ActorsAssumption DEF Waiting

LEMMA WaitingFinite ==
    ASSUME NEW s \in Keys
    PROVE  /\ IsFiniteSet(Waiting(s)) /\ Cardinality(Waiting(s)) \in Nat
           /\ \A c : /\ IsFiniteSet(Waiting(s) \cup {c}) /\ IsFiniteSet(Waiting(s) \ {c})
                     /\ c \notin Waiting(s) =>
                          Cardinality(Waiting(s) \cup {c}) = Cardinality(Waiting(s)) + 1
                     /\ c \in Waiting(s) =>
                          Cardinality(Waiting(s) \ {c}) = Cardinality(Waiting(s)) - 1
<1>1. IsFiniteSet(GuestActors)
  BY ActorsAssumption, FS_AddElement
<1>2. IsFiniteSet(Waiting(s))
  BY <1>1, WaitingIs, FS_Subset
<1>. QED  BY <1>2, FS_CardinalityType, FS_AddElement, FS_RemoveElement

\* What is counted, and what the counter says, move together.
LEMMA CountsMove ==
    ASSUME SemaTypes, SemaTypes', CountMoves, NEW s \in Keys
    PROVE  /\ waitingThreads[s] <= Cardinality(Waiting(s)) =>
                waitingThreads'[s] <= Cardinality(Waiting(s)')
           /\ CancelCounts = {} /\ waitingThreads[s] = Cardinality(Waiting(s)) =>
                waitingThreads'[s] = Cardinality(Waiting(s)')
<1>1. waitingThreads[s] \in Nat /\ waitingThreads'[s] \in Nat
  BY DEF SemaTypes, SemaTypeOK
<1>2. Cardinality(Waiting(s)) \in Nat
  BY WaitingFinite
<1>3. CASE Stays(s) \/ Forgets(s)
  BY <1>1, <1>2, <1>3 DEF Stays, Forgets
<1>4. ASSUME NEW c, Comes(s, c)
      PROVE  Cardinality(Waiting(s)') = Cardinality(Waiting(s)) + 1
  BY <1>4, WaitingFinite DEF Comes
<1>5. ASSUME NEW c, Goes(s, c)
      PROVE  Cardinality(Waiting(s)') = Cardinality(Waiting(s)) - 1
  BY <1>5, WaitingFinite DEF Goes
<1>6. CASE \E c : Comes(s, c)
  BY <1>1, <1>2, <1>4, <1>6 DEF Comes
<1>7. CASE \E c : Goes(s, c)
  <2>1. Cardinality(Waiting(s)') \in Nat
    <3>1. PICK c : Goes(s, c)
      BY <1>7
    <3>2. IsFiniteSet(Waiting(s)')
      BY <3>1, WaitingFinite DEF Goes
    <3>. QED  BY <3>2, FS_CardinalityType
  <2>. QED  BY <1>1, <1>2, <1>5, <1>7, <2>1 DEF Goes
<1>. QED  BY <1>3, <1>6, <1>7 DEF CountMoves

\* Nobody begins or ends to wait.
LEMMA WaitingStays ==
    ASSUME WaitsHeld, UNCHANGED hostWait
    PROVE  \A s \in Keys : Waiting(s)' = Waiting(s)
  BY DEF WaitsHeld, Waiting, WaitsOn

LEMMA CountStays ==
    ASSUME WaitsHeld, UNCHANGED <<hostWait, waitingThreads>>
    PROVE  CountMoves
  BY WaitingStays DEF CountMoves, Stays

\* A thread's wait is over, or satisfied, and is taken off once.
LEMMA ThreadGoes ==
    ASSUME SemaTypes, NEW t \in Threads, NEW k \in Keys, WaitsOn(t, k), DropWaiter(k),
           HeldWait(t)' = NoWait \/ HeldWait(t)'.granted, OthersHeld(t), UNCHANGED hostWait
    PROVE  CountMoves
<1>1. \A s \in Keys : Waiting(s)' = Waiting(s) \ {t}
  BY ActorsAssumption DEF Waiting, WaitsOn, OthersHeld
<1>2. \A s \in Keys : t \in Waiting(s) <=> s = k
  BY WaitingIs DEF WaitsOn
<1>3. Goes(k, t)
  BY <1>1, <1>2 DEF Goes, DropWaiter, SemaTypes, SemaTypeOK
<1>4. ASSUME NEW s \in Keys, s # k
      PROVE  Stays(s)
  BY <1>1, <1>2, <1>4 DEF Stays, DropWaiter, SemaTypes, SemaTypeOK
<1>. QED  BY <1>3, <1>4 DEF CountMoves

\* A wake-up takes the wait off with the tokens; the exit of a forced session
\* aside, nobody is woken twice.
LEMMA WakeCounts ==
    ASSUME ClientInv, ~forcedExit, NEW t \in Threads,
           (\E a \in Actors : SemaWake(a, t)) \/ SemaWakeAtPark(t)
    PROVE  CountMoves
<1>. USE DEF ClientInv
<1>1. /\ (\E a \in Actors : WakeWaiter(a, t)) \/ WakeAtPark(t) \/ NestedWake(t)
      /\ DropWaiter(wait[t].key) /\ UNCHANGED hostWait
  BY DEF SemaWake, SemaWakeAtPark, PredicateTakes
<1>2. /\ wait[t] \in Waits
      /\ HeldWait(t) = Disarmed(wait[t]) /\ ~wait[t].granted
      /\ HeldWait(t)' = Granted(wait[t])
      /\ OthersHeld(t)
  BY <1>1, WakeFrame
<1>3. wait[t].key \in Keys
  BY <1>2 DEF Waits
<1>4. WaitsOn(t, wait[t].key)
  BY <1>2, NoneAssumption DEF WaitsOn, Disarmed, Waits
<1>5. HeldWait(t)'.granted
  BY <1>2 DEF Granted, Waits
<1>. QED  BY <1>1, <1>2, <1>3, <1>4, <1>5, ThreadGoes

\* A resume handler takes its wait off if no predicate has.
LEMMA ResumeCounts ==
    ASSUME ClientInv, NEW t \in Threads, SemaResume(t)
    PROVE  CountMoves
<1>. USE DEF ClientInv
<1>1. Resume(t) /\ UNCHANGED hostWait
  BY DEF SemaResume
<1>2. /\ resuming[t] \in Waits /\ HeldWait(t) = Disarmed(resuming[t])
      /\ HeldWait(t)' = NoWait /\ OthersHeld(t)
  BY <1>1, ResumeFrame
<1>3. /\ Disarmed(resuming[t]) # NoWait /\ Disarmed(resuming[t]).key = resuming[t].key
      /\ Disarmed(resuming[t]).granted = resuming[t].granted
  BY <1>2, NoneAssumption DEF Disarmed, Waits
<1>4. CASE resuming[t].granted
  <2>1. UNCHANGED waitingThreads
    BY <1>4 DEF SemaResume
  <2>2. \A s \in Keys : ~WaitsOn(t, s) /\ ~WaitsOn(t, s)'
    BY <1>2, <1>3, <1>4 DEF WaitsOn
  <2>3. \A s \in Keys : Waiting(s)' = Waiting(s)
    BY <1>1, <1>2, <2>2 DEF Waiting, WaitsOn, OthersHeld
  <2>. QED  BY <2>1, <2>3 DEF CountMoves, Stays
<1>5. CASE ~resuming[t].granted
  <2>1. DropWaiter(resuming[t].key) /\ resuming[t].key \in Keys
    BY <1>2, <1>5 DEF SemaResume, Waits
  <2>2. WaitsOn(t, resuming[t].key)
    BY <1>2, <1>3, <1>5 DEF WaitsOn
  <2>. QED  BY <1>1, <1>2, <2>1, <2>2, ThreadGoes
<1>. QED  BY <1>4, <1>5

\* A wait without its tokens is counted as it blocks.
LEMMA BlockCounts ==
    ASSUME ClientInv, NEW t \in Threads, WaitBlock(t)
    PROVE  CountMoves
<1>. USE DEF ClientInv
<1>. DEFINE w == [key |-> op[t].sema, timed |-> op[t].timed, waiter |-> op[t].n,
                  granted |-> FALSE]
<1>0. PICK k \in Keys : k = op[t].sema
  BY DEF WaitBlock, InExport, SemaTypes, SemaTypeOK, Ops
<1>1. w \in NewWaits /\ w \in Waits /\ w.key = k /\ w.granted = FALSE
  BY <1>0 DEF WaitBlock, InExport, SemaTypes, SemaTypeOK, OpsOK, OpOK, Ops, NewWaits, Waits
<1>2. RequestBlock(t, w) /\ AddWaiter(k) /\ UNCHANGED hostWait
  BY <1>0 DEF WaitBlock
<1>. HIDE DEF w
<1>3. HeldWait(t) = NoWait /\ HeldWait(t)' = Disarmed(w) /\ OthersHeld(t)
  BY <1>1, <1>2, RequestFrame
<1>4. Disarmed(w) # NoWait /\ Disarmed(w).key = k /\ Disarmed(w).granted = FALSE
  BY <1>1, NoneAssumption DEF Disarmed, Waits
<1>5. \A s \in Keys : ~WaitsOn(t, s) /\ (WaitsOn(t, s)' <=> s = k)
  BY <1>3, <1>4 DEF WaitsOn
<1>6. \A s \in Keys : Waiting(s)' = IF s = k THEN Waiting(s) \cup {t} ELSE Waiting(s)
  BY <1>2, <1>3, <1>5, ActorsAssumption DEF Waiting, WaitsOn, OthersHeld
<1>7. Comes(k, t)
  <2>1. waitingThreads'[k] = waitingThreads[k] + 1
    BY <1>2 DEF AddWaiter, SemaTypes, SemaTypeOK
  <2>2. t \notin Waiting(k) /\ Waiting(k)' = Waiting(k) \cup {t}
    BY <1>2, <1>5, <1>6, WaitingIs
  <2>. QED  BY <2>1, <2>2 DEF Comes
<1>8. ASSUME NEW s \in Keys, s # k
      PROVE  Stays(s)
  BY <1>2, <1>6, <1>8 DEF Stays, AddWaiter, SemaTypes, SemaTypeOK
<1>. QED  BY <1>7, <1>8 DEF CountMoves

\* The host wait counts itself, and takes itself off as it returns.
LEMMA HostCounts ==
    ASSUME ClientInv, HostWait \/ HostTake \/ HostTimeout
    PROVE  CountMoves
<1>. USE DEF ClientInv
<1>1. \A t \in Threads, s \in Keys : WaitsOn(t, s)' <=> WaitsOn(t, s)
  <2>1. UNCHANGED vars
    BY DEF HostWait, HostTake, HostTimeout
  <2>. QED  BY <2>1 DEF vars, WaitsOn, HeldWait, Abandoned
<1>2. CASE HostWait
  <2>0. PICK k \in Keys : k = op[Main].sema
    BY <1>2 DEF HostWait, InExport, SemaTypes, SemaTypeOK, Ops
  <2>1. /\ op[Main] # NoOp /\ AddWaiter(k)
        /\ hostWait = NoOp /\ hostWait' # NoOp /\ hostWait'.sema = k
    BY <1>2, <2>0 DEF HostWait, InExport, ExportOK
  <2>2. \A s \in Keys : Waiting(s)' = IF s = k THEN Waiting(s) \cup {Main} ELSE Waiting(s)
    BY <1>1, <2>1 DEF Waiting
  <2>3. Comes(k, Main)
    <3>1. waitingThreads'[k] = waitingThreads[k] + 1
      BY <2>1 DEF AddWaiter, SemaTypes, SemaTypeOK
    <3>2. Main \notin Waiting(k) /\ Waiting(k)' = Waiting(k) \cup {Main}
      BY <2>1, <2>2, WaitingIs
    <3>. QED  BY <3>1, <3>2 DEF Comes
  <2>4. ASSUME NEW s \in Keys, s # k
        PROVE  Stays(s)
    BY <2>1, <2>2, <2>4 DEF Stays, AddWaiter, SemaTypes, SemaTypeOK
  <2>. QED  BY <2>3, <2>4 DEF CountMoves
<1>3. CASE HostTake \/ HostTimeout
  <2>0. PICK k \in Keys : k = hostWait.sema
    BY <1>3 DEF HostTake, HostTimeout, SemaTypes, SemaTypeOK, Ops
  <2>1. hostWait # NoOp /\ hostWait' = NoOp /\ DropWaiter(k)
    BY <1>3, <2>0 DEF HostTake, HostTimeout
  <2>2. \A s \in Keys : Waiting(s)' = Waiting(s) \ {Main}
    BY <1>1, <2>1, ActorsAssumption DEF Waiting
  <2>3. \A s \in Keys : Main \in Waiting(s) <=> s = k
    BY <2>0, <2>1, WaitingIs
  <2>4. Goes(k, Main)
    <3>1. waitingThreads'[k] = IF waitingThreads[k] > 0 THEN waitingThreads[k] - 1 ELSE 0
      BY <2>1 DEF DropWaiter, SemaTypes, SemaTypeOK
    <3>2. Main \in Waiting(k) /\ Waiting(k)' = Waiting(k) \ {Main}
      BY <2>1, <2>2, <2>3
    <3>. QED  BY <3>1, <3>2 DEF Goes
  <2>5. ASSUME NEW s \in Keys, s # k
        PROVE  Stays(s)
    BY <2>1, <2>2, <2>3, <2>5 DEF Stays, DropWaiter, SemaTypes, SemaTypeOK
  <2>. QED  BY <2>4, <2>5 DEF CountMoves
<1>. QED  BY <1>2, <1>3

\* The other exports change no wait, and only a cancel the counter.
LEMMA FinishCounts ==
    ASSUME ClientInv, NEW a \in GuestActors, FinishExport(a)
    PROVE  CountMoves
<1>. USE DEF ClientInv
<1>1. WaitsHeld /\ UNCHANGED hostWait
  BY DEF FinishExport, TakeAtOnce, PollBusy, Signal, SignalRejected, Cancel, WakeAll, CallWake,
     vars, WaitsHeld, HeldWait, Abandoned
<1>2. CASE Cancel(a)
  <2>1. /\ op[a] # NoOp /\ op[a].kind = "cancel"
        /\ waitingThreads' = [waitingThreads EXCEPT ![op[a].sema] = 0]
    BY <1>2 DEF Cancel, InExport
  <2>2. CancelCounts # {}
    BY <2>1 DEF SemaTypes, OpsOK, OpOK
  <2>. QED  BY <1>1, <2>1, <2>2, WaitingStays
            DEF CountMoves, Stays, Forgets, SemaTypes, SemaTypeOK
<1>3. CASE ~Cancel(a)
  <2>1. UNCHANGED waitingThreads
    BY <1>3 DEF FinishExport, TakeAtOnce, PollBusy, Signal, SignalRejected, semaVars
  <2>. QED  BY <1>1, <2>1, CountStays
<1>. QED  BY <1>2, <1>3

\* While no exit is forced, each step moves the counter as it moves the waits.
LEMMA CountStep ==
    ASSUME ClientInv, [SemaNext]_allVars, ~forcedExit'
    PROVE  CountMoves
<1>. USE DEF ClientInv
<1>1. ~forcedExit
  BY SchedulerStep, ForcedStays
<1>2. ASSUME HoldStep, UNCHANGED <<hostWait, waitingThreads>>
      PROVE  CountMoves
  BY <1>2, HoldFrame, CountStays
<1>3. CASE SchedulerOnly
  <2>1. UNCHANGED <<hostWait, waitingThreads>>
    BY <1>3 DEF SchedulerOnly, LeavesSemaphores
  <2>2. ~(\E t \in Threads : RefuseSlice(t) \/ NestedForced(t))
    BY <1>1 DEF RefuseSlice, NestedForced
  <2>3. HoldStep
    BY <1>3, <2>2 DEF SchedulerOnly, RunnerStep, GuestStep, HoldStep, StillStep, Actors
  <2>. QED  BY <1>2, <2>1, <2>3
<1>4. ASSUME NEW a \in Actors, SemaActorStep(a)
      PROVE  CountMoves
  <2>1. CASE LoopStep(a) /\ LeavesSemaphores
    BY <1>2, <2>1 DEF HoldStep, StillStep, LeavesSemaphores
  <2>2. CASE \E t \in Threads : SemaWake(a, t)
    BY <1>1, <2>2, WakeCounts
  <2>3. CASE \E t \in Threads : SemaPass(a, t)
    BY <1>2, <2>3 DEF SemaPass, PredicateFails, HoldStep, StillStep
  <2>. QED  BY <1>4, <2>1, <2>2, <2>3 DEF SemaActorStep
<1>5. ASSUME NEW t \in Threads, SemaPark(t)
      PROVE  CountMoves
  BY <1>2, <1>5 DEF SemaPark, PredicateFails, HoldStep
<1>6. ASSUME NEW a \in GuestActors,
             CallExport(a) \/ \E s \in Keys : Create(a, s) \/ Delete(a, s)
      PROVE  CountMoves
  <2>1. UNCHANGED <<vars, hostWait, waitingThreads>>
    BY <1>6 DEF CallExport, Export, Create, Delete
  <2>. QED  BY <1>2, <2>1 DEF HoldStep, StillStep
<1>7. CASE UNCHANGED allVars
  <2>1. UNCHANGED <<vars, hostWait, waitingThreads>>
    BY <1>7 DEF allVars
  <2>. QED  BY <1>2, <2>1 DEF HoldStep, StillStep
<1>8. SemaNext => CountMoves
  BY <1>1, <1>3, <1>4, <1>5, <1>6, WakeCounts, ResumeCounts, BlockCounts, HostCounts,
     FinishCounts DEF SemaNext
<1>. QED  BY <1>7, <1>8

\* At first nobody waits and nobody is counted.
LEMMA CountInit == SemaInit => WaitingThreadsExact /\ WaitingThreadsNeverOver
<1>. SUFFICES ASSUME SemaInit
              PROVE  WaitingThreadsExact /\ WaitingThreadsNeverOver
  OBVIOUS
<1>1. \A s \in Keys : Waiting(s) = {}
  BY DEF SemaInit, Init, Waiting, WaitsOn, HeldWait
<1>2. Cardinality({}) = 0
  BY FS_EmptySet
<1>3. \A s \in Keys : waitingThreads[s] = 0
  BY DEF SemaInit
<1>. QED  BY <1>1, <1>2, <1>3 DEF WaitingThreadsExact, WaitingThreadsNeverOver

\* WaitingThreads never counts more than the waits that are neither satisfied nor
\* over: a predicate, a resume handler and a host wait each take off the wait that
\* they end, at whatever moment the wake-up came, and a cancel counts none.
THEOREM WaitersAreNotOvercounted == SemaSpec => []WaitingThreadsNeverOver
<1>1. SemaInit => ClientInv /\ WaitingThreadsNeverOver
  BY ClientInit, CountInit
<1>2. ClientInv /\ WaitingThreadsNeverOver /\ [SemaNext]_allVars
        => ClientInv' /\ WaitingThreadsNeverOver'
  <2>. SUFFICES ASSUME ClientInv, WaitingThreadsNeverOver, [SemaNext]_allVars
                PROVE  ClientInv' /\ WaitingThreadsNeverOver'
    OBVIOUS
  <2>1. ClientInv' /\ SemaTypes /\ SemaTypes'
    BY ClientStep DEF ClientInv
  <2>2. ~forcedExit' => ~forcedExit
    BY SchedulerStep, ForcedStays DEF ClientInv
  <2>. QED  BY <2>1, <2>2, CountStep, CountsMove DEF WaitingThreadsNeverOver
<1>. QED  BY <1>1, <1>2, PTL DEF SemaSpec

\* As long as nobody cancels it counts exactly those waits: none is taken off
\* twice, and none is left counted when it is satisfied or times out.
THEOREM WaitersAreCounted ==
    ASSUME CancelCounts = {}
    PROVE  SemaSpec => []WaitingThreadsExact
<1>1. SemaInit => ClientInv /\ WaitingThreadsExact
  BY ClientInit, CountInit
<1>2. ClientInv /\ WaitingThreadsExact /\ [SemaNext]_allVars
        => ClientInv' /\ WaitingThreadsExact'
  <2>. SUFFICES ASSUME ClientInv, WaitingThreadsExact, [SemaNext]_allVars
                PROVE  ClientInv' /\ WaitingThreadsExact'
    OBVIOUS
  <2>1. ClientInv' /\ SemaTypes /\ SemaTypes'
    BY ClientStep DEF ClientInv
  <2>2. ~forcedExit' => ~forcedExit
    BY SchedulerStep, ForcedStays DEF ClientInv
  <2>. QED  BY <2>1, <2>2, CountStep, CountsMove DEF WaitingThreadsExact
<1>. QED  BY <1>1, <1>2, PTL DEF SemaSpec
=============================================================================
