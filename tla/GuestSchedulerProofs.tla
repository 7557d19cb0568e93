----------------------- MODULE GuestSchedulerProofs -----------------------
(* Type correctness of GuestScheduler, for every number of threads. *)
EXTENDS GuestScheduler, TLAPS, FiniteSetTheorems

\* An UNCHANGED names groups of variables
USE DEF tableVars, sliceVars, waitVars, gateVars, callVars, pumpVars, mainVars

\* What an actor is doing fits the gate, the Pump and the call it is in.
CallOK ==
    \A a \in Actors :
        /\ pc[a] = "wake" => call[a] \in Calls
        /\ pc[a] \in {"claim", "inline"} => pumpOwner = a /\ budget > 0
        /\ pc[a] = "inline" <=> a = Main /\ inline # NoThread
        /\ gate = a => \/ pc[a] = "wake"
                       \/ /\ pc[a] \in {"claim", "dispatch"} /\ claimed[a] = NoThread
                          /\ left \in 1..Len(readyQueue)

\* A wait is where the code looks for it.
WaitOK ==
    /\ todo # {} => gate \in Actors /\ pc[gate] = "wake"
    /\ \A t \in todo : Parked(t)
    /\ \A t \in Threads :
         /\ exec[t] = "yielding" => pending[t] # NoWait
         /\ exec[t] = "unwinding" => wait[t] # NoWait

-----------------------------------------------------------------------------
\* The threads whose deadline has passed are enqueued in some order.
LEMMA OrderingType ==
    ASSUME NEW S \in SUBSET Threads, NEW order \in Orderings(S)
    PROVE  order \in Seq(S) /\ order \in Seq(Threads)
<1>1. IsFiniteSet(S)
  BY FS_Subset, ActorsAssumption
<1>2. Cardinality(S) \in Nat
  BY <1>1, FS_CardinalityType
<1>3. order \in [1..Cardinality(S) -> S]
  BY DEF Orderings
<1>4. order \in Seq(S)
  BY <1>2, <1>3
<1>. QED  BY <1>4

\* Clearing the deadline, or granting the wait, leaves a wait.
LEMMA WaitTypes == \A w \in Waits : Disarmed(w) \in Waits /\ Granted(w) \in Waits
  BY DEF Waits, Disarmed, Granted

\* What WakeExpiredBlockedGuestThreads leaves behind.
LEMMA ExpireTypes ==
    ASSUME TypeOK, NEW S, WakeExpired(S)
    PROVE  /\ state' \in [Threads -> States]
           /\ wait' \in [Threads -> Waits \cup {NoWait}]
           /\ \A t \in Threads : wait[t] # NoWait => wait'[t] # NoWait
           /\ readyQueue' \in Seq(Threads)
<1>1. \A w \in Waits : Disarmed(w) \in Waits
  BY WaitTypes
<1>2. S \subseteq Threads /\ \A t \in S : wait[t] \in Waits
  BY DEF WakeExpired, Expirable, Parked, TypeOK
<1>3. state' \in [Threads -> States]
  BY DEF WakeExpired, TypeOK, States
<1>4. wait' \in [Threads -> Waits \cup {NoWait}]
  BY <1>1, <1>2 DEF WakeExpired, TypeOK
<1>5. \A t \in Threads : wait[t] # NoWait => wait'[t] # NoWait
  BY <1>1, <1>2, NoneAssumption DEF WakeExpired, TypeOK
<1>6. readyQueue' \in Seq(Threads)
  <2>1. PICK order \in Orderings(S) : readyQueue' = readyQueue \o order
    BY DEF WakeExpired
  <2>2. order \in Seq(Threads)
    BY <1>2, OrderingType
  <2>. QED  BY <2>1, <2>2 DEF TypeOK
<1>. QED  BY <1>3, <1>4, <1>5, <1>6

\* What waking one thread leaves behind.
LEMMA ReadyTypes ==
    ASSUME TypeOK, NEW t \in Threads, wait[t] # NoWait, MakeReady(t)
    PROVE  /\ state' \in [Threads -> States]
           /\ wait' \in [Threads -> Waits \cup {NoWait}]
           /\ readyQueue' \in Seq(Threads)
<1>1. Granted(wait[t]) \in Waits
  BY WaitTypes DEF TypeOK
<1>. QED  BY <1>1 DEF MakeReady, SetState, TypeOK, States

\* What an iteration of the loop of WakeBlockedThreads leaves behind.
LEMMA ScanTypes ==
    ASSUME TypeOK, NEW a \in Actors, call[a] \in Calls,
           NEW rest \in SUBSET Threads, NEW n \in Nat, NEW some \in BOOLEAN,
           ContinueScan(a, rest, n, some)
    PROVE  /\ gate' \in Actors \cup {NoActor}
           /\ todo' \subseteq Threads
           /\ woken' \in BOOLEAN
           /\ pc' \in [Actors -> Steps]
           /\ call' \in [Actors -> Calls \cup {NoCall}]
<1>1. CASE rest = {} \/ n = 0
  BY <1>1 DEF ContinueScan, GoTo, TypeOK, Steps
<1>2. CASE ~(rest = {} \/ n = 0)
  <2>1. [key |-> call[a].key, limit |-> n] \in Calls
    BY <1>2 DEF Calls
  <2>. QED  BY <1>2, <2>1 DEF ContinueScan, TypeOK
<1>. QED  BY <1>1, <1>2

\* The threads that loop visits are parked threads.
LEMMA CandidateTypes ==
    ASSUME TypeOK, NEW a \in Actors
    PROVE  /\ Candidates(a) \subseteq Threads
           /\ WokenSoFar(a) \in BOOLEAN
           /\ \A t \in ParkedOn(call[a].key) : Parked(t)
  BY DEF TypeOK, Candidates, ParkedOn, WokenSoFar

\* What the end of a Pump or of DispatchReadyGuestThreads leaves behind.
LEMMA LoopTypes ==
    ASSUME TypeOK, NEW a \in Actors, LeaveLoop(a)
    PROVE  /\ pc' \in [Actors -> Steps]
           /\ creating' \subseteq Actors
           /\ pumpOwner' \in Actors \cup {NoActor}
           /\ budget' \in 0..PumpBatch
<1>1. AfterPump(a) \in Steps
  BY DEF AfterPump, Steps
<1>2. CASE pc[a] = "claim"
  <2>1. 0 \in 0..PumpBatch
    BY BoundsAssumption
  <2>. QED  BY <1>1, <1>2, <2>1 DEF TypeOK, LeaveLoop, GoTo
<1>3. CASE pc[a] # "claim"
  <2>1. "idle" \in Steps
    BY DEF Steps
  <2>. QED  BY <1>3, <2>1 DEF TypeOK, LeaveLoop, GoTo, pumpVars
<1>. QED  BY <1>2, <1>3

\* The same for the end of one iteration.
LEMMA IterationTypes ==
    ASSUME TypeOK, CallOK, NEW a \in Actors, EndIteration(a)
    PROVE  /\ pc' \in [Actors -> Steps]
           /\ creating' \subseteq Actors
           /\ pumpOwner' \in Actors \cup {NoActor}
           /\ budget' \in 0..PumpBatch
<1>1. CASE pc[a] # "claim"
  BY <1>1 DEF EndIteration, TypeOK, pumpVars
<1>2. CASE pc[a] = "claim" /\ budget = 1
  BY <1>2, LoopTypes DEF EndIteration
<1>3. CASE pc[a] = "claim" /\ budget # 1
  BY <1>3, BoundsAssumption DEF EndIteration, TypeOK, CallOK
<1>. QED  BY <1>1, <1>2, <1>3

\* What the finally block of RunGuestThread leaves behind.
LEMMA ReleaseTypes ==
    ASSUME TypeOK, CallOK, NEW t \in Threads, ReleaseExecutor(t)
    PROVE  /\ executorActive' \in [Threads -> BOOLEAN]
           /\ exec' \in [Threads -> Slices]
           /\ inline' \in Threads \cup {NoThread}
           /\ pc' \in [Actors -> Steps]
           /\ creating' \subseteq Actors
           /\ pumpOwner' \in Actors \cup {NoActor}
           /\ budget' \in 0..PumpBatch
<1>1. executorActive' \in [Threads -> BOOLEAN] /\ exec' \in [Threads -> Slices]
  BY DEF ReleaseExecutor, SetSlice, TypeOK, Slices
<1>2. CASE inline # t
  BY <1>1, <1>2 DEF ReleaseExecutor, TypeOK, pumpVars
<1>3. CASE inline = t
  <2>1. Main \in Actors /\ budget > 0
    BY <1>3, ActorsAssumption DEF CallOK, Actors
  <2>2. pc' \in [Actors -> Steps] /\ creating' \subseteq Actors
    BY <1>3, <2>1 DEF ReleaseExecutor, GoTo, TypeOK, Steps
  <2>3. pumpOwner' \in Actors \cup {NoActor} /\ budget' \in 0..PumpBatch
    BY <1>3, <2>1, BoundsAssumption DEF ReleaseExecutor, TypeOK
  <2>. QED  BY <1>1, <1>3, <2>2, <2>3 DEF ReleaseExecutor
<1>. QED  BY <1>2, <1>3
-----------------------------------------------------------------------------
\* Every step keeps the types.
LEMMA TypeStep ==
    ASSUME TypeOK, CallOK, WaitOK, [Next]_vars
    PROVE  TypeOK'
<1>1. ASSUME NEW a \in Actors, NEW t \in Threads, WakeWaiter(a, t)
      PROVE  TypeOK'
  <2>1. call[a] \in Calls
    BY <1>1 DEF WakeWaiter, Scanning, CallOK
  <2>2. t \in Candidates(a) /\ Candidates(a) \subseteq Threads
    BY <1>1, CandidateTypes DEF WakeWaiter
  <2>3. wait[t] # NoWait
    BY <1>1, <2>2, CandidateTypes DEF Candidates, WaitOK, Parked
  <2>4. call[a].limit - 1 \in Nat
    BY <1>1, <2>1 DEF Calls
  <2>5. /\ gate' \in Actors \cup {NoActor}
       /\ todo' \subseteq Threads
       /\ woken' \in BOOLEAN
       /\ pc' \in [Actors -> Steps]
       /\ call' \in [Actors -> Calls \cup {NoCall}]
    BY <1>1, <2>1, <2>2, <2>4, ScanTypes DEF WakeWaiter
  <2>6. /\ state' \in [Threads -> States]
       /\ wait' \in [Threads -> Waits \cup {NoWait}]
       /\ readyQueue' \in Seq(Threads)
    BY <1>1, <2>3, ReadyTypes DEF WakeWaiter
  <2>. QED  BY <1>1, <2>1, <2>2, <2>3, <2>4, <2>5, <2>6 DEF WakeWaiter, TypeOK
<1>2. ASSUME NEW a \in Actors, NEW t \in Threads, PassWaiter(a, t)
      PROVE  TypeOK'
  <2>1. call[a] \in Calls
    BY <1>2 DEF PassWaiter, Scanning, CallOK
  <2>2. Candidates(a) \subseteq Threads /\ WokenSoFar(a) \in BOOLEAN
    BY <1>2, CandidateTypes
  <2>3. call[a].limit \in Nat
    BY <1>2, <2>1 DEF Calls
  <2>4. /\ gate' \in Actors \cup {NoActor}
       /\ todo' \subseteq Threads
       /\ woken' \in BOOLEAN
       /\ pc' \in [Actors -> Steps]
       /\ call' \in [Actors -> Calls \cup {NoCall}]
    BY <1>2, <2>1, <2>2, <2>3, ScanTypes DEF PassWaiter
  <2>. QED  BY <1>2, <2>1, <2>2, <2>3, <2>4 DEF PassWaiter, TypeOK
<1>3. ASSUME NEW a \in Actors, WakeNobody(a)
      PROVE  TypeOK'
  <2>1. call[a] \in Calls
    BY <1>3 DEF WakeNobody, Scanning, CallOK
  <2>2. WokenSoFar(a) \in BOOLEAN
    BY <1>3, CandidateTypes
  <2>3. /\ gate' \in Actors \cup {NoActor}
       /\ todo' \subseteq Threads
       /\ woken' \in BOOLEAN
       /\ pc' \in [Actors -> Steps]
       /\ call' \in [Actors -> Calls \cup {NoCall}]
    BY <1>3, <2>1, <2>2, ScanTypes DEF WakeNobody
  <2>. QED  BY <1>3, <2>1, <2>2, <2>3 DEF WakeNobody, TypeOK
<1>4. ASSUME NEW a \in Actors, PumpWakeExpired(a)
      PROVE  TypeOK'
  BY <1>4, ExpireTypes DEF PumpWakeExpired, GoTo, Steps, TypeOK
<1>5. ASSUME NEW a \in Actors, PumpSkip(a)
      PROVE  TypeOK'
  BY <1>5 DEF PumpSkip, GoTo, AfterPump, Steps, TypeOK
<1>6. ASSUME NEW a \in Actors, PumpEnter(a)
      PROVE  TypeOK'
  BY <1>6, BoundsAssumption DEF PumpEnter, GoTo, Steps, TypeOK
<1>7. ASSUME NEW a \in Actors, ClaimNothing(a)
      PROVE  TypeOK'
  BY <1>7, LoopTypes DEF ClaimNothing, TypeOK
<1>8. ASSUME NEW a \in Actors, ClaimReady(a)
      PROVE  TypeOK'
  BY <1>8 DEF ClaimReady, Claiming, SetState, States, Steps, TypeOK
<1>9. ASSUME NEW a \in Actors, PassHead(a)
      PROVE  TypeOK'
  <2>1. readyQueue' \in Seq(Threads)
    BY <1>9 DEF PassHead, TypeOK
  <2>2. left' \in Nat /\ gate' \in Actors \cup {NoActor}
    BY <1>9 DEF PassHead, Claiming, TypeOK, CallOK
  <2>3. /\ pc' \in [Actors -> Steps]
       /\ creating' \subseteq Actors
       /\ pumpOwner' \in Actors \cup {NoActor}
       /\ budget' \in 0..PumpBatch
    BY <1>9, LoopTypes DEF PassHead, TypeOK
  <2>. QED  BY <1>9, <2>1, <2>2, <2>3 DEF PassHead, TypeOK
<1>10. ASSUME NEW a \in Actors, Schedule(a)
      PROVE  TypeOK'
  BY <1>10, IterationTypes DEF Schedule, TypeOK
<1>11. ASSUME NEW a \in Actors, ScheduleDropped(a)
      PROVE  TypeOK'
  BY <1>11, IterationTypes DEF ScheduleDropped, TypeOK
<1>12. ASSUME NEW a \in Actors, NEW k \in Keys, NEW n \in WakeLimits, CallWake(a, k,
        n)
      PROVE  TypeOK'
  <2>1. [key |-> k, limit |-> n] \in Calls
    BY <1>12, BoundsAssumption DEF Calls
  <2>2. pc' \in [Actors -> Steps] /\ call' \in [Actors -> Calls \cup {NoCall}]
    BY <1>12, <2>1 DEF CallWake, GoTo, TypeOK, Steps
  <2>. QED  BY <1>12, <2>1, <2>2 DEF CallWake, TypeOK
<1>13. ASSUME NEW a \in Actors, NEW t \in Threads, TryStartThread(a, t)
      PROVE  TypeOK'
  BY <1>13 DEF TryStartThread, SetState, GoTo, States, Steps, TypeOK
<1>14. ASSUME NEW t \in Threads, TakeWork(t)
      PROVE  TypeOK'
  BY <1>14 DEF TakeWork, SetSlice, Slices, TypeOK
<1>15. ASSUME NEW t \in Threads, RefuseSlice(t)
      PROVE  TypeOK'
  BY <1>15, ReleaseTypes DEF RefuseSlice, SetState, States, TypeOK
<1>16. ASSUME NEW t \in Threads, EnterSlice(t)
      PROVE  TypeOK'
  BY <1>16 DEF EnterSlice, SetSlice, Slices, TypeOK
<1>17. ASSUME NEW t \in Threads, BeginSlice(t)
      PROVE  TypeOK'
  BY <1>17 DEF BeginSlice, SetSlice, Slices, ConsumeWait, TypeOK
<1>18. ASSUME NEW t \in Threads, RegisterBlocked(t)
      PROVE  TypeOK'
  BY <1>18 DEF RegisterBlocked, SetSlice, Slices, TypeOK
<1>19. ASSUME NEW t \in Threads, LeaveSlice(t)
      PROVE  TypeOK'
  BY <1>19, ReleaseTypes DEF LeaveSlice, TypeOK
<1>20. ASSUME NEW t \in Threads, NestedResume(t)
      PROVE  TypeOK'
  BY <1>20 DEF NestedResume, SetSlice, SetState, ConsumeWait, Slices, States, TypeOK
<1>21. ASSUME NEW t \in Threads, NestedForced(t)
      PROVE  TypeOK'
  BY <1>21 DEF NestedForced, SetSlice, Slices, TypeOK
<1>22. ASSUME NEW t \in Threads, Resume(t)
      PROVE  TypeOK'
  BY <1>22 DEF Resume, SetSlice, Slices, TypeOK
<1>23. ASSUME NEW t \in Threads, StayParked(t)
      PROVE  TypeOK'
  BY <1>23 DEF StayParked, SetSlice, SetState, Slices, States, TypeOK
<1>24. ASSUME NEW t \in Threads, WakeAtPark(t)
      PROVE  TypeOK'
  <2>1. /\ state' \in [Threads -> States]
       /\ wait' \in [Threads -> Waits \cup {NoWait}]
       /\ readyQueue' \in Seq(Threads)
    BY <1>24, ReadyTypes DEF WakeAtPark, Parking, WaitOK
  <2>. QED  BY <1>24, <2>1 DEF WakeAtPark, SetSlice, Slices, TypeOK
<1>25. ASSUME NEW t \in Threads, NestedPark(t)
      PROVE  TypeOK'
  BY <1>25 DEF NestedPark, SetSlice, SetState, Slices, States, TypeOK
<1>26. ASSUME NEW t \in Threads, NestedWake(t)
      PROVE  TypeOK'
  <2>1. wait[t] \in Waits
    BY <1>26 DEF NestedWake, Parking, WaitOK, TypeOK
  <2>2. Granted(wait[t]) \in Waits
    BY <1>26, <2>1, WaitTypes
  <2>. QED  BY <1>26, <2>1, <2>2 DEF NestedWake, SetSlice, SetState, Slices, States,
        TypeOK
<1>27. ASSUME NEW t \in Threads, NEW outcome \in {"Exited", "Faulted"},
        EndGuestCode(t, outcome)
      PROVE  TypeOK'
  BY <1>27 DEF EndGuestCode, SetSlice, SetState, Slices, States, TypeOK
<1>28. ASSUME NEW t \in Threads, EnterCallback(t)
      PROVE  TypeOK'
  BY <1>28 DEF EnterCallback, TypeOK
<1>29. ASSUME NEW t \in Threads, LeaveCallback(t)
      PROVE  TypeOK'
  BY <1>29 DEF LeaveCallback, TypeOK
<1>30. ASSUME NEW t \in Threads, NEW w \in NewWaits, RequestBlock(t, w)
      PROVE  TypeOK'
  BY <1>30 DEF RequestBlock, SetSlice, Slices, NewWaits, TypeOK
<1>31. ASSUME NEW t \in Threads, PollExpired(t)
      PROVE  TypeOK'
  BY <1>31, ExpireTypes DEF PollExpired, TypeOK
<1>32. ASSUME NEW S \in SUBSET Expirable, TickerWake(S)
      PROVE  TypeOK'
  BY <1>32, ExpireTypes DEF TickerWake, GoTo, Steps, TypeOK
<1>33. ASSUME TickerPump
      PROVE  TypeOK'
  BY <1>33 DEF TickerPump, GoTo, Steps, TypeOK
<1>34. ASSUME DispatchTick
      PROVE  TypeOK'
  BY <1>34 DEF DispatchTick, GoTo, Steps, TypeOK
<1>35. ASSUME EntryReturn
      PROVE  TypeOK'
  BY <1>35 DEF EntryReturn, Sessions, TypeOK
<1>36. ASSUME RunInline
      PROVE  TypeOK'
  <2>1. Main \in Actors
    BY <1>36 DEF Actors
  <2>2. claimed[Main] \in Threads
    BY <1>36, <2>1 DEF RunInline, TypeOK
  <2>. QED  BY <1>36, <2>1, <2>2 DEF RunInline, SetSlice, GoTo, Slices, Steps,
        TypeOK
<1>37. ASSUME DrainPump
      PROVE  TypeOK'
  BY <1>37 DEF DrainPump, GoTo, Steps, TypeOK
<1>38. ASSUME DrainDone
      PROVE  TypeOK'
  BY <1>38 DEF DrainDone, Sessions, TypeOK
<1>39. ASSUME Dispose
      PROVE  TypeOK'
  BY <1>39 DEF Dispose, Sessions, TypeOK
<1>40. ASSUME Quiesce
      PROVE  TypeOK'
  BY <1>40 DEF Quiesce, Sessions, TypeOK
<1>41. ASSUME LeakSession
      PROVE  TypeOK'
  BY <1>41 DEF LeakSession, Sessions, TypeOK
<1>42. ASSUME ClearGuestThreads
      PROVE  TypeOK'
  BY <1>42 DEF ClearGuestThreads, Sessions, TypeOK
<1>43. ASSUME RequestHostShutdown
      PROVE  TypeOK'
  BY <1>43 DEF RequestHostShutdown, TypeOK
<1>44. ASSUME Over
      PROVE  TypeOK'
  BY <1>44 DEF Over, vars, TypeOK
<1>45. CASE UNCHANGED vars
  BY <1>45 DEF vars, TypeOK
<1>46. ASSUME NEW a \in Actors, CallPump(a)
      PROVE  TypeOK'
  BY <1>46, ActorsAssumption DEF CallPump, GoTo, Steps, TypeOK
<1>. QED  BY <1>1, <1>2, <1>3, <1>4, <1>5, <1>6, <1>7, <1>8, <1>9, <1>10, <1>11,
      <1>12, <1>13, <1>14, <1>15, <1>16, <1>17, <1>18, <1>19, <1>20, <1>21, <1>22,
      <1>23, <1>24, <1>25, <1>26, <1>27, <1>28, <1>29, <1>30, <1>31, <1>32, <1>33,
      <1>34, <1>35, <1>36, <1>37, <1>38, <1>39, <1>40, <1>41, <1>42, <1>43, <1>44,
      <1>45,
      <1>46 DEF Next, ActorStep, LoopStep, SliceStep, RunnerStep, GuestStep,
      BackgroundStep, SessionStep

\* Every step keeps CallOK.
LEMMA CallStep ==
    ASSUME TypeOK, CallOK, [Next]_vars
    PROVE  CallOK'
<1>1. ASSUME NEW a \in Actors, NEW t \in Threads, WakeWaiter(a, t)
      PROVE  CallOK'
  <2>1. call[a].limit - 1 \in Nat
    BY <1>1 DEF WakeWaiter, Scanning, CallOK, Calls
  <2>. QED  BY <1>1, ActorsAssumption, <2>1 DEF WakeWaiter, Scanning, ContinueScan,
        GoTo, Calls, MayEnter, CallOK, TypeOK
<1>2. ASSUME NEW a \in Actors, NEW t \in Threads, PassWaiter(a, t)
      PROVE  CallOK'
  BY <1>2, ActorsAssumption DEF PassWaiter, Scanning, ContinueScan, GoTo, Calls,
      MayEnter, CallOK, TypeOK
<1>3. ASSUME NEW a \in Actors, WakeNobody(a)
      PROVE  CallOK'
  BY <1>3, ActorsAssumption DEF WakeNobody, Scanning, ContinueScan, GoTo, MayEnter,
      CallOK, TypeOK
<1>4. ASSUME NEW a \in Actors, PumpWakeExpired(a)
      PROVE  CallOK'
  BY <1>4, ActorsAssumption DEF PumpWakeExpired, GoTo, WakeExpired, GateFree,
      CallOK, TypeOK
<1>5. ASSUME NEW a \in Actors, PumpSkip(a)
      PROVE  CallOK'
  BY <1>5 DEF PumpSkip, GoTo, AfterPump, CallOK, TypeOK
<1>6. ASSUME NEW a \in Actors, PumpEnter(a)
      PROVE  CallOK'
  BY <1>6, ActorsAssumption, BoundsAssumption DEF PumpEnter, GoTo, CallOK, TypeOK
<1>7. ASSUME NEW a \in Actors, ClaimNothing(a)
      PROVE  CallOK'
  <2>1. gate = NoActor /\ pc[a] \in {"claim", "dispatch"}
    BY <1>7 DEF ClaimNothing, Claiming, MayEnter, CallOK
  <2>. QED  BY <1>7, ActorsAssumption, <2>1 DEF ClaimNothing, LeaveLoop, GoTo,
        AfterPump, CallOK, TypeOK
<1>8. ASSUME NEW a \in Actors, ClaimReady(a)
      PROVE  CallOK'
  BY <1>8, ActorsAssumption DEF ClaimReady, Claiming, MayEnter, CallOK, TypeOK
<1>9. ASSUME NEW a \in Actors, PassHead(a)
      PROVE  CallOK'
  <2>1. /\ Len(readyQueue) \in Nat \ {0}
       /\ Len(readyQueue') \in {Len(readyQueue), Len(readyQueue) - 1}
    BY <1>9 DEF PassHead, TypeOK
  <2>2. /\ pc[a] \in {"claim", "dispatch"} /\ claimed[a] = NoThread
       /\ \A b \in Actors \ {a} : gate # b
    BY <1>9, ActorsAssumption DEF PassHead, Claiming, MayEnter, CallOK
  <2>3. UNCHANGED <<call, claimed, inline>>
    BY <1>9 DEF PassHead
  <2>4. CASE gate' = NoActor /\ LeaveLoop(a)
    BY <1>9, <2>2, <2>3, <2>4, ActorsAssumption DEF LeaveLoop, GoTo, AfterPump,
        CallOK, TypeOK
  <2>5. gate = a => left \in 1..Len(readyQueue)
    BY <1>9, <2>2 DEF CallOK
  <2>6. left' # 0 => left' \in 1..Len(readyQueue')
    BY <1>9, <2>1, <2>5 DEF PassHead, TypeOK, LeaveLoop
  <2>7. CASE gate' = a /\ left' # 0 /\ UNCHANGED <<pc, pumpVars>>
    BY <1>9, <2>2, <2>3, <2>6, <2>7, ActorsAssumption DEF CallOK, TypeOK
  <2>. QED  BY <1>9, <2>4, <2>7 DEF PassHead
<1>10. ASSUME NEW a \in Actors, Schedule(a)
      PROVE  CallOK'
  BY <1>10, ActorsAssumption DEF Schedule, EndIteration, LeaveLoop, GoTo, AfterPump,
      GateFree, CallOK, TypeOK
<1>11. ASSUME NEW a \in Actors, ScheduleDropped(a)
      PROVE  CallOK'
  BY <1>11, ActorsAssumption DEF ScheduleDropped, EndIteration, LeaveLoop, GoTo,
      AfterPump, GateFree, CallOK, TypeOK
<1>12. ASSUME NEW a \in Actors, NEW k \in Keys, NEW n \in WakeLimits, CallWake(a, k,
        n)
      PROVE  CallOK'
  BY <1>12, BoundsAssumption DEF CallWake, CanCall, GoTo, Calls, CallOK, TypeOK
<1>13. ASSUME NEW a \in Actors, NEW t \in Threads, TryStartThread(a, t)
      PROVE  CallOK'
  BY <1>13, ActorsAssumption DEF TryStartThread, CanCall, GoTo, GateFree, CallOK,
      TypeOK
<1>14. ASSUME NEW t \in Threads, RefuseSlice(t)
      PROVE  CallOK'
  BY <1>14, ActorsAssumption DEF RefuseSlice, ReleaseExecutor, GoTo, GateFree,
      Actors, CallOK, TypeOK
<1>15. ASSUME NEW t \in Threads, LeaveSlice(t)
      PROVE  CallOK'
  BY <1>15, ActorsAssumption DEF LeaveSlice, ReleaseExecutor, GoTo, GateFree,
      Actors, CallOK, TypeOK
<1>16. ASSUME NEW t \in Threads, WakeAtPark(t)
      PROVE  CallOK'
  BY <1>16, ActorsAssumption DEF WakeAtPark, Parking, GateFree, CallOK, TypeOK
<1>17. ASSUME NEW t \in Threads, PollExpired(t)
      PROVE  CallOK'
  BY <1>17, ActorsAssumption DEF PollExpired, WakeExpired, GateFree, CallOK, TypeOK
<1>18. ASSUME NEW S \in SUBSET Expirable, TickerWake(S)
      PROVE  CallOK'
  BY <1>18, ActorsAssumption DEF TickerWake, GoTo, WakeExpired, GateFree, CallOK,
      TypeOK
<1>19. ASSUME TickerPump
      PROVE  CallOK'
  BY <1>19 DEF TickerPump, GoTo, CallOK, TypeOK
<1>20. ASSUME DispatchTick
      PROVE  CallOK'
  BY <1>20 DEF DispatchTick, GoTo, CallOK, TypeOK
<1>21. ASSUME RunInline
      PROVE  CallOK'
  BY <1>21, ActorsAssumption DEF RunInline, GoTo, Actors, CallOK, TypeOK
<1>22. ASSUME DrainPump
      PROVE  CallOK'
  BY <1>22 DEF DrainPump, GoTo, CallOK, TypeOK
<1>23. ASSUME ClearGuestThreads
      PROVE  CallOK'
  BY <1>23, ActorsAssumption DEF ClearGuestThreads, GateFree, CallOK, TypeOK
<1>24. ASSUME NEW t \in Threads, TakeWork(t) \/ EnterSlice(t) \/ BeginSlice(t) \/
        RegisterBlocked(t) \/ NestedResume(t) \/ NestedForced(t) \/ Resume(t) \/
        StayParked(t) \/ NestedPark(t) \/ NestedWake(t) \/ EnterCallback(t) \/
        LeaveCallback(t)
      PROVE  CallOK'
  <2>1. UNCHANGED <<pc, call, gate, left, claimed, readyQueue, pumpOwner, budget, inline>>
    BY <1>24 DEF TakeWork, EnterSlice, BeginSlice, RegisterBlocked, NestedResume,
        NestedForced, Resume, StayParked, NestedPark, NestedWake, EnterCallback,
        LeaveCallback
  <2>. QED  BY <2>1 DEF CallOK
<1>25. ASSUME NEW t \in Threads, NEW outcome \in {"Exited", "Faulted"},
        EndGuestCode(t, outcome)
      PROVE  CallOK'
  <2>1. UNCHANGED <<pc, call, gate, left, claimed, readyQueue, pumpOwner, budget, inline>>
    BY <1>25 DEF EndGuestCode
  <2>. QED  BY <2>1 DEF CallOK
<1>26. ASSUME NEW t \in Threads, NEW w \in NewWaits, RequestBlock(t, w)
      PROVE  CallOK'
  <2>1. UNCHANGED <<pc, call, gate, left, claimed, readyQueue, pumpOwner, budget, inline>>
    BY <1>26 DEF RequestBlock
  <2>. QED  BY <2>1 DEF CallOK
<1>27. ASSUME EntryReturn \/ DrainDone \/ Dispose \/ Quiesce \/ LeakSession \/
        RequestHostShutdown \/ Over
      PROVE  CallOK'
  <2>1. UNCHANGED <<pc, call, gate, left, claimed, readyQueue, pumpOwner, budget, inline>>
    BY <1>27 DEF EntryReturn, DrainDone, Dispose, Quiesce, LeakSession,
        RequestHostShutdown, Over, vars
  <2>. QED  BY <2>1 DEF CallOK
<1>28. CASE UNCHANGED vars
  BY <1>28 DEF vars, CallOK
<1>29. ASSUME NEW a \in Actors, CallPump(a)
      PROVE  CallOK'
  BY <1>29, ActorsAssumption DEF CallPump, CanCall, GoTo, CallOK, TypeOK
<1>. QED  BY <1>1, <1>2, <1>3, <1>4, <1>5, <1>6, <1>7, <1>8, <1>9, <1>10, <1>11,
      <1>12, <1>13, <1>14, <1>15, <1>16, <1>17, <1>18, <1>19, <1>20, <1>21, <1>22,
      <1>23, <1>24, <1>25, <1>26, <1>27, <1>28,
      <1>29 DEF Next, ActorStep, LoopStep,
      SliceStep, RunnerStep, GuestStep, BackgroundStep, SessionStep

\* Every step keeps WaitOK: what is under the gate changes only under the gate.
LEMMA WaitStep ==
    ASSUME TypeOK, CallOK, WaitOK, [Next]_vars
    PROVE  WaitOK'
<1>1. ASSUME NEW a \in Actors, NEW t \in Threads, WakeWaiter(a, t)
      PROVE  WaitOK'
  <2>1. /\ Candidates(a) \subseteq Threads
       /\ \A u \in Candidates(a) : Parked(u)
    BY <1>1, CandidateTypes DEF Candidates, WaitOK
  <2>2. wait[t] \in Waits
    BY <1>1, <2>1 DEF WakeWaiter, Parked, TypeOK
  <2>3. wait'[t] # NoWait
    BY <1>1, <2>2, WaitTypes, NoneAssumption DEF WakeWaiter, MakeReady, TypeOK
  <2>. QED  BY <1>1, <2>1, <2>2, <2>3 DEF WakeWaiter, ContinueScan, GoTo, Parked,
        MakeReady, SetState, Granted, Scanning, WaitOK, TypeOK
<1>2. ASSUME NEW a \in Actors, NEW t \in Threads, PassWaiter(a, t)
      PROVE  WaitOK'
  <2>1. /\ Candidates(a) \subseteq Threads
       /\ \A u \in Candidates(a) : Parked(u)
    BY <1>2, CandidateTypes DEF Candidates, WaitOK
  <2>. QED  BY <1>2, <2>1 DEF PassWaiter, ContinueScan, GoTo, Parked, Scanning,
        WaitOK, TypeOK
<1>3. ASSUME NEW a \in Actors, WakeNobody(a)
      PROVE  WaitOK'
  <2>1. /\ Candidates(a) \subseteq Threads
       /\ \A u \in Candidates(a) : Parked(u)
    BY <1>3, CandidateTypes DEF Candidates, WaitOK
  <2>. QED  BY <1>3, <2>1 DEF WakeNobody, ContinueScan, GoTo, Parked, Scanning,
        WaitOK, TypeOK
<1>4. ASSUME NEW a \in Actors, PumpWakeExpired(a)
      PROVE  WaitOK'
  <2>1. todo = {} /\ todo' = {}
    BY <1>4, ActorsAssumption DEF PumpWakeExpired, GateFree, WaitOK, WakeExpired
  <2>. QED  BY <1>4, ExpireTypes, <2>1 DEF PumpWakeExpired, GoTo, WaitOK, TypeOK
<1>5. ASSUME NEW a \in Actors, PumpSkip(a)
      PROVE  WaitOK'
  BY <1>5 DEF PumpSkip, GoTo, Parked, WaitOK, TypeOK
<1>6. ASSUME NEW a \in Actors, PumpEnter(a)
      PROVE  WaitOK'
  BY <1>6 DEF PumpEnter, GoTo, Parked, WaitOK, TypeOK
<1>7. ASSUME NEW a \in Actors, ClaimNothing(a)
      PROVE  WaitOK'
  BY <1>7 DEF ClaimNothing, LeaveLoop, GoTo, Claiming, Parked, WaitOK, TypeOK
<1>8. ASSUME NEW a \in Actors, ClaimReady(a)
      PROVE  WaitOK'
  <2>1. todo = {} /\ todo' = {}
    BY <1>8, ActorsAssumption DEF ClaimReady, Claiming, MayEnter, WaitOK
  <2>. QED  BY <1>8, <2>1 DEF ClaimReady, SetState, WaitOK, TypeOK
<1>9. ASSUME NEW a \in Actors, PassHead(a)
      PROVE  WaitOK'
  <2>1. todo = {} /\ todo' = {}
    BY <1>9, ActorsAssumption DEF PassHead, Claiming, MayEnter, WaitOK
  <2>. QED  BY <1>9, ActorsAssumption, <2>1 DEF PassHead, Parked, WaitOK, TypeOK
<1>10. ASSUME NEW a \in Actors, Schedule(a)
      PROVE  WaitOK'
  <2>1. todo = {} /\ todo' = {}
    BY <1>10, ActorsAssumption DEF Schedule, GateFree, WaitOK
  <2>. QED  BY <1>10, <2>1 DEF Schedule, WaitOK, TypeOK
<1>11. ASSUME NEW a \in Actors, ScheduleDropped(a)
      PROVE  WaitOK'
  <2>1. todo = {} /\ todo' = {}
    BY <1>11, ActorsAssumption DEF ScheduleDropped, GateFree, WaitOK
  <2>. QED  BY <1>11, <2>1 DEF ScheduleDropped, WaitOK, TypeOK
<1>12. ASSUME NEW a \in Actors, NEW k \in Keys, NEW n \in WakeLimits, CallWake(a, k,
        n)
      PROVE  WaitOK'
  BY <1>12 DEF CallWake, GoTo, Parked, CanCall, WaitOK, TypeOK
<1>13. ASSUME NEW a \in Actors, NEW t \in Threads, TryStartThread(a, t)
      PROVE  WaitOK'
  <2>1. todo = {} /\ todo' = {}
    BY <1>13, ActorsAssumption DEF TryStartThread, GateFree, WaitOK
  <2>. QED  BY <1>13, <2>1 DEF TryStartThread, SetState, WaitOK, TypeOK
<1>14. ASSUME NEW t \in Threads, TakeWork(t)
      PROVE  WaitOK'
  BY <1>14 DEF TakeWork, SetSlice, Parked, WaitOK, TypeOK
<1>15. ASSUME NEW t \in Threads, RefuseSlice(t)
      PROVE  WaitOK'
  <2>1. todo = {} /\ todo' = {}
    BY <1>15, ActorsAssumption DEF RefuseSlice, GateFree, WaitOK
  <2>. QED  BY <1>15, <2>1 DEF RefuseSlice, ReleaseExecutor, SetSlice, SetState,
        WaitOK, TypeOK
<1>16. ASSUME NEW t \in Threads, EnterSlice(t)
      PROVE  WaitOK'
  BY <1>16 DEF EnterSlice, SetSlice, Parked, WaitOK, TypeOK
<1>17. ASSUME NEW t \in Threads, BeginSlice(t)
      PROVE  WaitOK'
  <2>1. todo = {} /\ todo' = {}
    BY <1>17, ActorsAssumption DEF BeginSlice, GateFree, WaitOK
  <2>. QED  BY <1>17, <2>1 DEF BeginSlice, SetSlice, ConsumeWait, WaitOK, TypeOK
<1>18. ASSUME NEW t \in Threads, RegisterBlocked(t)
      PROVE  WaitOK'
  <2>1. todo = {} /\ todo' = {}
    BY <1>18, ActorsAssumption DEF RegisterBlocked, GateFree, WaitOK
  <2>. QED  BY <1>18, <2>1 DEF RegisterBlocked, SetSlice, WaitOK, TypeOK
<1>19. ASSUME NEW t \in Threads, LeaveSlice(t)
      PROVE  WaitOK'
  <2>1. todo = {} /\ todo' = {}
    BY <1>19, ActorsAssumption DEF LeaveSlice, GateFree, WaitOK
  <2>. QED  BY <1>19, <2>1 DEF LeaveSlice, ReleaseExecutor, SetSlice, WaitOK, TypeOK
<1>20. ASSUME NEW t \in Threads, NestedResume(t)
      PROVE  WaitOK'
  <2>1. todo = {} /\ todo' = {}
    BY <1>20, ActorsAssumption DEF NestedResume, GateFree, WaitOK
  <2>. QED  BY <1>20, <2>1 DEF NestedResume, SetSlice, SetState, ConsumeWait,
        WaitOK, TypeOK
<1>21. ASSUME NEW t \in Threads, NestedForced(t)
      PROVE  WaitOK'
  BY <1>21 DEF NestedForced, SetSlice, Parked, WaitOK, TypeOK
<1>22. ASSUME NEW t \in Threads, Resume(t)
      PROVE  WaitOK'
  BY <1>22 DEF Resume, SetSlice, Parked, WaitOK, TypeOK
<1>23. ASSUME NEW t \in Threads, StayParked(t)
      PROVE  WaitOK'
  <2>1. todo = {} /\ todo' = {}
    BY <1>23, ActorsAssumption DEF StayParked, GateFree, WaitOK, Parking
  <2>. QED  BY <1>23, <2>1 DEF StayParked, SetSlice, SetState, WaitOK, TypeOK
<1>24. ASSUME NEW t \in Threads, WakeAtPark(t)
      PROVE  WaitOK'
  <2>1. todo = {} /\ todo' = {}
    BY <1>24, ActorsAssumption DEF WakeAtPark, GateFree, WaitOK, Parking
  <2>. QED  BY <1>24, <2>1 DEF WakeAtPark, SetSlice, MakeReady, WaitOK, TypeOK
<1>25. ASSUME NEW t \in Threads, NestedPark(t)
      PROVE  WaitOK'
  <2>1. todo = {} /\ todo' = {}
    BY <1>25, ActorsAssumption DEF NestedPark, GateFree, WaitOK, Parking
  <2>. QED  BY <1>25, <2>1 DEF NestedPark, SetSlice, SetState, WaitOK, TypeOK
<1>26. ASSUME NEW t \in Threads, NestedWake(t)
      PROVE  WaitOK'
  <2>1. todo = {} /\ todo' = {}
    BY <1>26, ActorsAssumption DEF NestedWake, GateFree, WaitOK, Parking
  <2>. QED  BY <1>26, <2>1 DEF NestedWake, SetSlice, WaitOK, TypeOK
<1>27. ASSUME NEW t \in Threads, NEW outcome \in {"Exited", "Faulted"},
        EndGuestCode(t, outcome)
      PROVE  WaitOK'
  <2>1. todo = {} /\ todo' = {}
    BY <1>27, ActorsAssumption DEF EndGuestCode, GateFree, WaitOK
  <2>. QED  BY <1>27, <2>1 DEF EndGuestCode, SetSlice, SetState, WaitOK, TypeOK
<1>28. ASSUME NEW t \in Threads, NEW w \in NewWaits, RequestBlock(t, w)
      PROVE  WaitOK'
  BY <1>28, NoneAssumption DEF RequestBlock, SetSlice, NewWaits, Parked, WaitOK,
      TypeOK
<1>29. ASSUME NEW t \in Threads, PollExpired(t)
      PROVE  WaitOK'
  <2>1. todo = {} /\ todo' = {}
    BY <1>29, ActorsAssumption DEF PollExpired, GateFree, WaitOK, WakeExpired
  <2>. QED  BY <1>29, ExpireTypes, <2>1 DEF PollExpired, WaitOK, TypeOK
<1>30. ASSUME NEW S \in SUBSET Expirable, TickerWake(S)
      PROVE  WaitOK'
  <2>1. todo = {} /\ todo' = {}
    BY <1>30, ActorsAssumption DEF TickerWake, GateFree, WaitOK, WakeExpired
  <2>. QED  BY <1>30, ExpireTypes, <2>1 DEF TickerWake, GoTo, WaitOK, TypeOK
<1>31. ASSUME TickerPump
      PROVE  WaitOK'
  BY <1>31 DEF TickerPump, GoTo, Parked, WaitOK, TypeOK
<1>32. ASSUME DispatchTick
      PROVE  WaitOK'
  BY <1>32 DEF DispatchTick, GoTo, Parked, WaitOK, TypeOK
<1>33. ASSUME RunInline
      PROVE  WaitOK'
  BY <1>33 DEF RunInline, SetSlice, GoTo, Parked, WaitOK, TypeOK
<1>34. ASSUME DrainPump
      PROVE  WaitOK'
  BY <1>34 DEF DrainPump, GoTo, Parked, WaitOK, TypeOK
<1>35. ASSUME ClearGuestThreads
      PROVE  WaitOK'
  <2>1. todo = {} /\ todo' = {}
    BY <1>35, ActorsAssumption DEF ClearGuestThreads, GateFree, WaitOK
  <2>. QED  BY <1>35, <2>1 DEF ClearGuestThreads, WaitOK, TypeOK
<1>36. ASSUME NEW t \in Threads, EnterCallback(t) \/ LeaveCallback(t)
      PROVE  WaitOK'
  <2>1. UNCHANGED <<guestThreads, state, wait, todo, gate, pc, exec, pending>>
    BY <1>36 DEF EnterCallback, LeaveCallback
  <2>. QED  BY <2>1 DEF WaitOK, Parked
<1>37. ASSUME EntryReturn \/ DrainDone \/ Dispose \/ Quiesce \/ LeakSession \/
        RequestHostShutdown \/ Over
      PROVE  WaitOK'
  <2>1. UNCHANGED <<guestThreads, state, wait, todo, gate, pc, exec, pending>>
    BY <1>37 DEF EntryReturn, DrainDone, Dispose, Quiesce, LeakSession,
        RequestHostShutdown, Over, vars
  <2>. QED  BY <2>1 DEF WaitOK, Parked
<1>38. CASE UNCHANGED vars
  BY <1>38 DEF vars, WaitOK, Parked
<1>39. ASSUME NEW a \in Actors, CallPump(a)
      PROVE  WaitOK'
  <2>1. UNCHANGED <<guestThreads, state, wait, exec, pending, gate, todo>>
    BY <1>39 DEF CallPump, tableVars, sliceVars, waitVars, gateVars
  <2>2. pc[a] = "idle" /\ \A b \in Actors : b # a => pc'[b] = pc[b]
    BY <1>39 DEF CallPump, CanCall, GoTo, TypeOK
  <2>. QED  BY <2>1, <2>2 DEF Parked, WaitOK
<1>. QED  BY <1>1, <1>2, <1>3, <1>4, <1>5, <1>6, <1>7, <1>8, <1>9, <1>10, <1>11,
      <1>12, <1>13, <1>14, <1>15, <1>16, <1>17, <1>18, <1>19, <1>20, <1>21, <1>22,
      <1>23, <1>24, <1>25, <1>26, <1>27, <1>28, <1>29, <1>30, <1>31, <1>32, <1>33,
      <1>34, <1>35, <1>36, <1>37, <1>38,
      <1>39 DEF Next, ActorStep, LoopStep, SliceStep,
      RunnerStep, GuestStep, BackgroundStep, SessionStep

-----------------------------------------------------------------------------
\* The three parts hold at first.
LEMMA TypeInit == Init => TypeOK /\ CallOK /\ WaitOK
<1>. SUFFICES ASSUME Init PROVE TypeOK /\ CallOK /\ WaitOK
  OBVIOUS
<1>1. TypeOK
  <2>1. readyQueue \in Seq(Threads) /\ budget \in 0..PumpBatch /\ left \in Nat
    BY BoundsAssumption DEF Init
  <2>2. /\ state \in [Threads -> States] /\ exec \in [Threads -> Slices]
        /\ pc \in [Actors -> Steps] /\ session \in Sessions
    BY DEF Init, States, Slices, Steps, Sessions
  <2>. QED  BY <2>1, <2>2 DEF Init, TypeOK
<1>2. CallOK
  BY ActorsAssumption DEF Init, CallOK
<1>3. WaitOK
  BY DEF Init, WaitOK
<1>. QED  BY <1>1, <1>2, <1>3

\* Type correctness, with the two parts it needs: a budget never falls below
\* zero, a claim loop never looks past the queue, and a thread is never woken
\* or parked without a registered wait.
THEOREM TypesHold == Spec => [](TypeOK /\ CallOK /\ WaitOK)
<1>1. Init => TypeOK /\ CallOK /\ WaitOK
  BY TypeInit
<1>2. TypeOK /\ CallOK /\ WaitOK /\ [Next]_vars => TypeOK' /\ CallOK' /\ WaitOK'
  BY TypeStep, CallStep, WaitStep
<1>. QED  BY <1>1, <1>2, PTL DEF Spec

\* Every variable of the scheduler keeps its type.
THEOREM TypeCorrect == Spec => []TypeOK
  BY TypesHold, PTL

=============================================================================
