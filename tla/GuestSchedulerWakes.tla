------------------------- MODULE GuestSchedulerWakes -------------------------
(***************************************************************************)
(* What the steps of GuestScheduler do to the threads that are parked, to  *)
(* the wakes under way and to the waits of the threads: the part of a      *)
(* no-lost-wake-up argument, and of the refinement of an abstract          *)
(* primitive, that is the same for every primitive. The last theorem is    *)
(* that no wake-up is spurious.                                            *)
(***************************************************************************)
EXTENDS GuestSchedulerSafety, FiniteSetTheorems

USE DEF tableVars, sliceVars, waitVars, gateVars, callVars, pumpVars, mainVars

\* Until a forced exit, a thread that somebody executes or is about to is Running.
RunningOK ==
    ~forcedExit => \A t \in Threads :
        \/ exec[t] \notin {"off", "leaving", "polling"}
        \/ work[t]
        \/ \E a \in Actors : claimed[a] = t
        => state[t] = "Running"

\* The steps that neither park a thread nor belong to a wake
QuietStep ==
    \/ \E a \in Actors :
         \/ PumpWakeExpired(a) \/ PumpSkip(a) \/ PumpEnter(a) \/ ClaimNothing(a)
         \/ ClaimReady(a) \/ PassHead(a) \/ Schedule(a) \/ ScheduleDropped(a)
         \/ CallPump(a)
    \/ \E a \in Actors, t \in Threads :
         \/ TryStartThread(a, t)
    \/ \E t \in Threads :
         \/ TakeWork(t) \/ RefuseSlice(t) \/ EnterSlice(t) \/ BeginSlice(t)
         \/ RegisterBlocked(t) \/ LeaveSlice(t) \/ NestedResume(t) \/ NestedForced(t)
         \/ Resume(t) \/ WakeAtPark(t) \/ NestedWake(t) \/ EnterCallback(t)
         \/ LeaveCallback(t) \/ PollExpired(t)
    \/ \E t \in Threads, outcome \in {"Exited", "Faulted"} :
         \/ EndGuestCode(t, outcome)
    \/ \E t \in Threads, w \in NewWaits :
         \/ RequestBlock(t, w)
    \/ \E S \in SUBSET Expirable :
         \/ TickerWake(S)
    \/ TickerPump \/ DispatchTick \/ EntryReturn \/ RunInline \/ DrainPump
    \/ DrainDone \/ Dispose \/ Quiesce \/ LeakSession \/ ClearGuestThreads
    \/ RequestHostShutdown \/ Over

\* Nobody is parked anew
NobodyParks == \A t \in Threads : Parked(t)' => Parked(t) /\ wait'[t] = wait[t]

\* The wakes under way stay where they are
WakesStay ==
    /\ todo' = todo
    /\ \A a \in Actors : pc'[a] = "wake" <=> pc[a] = "wake"
    /\ \A a \in Actors : pc[a] = "wake" => call'[a] = call[a] /\ (gate' = a <=> gate = a)

-----------------------------------------------------------------------------

\* A step of that kind keeps RunningOK: only a claim gives a thread an executor.
LEMMA RunningQuiet ==
    ASSUME TypeOK, CallOK, SingleExecutor, RunningOK, QuietStep
    PROVE  RunningOK'
<1>1. ASSUME NEW a \in Actors, PumpWakeExpired(a)
      PROVE  RunningOK'
  BY <1>1 DEF PumpWakeExpired, WakeExpired, Expirable, Disarmed, GoTo, RunningOK,
     TypeOK, SingleExecutor, Parked
<1>2. ASSUME NEW a \in Actors, PumpSkip(a)
      PROVE  RunningOK'
  BY <1>2 DEF PumpSkip, GoTo, AfterPump, RunningOK, TypeOK, SingleExecutor, Parked
<1>3. ASSUME NEW a \in Actors, PumpEnter(a)
      PROVE  RunningOK'
  BY <1>3 DEF PumpEnter, GoTo, RunningOK, TypeOK, SingleExecutor, Parked
<1>4. ASSUME NEW a \in Actors, ClaimNothing(a)
      PROVE  RunningOK'
  BY <1>4 DEF ClaimNothing, Claiming, LeaveLoop, GoTo, AfterPump, RunningOK, TypeOK,
     SingleExecutor, Parked
<1>5. ASSUME NEW a \in Actors, ClaimReady(a)
      PROVE  RunningOK'
  BY <1>5 DEF ClaimReady, Claiming, SetState, RunningOK, TypeOK, SingleExecutor, Parked
<1>6. ASSUME NEW a \in Actors, PassHead(a)
      PROVE  RunningOK'
  BY <1>6 DEF PassHead, Claiming, LeaveLoop, GoTo, AfterPump, RunningOK, TypeOK,
     SingleExecutor, Parked
<1>7. ASSUME NEW a \in Actors, Schedule(a)
      PROVE  RunningOK'
  <2>1. /\ claimed[a] # NoThread /\ claimed' = [claimed EXCEPT ![a] = NoThread]
        /\ work' = [work EXCEPT ![claimed[a]] = TRUE]
        /\ UNCHANGED <<state, exec, forcedExit>>
  BY <1>7 DEF Schedule
  <2>. QED  BY <2>1, ActorsAssumption DEF RunningOK, TypeOK
<1>8. ASSUME NEW a \in Actors, ScheduleDropped(a)
      PROVE  RunningOK'
  <2>1. /\ claimed[a] # NoThread /\ claimed' = [claimed EXCEPT ![a] = NoThread]
        /\ UNCHANGED work
        /\ UNCHANGED <<state, exec, forcedExit>>
  BY <1>8 DEF ScheduleDropped
  <2>. QED  BY <2>1, ActorsAssumption DEF RunningOK, TypeOK
<1>9. ASSUME NEW a \in Actors, CallPump(a)
      PROVE  RunningOK'
  BY <1>9 DEF CallPump, CanCall, GoTo, RunningOK, TypeOK, SingleExecutor, Parked
<1>10. ASSUME NEW a \in Actors, NEW t \in Threads, TryStartThread(a, t)
      PROVE  RunningOK'
  BY <1>10 DEF TryStartThread, CanCall, GoTo, SetState, GateFree, RunningOK, TypeOK,
     SingleExecutor, Parked
<1>11. ASSUME NEW t \in Threads, TakeWork(t)
      PROVE  RunningOK'
  BY <1>11 DEF TakeWork, SetSlice, RunningOK, TypeOK, SingleExecutor, Parked
<1>12. ASSUME NEW t \in Threads, RefuseSlice(t)
      PROVE  RunningOK'
  BY <1>12 DEF RefuseSlice, SetState, ReleaseExecutor, SetSlice, GoTo, RunningOK,
     TypeOK, SingleExecutor, Parked
<1>13. ASSUME NEW t \in Threads, EnterSlice(t)
      PROVE  RunningOK'
  BY <1>13 DEF EnterSlice, SetSlice, RunningOK, TypeOK, SingleExecutor, Parked
<1>14. ASSUME NEW t \in Threads, BeginSlice(t)
      PROVE  RunningOK'
  BY <1>14 DEF BeginSlice, SetSlice, ConsumeWait, RunningOK, TypeOK, SingleExecutor,
     Parked
<1>15. ASSUME NEW t \in Threads, RegisterBlocked(t)
      PROVE  RunningOK'
  BY <1>15 DEF RegisterBlocked, SetSlice, RunningOK, TypeOK, SingleExecutor, Parked
<1>16. ASSUME NEW t \in Threads, LeaveSlice(t)
      PROVE  RunningOK'
  BY <1>16 DEF LeaveSlice, ReleaseExecutor, SetSlice, GoTo, RunningOK, TypeOK,
     SingleExecutor, Parked
<1>17. ASSUME NEW t \in Threads, NestedResume(t)
      PROVE  RunningOK'
  BY <1>17 DEF NestedResume, SetState, ConsumeWait, SetSlice, RunningOK, TypeOK,
     SingleExecutor, Parked
<1>18. ASSUME NEW t \in Threads, NestedForced(t)
      PROVE  RunningOK'
  BY <1>18 DEF NestedForced, SetSlice, RunningOK, TypeOK, SingleExecutor, Parked
<1>19. ASSUME NEW t \in Threads, Resume(t)
      PROVE  RunningOK'
  BY <1>19 DEF Resume, SetSlice, RunningOK, TypeOK, SingleExecutor, Parked
<1>20. ASSUME NEW t \in Threads, WakeAtPark(t)
      PROVE  RunningOK'
  BY <1>20 DEF WakeAtPark, Parking, MakeReady, SetState, SetSlice, RunningOK, TypeOK,
     SingleExecutor, Parked
<1>21. ASSUME NEW t \in Threads, NestedWake(t)
      PROVE  RunningOK'
  BY <1>21 DEF NestedWake, Parking, SetState, SetSlice, RunningOK, TypeOK,
     SingleExecutor, Parked
<1>22. ASSUME NEW t \in Threads, NEW outcome \in {"Exited", "Faulted"}, EndGuestCode(t, outcome)
      PROVE  RunningOK'
  BY <1>22 DEF EndGuestCode, CanCall, InGuestCode, SetState, SetSlice, RunningOK,
     TypeOK, SingleExecutor, Parked
<1>23. ASSUME NEW t \in Threads, EnterCallback(t)
      PROVE  RunningOK'
  BY <1>23 DEF EnterCallback, RunningOK, TypeOK, SingleExecutor, Parked
<1>24. ASSUME NEW t \in Threads, LeaveCallback(t)
      PROVE  RunningOK'
  BY <1>24 DEF LeaveCallback, RunningOK, TypeOK, SingleExecutor, Parked
<1>25. ASSUME NEW t \in Threads, NEW w \in NewWaits, RequestBlock(t, w)
      PROVE  RunningOK'
  BY <1>25 DEF RequestBlock, SetSlice, CanCall, InGuestCode, RunningOK, TypeOK,
     SingleExecutor, Parked
<1>26. ASSUME NEW S \in SUBSET Expirable, TickerWake(S)
      PROVE  RunningOK'
  BY <1>26 DEF TickerWake, WakeExpired, Expirable, Disarmed, GoTo, RunningOK, TypeOK,
     SingleExecutor, Parked
<1>27. ASSUME TickerPump
      PROVE  RunningOK'
  BY <1>27 DEF TickerPump, GoTo, RunningOK, TypeOK, SingleExecutor, Parked
<1>28. ASSUME DispatchTick
      PROVE  RunningOK'
  BY <1>28 DEF DispatchTick, GoTo, RunningOK, TypeOK, SingleExecutor, Parked
<1>29. ASSUME NEW t \in Threads, PollExpired(t)
      PROVE  RunningOK'
  BY <1>29 DEF PollExpired, WakeExpired, Expirable, Disarmed, RunningOK, TypeOK,
     SingleExecutor, Parked
<1>30. ASSUME EntryReturn
      PROVE  RunningOK'
  BY <1>30 DEF EntryReturn, RunningOK, TypeOK, SingleExecutor, Parked
<1>31. ASSUME RunInline
      PROVE  RunningOK'
  BY <1>31, ActorsAssumption DEF RunInline, SetSlice, GoTo, Actors, RunningOK, TypeOK,
     SingleExecutor, Parked
<1>32. ASSUME DrainPump
      PROVE  RunningOK'
  BY <1>32 DEF DrainPump, GoTo, RunningOK, TypeOK, SingleExecutor, Parked
<1>33. ASSUME DrainDone
      PROVE  RunningOK'
  BY <1>33 DEF DrainDone, RunningOK, TypeOK, SingleExecutor, Parked
<1>34. ASSUME Dispose
      PROVE  RunningOK'
  BY <1>34 DEF Dispose, RunningOK, TypeOK, SingleExecutor, Parked
<1>35. ASSUME Quiesce
      PROVE  RunningOK'
  BY <1>35 DEF Quiesce, RunningOK, TypeOK, SingleExecutor, Parked
<1>36. ASSUME LeakSession
      PROVE  RunningOK'
  BY <1>36 DEF LeakSession, RunningOK, TypeOK, SingleExecutor, Parked
<1>37. ASSUME ClearGuestThreads
      PROVE  RunningOK'
  BY <1>37 DEF ClearGuestThreads, RunningOK, TypeOK, SingleExecutor, Parked
<1>38. ASSUME RequestHostShutdown
      PROVE  RunningOK'
  BY <1>38 DEF RequestHostShutdown, RunningOK, TypeOK, SingleExecutor, Parked
<1>39. ASSUME Over
      PROVE  RunningOK'
  BY <1>39 DEF Over, vars, RunningOK, TypeOK, SingleExecutor, Parked
<1>. QED  BY <1>1, <1>2, <1>3, <1>4, <1>5, <1>6, <1>7, <1>8, <1>9, <1>10, <1>11, <1>12,
      <1>13, <1>14, <1>15, <1>16, <1>17, <1>18, <1>19, <1>20, <1>21, <1>22, <1>23,
      <1>24, <1>25, <1>26, <1>27, <1>28, <1>29, <1>30, <1>31, <1>32, <1>33, <1>34,
      <1>35, <1>36, <1>37, <1>38, <1>39 DEF QuietStep

\* It parks nobody: a continuation is registered while its thread is Running.
LEMMA QuietParks ==
    ASSUME TypeOK, RunningOK, QuietStep, ~forcedExit
    PROVE  NobodyParks
<1>1. ASSUME NEW a \in Actors, PumpWakeExpired(a)
      PROVE  NobodyParks
  BY <1>1 DEF PumpWakeExpired, WakeExpired, Expirable, Disarmed, GoTo, NobodyParks,
     Parked, TypeOK, RunningOK, States
<1>2. ASSUME NEW a \in Actors, PumpSkip(a)
      PROVE  NobodyParks
  BY <1>2 DEF PumpSkip, GoTo, AfterPump, NobodyParks, Parked, TypeOK, RunningOK, States
<1>3. ASSUME NEW a \in Actors, PumpEnter(a)
      PROVE  NobodyParks
  BY <1>3 DEF PumpEnter, GoTo, NobodyParks, Parked, TypeOK, RunningOK, States
<1>4. ASSUME NEW a \in Actors, ClaimNothing(a)
      PROVE  NobodyParks
  BY <1>4 DEF ClaimNothing, Claiming, LeaveLoop, GoTo, AfterPump, NobodyParks, Parked,
     TypeOK, RunningOK, States
<1>5. ASSUME NEW a \in Actors, ClaimReady(a)
      PROVE  NobodyParks
  BY <1>5 DEF ClaimReady, Claiming, SetState, NobodyParks, Parked, TypeOK, RunningOK,
     States
<1>6. ASSUME NEW a \in Actors, PassHead(a)
      PROVE  NobodyParks
  BY <1>6 DEF PassHead, Claiming, LeaveLoop, GoTo, AfterPump, NobodyParks, Parked,
     TypeOK, RunningOK, States
<1>7. ASSUME NEW a \in Actors, Schedule(a)
      PROVE  NobodyParks
  BY <1>7 DEF Schedule, EndIteration, LeaveLoop, GoTo, AfterPump, NobodyParks, Parked,
     TypeOK, RunningOK, States
<1>8. ASSUME NEW a \in Actors, ScheduleDropped(a)
      PROVE  NobodyParks
  BY <1>8 DEF ScheduleDropped, EndIteration, LeaveLoop, GoTo, AfterPump, NobodyParks,
     Parked, TypeOK, RunningOK, States
<1>9. ASSUME NEW a \in Actors, CallPump(a)
      PROVE  NobodyParks
  BY <1>9 DEF CallPump, CanCall, GoTo, NobodyParks, Parked, TypeOK, RunningOK, States
<1>10. ASSUME NEW a \in Actors, NEW t \in Threads, TryStartThread(a, t)
      PROVE  NobodyParks
  BY <1>10 DEF TryStartThread, CanCall, GoTo, SetState, GateFree, NobodyParks, Parked,
     TypeOK, RunningOK, States
<1>11. ASSUME NEW t \in Threads, TakeWork(t)
      PROVE  NobodyParks
  BY <1>11 DEF TakeWork, SetSlice, NobodyParks, Parked, TypeOK, RunningOK, States
<1>12. ASSUME NEW t \in Threads, RefuseSlice(t)
      PROVE  NobodyParks
  BY <1>12 DEF RefuseSlice, SetState, ReleaseExecutor, SetSlice, GoTo, NobodyParks,
     Parked, TypeOK, RunningOK, States
<1>13. ASSUME NEW t \in Threads, EnterSlice(t)
      PROVE  NobodyParks
  BY <1>13 DEF EnterSlice, SetSlice, NobodyParks, Parked, TypeOK, RunningOK, States
<1>14. ASSUME NEW t \in Threads, BeginSlice(t)
      PROVE  NobodyParks
  BY <1>14 DEF BeginSlice, SetSlice, ConsumeWait, NobodyParks, Parked, TypeOK,
     RunningOK, States
<1>15. ASSUME NEW t \in Threads, RegisterBlocked(t)
      PROVE  NobodyParks
  BY <1>15 DEF RegisterBlocked, SetSlice, NobodyParks, Parked, TypeOK, RunningOK, States
<1>16. ASSUME NEW t \in Threads, LeaveSlice(t)
      PROVE  NobodyParks
  BY <1>16 DEF LeaveSlice, ReleaseExecutor, SetSlice, GoTo, NobodyParks, Parked, TypeOK,
     RunningOK, States
<1>17. ASSUME NEW t \in Threads, NestedResume(t)
      PROVE  NobodyParks
  BY <1>17 DEF NestedResume, SetState, ConsumeWait, SetSlice, NobodyParks, Parked,
     TypeOK, RunningOK, States
<1>18. ASSUME NEW t \in Threads, NestedForced(t)
      PROVE  NobodyParks
  BY <1>18 DEF NestedForced, SetSlice, NobodyParks, Parked, TypeOK, RunningOK, States
<1>19. ASSUME NEW t \in Threads, Resume(t)
      PROVE  NobodyParks
  BY <1>19 DEF Resume, SetSlice, NobodyParks, Parked, TypeOK, RunningOK, States
<1>20. ASSUME NEW t \in Threads, WakeAtPark(t)
      PROVE  NobodyParks
  BY <1>20 DEF WakeAtPark, Parking, MakeReady, SetState, SetSlice, NobodyParks, Parked,
     TypeOK, RunningOK, States
<1>21. ASSUME NEW t \in Threads, NestedWake(t)
      PROVE  NobodyParks
  BY <1>21 DEF NestedWake, Parking, SetState, SetSlice, NobodyParks, Parked, TypeOK,
     RunningOK, States
<1>22. ASSUME NEW t \in Threads, NEW outcome \in {"Exited", "Faulted"}, EndGuestCode(t, outcome)
      PROVE  NobodyParks
  BY <1>22 DEF EndGuestCode, CanCall, InGuestCode, SetState, SetSlice, NobodyParks,
     Parked, TypeOK, RunningOK, States
<1>23. ASSUME NEW t \in Threads, EnterCallback(t)
      PROVE  NobodyParks
  BY <1>23 DEF EnterCallback, NobodyParks, Parked, TypeOK, RunningOK, States
<1>24. ASSUME NEW t \in Threads, LeaveCallback(t)
      PROVE  NobodyParks
  BY <1>24 DEF LeaveCallback, NobodyParks, Parked, TypeOK, RunningOK, States
<1>25. ASSUME NEW t \in Threads, NEW w \in NewWaits, RequestBlock(t, w)
      PROVE  NobodyParks
  BY <1>25 DEF RequestBlock, SetSlice, CanCall, InGuestCode, NobodyParks, Parked,
     TypeOK, RunningOK, States
<1>26. ASSUME NEW S \in SUBSET Expirable, TickerWake(S)
      PROVE  NobodyParks
  BY <1>26 DEF TickerWake, WakeExpired, Expirable, Disarmed, GoTo, NobodyParks, Parked,
     TypeOK, RunningOK, States
<1>27. ASSUME TickerPump
      PROVE  NobodyParks
  BY <1>27 DEF TickerPump, GoTo, NobodyParks, Parked, TypeOK, RunningOK, States
<1>28. ASSUME DispatchTick
      PROVE  NobodyParks
  BY <1>28 DEF DispatchTick, GoTo, NobodyParks, Parked, TypeOK, RunningOK, States
<1>29. ASSUME NEW t \in Threads, PollExpired(t)
      PROVE  NobodyParks
  BY <1>29 DEF PollExpired, WakeExpired, Expirable, Disarmed, NobodyParks, Parked,
     TypeOK, RunningOK, States
<1>30. ASSUME EntryReturn
      PROVE  NobodyParks
  BY <1>30 DEF EntryReturn, NobodyParks, Parked, TypeOK, RunningOK, States
<1>31. ASSUME RunInline
      PROVE  NobodyParks
  BY <1>31 DEF RunInline, SetSlice, GoTo, Actors, NobodyParks, Parked, TypeOK,
     RunningOK, States
<1>32. ASSUME DrainPump
      PROVE  NobodyParks
  BY <1>32 DEF DrainPump, GoTo, NobodyParks, Parked, TypeOK, RunningOK, States
<1>33. ASSUME DrainDone
      PROVE  NobodyParks
  BY <1>33 DEF DrainDone, NobodyParks, Parked, TypeOK, RunningOK, States
<1>34. ASSUME Dispose
      PROVE  NobodyParks
  BY <1>34 DEF Dispose, NobodyParks, Parked, TypeOK, RunningOK, States
<1>35. ASSUME Quiesce
      PROVE  NobodyParks
  BY <1>35 DEF Quiesce, NobodyParks, Parked, TypeOK, RunningOK, States
<1>36. ASSUME LeakSession
      PROVE  NobodyParks
  BY <1>36 DEF LeakSession, NobodyParks, Parked, TypeOK, RunningOK, States
<1>37. ASSUME ClearGuestThreads
      PROVE  NobodyParks
  BY <1>37 DEF ClearGuestThreads, NobodyParks, Parked, TypeOK, RunningOK, States
<1>38. ASSUME RequestHostShutdown
      PROVE  NobodyParks
  BY <1>38 DEF RequestHostShutdown, NobodyParks, Parked, TypeOK, RunningOK, States
<1>39. ASSUME Over
      PROVE  NobodyParks
  BY <1>39 DEF Over, vars, NobodyParks, Parked, TypeOK, RunningOK, States
<1>. QED  BY <1>1, <1>2, <1>3, <1>4, <1>5, <1>6, <1>7, <1>8, <1>9, <1>10, <1>11, <1>12,
      <1>13, <1>14, <1>15, <1>16, <1>17, <1>18, <1>19, <1>20, <1>21, <1>22, <1>23,
      <1>24, <1>25, <1>26, <1>27, <1>28, <1>29, <1>30, <1>31, <1>32, <1>33, <1>34,
      <1>35, <1>36, <1>37, <1>38, <1>39 DEF QuietStep

\* It leaves the wakes alone, also when it takes or gives back the gate.
LEMMA QuietWakes ==
    ASSUME TypeOK, CallOK, QuietStep
    PROVE  WakesStay
<1>1. ASSUME NEW a \in Actors, PumpWakeExpired(a)
      PROVE  WakesStay
  BY <1>1, ActorsAssumption DEF PumpWakeExpired, WakeExpired, Expirable, Disarmed, GoTo,
     WakesStay, TypeOK, CallOK, MayEnter, GateFree, Actors
<1>2. ASSUME NEW a \in Actors, PumpSkip(a)
      PROVE  WakesStay
  BY <1>2, ActorsAssumption DEF PumpSkip, GoTo, AfterPump, WakesStay, TypeOK, CallOK,
     MayEnter, GateFree, Actors
<1>3. ASSUME NEW a \in Actors, PumpEnter(a)
      PROVE  WakesStay
  BY <1>3, ActorsAssumption DEF PumpEnter, GoTo, WakesStay, TypeOK, CallOK, MayEnter,
     GateFree, Actors
<1>4. ASSUME NEW a \in Actors, ClaimNothing(a)
      PROVE  WakesStay
  BY <1>4, ActorsAssumption DEF ClaimNothing, Claiming, LeaveLoop, GoTo, AfterPump,
     WakesStay, TypeOK, CallOK, MayEnter, GateFree, Actors
<1>5. ASSUME NEW a \in Actors, ClaimReady(a)
      PROVE  WakesStay
  BY <1>5, ActorsAssumption DEF ClaimReady, Claiming, SetState, WakesStay, TypeOK,
     CallOK, MayEnter, GateFree, Actors
<1>6. ASSUME NEW a \in Actors, PassHead(a)
      PROVE  WakesStay
  BY <1>6, ActorsAssumption DEF PassHead, Claiming, LeaveLoop, GoTo, AfterPump,
     WakesStay, TypeOK, CallOK, MayEnter, GateFree, Actors
<1>7. ASSUME NEW a \in Actors, Schedule(a)
      PROVE  WakesStay
  BY <1>7, ActorsAssumption DEF Schedule, EndIteration, LeaveLoop, GoTo, AfterPump,
     WakesStay, TypeOK, CallOK, MayEnter, GateFree, Actors
<1>8. ASSUME NEW a \in Actors, ScheduleDropped(a)
      PROVE  WakesStay
  BY <1>8, ActorsAssumption DEF ScheduleDropped, EndIteration, LeaveLoop, GoTo,
     AfterPump, WakesStay, TypeOK, CallOK, MayEnter, GateFree, Actors
<1>9. ASSUME NEW a \in Actors, CallPump(a)
      PROVE  WakesStay
  BY <1>9, ActorsAssumption DEF CallPump, CanCall, GoTo, WakesStay, TypeOK, CallOK,
     MayEnter, GateFree, Actors
<1>10. ASSUME NEW a \in Actors, NEW t \in Threads, TryStartThread(a, t)
      PROVE  WakesStay
  BY <1>10, ActorsAssumption DEF TryStartThread, CanCall, GoTo, SetState, GateFree,
     WakesStay, TypeOK, CallOK, MayEnter, GateFree, Actors
<1>11. ASSUME NEW t \in Threads, TakeWork(t)
      PROVE  WakesStay
  BY <1>11, ActorsAssumption DEF TakeWork, SetSlice, WakesStay, TypeOK, CallOK,
     MayEnter, GateFree, Actors
<1>12. ASSUME NEW t \in Threads, RefuseSlice(t)
      PROVE  WakesStay
  BY <1>12, ActorsAssumption DEF RefuseSlice, SetState, ReleaseExecutor, SetSlice, GoTo,
     WakesStay, TypeOK, CallOK, MayEnter, GateFree, Actors
<1>13. ASSUME NEW t \in Threads, EnterSlice(t)
      PROVE  WakesStay
  BY <1>13, ActorsAssumption DEF EnterSlice, SetSlice, WakesStay, TypeOK, CallOK,
     MayEnter, GateFree, Actors
<1>14. ASSUME NEW t \in Threads, BeginSlice(t)
      PROVE  WakesStay
  BY <1>14, ActorsAssumption DEF BeginSlice, SetSlice, ConsumeWait, WakesStay, TypeOK,
     CallOK, MayEnter, GateFree, Actors
<1>15. ASSUME NEW t \in Threads, RegisterBlocked(t)
      PROVE  WakesStay
  BY <1>15, ActorsAssumption DEF RegisterBlocked, SetSlice, WakesStay, TypeOK, CallOK,
     MayEnter, GateFree, Actors
<1>16. ASSUME NEW t \in Threads, LeaveSlice(t)
      PROVE  WakesStay
  BY <1>16, ActorsAssumption DEF LeaveSlice, ReleaseExecutor, SetSlice, GoTo, WakesStay,
     TypeOK, CallOK, MayEnter, GateFree, Actors
<1>17. ASSUME NEW t \in Threads, NestedResume(t)
      PROVE  WakesStay
  BY <1>17, ActorsAssumption DEF NestedResume, SetState, ConsumeWait, SetSlice,
     WakesStay, TypeOK, CallOK, MayEnter, GateFree, Actors
<1>18. ASSUME NEW t \in Threads, NestedForced(t)
      PROVE  WakesStay
  BY <1>18, ActorsAssumption DEF NestedForced, SetSlice, WakesStay, TypeOK, CallOK,
     MayEnter, GateFree, Actors
<1>19. ASSUME NEW t \in Threads, Resume(t)
      PROVE  WakesStay
  BY <1>19, ActorsAssumption DEF Resume, SetSlice, WakesStay, TypeOK, CallOK, MayEnter,
     GateFree, Actors
<1>20. ASSUME NEW t \in Threads, WakeAtPark(t)
      PROVE  WakesStay
  BY <1>20, ActorsAssumption DEF WakeAtPark, Parking, MakeReady, SetState, SetSlice,
     WakesStay, TypeOK, CallOK, MayEnter, GateFree, Actors
<1>21. ASSUME NEW t \in Threads, NestedWake(t)
      PROVE  WakesStay
  BY <1>21, ActorsAssumption DEF NestedWake, Parking, SetState, SetSlice, WakesStay,
     TypeOK, CallOK, MayEnter, GateFree, Actors
<1>22. ASSUME NEW t \in Threads, NEW outcome \in {"Exited", "Faulted"}, EndGuestCode(t, outcome)
      PROVE  WakesStay
  BY <1>22, ActorsAssumption DEF EndGuestCode, CanCall, InGuestCode, SetState, SetSlice,
     WakesStay, TypeOK, CallOK, MayEnter, GateFree, Actors
<1>23. ASSUME NEW t \in Threads, EnterCallback(t)
      PROVE  WakesStay
  BY <1>23, ActorsAssumption DEF EnterCallback, WakesStay, TypeOK, CallOK, MayEnter,
     GateFree, Actors
<1>24. ASSUME NEW t \in Threads, LeaveCallback(t)
      PROVE  WakesStay
  BY <1>24, ActorsAssumption DEF LeaveCallback, WakesStay, TypeOK, CallOK, MayEnter,
     GateFree, Actors
<1>25. ASSUME NEW t \in Threads, NEW w \in NewWaits, RequestBlock(t, w)
      PROVE  WakesStay
  BY <1>25, ActorsAssumption DEF RequestBlock, SetSlice, CanCall, InGuestCode,
     WakesStay, TypeOK, CallOK, MayEnter, GateFree, Actors
<1>26. ASSUME NEW S \in SUBSET Expirable, TickerWake(S)
      PROVE  WakesStay
  BY <1>26, ActorsAssumption DEF TickerWake, WakeExpired, Expirable, Disarmed, GoTo,
     WakesStay, TypeOK, CallOK, MayEnter, GateFree, Actors
<1>27. ASSUME TickerPump
      PROVE  WakesStay
  BY <1>27, ActorsAssumption DEF TickerPump, GoTo, WakesStay, TypeOK, CallOK, MayEnter,
     GateFree, Actors
<1>28. ASSUME DispatchTick
      PROVE  WakesStay
  BY <1>28, ActorsAssumption DEF DispatchTick, GoTo, WakesStay, TypeOK, CallOK,
     MayEnter, GateFree, Actors
<1>29. ASSUME NEW t \in Threads, PollExpired(t)
      PROVE  WakesStay
  BY <1>29, ActorsAssumption DEF PollExpired, WakeExpired, Expirable, Disarmed,
     WakesStay, TypeOK, CallOK, MayEnter, GateFree, Actors
<1>30. ASSUME EntryReturn
      PROVE  WakesStay
  BY <1>30, ActorsAssumption DEF EntryReturn, WakesStay, TypeOK, CallOK, MayEnter,
     GateFree, Actors
<1>31. ASSUME RunInline
      PROVE  WakesStay
  BY <1>31, ActorsAssumption DEF RunInline, SetSlice, GoTo, Actors, WakesStay, TypeOK,
     CallOK, MayEnter, GateFree, Actors
<1>32. ASSUME DrainPump
      PROVE  WakesStay
  BY <1>32, ActorsAssumption DEF DrainPump, GoTo, WakesStay, TypeOK, CallOK, MayEnter,
     GateFree, Actors
<1>33. ASSUME DrainDone
      PROVE  WakesStay
  BY <1>33, ActorsAssumption DEF DrainDone, WakesStay, TypeOK, CallOK, MayEnter,
     GateFree, Actors
<1>34. ASSUME Dispose
      PROVE  WakesStay
  BY <1>34, ActorsAssumption DEF Dispose, WakesStay, TypeOK, CallOK, MayEnter, GateFree,
     Actors
<1>35. ASSUME Quiesce
      PROVE  WakesStay
  BY <1>35, ActorsAssumption DEF Quiesce, WakesStay, TypeOK, CallOK, MayEnter, GateFree,
     Actors
<1>36. ASSUME LeakSession
      PROVE  WakesStay
  BY <1>36, ActorsAssumption DEF LeakSession, WakesStay, TypeOK, CallOK, MayEnter,
     GateFree, Actors
<1>37. ASSUME ClearGuestThreads
      PROVE  WakesStay
  BY <1>37, ActorsAssumption DEF ClearGuestThreads, WakesStay, TypeOK, CallOK, MayEnter,
     GateFree, Actors
<1>38. ASSUME RequestHostShutdown
      PROVE  WakesStay
  BY <1>38, ActorsAssumption DEF RequestHostShutdown, WakesStay, TypeOK, CallOK,
     MayEnter, GateFree, Actors
<1>39. ASSUME Over
      PROVE  WakesStay
  BY <1>39, ActorsAssumption DEF Over, vars, WakesStay, TypeOK, CallOK, MayEnter,
     GateFree, Actors
<1>. QED  BY <1>1, <1>2, <1>3, <1>4, <1>5, <1>6, <1>7, <1>8, <1>9, <1>10, <1>11, <1>12,
      <1>13, <1>14, <1>15, <1>16, <1>17, <1>18, <1>19, <1>20, <1>21, <1>22, <1>23,
      <1>24, <1>25, <1>26, <1>27, <1>28, <1>29, <1>30, <1>31, <1>32, <1>33, <1>34,
      <1>35, <1>36, <1>37, <1>38, <1>39 DEF QuietStep

\* While a wake holds the gate, a step of that kind leaves what it visits alone.
LEMMA QuietTable ==
    ASSUME CallOK, QuietStep, NEW a \in Actors, gate = a, pc[a] = "wake"
    PROVE  UNCHANGED <<guestThreads, state, wait>>
<1>1. ~GateFree
  BY ActorsAssumption DEF GateFree
<1>2. \A b \in Actors : ~Claiming(b)
  BY ActorsAssumption DEF Claiming, MayEnter
<1>3. ASSUME NEW b \in Actors,
             \/ PumpWakeExpired(b) \/ PumpSkip(b) \/ PumpEnter(b) \/ ClaimNothing(b)
             \/ ClaimReady(b) \/ PassHead(b) \/ Schedule(b) \/ ScheduleDropped(b)
             \/ CallPump(b)
      PROVE  UNCHANGED <<guestThreads, state, wait>>
  BY <1>1, <1>2, <1>3 DEF PumpWakeExpired, WakeExpired, PumpSkip, PumpEnter, ClaimNothing,
     ClaimReady, PassHead, Schedule, ScheduleDropped, CallPump
<1>4. ASSUME NEW b \in Actors, NEW t \in Threads, TryStartThread(b, t)
      PROVE  UNCHANGED <<guestThreads, state, wait>>
  BY <1>1, <1>4 DEF TryStartThread
<1>5. ASSUME NEW t \in Threads,
             \/ TakeWork(t) \/ RefuseSlice(t) \/ EnterSlice(t) \/ BeginSlice(t)
             \/ RegisterBlocked(t) \/ LeaveSlice(t) \/ NestedResume(t) \/ NestedForced(t)
             \/ Resume(t) \/ WakeAtPark(t) \/ NestedWake(t) \/ EnterCallback(t)
             \/ LeaveCallback(t) \/ PollExpired(t)
      PROVE  UNCHANGED <<guestThreads, state, wait>>
  BY <1>1, <1>5 DEF TakeWork, RefuseSlice, EnterSlice, BeginSlice, RegisterBlocked, LeaveSlice,
     NestedResume, NestedForced, Resume, WakeAtPark, NestedWake, Parking, EnterCallback,
     LeaveCallback, PollExpired, WakeExpired
<1>6. ASSUME NEW t \in Threads, NEW outcome \in {"Exited", "Faulted"}, EndGuestCode(t, outcome)
      PROVE  UNCHANGED <<guestThreads, state, wait>>
  BY <1>1, <1>6 DEF EndGuestCode
<1>7. ASSUME NEW t \in Threads, NEW w \in NewWaits, RequestBlock(t, w)
      PROVE  UNCHANGED <<guestThreads, state, wait>>
  BY <1>7 DEF RequestBlock
<1>8. ASSUME NEW S \in SUBSET Expirable, TickerWake(S)
      PROVE  UNCHANGED <<guestThreads, state, wait>>
  BY <1>1, <1>8 DEF TickerWake, WakeExpired
<1>9. CASE \/ TickerPump \/ DispatchTick \/ EntryReturn \/ RunInline \/ DrainPump
           \/ DrainDone \/ Dispose \/ Quiesce \/ LeakSession \/ ClearGuestThreads
           \/ RequestHostShutdown \/ Over
  BY <1>1, <1>9 DEF TickerPump, DispatchTick, EntryReturn, RunInline, DrainPump, DrainDone,
     Dispose, Quiesce, LeakSession, ClearGuestThreads, RequestHostShutdown, Over, vars
<1>. QED  BY <1>3, <1>4, <1>5, <1>6, <1>7, <1>8, <1>9 DEF QuietStep

\* RunningOK survives the other steps too, those of a wake and those that park a
\* thread.
LEMMA RunningStep ==
    ASSUME IInv, RunningOK, [Next]_vars
    PROVE  RunningOK'
<1>. USE DEF IInv
<1>1. ASSUME NEW a \in Actors, NEW t \in Threads, WakeWaiter(a, t)
      PROVE  RunningOK'
  <2>1. state[t] = "Blocked"
  BY <1>1 DEF WakeWaiter, Candidates, WaitOK, ParkedOn, Parked
  <2>. QED  BY <1>1, <2>1 DEF WakeWaiter, MakeReady, SetState, RunningOK, TypeOK
<1>2. ASSUME NEW a \in Actors, NEW t \in Threads, PassWaiter(a, t) \/ WakeNobody(a)
      PROVE  RunningOK'
  BY <1>2 DEF PassWaiter, WakeNobody, RunningOK
<1>3. ASSUME NEW a \in Actors, WakeNobody(a)
      PROVE  RunningOK'
  BY <1>3 DEF WakeNobody, RunningOK
<1>4. ASSUME NEW a \in Actors, NEW k \in Keys, NEW n \in WakeLimits, CallWake(a, k, n)
      PROVE  RunningOK'
  BY <1>4 DEF CallWake, RunningOK
<1>5. ASSUME NEW t \in Threads, StayParked(t) \/ NestedPark(t)
      PROVE  RunningOK'
  BY <1>5 DEF StayParked, NestedPark, Parking, SetState, SetSlice, RunningOK, TypeOK,
     SingleExecutor
<1>6. CASE UNCHANGED vars
  BY <1>6 DEF vars, RunningOK
<1>7. CASE QuietStep
  BY <1>7, RunningQuiet
<1>. QED
  BY <1>1, <1>2, <1>3, <1>4, <1>5, <1>6, <1>7 DEF Next, ActorStep, LoopStep, SliceStep,
     RunnerStep, GuestStep, BackgroundStep, SessionStep, QuietStep

\* It holds at first.
LEMMA RunningInit == Init => RunningOK
  BY ActorsAssumption DEF Init, RunningOK

\* A forced exit is never taken back.
LEMMA ForcedStays ==
    ASSUME [Next]_vars, forcedExit
    PROVE  forcedExit'
<1>1. CASE \E a \in Actors : ActorStep(a)
  BY <1>1 DEF ActorStep, LoopStep, WakeWaiter, PassWaiter, WakeNobody, PumpWakeExpired,
     PumpSkip, PumpEnter, ClaimNothing, ClaimReady, PassHead, Schedule, ScheduleDropped
<1>2. CASE \E t \in Threads : SliceStep(t) \/ GuestStep(t)
  BY ZenonT(40), <1>2 DEF SliceStep, RunnerStep, GuestStep, TakeWork, RefuseSlice, EnterSlice, BeginSlice,
     RegisterBlocked, LeaveSlice, NestedResume, NestedForced, Resume, StayParked, WakeAtPark,
     NestedPark, NestedWake, EndGuestCode, EnterCallback, LeaveCallback
<1>3. CASE BackgroundStep \/ EntryReturn \/ SessionStep
  BY <1>3 DEF BackgroundStep, SessionStep, TickerWake, TickerPump, DispatchTick, PollExpired,
     EntryReturn, RunInline, DrainPump, DrainDone, Dispose, Quiesce, LeakSession,
     ClearGuestThreads, RequestHostShutdown, Over, vars
<1>4. CASE \/ \E a \in Actors, k \in Keys, n \in WakeLimits : CallWake(a, k, n)
           \/ \E a \in Actors : CallPump(a)
           \/ \E a \in Actors, t \in Threads : TryStartThread(a, t)
           \/ \E t \in Threads, w \in NewWaits : RequestBlock(t, w)
  BY <1>4 DEF CallWake, CallPump, TryStartThread, RequestBlock
<1>5. CASE UNCHANGED vars
  BY <1>5 DEF vars
<1>. QED  BY <1>1, <1>2, <1>3, <1>4, <1>5 DEF Next

-----------------------------------------------------------------------------
\* A thread parks: the other threads and all wakes stay as they are.
LEMMA ParkFrame ==
    ASSUME TypeOK, NEW t \in Threads, StayParked(t) \/ NestedPark(t)
    PROVE  /\ \A u \in Threads \ {t} : Parked(u)' => Parked(u)
           /\ wait' = wait
           /\ WakesStay
  BY DEF StayParked, NestedPark, SetState, Parked, WakesStay, TypeOK

\* The loop of a wake ends, or keeps the gate and goes on with the rest.
LEMMA ScanGoesOn ==
    ASSUME TypeOK, NEW a \in Actors, NEW rest, NEW n, NEW some, ContinueScan(a, rest, n, some)
    PROVE  /\ \A b \in Actors \ {a} : pc'[b] = pc[b] /\ call'[b] = call[b]
           /\ \/ /\ rest # {} /\ n # 0
                 /\ gate' = a /\ todo' = rest /\ pc' = pc
                 /\ call'[a] = [key |-> call[a].key, limit |-> n]
              \/ /\ rest = {} \/ n = 0
                 /\ gate' = NoActor /\ todo' = {} /\ pc'[a] # "wake"
  BY DEF ContinueScan, GoTo, TypeOK

\* A visit takes its thread off the candidates of its own wake and changes no other wake.
LEMMA ScanFrame ==
    ASSUME IInv, NEW a \in Actors, NEW t \in Threads, NEW n,
           \/ WakeWaiter(a, t) /\ n = call[a].limit - 1
           \/ PassWaiter(a, t) /\ n = call[a].limit
    PROVE  /\ pc[a] = "wake" /\ call[a] \in Calls /\ gate \in {NoActor, a}
           /\ t \in Candidates(a)
           /\ \A u \in Threads \ {t} : Parked(u)' => Parked(u) /\ wait'[u] = wait[u]
           /\ \A b \in Actors \ {a} : /\ pc'[b] = pc[b] /\ call'[b] = call[b]
                                      /\ gate # b /\ gate' # b
           /\ \/ /\ gate' = a /\ todo' = Candidates(a) \ {t} /\ pc'[a] = "wake"
                 /\ call'[a] = [key |-> call[a].key, limit |-> n]
              \/ /\ gate' = NoActor /\ pc'[a] # "wake"
                 /\ Candidates(a) \ {t} = {} \/ n = 0
<1>. USE DEF IInv
<1>1. pc[a] = "wake" /\ call[a] \in Calls /\ gate \in {NoActor, a} /\ t \in Candidates(a)
  BY DEF WakeWaiter, PassWaiter, Scanning, MayEnter, CallOK
<1>2. \A u \in Threads \ {t} : Parked(u)' => Parked(u) /\ wait'[u] = wait[u]
  BY DEF WakeWaiter, PassWaiter, MakeReady, SetState, Parked, TypeOK
<1>3. \E some : ContinueScan(a, Candidates(a) \ {t}, n, some)
  BY DEF WakeWaiter, PassWaiter
<1>. QED  BY <1>1, <1>2, <1>3, ScanGoesOn, ActorsAssumption

\* A wake that finds nobody ends.
LEMMA NobodyFrame ==
    ASSUME IInv, NEW a \in Actors, WakeNobody(a)
    PROVE  /\ Candidates(a) = {} /\ pc[a] = "wake" /\ pc'[a] # "wake"
           /\ \A u \in Threads : Parked(u)' => Parked(u) /\ wait'[u] = wait[u]
           /\ \A b \in Actors \ {a} : /\ pc'[b] = pc[b] /\ call'[b] = call[b]
                                      /\ gate # b /\ gate' # b
  BY ActorsAssumption DEF WakeNobody, Scanning, MayEnter, ContinueScan, GoTo, Parked, IInv, TypeOK

\* A new wake has its key and limit, and the gate is not its own yet.
LEMMA CallFrame ==
    ASSUME IInv, NEW a \in Actors, NEW k \in Keys, NEW n \in Nat \ {0}, CallWake(a, k, n)
    PROVE  /\ pc[a] # "wake" /\ pc'[a] = "wake" /\ call'[a] = [key |-> k, limit |-> n]
           /\ gate # a /\ gate' = gate /\ todo' = todo
           /\ \A u \in Threads : Parked(u)' => Parked(u) /\ wait'[u] = wait[u]
           /\ \A b \in Actors \ {a} : pc'[b] = pc[b] /\ call'[b] = call[b]
  BY DEF CallWake, CanCall, GoTo, Parked, IInv, TypeOK, CallOK

-----------------------------------------------------------------------------
\* Where every wake begins with maxCount = int.MaxValue, one that is not finished
\* can still visit all of its candidates.
LimitOK ==
    \A a \in Actors : pc[a] = "wake" =>
        IF gate = a THEN Cardinality(todo) <= call[a].limit
                    ELSE call[a].limit = Cardinality(Threads)

\* A wake may still wake everyone it has yet to visit.
LEMMA CandidatesBound ==
    ASSUME TypeOK, LimitOK, NEW a \in Actors, pc[a] = "wake"
    PROVE  /\ IsFiniteSet(Candidates(a))
           /\ Cardinality(Candidates(a)) \in Nat
           /\ Cardinality(Candidates(a)) <= call[a].limit
<1>1. IsFiniteSet(Threads) /\ Cardinality(Threads) \in Nat
  BY ActorsAssumption, FS_CardinalityType
<1>2. Candidates(a) \subseteq Threads
  BY DEF Candidates, ParkedOn, TypeOK
<1>3. /\ IsFiniteSet(Candidates(a)) /\ Cardinality(Candidates(a)) \in Nat
      /\ Cardinality(Candidates(a)) <= Cardinality(Threads)
  BY <1>1, <1>2, FS_Subset, FS_CardinalityType
<1>. QED  BY <1>3 DEF LimitOK, Candidates

-----------------------------------------------------------------------------
\* The same wait, whatever has become of its deadline and its result
SameWait(v, w) == v # NoWait /\ v.key = w.key /\ v.waiter = w.waiter

\* A registered wait is one that was registered or requested before
WaitsMove ==
    \A t \in Threads :
        /\ wait'[t] # NoWait => SameWait(wait[t], wait'[t]) \/ SameWait(pending[t], wait'[t])
        /\ pending'[t] # NoWait => pending'[t] = pending[t]

LEMMA SettledWait ==
    ASSUME NEW w \in Waits
    PROVE  SameWait(w, Granted(w)) /\ SameWait(w, Disarmed(w))
  BY NoneAssumption DEF SameWait, Granted, Disarmed, Waits

\* The steps that request no block
NoRequest ==
    \/ \E a \in Actors : ActorStep(a)
    \/ \E a \in Actors, k \in Keys, n \in WakeLimits : CallWake(a, k, n)
    \/ \E a \in Actors : CallPump(a)
    \/ \E a \in Actors, t \in Threads : TryStartThread(a, t)
    \/ \E t \in Threads : SliceStep(t) \/ GuestStep(t)
    \/ BackgroundStep
    \/ EntryReturn
    \/ SessionStep
    \/ UNCHANGED vars

\* Wakes and deadlines change a wait's deadline and result only.
LEMMA WaitFrame ==
    ASSUME TypeOK, WaitOK, NoRequest
    PROVE  WaitsMove
<1>1. UNCHANGED <<wait, pending>> => WaitsMove
  BY DEF WaitsMove, SameWait
<1>2. ASSUME NEW t \in Threads, wait[t] # NoWait, wait' = [wait EXCEPT ![t] = Granted(@)],
             pending' = pending
      PROVE  WaitsMove
  <2>1. wait[t] \in Waits
    BY <1>2 DEF TypeOK
  <2>. QED  BY <1>2, <2>1, SettledWait DEF WaitsMove, SameWait, TypeOK
<1>3. ASSUME NEW S, WakeExpired(S), pending' = pending
      PROVE  WaitsMove
  <2>1. \A t \in Threads : wait'[t] = IF t \in S THEN Disarmed(wait[t]) ELSE wait[t]
    BY <1>3 DEF WakeExpired
  <2>2. \A t \in S : wait[t] \in Waits
    BY <1>3 DEF WakeExpired, Expirable, Parked, TypeOK
  <2>. QED  BY <1>3, <2>1, <2>2, SettledWait DEF WaitsMove, SameWait
<1>4. ASSUME NEW t \in Threads, ConsumeWait(t), pending' = pending
      PROVE  WaitsMove
  BY <1>4 DEF ConsumeWait, WaitsMove, SameWait, TypeOK
<1>5. ASSUME NEW a \in Actors, ActorStep(a)
      PROVE  WaitsMove
  <2>1. ASSUME NEW t \in Threads, WakeWaiter(a, t)
        PROVE  WaitsMove
    <3>1. wait[t] # NoWait
      BY <2>1 DEF WakeWaiter, Candidates, WaitOK, ParkedOn, Parked
    <3>. QED  BY <1>2, <2>1, <3>1 DEF WakeWaiter, MakeReady
  <2>2. CASE PumpWakeExpired(a)
    BY <1>3, <2>2 DEF PumpWakeExpired
  <2>. QED  BY <1>1, <1>5, <2>1, <2>2 DEF ActorStep, LoopStep, PassWaiter, WakeNobody,
            PumpSkip, PumpEnter, ClaimNothing, ClaimReady, PassHead, Schedule, ScheduleDropped
<1>6. ASSUME NEW t \in Threads, SliceStep(t) \/ GuestStep(t)
      PROVE  WaitsMove
  <2>1. CASE WakeAtPark(t) \/ NestedWake(t)
    BY <1>2, <2>1 DEF WakeAtPark, NestedWake, MakeReady
  <2>2. CASE BeginSlice(t) \/ NestedResume(t)
    BY <1>4, <2>2 DEF BeginSlice, NestedResume
  <2>3. CASE RegisterBlocked(t)
    BY <2>3 DEF RegisterBlocked, WaitsMove, SameWait, TypeOK
  <2>. QED  BY <1>1, <1>6, <2>1, <2>2, <2>3 DEF SliceStep, RunnerStep, GuestStep, TakeWork,
            RefuseSlice, EnterSlice, LeaveSlice, NestedForced, Resume, StayParked,
            NestedPark, EndGuestCode, EnterCallback, LeaveCallback
<1>7. CASE BackgroundStep
  <2>1. ASSUME NEW S \in SUBSET Expirable, TickerWake(S)
        PROVE  WaitsMove
    BY <1>3, <2>1 DEF TickerWake
  <2>2. ASSUME NEW t \in Threads, PollExpired(t)
        PROVE  WaitsMove
    BY <1>3, <2>2 DEF PollExpired
  <2>. QED  BY <1>1, <1>7, <2>1, <2>2 DEF BackgroundStep, TickerPump, DispatchTick
<1>8. CASE EntryReturn \/ SessionStep
  BY <1>1, <1>8 DEF SessionStep, EntryReturn, RunInline, DrainPump, DrainDone, Dispose, Quiesce,
     LeakSession, ClearGuestThreads, RequestHostShutdown, Over, vars
<1>9. CASE \/ \E a \in Actors, k \in Keys, n \in WakeLimits : CallWake(a, k, n)
           \/ \E a \in Actors : CallPump(a)
           \/ \E a \in Actors, t \in Threads : TryStartThread(a, t)
  BY <1>1, <1>9 DEF CallWake, CallPump, TryStartThread
<1>10. CASE UNCHANGED vars
  BY <1>1, <1>10 DEF vars
<1>. QED  BY <1>5, <1>6, <1>7, <1>8, <1>9, <1>10 DEF NoRequest

-----------------------------------------------------------------------------
(* The wait a thread is in goes from its block request to its continuation, and
   from there to the slice that resumes it, and is in one of them at a time   *)

StageOK ==
    \A t \in Threads :
        /\ pending[t] # NoWait <=> exec[t] = "yielding"
        /\ pending[t] # NoWait => ~pending[t].granted
        /\ resuming[t] # NoWait <=> exec[t] = "resuming"
        /\ exec[t] = "resuming" => wait[t] = NoWait
        /\ ~forcedExit /\ wait[t] # NoWait =>
             /\ exec[t] \notin {"guest", "resuming", "yielding"}
             /\ state[t] \notin {"Exited", "Faulted"}
             /\ state[t] = "Blocked" \/ exec[t] = "unwinding" => ~wait[t].granted

\* The steps that leave every thread in its wait
StillStep ==
    \/ \E a \in Actors :
         \/ LoopStep(a) \/ CallPump(a)
         \/ \E t \in Threads : PassWaiter(a, t) \/ TryStartThread(a, t)
         \/ \E k \in Keys, n \in WakeLimits : CallWake(a, k, n)
    \/ \E t \in Threads :
         TakeWork(t) \/ EnterSlice(t) \/ LeaveSlice(t) \/ EnterCallback(t) \/ LeaveCallback(t)
    \/ BackgroundStep \/ EntryReturn \/ SessionStep
    \/ UNCHANGED vars

WaitStill ==
    \A t \in Threads :
        /\ pending'[t] = pending[t] /\ resuming'[t] = resuming[t]
        /\ wait'[t] = wait[t] \/ (Parked(t) /\ wait'[t] = Disarmed(wait[t]))
        /\ \/ exec'[t] = exec[t]
           \/ /\ exec[t] \in {"off", "entered", "entering", "leaving"}
              /\ exec'[t] \in {"off", "entered", "entering", "leaving"}
        /\ \/ state'[t] = state[t]
           \/ /\ state'[t] \in {"Ready", "Running"}
              /\ state[t] \notin {"Exited", "Faulted"}

\* Of a wait they change no more than its deadline.
LEMMA StillFrame ==
    ASSUME IInv, StillStep
    PROVE  WaitStill
<1>. USE DEF IInv
<1>1. UNCHANGED <<state, wait, exec, waitVars>> => WaitStill
  BY DEF WaitStill
<1>2. ASSUME NEW S, WakeExpired(S), UNCHANGED <<exec, waitVars>>
      PROVE  WaitStill
  BY <1>2 DEF WakeExpired, Expirable, Parked, WaitStill
<1>3. ASSUME NEW t \in Threads, NEW from \in {"off", "entered", "entering", "leaving"},
             NEW to \in {"off", "entered", "entering", "leaving"},
             exec[t] = from, SetSlice(t, to), UNCHANGED <<state, wait, waitVars>>
      PROVE  WaitStill
  BY <1>3 DEF SetSlice, WaitStill, TypeOK
<1>4. ASSUME NEW a \in Actors, LoopStep(a)
      PROVE  WaitStill
  <2>1. CASE PumpWakeExpired(a)
    BY <1>2, <2>1 DEF PumpWakeExpired
  <2>2. CASE ClaimReady(a)
    BY <2>2 DEF ClaimReady, SetState, WaitStill, TypeOK
  <2>. QED  BY <1>1, <1>4, <2>1, <2>2 DEF LoopStep, WakeNobody, PumpSkip, PumpEnter,
            ClaimNothing, PassHead, Schedule, ScheduleDropped
<1>5. ASSUME NEW a \in Actors, NEW t \in Threads, TryStartThread(a, t)
      PROVE  WaitStill
  BY <1>5 DEF TryStartThread, SetState, WaitStill, TypeOK
<1>6. ASSUME NEW a \in Actors,
             \/ CallPump(a) \/ \E t \in Threads : PassWaiter(a, t)
             \/ \E k \in Keys, n \in WakeLimits : CallWake(a, k, n)
      PROVE  WaitStill
  BY <1>1, <1>6 DEF CallPump, PassWaiter, CallWake
<1>7. ASSUME NEW t \in Threads, TakeWork(t) \/ EnterSlice(t) \/ LeaveSlice(t)
      PROVE  WaitStill
  BY <1>3, <1>7 DEF TakeWork, EnterSlice, LeaveSlice, ReleaseExecutor
<1>8. ASSUME NEW t \in Threads, EnterCallback(t) \/ LeaveCallback(t)
      PROVE  WaitStill
  BY <1>1, <1>8 DEF EnterCallback, LeaveCallback
<1>9. CASE BackgroundStep
  <2>1. ASSUME NEW S \in SUBSET Expirable, TickerWake(S)
        PROVE  WaitStill
    BY <1>2, <2>1 DEF TickerWake
  <2>2. ASSUME NEW t \in Threads, PollExpired(t)
        PROVE  WaitStill
    BY <1>2, <2>2 DEF PollExpired
  <2>. QED  BY <1>1, <1>9, <2>1, <2>2 DEF BackgroundStep, TickerPump, DispatchTick
<1>10. CASE RunInline
  <2>1. claimed[Main] \in Threads /\ exec[claimed[Main]] = "off"
    BY <1>10, ActorsAssumption DEF RunInline, SingleExecutor, TypeOK, Actors
  <2>. QED  BY <1>3, <1>10, <2>1 DEF RunInline
<1>11. CASE SessionStep \/ EntryReturn \/ UNCHANGED vars
  BY <1>1, <1>10, <1>11 DEF SessionStep, EntryReturn, DrainPump, DrainDone, Dispose, Quiesce,
     LeakSession, ClearGuestThreads, RequestHostShutdown, Over, vars
<1>. QED  BY <1>4, <1>5, <1>6, <1>7, <1>8, <1>9, <1>11 DEF StillStep

\* A thread passes its wait on and is never in two waits.
LEMMA StageStep ==
    ASSUME IInv, RunningOK, StageOK, [Next]_vars
    PROVE  StageOK'
<1>. USE DEF IInv
<1>1. \A w \in Waits : /\ Disarmed(w) # NoWait /\ Disarmed(w).granted = w.granted
                       /\ Granted(w) # NoWait
  BY NoneAssumption DEF Disarmed, Granted, Waits
<1>2. ASSUME StillStep
      PROVE  StageOK'
  <2>1. WaitStill /\ (forcedExit => forcedExit')
    BY <1>2, StillFrame, ForcedStays
  <2>2. \A t \in Threads : Parked(t) => wait[t] \in Waits
    BY DEF Parked, TypeOK
  <2>3. \A t \in Threads : wait[t] # NoWait <=> wait'[t] # NoWait
    BY <1>1, <2>1, <2>2, NoneAssumption DEF WaitStill, Parked
  <2>4. \A t \in Threads : wait[t] # NoWait => wait'[t].granted = wait[t].granted
    BY <1>1, <2>1, <2>2 DEF WaitStill
  <2>. QED  BY <2>1, <2>3, <2>4 DEF WaitStill, StageOK
<1>3. ASSUME NEW t \in Threads, BeginSlice(t) \/ NestedResume(t)
      PROVE  StageOK'
  BY <1>3 DEF BeginSlice, NestedResume, ConsumeWait, SetSlice, SetState, StageOK, TypeOK
<1>4. ASSUME NEW t \in Threads, RegisterBlocked(t)
      PROVE  StageOK'
  BY <1>4 DEF RegisterBlocked, SetSlice, StageOK, TerminalOK, TypeOK
<1>5. ASSUME NEW t \in Threads, NEW w \in NewWaits, RequestBlock(t, w)
      PROVE  StageOK'
  BY <1>5, NoneAssumption DEF RequestBlock, CanCall, InGuestCode, SetSlice, NewWaits, StageOK,
     TypeOK
<1>6. ASSUME NEW t \in Threads, Resume(t)
      PROVE  StageOK'
  BY <1>6 DEF Resume, SetSlice, StageOK, TypeOK
<1>7. ASSUME NEW t \in Threads, RefuseSlice(t) \/ NestedForced(t)
      PROVE  StageOK'
  BY <1>7 DEF RefuseSlice, NestedForced, ReleaseExecutor, SetSlice, SetState, StageOK, TypeOK
<1>8. ASSUME NEW t \in Threads, NEW outcome \in {"Exited", "Faulted"}, EndGuestCode(t, outcome)
      PROVE  StageOK'
  BY <1>8 DEF EndGuestCode, CanCall, InGuestCode, SetSlice, SetState, StageOK, TypeOK
<1>9. ASSUME NEW t \in Threads, StayParked(t) \/ NestedPark(t)
      PROVE  StageOK'
  BY <1>9 DEF StayParked, NestedPark, Parking, SetSlice, SetState, StageOK, TypeOK
<1>10. ASSUME NEW a \in Actors, NEW t \in Threads, WakeWaiter(a, t)
       PROVE  StageOK'
  <2>1. wait[t] # NoWait /\ state[t] = "Blocked"
    BY <1>10 DEF WakeWaiter, Candidates, WaitOK, ParkedOn, Parked
  <2>2. Granted(wait[t]) # NoWait /\ (~forcedExit => exec[t] # "unwinding")
    BY <1>1, <2>1 DEF RunningOK, TypeOK
  <2>. QED  BY <1>10, <2>1, <2>2 DEF WakeWaiter, MakeReady, SetState, StageOK, TypeOK
<1>11. ASSUME NEW t \in Threads, WakeAtPark(t) \/ NestedWake(t)
       PROVE  StageOK'
  <2>1. Granted(wait[t]) # NoWait
    BY <1>1, <1>11 DEF WakeAtPark, NestedWake, TypeOK
  <2>. QED  BY <1>11, <2>1 DEF WakeAtPark, NestedWake, Parking, MakeReady, SetSlice, SetState,
            StageOK, TypeOK
<1>. QED  BY <1>2, <1>3, <1>4, <1>5, <1>6, <1>7, <1>8, <1>9, <1>10, <1>11
          DEF Next, ActorStep, SliceStep, RunnerStep, GuestStep, StillStep

\* At first nobody waits.
LEMMA StageInit == Init => StageOK
  BY DEF Init, StageOK

\* The steps that request no wait, satisfy none and end none
HoldStep ==
    \/ StillStep
    \/ \E t \in Threads :
         \/ BeginSlice(t) \/ NestedResume(t) \/ RegisterBlocked(t)
         \/ StayParked(t) \/ NestedPark(t)
         \/ \E outcome \in {"Exited", "Faulted"} : EndGuestCode(t, outcome)

WaitsHeld == \A t \in Threads : HeldWait(t)' = HeldWait(t)

\* Nobody else's wait is touched
OthersHeld(t) == \A u \in Threads \ {t} : HeldWait(u)' = HeldWait(u)

\* A wait is a wait without a deadline.
LEMMA HeldType ==
    ASSUME TypeOK, NEW t \in Threads
    PROVE  HeldWait(t) \in Waits \cup {NoWait}
  BY WaitTypes DEF HeldWait, TypeOK

\* A thread's wait depends on its own part of the scheduler's state.
LEMMA HeldFrame ==
    ASSUME NEW t \in Threads, pending'[t] = pending[t], resuming'[t] = resuming[t],
           wait'[t] = wait[t], Abandoned(t)' <=> Abandoned(t)
    PROVE  HeldWait(t)' = HeldWait(t)
  BY DEF HeldWait

\* Wherever the scheduler moves a wait, it stays the thread's wait.
LEMMA HoldFrame ==
    ASSUME IInv, StageOK, HoldStep
    PROVE  WaitsHeld
<1>. USE DEF IInv
<1>1. CASE StillStep
  <2>1. WaitStill
    BY <1>1, StillFrame
  <2>2. ASSUME NEW t \in Threads
        PROVE  HeldWait(t)' = HeldWait(t)
    <3>1. Abandoned(t)' <=> Abandoned(t)
      BY <2>1 DEF WaitStill, Abandoned
    <3>2. CASE wait'[t] = wait[t]
      BY <2>1, <3>1, <3>2, HeldFrame DEF WaitStill
    <3>3. CASE Parked(t) /\ wait'[t] = Disarmed(wait[t])
      <4>1. wait[t] \in Waits /\ Disarmed(wait[t]) \in Waits
        BY <3>3, WaitTypes DEF Parked, TypeOK
      <4>2. wait[t] # NoWait /\ wait'[t] # NoWait /\ Disarmed(wait'[t]) = Disarmed(wait[t])
        BY <3>3, <4>1, NoneAssumption DEF Disarmed, Waits
      <4>. QED  BY <2>1, <3>1, <4>2 DEF WaitStill, HeldWait
    <3>. QED  BY <2>1, <3>2, <3>3 DEF WaitStill
  <2>. QED  BY <2>2 DEF WaitsHeld
<1>2. ASSUME NEW t \in Threads, BeginSlice(t) \/ NestedResume(t)
      PROVE  WaitsHeld
  BY <1>2 DEF BeginSlice, NestedResume, ConsumeWait, SetSlice, SetState, StageOK, TerminalOK,
     WaitsHeld, HeldWait, Abandoned, TypeOK
<1>3. ASSUME NEW t \in Threads, RegisterBlocked(t)
      PROVE  WaitsHeld
  BY <1>3 DEF RegisterBlocked, SetSlice, StageOK, TerminalOK, WaitsHeld, HeldWait, Abandoned,
     TypeOK
<1>4. ASSUME NEW t \in Threads, StayParked(t) \/ NestedPark(t)
      PROVE  WaitsHeld
  BY <1>4 DEF StayParked, NestedPark, Parking, SetSlice, SetState, TerminalOK, WaitsHeld,
     HeldWait, Abandoned, TypeOK
<1>5. ASSUME NEW t \in Threads, NEW outcome \in {"Exited", "Faulted"}, EndGuestCode(t, outcome)
      PROVE  WaitsHeld
  BY <1>5 DEF EndGuestCode, CanCall, InGuestCode, SetSlice, SetState, WaitsHeld, HeldWait,
     Abandoned, TypeOK
<1>. QED  BY <1>1, <1>2, <1>3, <1>4, <1>5 DEF HoldStep

\* A thread that asks to block begins to wait.
LEMMA RequestFrame ==
    ASSUME IInv, StageOK, NEW t \in Threads, NEW w \in NewWaits, RequestBlock(t, w)
    PROVE  /\ exec[t] = "guest" /\ pc[t] = "idle"
           /\ HeldWait(t) = NoWait /\ HeldWait(t)' = Disarmed(w)
           /\ OthersHeld(t)
<1>1. w # NoWait
  BY NoneAssumption DEF NewWaits
<1>. QED  BY <1>1 DEF IInv, RequestBlock, CanCall, InGuestCode, SetSlice, StageOK, OthersHeld,
          HeldWait, Abandoned, TypeOK

\* A resume handler ends the wait that the slice has taken.
LEMMA ResumeFrame ==
    ASSUME IInv, StageOK, NEW t \in Threads, Resume(t)
    PROVE  /\ resuming[t] \in Waits
           /\ HeldWait(t) = Disarmed(resuming[t]) /\ HeldWait(t)' = NoWait
           /\ OthersHeld(t)
  BY DEF IInv, Resume, SetSlice, StageOK, OthersHeld, HeldWait, Abandoned, TypeOK

\* A forced exit ends the wait of a thread it sends away.
LEMMA ForcedFrame ==
    ASSUME IInv, StageOK, NEW t \in Threads, RefuseSlice(t) \/ NestedForced(t)
    PROVE  forcedExit /\ HeldWait(t)' = NoWait /\ OthersHeld(t)
  BY DEF IInv, RefuseSlice, NestedForced, ReleaseExecutor, SetSlice, SetState, StageOK,
     OthersHeld, HeldWait, Abandoned, TypeOK

\* Waits with the same parts are the same.
LEMMA WaitParts ==
    ASSUME NEW v \in Waits, NEW w \in Waits, v.key = w.key, v.timed = w.timed,
           v.waiter = w.waiter, v.granted = w.granted
    PROVE  v = w
  BY DEF Waits

\* A wait that is granted has no deadline left.
LEMMA GrantedWait ==
    ASSUME NEW w \in Waits
    PROVE  /\ Granted(w) \in Waits /\ Disarmed(w) \in Waits
           /\ Granted(w) # NoWait /\ Disarmed(Granted(w)) = Granted(w)
           /\ w.granted => Disarmed(w) = Granted(w)
<1>1. Granted(w) \in Waits /\ Disarmed(w) \in Waits /\ Disarmed(Granted(w)) \in Waits
  BY WaitTypes
<1>2. /\ Disarmed(w).key = w.key /\ Disarmed(w).timed = FALSE
      /\ Disarmed(w).waiter = w.waiter /\ Disarmed(w).granted = w.granted
  BY DEF Disarmed, Waits
<1>3. /\ Granted(w).key = w.key /\ Granted(w).timed = FALSE
      /\ Granted(w).waiter = w.waiter /\ Granted(w).granted = TRUE
  BY DEF Granted, Waits
<1>4. /\ Disarmed(Granted(w)).key = Granted(w).key /\ Disarmed(Granted(w)).timed = FALSE
      /\ Disarmed(Granted(w)).waiter = Granted(w).waiter
      /\ Disarmed(Granted(w)).granted = Granted(w).granted
  BY <1>1 DEF Disarmed, Waits
<1>5. Disarmed(Granted(w)) = Granted(w)
  BY <1>1, <1>3, <1>4, WaitParts
<1>6. w.granted => w.granted = TRUE
  BY DEF Waits
<1>7. w.granted => Disarmed(w) = Granted(w)
  BY <1>1, <1>2, <1>3, <1>6, WaitParts
<1>. QED  BY <1>1, <1>5, <1>7, NoneAssumption

\* The predicate satisfies the wait of the thread it is evaluated for, once; after
\* a forced exit that thread may have been sent away, or be satisfied already.
LEMMA WakeFrame ==
    ASSUME IInv, RunningOK, StageOK, NEW t \in Threads,
           (\E a \in Actors : WakeWaiter(a, t)) \/ WakeAtPark(t) \/ NestedWake(t)
    PROVE  /\ wait[t] \in Waits
           /\ \/ /\ HeldWait(t) = Disarmed(wait[t]) /\ ~wait[t].granted
                 /\ HeldWait(t)' = Granted(wait[t])
                 /\ OthersHeld(t)
              \/ forcedExit /\ WaitsHeld
<1>. USE DEF IInv
<1>1. /\ wait[t] # NoWait
      /\ wait' = [wait EXCEPT ![t] = Granted(@)] /\ state' = [state EXCEPT ![t] = "Ready"]
      /\ UNCHANGED waitVars
      /\ \/ state[t] = "Blocked" /\ exec' = exec
         \/ exec[t] = "unwinding" /\ exec' = [exec EXCEPT ![t] = "leaving"]
         \/ exec[t] = "unwinding" /\ exec' = [exec EXCEPT ![t] = "polling"]
  <2>1. ASSUME NEW a \in Actors, WakeWaiter(a, t)
        PROVE  Parked(t)
    BY <2>1 DEF WakeWaiter, Candidates, WaitOK, ParkedOn
  <2>. QED  BY <2>1 DEF WakeWaiter, WakeAtPark, NestedWake, Parking, MakeReady, SetState,
            SetSlice, Parked
<1>2. /\ wait[t] \in Waits /\ Granted(wait[t]) \in Waits
      /\ Granted(wait[t]) # NoWait /\ Disarmed(Granted(wait[t])) = Granted(wait[t])
      /\ wait[t].granted => Disarmed(wait[t]) = Granted(wait[t])
  <2>1. wait[t] \in Waits
    BY <1>1 DEF TypeOK
  <2>. QED  BY <2>1, GrantedWait
<1>3. OthersHeld(t)
  BY <1>1 DEF OthersHeld, HeldWait, Abandoned, TypeOK
<1>4. Abandoned(t)' <=> Abandoned(t)
  BY <1>1 DEF Abandoned, TerminalOK, TypeOK
<1>5. wait'[t] = Granted(wait[t])
  BY <1>1 DEF TypeOK
<1>6. CASE pending[t] = NoWait /\ ~Abandoned(t)
  <2>1. HeldWait(t) = Disarmed(wait[t]) /\ HeldWait(t)' = Granted(wait[t])
    BY <1>1, <1>2, <1>4, <1>5, <1>6 DEF HeldWait
  <2>2. CASE ~wait[t].granted
    BY <1>2, <1>3, <2>1, <2>2
  <2>3. CASE wait[t].granted
    <3>1. forcedExit
      BY <1>1, <2>3 DEF StageOK
    <3>. QED  BY <1>2, <1>3, <2>1, <2>3, <3>1 DEF OthersHeld, WaitsHeld
  <2>. QED  BY <2>2, <2>3
<1>7. CASE pending[t] # NoWait \/ Abandoned(t)
  <2>1. HeldWait(t)' = HeldWait(t)
    BY <1>1, <1>4, <1>7 DEF HeldWait
  <2>2. forcedExit
    BY <1>1, <1>7 DEF StageOK, Abandoned
  <2>. QED  BY <1>2, <1>3, <2>1, <2>2 DEF OthersHeld, WaitsHeld
<1>. QED  BY <1>6, <1>7

\* A deserted wait of u stays what it is: deserted or not, and for the same object
Steady(u) ==
    /\ Deserted(u)' <=> Deserted(u)
    /\ Deserted(u) => wait'[u].key = wait[u].key /\ wait'[u].waiter = wait[u].waiter

\* A deserted wait of u stays, or is gone
Fades(u) == Deserted(u)' => Deserted(u) /\ Steady(u)

\* A step that requests, satisfies and ends no wait makes nobody desert one.
LEMMA FadeFrame ==
    ASSUME IInv, StageOK, HoldStep
    PROVE  \A u \in Threads : Fades(u)
<1>. USE DEF IInv, Fades, Steady, Deserted
<1>1. CASE StillStep
  <2>1. WaitStill
    BY <1>1, StillFrame
  <2>. TAKE u \in Threads
  <2>2. Abandoned(u)' <=> Abandoned(u)
    BY <2>1 DEF WaitStill, Abandoned
  <2>3. CASE wait'[u] = wait[u]
    BY <2>1, <2>2, <2>3 DEF WaitStill
  <2>4. CASE Parked(u) /\ wait'[u] = Disarmed(wait[u])
    <3>1. wait[u] \in Waits /\ wait[u] # NoWait
      BY <2>4, NoneAssumption DEF Parked, TypeOK
    <3>2. wait'[u].key = wait[u].key /\ wait'[u].waiter = wait[u].waiter
      BY <2>4, <3>1 DEF Disarmed, Waits
    <3>. QED  BY <2>1, <2>2, <3>1, <3>2 DEF WaitStill
  <2>. QED  BY <2>1, <2>3, <2>4 DEF WaitStill
<1>2. ASSUME NEW t \in Threads, BeginSlice(t) \/ NestedResume(t)
      PROVE  \A u \in Threads : Fades(u)
  BY <1>2 DEF BeginSlice, NestedResume, ConsumeWait, SetSlice, SetState, Abandoned, TypeOK
<1>3. ASSUME NEW t \in Threads, RegisterBlocked(t)
      PROVE  \A u \in Threads : Fades(u)
  BY <1>3 DEF RegisterBlocked, SetSlice, TerminalOK, Abandoned, TypeOK
<1>4. ASSUME NEW t \in Threads, StayParked(t) \/ NestedPark(t)
      PROVE  \A u \in Threads : Fades(u)
  BY <1>4 DEF StayParked, NestedPark, Parking, SetSlice, SetState, StageOK, Abandoned, TypeOK
<1>5. ASSUME NEW t \in Threads, NEW outcome \in {"Exited", "Faulted"}, EndGuestCode(t, outcome)
      PROVE  \A u \in Threads : Fades(u)
  BY <1>5 DEF EndGuestCode, CanCall, InGuestCode, SetSlice, SetState, Abandoned, TypeOK
<1>. QED  BY <1>1, <1>2, <1>3, <1>4, <1>5 DEF HoldStep

\* Nor does a request, or a resume handler.
LEMMA SteadyFrame ==
    ASSUME IInv, StageOK, NEW t \in Threads,
           Resume(t) \/ \E w \in NewWaits : RequestBlock(t, w)
    PROVE  \A u \in Threads : Steady(u)
<1>1. CASE Resume(t)
  BY <1>1 DEF IInv, Resume, SetSlice, StageOK, Steady, Deserted, Abandoned, TypeOK
<1>2. ASSUME NEW w \in NewWaits, RequestBlock(t, w)
      PROVE  \A u \in Threads : Steady(u)
  <2>1. w # NoWait
    BY NoneAssumption DEF NewWaits
  <2>. QED  BY <1>2, <2>1 DEF IInv, RequestBlock, CanCall, InGuestCode, SetSlice, Steady,
            Deserted, Abandoned, TypeOK
<1>. QED  BY <1>1, <1>2

\* Who is sent away deserts the wait it was in.
LEMMA DesertFrame ==
    ASSUME IInv, StageOK, NEW t \in Threads, RefuseSlice(t) \/ NestedForced(t)
    PROVE  /\ \A u \in Threads \ {t} : Steady(u)
           /\ wait'[t] = wait[t]
           /\ Deserted(t)' /\ ~Deserted(t) => HeldWait(t) = Disarmed(wait[t])
  BY DEF IInv, RefuseSlice, NestedForced, ReleaseExecutor, SetSlice, SetState, StageOK, Steady,
     Deserted, HeldWait, Abandoned, TypeOK

\* A wake satisfies the wait its thread is in, or one that the thread has deserted.
LEMMA SpendFrame ==
    ASSUME IInv, RunningOK, StageOK, NEW t \in Threads,
           (\E a \in Actors : WakeWaiter(a, t)) \/ WakeAtPark(t) \/ NestedWake(t)
    PROVE  /\ \A u \in Threads : Steady(u)
           /\ ~Deserted(t) => /\ HeldWait(t) = Disarmed(wait[t])
                              /\ HeldWait(t)' = Granted(wait[t])
<1>. USE DEF IInv
<1>1. /\ wait[t] # NoWait
      /\ wait' = [wait EXCEPT ![t] = Granted(@)] /\ state' = [state EXCEPT ![t] = "Ready"]
      /\ UNCHANGED waitVars
      /\ \/ state[t] = "Blocked" /\ exec' = exec
         \/ exec[t] = "unwinding" /\ exec' = [exec EXCEPT ![t] = "leaving"]
         \/ exec[t] = "unwinding" /\ exec' = [exec EXCEPT ![t] = "polling"]
  <2>1. ASSUME NEW a \in Actors, WakeWaiter(a, t)
        PROVE  Parked(t)
    BY <2>1 DEF WakeWaiter, Candidates, WaitOK, ParkedOn
  <2>. QED  BY <2>1 DEF WakeWaiter, WakeAtPark, NestedWake, Parking, MakeReady, SetState,
            SetSlice, Parked
<1>2. /\ wait[t] \in Waits
      /\ Granted(wait[t]) # NoWait /\ Disarmed(Granted(wait[t])) = Granted(wait[t])
  <2>1. wait[t] \in Waits
    BY <1>1 DEF TypeOK
  <2>. QED  BY <2>1, GrantedWait
<1>3. Abandoned(t)' <=> Abandoned(t)
  BY <1>1 DEF Abandoned, TerminalOK, TypeOK
<1>4. /\ wait'[t] = Granted(wait[t])
      /\ wait'[t].key = wait[t].key /\ wait'[t].waiter = wait[t].waiter
  BY <1>1, <1>2 DEF TypeOK, Granted, Waits
<1>5. \A u \in Threads \ {t} : Steady(u)
  BY <1>1 DEF Steady, Deserted, Abandoned, TypeOK
<1>6. Steady(t)
  BY <1>1, <1>2, <1>3, <1>4 DEF Steady, Deserted
<1>7. ~Deserted(t) => HeldWait(t) = Disarmed(wait[t]) /\ HeldWait(t)' = Granted(wait[t])
  BY <1>1, <1>2, <1>3, <1>4 DEF Deserted, HeldWait
<1>. QED  BY <1>5, <1>6, <1>7

-----------------------------------------------------------------------------
(* A parked thread waits until it is granted its wait or its deadline passes. *)

\* What a step may do to a parked thread
Unparks(t) == Parked(t)' \/ wait[t].timed \/ wait'[t] = Granted(wait[t])

\* An expiry takes timed waits only.
LEMMA ExpiryUnparks ==
    ASSUME TypeOK, NEW S, WakeExpired(S), UNCHANGED guestThreads, NEW t \in Threads, Parked(t)
    PROVE  Unparks(t)
  BY DEF WakeExpired, Expirable, Parked, Unparks, TypeOK

\* Until a forced exit every step leaves a parked thread in its wait, grants it or expires it.
LEMMA UnparkStep ==
    ASSUME IInv, RunningOK, [Next]_vars, ~forcedExit, NEW t \in Threads, Parked(t)
    PROVE  Unparks(t)
<1>. USE DEF IInv
<1>1. /\ t \in guestThreads /\ state[t] = "Blocked" /\ wait[t] # NoWait
      /\ exec[t] \in {"off", "leaving", "polling"}
  BY DEF Parked, RunningOK, TypeOK
<1>2. /\ t \in guestThreads' /\ state'[t] = state[t] /\ wait'[t] = wait[t]
      => Unparks(t)
  BY <1>1 DEF Unparks, Parked
<1>3. ASSUME NEW a \in Actors, NEW u \in Threads, WakeWaiter(a, u) \/ PassWaiter(a, u)
      PROVE  Unparks(t)
  <2>1. CASE PassWaiter(a, u)
    BY <1>1, <1>2, <2>1 DEF PassWaiter
  <2>2. CASE WakeWaiter(a, u) /\ u = t
    BY <2>2 DEF WakeWaiter, MakeReady, Unparks, TypeOK
  <2>3. CASE WakeWaiter(a, u) /\ u # t
    BY <1>1, <1>2, <2>3 DEF WakeWaiter, MakeReady, SetState, TypeOK
  <2>. QED  BY <1>3, <2>1, <2>2, <2>3
<1>4. ASSUME NEW a \in Actors, LoopStep(a)
      PROVE  Unparks(t)
  <2>1. CASE PumpWakeExpired(a)
    BY <2>1, ExpiryUnparks DEF PumpWakeExpired
  <2>2. CASE ClaimReady(a)
    BY <1>1, <1>2, <2>2 DEF ClaimReady, SetState, TypeOK
  <2>3. CASE \/ WakeNobody(a) \/ PumpSkip(a) \/ PumpEnter(a) \/ ClaimNothing(a)
             \/ PassHead(a) \/ Schedule(a) \/ ScheduleDropped(a)
    BY <1>1, <1>2, <2>3 DEF WakeNobody, PumpSkip, PumpEnter, ClaimNothing, PassHead, Schedule,
       ScheduleDropped
  <2>. QED  BY <1>4, <2>1, <2>2, <2>3 DEF LoopStep
<1>5. ASSUME NEW a \in Actors,
             \/ \E k \in Keys, n \in WakeLimits : CallWake(a, k, n)
             \/ CallPump(a)
             \/ \E u \in Threads : TryStartThread(a, u)
      PROVE  Unparks(t)
  BY <1>1, <1>2, <1>5 DEF CallWake, CallPump, TryStartThread, SetState, TypeOK
<1>6. ASSUME NEW u \in Threads, SliceStep(u) \/ GuestStep(u)
      PROVE  Unparks(t)
  <2>1. CASE \/ TakeWork(u) \/ EnterSlice(u) \/ LeaveSlice(u) \/ Resume(u) \/ NestedForced(u)
             \/ EnterCallback(u) \/ LeaveCallback(u)
    BY <1>1, <1>2, <2>1 DEF TakeWork, EnterSlice, LeaveSlice, Resume, NestedForced,
       EnterCallback, LeaveCallback
  <2>2. CASE RefuseSlice(u)
    BY <2>2 DEF RefuseSlice
  <2>3. CASE BeginSlice(u) \/ RegisterBlocked(u)
    BY <1>1, <1>2, <2>3 DEF BeginSlice, RegisterBlocked, ConsumeWait, TypeOK
  <2>4. CASE NestedResume(u)
    BY <1>1, <1>2, <2>4 DEF NestedResume, SetState, ConsumeWait, TypeOK
  <2>5. CASE StayParked(u) \/ NestedPark(u)
    BY <1>1, <1>2, <2>5 DEF StayParked, NestedPark, Parking, SetState, TypeOK
  <2>6. CASE WakeAtPark(u) \/ NestedWake(u)
    BY <1>1, <1>2, <2>6 DEF WakeAtPark, NestedWake, Parking, MakeReady, SetState, TypeOK
  <2>7. ASSUME NEW outcome \in {"Exited", "Faulted"}, EndGuestCode(u, outcome)
        PROVE  Unparks(t)
    BY <1>1, <1>2, <2>7 DEF EndGuestCode, CanCall, InGuestCode, SetState, TypeOK
  <2>. QED  BY <1>6, <2>1, <2>2, <2>3, <2>4, <2>5, <2>6, <2>7 DEF SliceStep, RunnerStep, GuestStep
<1>7. ASSUME NEW u \in Threads, NEW w \in NewWaits, RequestBlock(u, w)
      PROVE  Unparks(t)
  BY <1>1, <1>2, <1>7 DEF RequestBlock
<1>8. CASE BackgroundStep
  <2>1. ASSUME NEW S \in SUBSET Expirable, TickerWake(S)
        PROVE  Unparks(t)
    BY <2>1, ExpiryUnparks DEF TickerWake
  <2>2. ASSUME NEW u \in Threads, PollExpired(u)
        PROVE  Unparks(t)
    BY <2>2, ExpiryUnparks DEF PollExpired
  <2>3. CASE TickerPump \/ DispatchTick
    BY <1>1, <1>2, <2>3 DEF TickerPump, DispatchTick
  <2>. QED  BY <1>8, <2>1, <2>2, <2>3 DEF BackgroundStep
<1>9. ~ClearGuestThreads
  BY DEF ClearGuestThreads, TeardownOK
<1>10. CASE SessionStep \/ EntryReturn \/ UNCHANGED vars
  BY <1>1, <1>2, <1>9, <1>10 DEF SessionStep, RunInline, DrainPump, DrainDone, Dispose, Quiesce,
     LeakSession, RequestHostShutdown, Over, EntryReturn, vars
<1>. QED  BY <1>3, <1>4, <1>5, <1>6, <1>7, <1>8, <1>10 DEF Next, ActorStep

\* A parked thread never goes on for no reason, for any number of threads, keys and
\* callers: a stale entry of the ready queue cannot start it, nor a wake for another.
THEOREM WakesAreNotSpurious == Spec => NoSpuriousWakeup
<1>1. Init => IInv /\ RunningOK
  BY SafetyInit, RunningInit
<1>2. IInv /\ RunningOK /\ [Next]_vars => (IInv /\ RunningOK)'
  BY SafetyStep, RunningStep
<1>3. IInv /\ RunningOK /\ [Next]_vars =>
        [~forcedExit => \A t \in Threads :
            Parked(t) /\ ~Parked(t)' => wait[t].timed \/ wait'[t] = Granted(wait[t])]_vars
  BY UnparkStep DEF Unparks
<1>. QED  BY <1>1, <1>2, <1>3, PTL DEF Spec, NoSpuriousWakeup
=============================================================================
