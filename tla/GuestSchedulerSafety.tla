---------------------- MODULE GuestSchedulerSafety ----------------------
(* The safety properties of GuestScheduler, for every number of threads. *)
EXTENDS GuestSchedulerProofs, SequenceTheorems

\* An UNCHANGED names groups of variables
USE DEF tableVars, sliceVars, waitVars, gateVars, callVars, pumpVars, mainVars

\* The exit section of RunGuestThread leaves a state that needs no executor.
LeavingOK ==
    \A t \in Threads : exec[t] = "leaving" =>
        /\ state[t] # "Running"
        /\ state[t] = "Blocked" => wait[t] # NoWait

\* A finished thread has no executor to come and no work left.
TerminalOK ==
    \A t \in Threads : state[t] \in {"Exited", "Faulted"} =>
        /\ exec[t] \in {"off", "leaving"} /\ ~work[t]
        /\ \A a \in Actors : claimed[a] # t

\* Until the table is cleared, it holds every thread somebody executes or may claim.
TableOK ==
    session # "freed" =>
        /\ \A t \in Threads : executorActive[t] => t \in guestThreads
        /\ readyQueue \in Seq(guestThreads)

\* Once the session is being disposed the forced exit stays set, and from
\* quiescence on no slice enters guest code.
TeardownOK ==
    /\ session \in {"disposing", "clearing", "freed", "leaked"} => forcedExit
    /\ session \in {"clearing", "freed"} =>
         \A t \in Threads : exec[t] \in {"off", "entered"}

-----------------------------------------------------------------------------

\* Every step keeps SingleExecutor: only ClaimReady creates an owner, and it
\* finds none, since every owner implies ExecutorActive.
LEMMA ExecutorStep ==
    ASSUME TypeOK, SingleExecutor, [Next]_vars
    PROVE  SingleExecutor'
<1>1. ASSUME NEW a \in Actors, ClaimReady(a)
      PROVE  SingleExecutor'
  BY <1>1, ActorsAssumption DEF ClaimReady, SingleExecutor, TypeOK
<1>2. ASSUME NEW a \in Actors, Schedule(a)
      PROVE  SingleExecutor'
  BY <1>2, ActorsAssumption DEF Schedule, SingleExecutor, TypeOK
<1>3. ASSUME NEW a \in Actors, ScheduleDropped(a)
      PROVE  SingleExecutor'
  BY <1>3, ActorsAssumption DEF ScheduleDropped, SingleExecutor, TypeOK
<1>4. ASSUME NEW t \in Threads, TakeWork(t)
      PROVE  SingleExecutor'
  BY <1>4 DEF TakeWork, SetSlice, SingleExecutor, TypeOK
<1>5. ASSUME NEW t \in Threads, RefuseSlice(t)
      PROVE  SingleExecutor'
  BY <1>5 DEF RefuseSlice, ReleaseExecutor, SetSlice, SingleExecutor, TypeOK
<1>6. ASSUME NEW t \in Threads, EnterSlice(t)
      PROVE  SingleExecutor'
  BY <1>6 DEF EnterSlice, SetSlice, SingleExecutor, TypeOK
<1>7. ASSUME NEW t \in Threads, BeginSlice(t)
      PROVE  SingleExecutor'
  BY <1>7 DEF BeginSlice, SetSlice, SingleExecutor, TypeOK
<1>8. ASSUME NEW t \in Threads, RegisterBlocked(t)
      PROVE  SingleExecutor'
  BY <1>8 DEF RegisterBlocked, SetSlice, SingleExecutor, TypeOK
<1>9. ASSUME NEW t \in Threads, LeaveSlice(t)
      PROVE  SingleExecutor'
  BY <1>9 DEF LeaveSlice, ReleaseExecutor, SetSlice, SingleExecutor, TypeOK
<1>10. ASSUME NEW t \in Threads, NestedResume(t)
      PROVE  SingleExecutor'
  BY <1>10 DEF NestedResume, SetSlice, SingleExecutor, TypeOK
<1>11. ASSUME NEW t \in Threads, NestedForced(t)
      PROVE  SingleExecutor'
  BY <1>11 DEF NestedForced, SetSlice, SingleExecutor, TypeOK
<1>12. ASSUME NEW t \in Threads, Resume(t)
      PROVE  SingleExecutor'
  BY <1>12 DEF Resume, SetSlice, SingleExecutor, TypeOK
<1>13. ASSUME NEW t \in Threads, StayParked(t)
      PROVE  SingleExecutor'
  BY <1>13 DEF StayParked, SetSlice, Parking, SingleExecutor, TypeOK
<1>14. ASSUME NEW t \in Threads, WakeAtPark(t)
      PROVE  SingleExecutor'
  BY <1>14 DEF WakeAtPark, SetSlice, Parking, SingleExecutor, TypeOK
<1>15. ASSUME NEW t \in Threads, NestedPark(t)
      PROVE  SingleExecutor'
  BY <1>15 DEF NestedPark, SetSlice, Parking, SingleExecutor, TypeOK
<1>16. ASSUME NEW t \in Threads, NestedWake(t)
      PROVE  SingleExecutor'
  BY <1>16 DEF NestedWake, SetSlice, Parking, SingleExecutor, TypeOK
<1>17. ASSUME NEW t \in Threads, NEW outcome \in {"Exited", "Faulted"},
        EndGuestCode(t, outcome)
      PROVE  SingleExecutor'
  BY <1>17 DEF EndGuestCode, SetSlice, CanCall, InGuestCode, SingleExecutor, TypeOK
<1>18. ASSUME NEW t \in Threads, NEW w \in NewWaits, RequestBlock(t, w)
      PROVE  SingleExecutor'
  BY <1>18 DEF RequestBlock, SetSlice, CanCall, InGuestCode, SingleExecutor, TypeOK
<1>19. ASSUME RunInline
      PROVE  SingleExecutor'
  BY <1>19, ActorsAssumption DEF RunInline, SetSlice, Actors, SingleExecutor, TypeOK
<1>20. ASSUME NEW a \in Actors, NEW t \in Threads, WakeWaiter(a, t) \/ PassWaiter(a,
        t) \/ TryStartThread(a, t)
      PROVE  SingleExecutor'
  <2>1. UNCHANGED <<claimed, executorActive, work, exec>>
    BY <1>20 DEF WakeWaiter, PassWaiter, TryStartThread
  <2>. QED  BY <2>1 DEF SingleExecutor
<1>21. ASSUME NEW a \in Actors, WakeNobody(a) \/ PumpWakeExpired(a) \/ PumpSkip(a)
        \/ PumpEnter(a) \/ ClaimNothing(a) \/ PassHead(a)
      PROVE  SingleExecutor'
  <2>1. UNCHANGED <<claimed, executorActive, work, exec>>
    BY <1>21 DEF WakeNobody, PumpWakeExpired, PumpSkip, PumpEnter, ClaimNothing,
        PassHead
  <2>. QED  BY <2>1 DEF SingleExecutor
<1>22. ASSUME NEW a \in Actors, NEW k \in Keys, NEW n \in WakeLimits, CallWake(a, k,
        n)
      PROVE  SingleExecutor'
  <2>1. UNCHANGED <<claimed, executorActive, work, exec>>
    BY <1>22 DEF CallWake
  <2>. QED  BY <2>1 DEF SingleExecutor
<1>23. ASSUME NEW t \in Threads, EnterCallback(t) \/ LeaveCallback(t) \/
        PollExpired(t)
      PROVE  SingleExecutor'
  <2>1. UNCHANGED <<claimed, executorActive, work, exec>>
    BY <1>23 DEF EnterCallback, LeaveCallback, PollExpired
  <2>. QED  BY <2>1 DEF SingleExecutor
<1>24. ASSUME NEW S \in SUBSET Expirable, TickerWake(S)
      PROVE  SingleExecutor'
  <2>1. UNCHANGED <<claimed, executorActive, work, exec>>
    BY <1>24 DEF TickerWake
  <2>. QED  BY <2>1 DEF SingleExecutor
<1>25. ASSUME (\E a \in Actors : CallPump(a)) \/ TickerPump \/ DispatchTick \/ EntryReturn \/ DrainPump \/ DrainDone \/
        Dispose \/ Quiesce \/ LeakSession \/ ClearGuestThreads \/
        RequestHostShutdown \/ Over
      PROVE  SingleExecutor'
  <2>1. UNCHANGED <<claimed, executorActive, work, exec>>
    BY <1>25 DEF CallPump, TickerPump, DispatchTick, EntryReturn, DrainPump, DrainDone,
        Dispose, Quiesce, LeakSession, ClearGuestThreads, RequestHostShutdown, Over,
        vars
  <2>. QED  BY <2>1 DEF SingleExecutor
<1>26. CASE UNCHANGED vars
  BY <1>26 DEF vars, SingleExecutor
<1>. QED  BY <1>1, <1>2, <1>3, <1>4, <1>5, <1>6, <1>7, <1>8, <1>9, <1>10, <1>11,
      <1>12, <1>13, <1>14, <1>15, <1>16, <1>17, <1>18, <1>19, <1>20, <1>21, <1>22,
      <1>23, <1>24, <1>25, <1>26 DEF Next, ActorStep, LoopStep, SliceStep,
      RunnerStep, GuestStep, BackgroundStep, SessionStep

\* The executor is given back only by the exit section of its slice, and that
\* section leaves the thread Ready, finished, or Blocked with its wait in place.
LEMMA TokenStep ==
    ASSUME TypeOK, WaitOK, SingleExecutor, LeavingOK, ParkedIsWakeable, TokenNotLost,
           [Next]_vars
    PROVE  LeavingOK' /\ ParkedIsWakeable' /\ TokenNotLost'
<1>1. ASSUME NEW a \in Actors, NEW t \in Threads, WakeWaiter(a, t)
      PROVE  LeavingOK' /\ ParkedIsWakeable' /\ TokenNotLost'
  BY <1>1 DEF WakeWaiter, MakeReady, SetState, LeavingOK, ParkedIsWakeable,
      TokenNotLost, TypeOK, WaitOK, SingleExecutor
<1>2. ASSUME NEW a \in Actors, PumpWakeExpired(a)
      PROVE  LeavingOK' /\ ParkedIsWakeable' /\ TokenNotLost'
  <2>1. /\ \A t \in Threads : wait[t] # NoWait => wait'[t] # NoWait
       /\ \A t \in Threads : state'[t] \in {state[t], "Ready"}
    BY <1>2, ExpireTypes DEF PumpWakeExpired, WakeExpired
  <2>. QED  BY <1>2, <2>1 DEF PumpWakeExpired, WakeExpired, LeavingOK,
        ParkedIsWakeable, TokenNotLost, TypeOK, WaitOK, SingleExecutor
<1>3. ASSUME NEW a \in Actors, ClaimReady(a)
      PROVE  LeavingOK' /\ ParkedIsWakeable' /\ TokenNotLost'
  <2>1. Head(readyQueue) \in Threads /\ claimed[a] \notin Threads
    BY <1>3, ActorsAssumption DEF ClaimReady, Claiming, TypeOK
  <2>. QED  BY <1>3, <2>1 DEF ClaimReady, SetState, LeavingOK, ParkedIsWakeable,
        TokenNotLost, TypeOK, WaitOK, SingleExecutor
<1>4. ASSUME NEW a \in Actors, Schedule(a)
      PROVE  LeavingOK' /\ ParkedIsWakeable' /\ TokenNotLost'
  BY <1>4, ActorsAssumption DEF Schedule, LeavingOK, ParkedIsWakeable, TokenNotLost,
      TypeOK, WaitOK, SingleExecutor
<1>5. ASSUME NEW a \in Actors, ScheduleDropped(a)
      PROVE  LeavingOK' /\ ParkedIsWakeable' /\ TokenNotLost'
  BY <1>5 DEF ScheduleDropped, LeavingOK, ParkedIsWakeable, TokenNotLost, TypeOK,
      WaitOK, SingleExecutor
<1>6. ASSUME NEW a \in Actors, NEW t \in Threads, TryStartThread(a, t)
      PROVE  LeavingOK' /\ ParkedIsWakeable' /\ TokenNotLost'
  BY <1>6 DEF TryStartThread, SetState, LeavingOK, ParkedIsWakeable, TokenNotLost,
      TypeOK, WaitOK, SingleExecutor
<1>7. ASSUME NEW t \in Threads, TakeWork(t)
      PROVE  LeavingOK' /\ ParkedIsWakeable' /\ TokenNotLost'
  BY <1>7 DEF TakeWork, SetSlice, LeavingOK, ParkedIsWakeable, TokenNotLost, TypeOK,
      WaitOK, SingleExecutor
<1>8. ASSUME NEW t \in Threads, RefuseSlice(t)
      PROVE  LeavingOK' /\ ParkedIsWakeable' /\ TokenNotLost'
  BY <1>8 DEF RefuseSlice, ReleaseExecutor, SetSlice, SetState, LeavingOK,
      ParkedIsWakeable, TokenNotLost, TypeOK, WaitOK, SingleExecutor
<1>9. ASSUME NEW t \in Threads, EnterSlice(t)
      PROVE  LeavingOK' /\ ParkedIsWakeable' /\ TokenNotLost'
  BY <1>9 DEF EnterSlice, SetSlice, LeavingOK, ParkedIsWakeable, TokenNotLost,
      TypeOK, WaitOK, SingleExecutor
<1>10. ASSUME NEW t \in Threads, BeginSlice(t)
      PROVE  LeavingOK' /\ ParkedIsWakeable' /\ TokenNotLost'
  BY <1>10 DEF BeginSlice, SetSlice, ConsumeWait, LeavingOK, ParkedIsWakeable,
      TokenNotLost, TypeOK, WaitOK, SingleExecutor
<1>11. ASSUME NEW t \in Threads, RegisterBlocked(t)
      PROVE  LeavingOK' /\ ParkedIsWakeable' /\ TokenNotLost'
  BY <1>11 DEF RegisterBlocked, SetSlice, LeavingOK, ParkedIsWakeable, TokenNotLost,
      TypeOK, WaitOK, SingleExecutor
<1>12. ASSUME NEW t \in Threads, LeaveSlice(t)
      PROVE  LeavingOK' /\ ParkedIsWakeable' /\ TokenNotLost'
  BY <1>12 DEF LeaveSlice, ReleaseExecutor, SetSlice, LeavingOK, ParkedIsWakeable,
      TokenNotLost, TypeOK, WaitOK, SingleExecutor
<1>13. ASSUME NEW t \in Threads, NestedResume(t)
      PROVE  LeavingOK' /\ ParkedIsWakeable' /\ TokenNotLost'
  BY <1>13 DEF NestedResume, SetSlice, SetState, ConsumeWait, LeavingOK,
      ParkedIsWakeable, TokenNotLost, TypeOK, WaitOK, SingleExecutor
<1>14. ASSUME NEW t \in Threads, NestedForced(t)
      PROVE  LeavingOK' /\ ParkedIsWakeable' /\ TokenNotLost'
  BY <1>14 DEF NestedForced, SetSlice, LeavingOK, ParkedIsWakeable, TokenNotLost,
      TypeOK, WaitOK, SingleExecutor
<1>15. ASSUME NEW t \in Threads, Resume(t)
      PROVE  LeavingOK' /\ ParkedIsWakeable' /\ TokenNotLost'
  BY <1>15 DEF Resume, SetSlice, LeavingOK, ParkedIsWakeable, TokenNotLost, TypeOK,
      WaitOK, SingleExecutor
<1>16. ASSUME NEW t \in Threads, StayParked(t)
      PROVE  LeavingOK' /\ ParkedIsWakeable' /\ TokenNotLost'
  BY <1>16 DEF StayParked, SetSlice, Parking, SetState, LeavingOK, ParkedIsWakeable,
      TokenNotLost, TypeOK, WaitOK, SingleExecutor
<1>17. ASSUME NEW t \in Threads, WakeAtPark(t)
      PROVE  LeavingOK' /\ ParkedIsWakeable' /\ TokenNotLost'
  BY <1>17 DEF WakeAtPark, SetSlice, Parking, MakeReady, SetState, LeavingOK,
      ParkedIsWakeable, TokenNotLost, TypeOK, WaitOK, SingleExecutor
<1>18. ASSUME NEW t \in Threads, NestedPark(t)
      PROVE  LeavingOK' /\ ParkedIsWakeable' /\ TokenNotLost'
  BY <1>18 DEF NestedPark, SetSlice, Parking, SetState, LeavingOK, ParkedIsWakeable,
      TokenNotLost, TypeOK, WaitOK, SingleExecutor
<1>19. ASSUME NEW t \in Threads, NestedWake(t)
      PROVE  LeavingOK' /\ ParkedIsWakeable' /\ TokenNotLost'
  BY <1>19 DEF NestedWake, SetSlice, Parking, SetState, LeavingOK, ParkedIsWakeable,
      TokenNotLost, TypeOK, WaitOK, SingleExecutor
<1>20. ASSUME NEW t \in Threads, NEW outcome \in {"Exited", "Faulted"},
        EndGuestCode(t, outcome)
      PROVE  LeavingOK' /\ ParkedIsWakeable' /\ TokenNotLost'
  BY <1>20 DEF EndGuestCode, SetSlice, SetState, CanCall, InGuestCode, LeavingOK,
      ParkedIsWakeable, TokenNotLost, TypeOK, WaitOK, SingleExecutor
<1>21. ASSUME NEW t \in Threads, NEW w \in NewWaits, RequestBlock(t, w)
      PROVE  LeavingOK' /\ ParkedIsWakeable' /\ TokenNotLost'
  BY <1>21 DEF RequestBlock, SetSlice, CanCall, InGuestCode, LeavingOK,
      ParkedIsWakeable, TokenNotLost, TypeOK, WaitOK, SingleExecutor
<1>22. ASSUME NEW t \in Threads, PollExpired(t)
      PROVE  LeavingOK' /\ ParkedIsWakeable' /\ TokenNotLost'
  <2>1. /\ \A u \in Threads : wait[u] # NoWait => wait'[u] # NoWait
       /\ \A u \in Threads : state'[u] \in {state[u], "Ready"}
    BY <1>22, ExpireTypes DEF PollExpired, WakeExpired
  <2>. QED  BY <1>22, <2>1 DEF PollExpired, WakeExpired, LeavingOK,
        ParkedIsWakeable, TokenNotLost, TypeOK, WaitOK, SingleExecutor
<1>23. ASSUME NEW S \in SUBSET Expirable, TickerWake(S)
      PROVE  LeavingOK' /\ ParkedIsWakeable' /\ TokenNotLost'
  <2>1. /\ \A t \in Threads : wait[t] # NoWait => wait'[t] # NoWait
       /\ \A t \in Threads : state'[t] \in {state[t], "Ready"}
    BY <1>23, ExpireTypes DEF TickerWake, WakeExpired
  <2>. QED  BY <1>23, <2>1 DEF TickerWake, WakeExpired, LeavingOK, ParkedIsWakeable,
        TokenNotLost, TypeOK, WaitOK, SingleExecutor
<1>24. ASSUME EntryReturn
      PROVE  LeavingOK' /\ ParkedIsWakeable' /\ TokenNotLost'
  <2>1. session = "guest" /\ session' # "freed"
    BY <1>24, ActorsAssumption DEF EntryReturn, CanCall, InGuestCode
  <2>. QED  BY <1>24, <2>1 DEF EntryReturn, LeavingOK, ParkedIsWakeable,
        TokenNotLost, TypeOK, WaitOK, SingleExecutor
<1>25. ASSUME RunInline
      PROVE  LeavingOK' /\ ParkedIsWakeable' /\ TokenNotLost'
  BY <1>25, ActorsAssumption DEF RunInline, SetSlice, Actors, LeavingOK,
      ParkedIsWakeable, TokenNotLost, TypeOK, WaitOK, SingleExecutor
<1>26. ASSUME DrainDone
      PROVE  LeavingOK' /\ ParkedIsWakeable' /\ TokenNotLost'
  BY <1>26 DEF DrainDone, LeavingOK, ParkedIsWakeable, TokenNotLost, TypeOK, WaitOK,
      SingleExecutor
<1>27. ASSUME Dispose
      PROVE  LeavingOK' /\ ParkedIsWakeable' /\ TokenNotLost'
  BY <1>27 DEF Dispose, LeavingOK, ParkedIsWakeable, TokenNotLost, TypeOK, WaitOK,
      SingleExecutor
<1>28. ASSUME Quiesce
      PROVE  LeavingOK' /\ ParkedIsWakeable' /\ TokenNotLost'
  BY <1>28 DEF Quiesce, LeavingOK, ParkedIsWakeable, TokenNotLost, TypeOK, WaitOK,
      SingleExecutor
<1>29. ASSUME LeakSession
      PROVE  LeavingOK' /\ ParkedIsWakeable' /\ TokenNotLost'
  BY <1>29 DEF LeakSession, LeavingOK, ParkedIsWakeable, TokenNotLost, TypeOK,
      WaitOK, SingleExecutor
<1>30. ASSUME ClearGuestThreads
      PROVE  LeavingOK' /\ ParkedIsWakeable' /\ TokenNotLost'
  BY <1>30 DEF ClearGuestThreads, LeavingOK, ParkedIsWakeable, TokenNotLost, TypeOK,
      WaitOK, SingleExecutor
<1>31. ASSUME NEW a \in Actors, NEW t \in Threads, PassWaiter(a, t)
      PROVE  LeavingOK' /\ ParkedIsWakeable' /\ TokenNotLost'
  <2>1. UNCHANGED <<state, wait, exec, executorActive, claimed, work, session>>
    BY <1>31 DEF PassWaiter
  <2>. QED  BY <2>1 DEF LeavingOK, ParkedIsWakeable, TokenNotLost
<1>32. ASSUME NEW a \in Actors, WakeNobody(a) \/ PumpSkip(a) \/ PumpEnter(a) \/
        ClaimNothing(a) \/ PassHead(a)
      PROVE  LeavingOK' /\ ParkedIsWakeable' /\ TokenNotLost'
  <2>1. UNCHANGED <<state, wait, exec, executorActive, claimed, work, session>>
    BY <1>32 DEF WakeNobody, PumpSkip, PumpEnter, ClaimNothing, PassHead
  <2>. QED  BY <2>1 DEF LeavingOK, ParkedIsWakeable, TokenNotLost
<1>33. ASSUME NEW a \in Actors, NEW k \in Keys, NEW n \in WakeLimits, CallWake(a, k,
        n)
      PROVE  LeavingOK' /\ ParkedIsWakeable' /\ TokenNotLost'
  <2>1. UNCHANGED <<state, wait, exec, executorActive, claimed, work, session>>
    BY <1>33 DEF CallWake
  <2>. QED  BY <2>1 DEF LeavingOK, ParkedIsWakeable, TokenNotLost
<1>34. ASSUME NEW t \in Threads, EnterCallback(t) \/ LeaveCallback(t)
      PROVE  LeavingOK' /\ ParkedIsWakeable' /\ TokenNotLost'
  <2>1. UNCHANGED <<state, wait, exec, executorActive, claimed, work, session>>
    BY <1>34 DEF EnterCallback, LeaveCallback
  <2>. QED  BY <2>1 DEF LeavingOK, ParkedIsWakeable, TokenNotLost
<1>35. ASSUME (\E a \in Actors : CallPump(a)) \/ TickerPump \/ DispatchTick \/ DrainPump \/ RequestHostShutdown \/ Over
      PROVE  LeavingOK' /\ ParkedIsWakeable' /\ TokenNotLost'
  <2>1. UNCHANGED <<state, wait, exec, executorActive, claimed, work, session>>
    BY <1>35 DEF CallPump, TickerPump, DispatchTick, DrainPump, RequestHostShutdown, Over,
        vars
  <2>. QED  BY <2>1 DEF LeavingOK, ParkedIsWakeable, TokenNotLost
<1>36. CASE UNCHANGED vars
  BY <1>36 DEF vars, LeavingOK, ParkedIsWakeable, TokenNotLost
<1>. QED  BY <1>1, <1>2, <1>3, <1>4, <1>5, <1>6, <1>7, <1>8, <1>9, <1>10, <1>11,
      <1>12, <1>13, <1>14, <1>15, <1>16, <1>17, <1>18, <1>19, <1>20, <1>21, <1>22,
      <1>23, <1>24, <1>25, <1>26, <1>27, <1>28, <1>29, <1>30, <1>31, <1>32, <1>33,
      <1>34, <1>35, <1>36 DEF Next, ActorStep, LoopStep, SliceStep, RunnerStep,
      GuestStep, BackgroundStep, SessionStep

\* Exited and Faulted are reached only from guest code or by a refused slice,
\* whose thread nobody else claims, and are left by no step.
LEMMA TerminalStep ==
    ASSUME TypeOK, WaitOK, SingleExecutor, TerminalOK, [Next]_vars
    PROVE  /\ TerminalOK'
           /\ \A t \in Threads : state[t] \in {"Exited", "Faulted"} => state'[t] = state[t]
<1>. DEFINE Final == \A t \in Threads : state[t] \in {"Exited", "Faulted"} => state'[t] = state[t]
<1>1. ASSUME NEW a \in Actors, NEW t \in Threads, WakeWaiter(a, t)
      PROVE  TerminalOK' /\ Final
  <2>1. state[t] # "Exited" /\ state[t] # "Faulted"
    BY <1>1, CandidateTypes DEF WakeWaiter, Candidates, WaitOK, Parked
  <2>. QED  BY <1>1, <2>1 DEF WakeWaiter, MakeReady, SetState, TerminalOK, TypeOK,
        SingleExecutor
<1>2. ASSUME NEW a \in Actors, PumpWakeExpired(a)
      PROVE  TerminalOK' /\ Final
  BY <1>2 DEF PumpWakeExpired, WakeExpired, Expirable, Parked, TerminalOK, TypeOK,
      SingleExecutor
<1>3. ASSUME NEW a \in Actors, ClaimReady(a)
      PROVE  TerminalOK' /\ Final
  BY <1>3 DEF ClaimReady, SetState, TerminalOK, TypeOK, SingleExecutor
<1>4. ASSUME NEW a \in Actors, Schedule(a)
      PROVE  TerminalOK' /\ Final
  BY <1>4, ActorsAssumption DEF Schedule, TerminalOK, TypeOK, SingleExecutor
<1>5. ASSUME NEW a \in Actors, ScheduleDropped(a)
      PROVE  TerminalOK' /\ Final
  BY <1>5, ActorsAssumption DEF ScheduleDropped, TerminalOK, TypeOK, SingleExecutor
<1>6. ASSUME NEW a \in Actors, NEW t \in Threads, TryStartThread(a, t)
      PROVE  TerminalOK' /\ Final
  BY <1>6 DEF TryStartThread, SetState, TerminalOK, TypeOK, SingleExecutor
<1>7. ASSUME NEW t \in Threads, TakeWork(t)
      PROVE  TerminalOK' /\ Final
  BY <1>7 DEF TakeWork, SetSlice, TerminalOK, TypeOK, SingleExecutor
<1>8. ASSUME NEW t \in Threads, RefuseSlice(t)
      PROVE  TerminalOK' /\ Final
  BY <1>8 DEF RefuseSlice, ReleaseExecutor, SetSlice, SetState, TerminalOK, TypeOK,
      SingleExecutor
<1>9. ASSUME NEW t \in Threads, EnterSlice(t)
      PROVE  TerminalOK' /\ Final
  BY <1>9 DEF EnterSlice, SetSlice, TerminalOK, TypeOK, SingleExecutor
<1>10. ASSUME NEW t \in Threads, BeginSlice(t)
      PROVE  TerminalOK' /\ Final
  BY <1>10 DEF BeginSlice, SetSlice, ConsumeWait, TerminalOK, TypeOK, SingleExecutor
<1>11. ASSUME NEW t \in Threads, RegisterBlocked(t)
      PROVE  TerminalOK' /\ Final
  BY <1>11 DEF RegisterBlocked, SetSlice, TerminalOK, TypeOK, SingleExecutor
<1>12. ASSUME NEW t \in Threads, LeaveSlice(t)
      PROVE  TerminalOK' /\ Final
  BY <1>12 DEF LeaveSlice, ReleaseExecutor, SetSlice, TerminalOK, TypeOK,
      SingleExecutor
<1>13. ASSUME NEW t \in Threads, NestedResume(t)
      PROVE  TerminalOK' /\ Final
  BY <1>13 DEF NestedResume, SetSlice, SetState, ConsumeWait, TerminalOK, TypeOK,
      SingleExecutor
<1>14. ASSUME NEW t \in Threads, NestedForced(t)
      PROVE  TerminalOK' /\ Final
  BY <1>14 DEF NestedForced, SetSlice, TerminalOK, TypeOK, SingleExecutor
<1>15. ASSUME NEW t \in Threads, Resume(t)
      PROVE  TerminalOK' /\ Final
  BY <1>15 DEF Resume, SetSlice, TerminalOK, TypeOK, SingleExecutor
<1>16. ASSUME NEW t \in Threads, StayParked(t)
      PROVE  TerminalOK' /\ Final
  BY <1>16 DEF StayParked, SetSlice, Parking, SetState, TerminalOK, TypeOK,
      SingleExecutor
<1>17. ASSUME NEW t \in Threads, WakeAtPark(t)
      PROVE  TerminalOK' /\ Final
  BY <1>17 DEF WakeAtPark, SetSlice, Parking, MakeReady, SetState, TerminalOK,
      TypeOK, SingleExecutor
<1>18. ASSUME NEW t \in Threads, NestedPark(t)
      PROVE  TerminalOK' /\ Final
  BY <1>18 DEF NestedPark, SetSlice, Parking, SetState, TerminalOK, TypeOK,
      SingleExecutor
<1>19. ASSUME NEW t \in Threads, NestedWake(t)
      PROVE  TerminalOK' /\ Final
  BY <1>19 DEF NestedWake, SetSlice, Parking, SetState, TerminalOK, TypeOK,
      SingleExecutor
<1>20. ASSUME NEW t \in Threads, NEW outcome \in {"Exited", "Faulted"},
        EndGuestCode(t, outcome)
      PROVE  TerminalOK' /\ Final
  BY <1>20 DEF EndGuestCode, SetSlice, SetState, CanCall, InGuestCode, TerminalOK,
      TypeOK, SingleExecutor
<1>21. ASSUME NEW t \in Threads, NEW w \in NewWaits, RequestBlock(t, w)
      PROVE  TerminalOK' /\ Final
  BY <1>21 DEF RequestBlock, SetSlice, CanCall, InGuestCode, TerminalOK, TypeOK,
      SingleExecutor
<1>22. ASSUME NEW t \in Threads, PollExpired(t)
      PROVE  TerminalOK' /\ Final
  BY <1>22 DEF PollExpired, WakeExpired, Expirable, Parked, TerminalOK, TypeOK,
      SingleExecutor
<1>23. ASSUME NEW S \in SUBSET Expirable, TickerWake(S)
      PROVE  TerminalOK' /\ Final
  BY <1>23 DEF TickerWake, WakeExpired, Expirable, Parked, TerminalOK, TypeOK,
      SingleExecutor
<1>24. ASSUME RunInline
      PROVE  TerminalOK' /\ Final
  BY <1>24, ActorsAssumption DEF RunInline, SetSlice, Actors, TerminalOK, TypeOK,
      SingleExecutor
<1>25. ASSUME NEW a \in Actors, NEW t \in Threads, PassWaiter(a, t)
      PROVE  TerminalOK' /\ Final
  <2>1. UNCHANGED <<state, exec, claimed, work>>
    BY <1>25 DEF PassWaiter
  <2>. QED  BY <2>1 DEF TerminalOK
<1>26. ASSUME NEW a \in Actors, WakeNobody(a) \/ PumpSkip(a) \/ PumpEnter(a) \/
        ClaimNothing(a) \/ PassHead(a)
      PROVE  TerminalOK' /\ Final
  <2>1. UNCHANGED <<state, exec, claimed, work>>
    BY <1>26 DEF WakeNobody, PumpSkip, PumpEnter, ClaimNothing, PassHead
  <2>. QED  BY <2>1 DEF TerminalOK
<1>27. ASSUME NEW a \in Actors, NEW k \in Keys, NEW n \in WakeLimits, CallWake(a, k,
        n)
      PROVE  TerminalOK' /\ Final
  <2>1. UNCHANGED <<state, exec, claimed, work>>
    BY <1>27 DEF CallWake
  <2>. QED  BY <2>1 DEF TerminalOK
<1>28. ASSUME NEW t \in Threads, EnterCallback(t) \/ LeaveCallback(t)
      PROVE  TerminalOK' /\ Final
  <2>1. UNCHANGED <<state, exec, claimed, work>>
    BY <1>28 DEF EnterCallback, LeaveCallback
  <2>. QED  BY <2>1 DEF TerminalOK
<1>29. ASSUME (\E a \in Actors : CallPump(a)) \/ TickerPump \/ DispatchTick \/ EntryReturn \/ DrainPump \/ DrainDone \/
        Dispose \/ Quiesce \/ LeakSession \/ ClearGuestThreads \/
        RequestHostShutdown \/ Over
      PROVE  TerminalOK' /\ Final
  <2>1. UNCHANGED <<state, exec, claimed, work>>
    BY <1>29 DEF CallPump, TickerPump, DispatchTick, EntryReturn, DrainPump, DrainDone,
        Dispose, Quiesce, LeakSession, ClearGuestThreads, RequestHostShutdown, Over,
        vars
  <2>. QED  BY <2>1 DEF TerminalOK
<1>30. CASE UNCHANGED vars
  BY <1>30 DEF vars, TerminalOK
<1>. QED  BY <1>1, <1>2, <1>3, <1>4, <1>5, <1>6, <1>7, <1>8, <1>9, <1>10, <1>11,
      <1>12, <1>13, <1>14, <1>15, <1>16, <1>17, <1>18, <1>19, <1>20, <1>21, <1>22,
      <1>23, <1>24, <1>25, <1>26, <1>27, <1>28, <1>29, <1>30 DEF Next, ActorStep,
      LoopStep, SliceStep, RunnerStep, GuestStep, BackgroundStep, SessionStep

\* Threads enter the queue only as members of the table.
LEMMA TableStep ==
    ASSUME TypeOK, WaitOK, SingleExecutor, TableOK, [Next]_vars
    PROVE  TableOK'
<1>1. ASSUME NEW a \in Actors, NEW t \in Threads, WakeWaiter(a, t)
      PROVE  TableOK'
  <2>1. t \in guestThreads
    BY <1>1 DEF WakeWaiter, Candidates, WaitOK, ParkedOn, Parked
  <2>. QED  BY <1>1, <2>1 DEF WakeWaiter, MakeReady, SetState, TableOK, TypeOK
<1>2. ASSUME NEW a \in Actors, PumpWakeExpired(a)
      PROVE  TableOK'
  <2>1. PICK S \in SUBSET Expirable : WakeExpired(S)
    BY <1>2 DEF PumpWakeExpired
  <2>2. PICK order \in Orderings(S) : readyQueue' = readyQueue \o order
    BY <1>2, <2>1 DEF WakeExpired
  <2>3. S \subseteq guestThreads
    BY <1>2, <2>1 DEF WakeExpired, Expirable, Parked
  <2>4. session # "freed" => order \in Seq(guestThreads)
    BY <1>2, <2>2, <2>3, OrderingType, SeqMonotonic DEF TypeOK
  <2>5. session # "freed" => readyQueue' \in Seq(guestThreads)
    BY <1>2, <2>2, <2>4 DEF TableOK
  <2>. QED  BY <1>2, <2>1, <2>2, <2>3, <2>4, <2>5 DEF PumpWakeExpired, WakeExpired,
        TableOK, TypeOK
<1>3. ASSUME NEW a \in Actors, ClaimReady(a)
      PROVE  TableOK'
  BY <1>3 DEF ClaimReady, SetState, TableOK, TypeOK
<1>4. ASSUME NEW a \in Actors, PassHead(a)
      PROVE  TableOK'
  <2>1. session # "freed" => readyQueue' \in Seq(guestThreads)
    BY <1>4 DEF PassHead, TableOK
  <2>. QED  BY <1>4, <2>1 DEF PassHead, TableOK, TypeOK
<1>5. ASSUME NEW a \in Actors, NEW t \in Threads, TryStartThread(a, t)
      PROVE  TableOK'
  <2>1. session # "freed" => readyQueue \in Seq(guestThreads')
    BY <1>5, SeqMonotonic DEF TryStartThread, TableOK
  <2>. QED  BY <1>5, <2>1 DEF TryStartThread, SetState, TableOK, TypeOK
<1>6. ASSUME NEW t \in Threads, RefuseSlice(t)
      PROVE  TableOK'
  BY <1>6 DEF RefuseSlice, ReleaseExecutor, SetSlice, SetState, TableOK, TypeOK
<1>7. ASSUME NEW t \in Threads, LeaveSlice(t)
      PROVE  TableOK'
  BY <1>7 DEF LeaveSlice, ReleaseExecutor, SetSlice, TableOK, TypeOK
<1>8. ASSUME NEW t \in Threads, WakeAtPark(t)
      PROVE  TableOK'
  BY <1>8 DEF WakeAtPark, SetSlice, Parking, MakeReady, SetState, SingleExecutor,
      TableOK, TypeOK
<1>9. ASSUME NEW t \in Threads, PollExpired(t)
      PROVE  TableOK'
  <2>1. PICK S \in SUBSET Expirable : WakeExpired(S)
    BY <1>9 DEF PollExpired
  <2>2. PICK order \in Orderings(S) : readyQueue' = readyQueue \o order
    BY <1>9, <2>1 DEF WakeExpired
  <2>3. S \subseteq guestThreads
    BY <1>9, <2>1 DEF WakeExpired, Expirable, Parked
  <2>4. session # "freed" => order \in Seq(guestThreads)
    BY <1>9, <2>2, <2>3, OrderingType, SeqMonotonic DEF TypeOK
  <2>5. session # "freed" => readyQueue' \in Seq(guestThreads)
    BY <1>9, <2>2, <2>4 DEF TableOK
  <2>. QED  BY <1>9, <2>1, <2>2, <2>3, <2>4, <2>5 DEF PollExpired, WakeExpired,
        TableOK, TypeOK
<1>10. ASSUME NEW S \in SUBSET Expirable, TickerWake(S)
      PROVE  TableOK'
  <2>1. WakeExpired(S)
    BY <1>10 DEF TickerWake
  <2>2. PICK order \in Orderings(S) : readyQueue' = readyQueue \o order
    BY <1>10, <2>1 DEF WakeExpired
  <2>3. S \subseteq guestThreads
    BY <1>10, <2>1 DEF WakeExpired, Expirable, Parked
  <2>4. session # "freed" => order \in Seq(guestThreads)
    BY <1>10, <2>2, <2>3, OrderingType, SeqMonotonic DEF TypeOK
  <2>5. session # "freed" => readyQueue' \in Seq(guestThreads)
    BY <1>10, <2>2, <2>4 DEF TableOK
  <2>. QED  BY <1>10, <2>1, <2>2, <2>3, <2>4, <2>5 DEF TickerWake, WakeExpired,
        TableOK, TypeOK
<1>11. ASSUME EntryReturn
      PROVE  TableOK'
  <2>1. session # "freed"
    BY <1>11, ActorsAssumption DEF EntryReturn, CanCall, InGuestCode
  <2>. QED  BY <1>11, <2>1 DEF EntryReturn, CanCall, InGuestCode, TableOK, TypeOK
<1>12. ASSUME DrainDone
      PROVE  TableOK'
  BY <1>12 DEF DrainDone, TableOK, TypeOK
<1>13. ASSUME Dispose
      PROVE  TableOK'
  BY <1>13 DEF Dispose, TableOK, TypeOK
<1>14. ASSUME Quiesce
      PROVE  TableOK'
  BY <1>14 DEF Quiesce, TableOK, TypeOK
<1>15. ASSUME LeakSession
      PROVE  TableOK'
  BY <1>15 DEF LeakSession, TableOK, TypeOK
<1>16. ASSUME ClearGuestThreads
      PROVE  TableOK'
  BY <1>16 DEF ClearGuestThreads, TableOK, TypeOK
<1>17. ASSUME NEW a \in Actors, NEW t \in Threads, PassWaiter(a, t)
      PROVE  TableOK'
  <2>1. UNCHANGED <<executorActive, guestThreads, readyQueue, session>>
    BY <1>17 DEF PassWaiter
  <2>. QED  BY <2>1 DEF TableOK
<1>18. ASSUME NEW a \in Actors, WakeNobody(a) \/ PumpSkip(a) \/ PumpEnter(a) \/
        ClaimNothing(a) \/ Schedule(a) \/ ScheduleDropped(a)
      PROVE  TableOK'
  <2>1. UNCHANGED <<executorActive, guestThreads, readyQueue, session>>
    BY <1>18 DEF WakeNobody, PumpSkip, PumpEnter, ClaimNothing, Schedule,
        ScheduleDropped
  <2>. QED  BY <2>1 DEF TableOK
<1>19. ASSUME NEW a \in Actors, NEW k \in Keys, NEW n \in WakeLimits, CallWake(a, k,
        n)
      PROVE  TableOK'
  <2>1. UNCHANGED <<executorActive, guestThreads, readyQueue, session>>
    BY <1>19 DEF CallWake
  <2>. QED  BY <2>1 DEF TableOK
<1>20. ASSUME NEW t \in Threads, TakeWork(t) \/ EnterSlice(t) \/ BeginSlice(t) \/
        RegisterBlocked(t) \/ NestedResume(t) \/ NestedForced(t) \/ Resume(t) \/
        StayParked(t) \/ NestedPark(t) \/ NestedWake(t) \/ EnterCallback(t) \/
        LeaveCallback(t)
      PROVE  TableOK'
  <2>1. UNCHANGED <<executorActive, guestThreads, readyQueue, session>>
    BY <1>20 DEF TakeWork, EnterSlice, BeginSlice, RegisterBlocked, NestedResume,
        NestedForced, Resume, StayParked, NestedPark, NestedWake, EnterCallback,
        LeaveCallback
  <2>. QED  BY <2>1 DEF TableOK
<1>21. ASSUME NEW t \in Threads, NEW outcome \in {"Exited", "Faulted"},
        EndGuestCode(t, outcome)
      PROVE  TableOK'
  <2>1. UNCHANGED <<executorActive, guestThreads, readyQueue, session>>
    BY <1>21 DEF EndGuestCode
  <2>. QED  BY <2>1 DEF TableOK
<1>22. ASSUME NEW t \in Threads, NEW w \in NewWaits, RequestBlock(t, w)
      PROVE  TableOK'
  <2>1. UNCHANGED <<executorActive, guestThreads, readyQueue, session>>
    BY <1>22 DEF RequestBlock
  <2>. QED  BY <2>1 DEF TableOK
<1>23. ASSUME (\E a \in Actors : CallPump(a)) \/ TickerPump \/ DispatchTick \/ RunInline \/ DrainPump \/
        RequestHostShutdown \/ Over
      PROVE  TableOK'
  <2>1. UNCHANGED <<executorActive, guestThreads, readyQueue, session>>
    BY <1>23 DEF CallPump, TickerPump, DispatchTick, RunInline, DrainPump,
        RequestHostShutdown, Over, vars
  <2>. QED  BY <2>1 DEF TableOK
<1>24. CASE UNCHANGED vars
  BY <1>24 DEF vars, TableOK
<1>. QED  BY <1>1, <1>2, <1>3, <1>4, <1>5, <1>6, <1>7, <1>8, <1>9, <1>10, <1>11,
      <1>12, <1>13, <1>14, <1>15, <1>16, <1>17, <1>18, <1>19, <1>20, <1>21, <1>22,
      <1>23, <1>24 DEF Next, ActorStep, LoopStep, SliceStep, RunnerStep, GuestStep,
      BackgroundStep, SessionStep

\* Quiescence leaves no slice behind, and none gets past the check of
\* _forcedGuestExit after it.
LEMMA TeardownStep ==
    ASSUME TypeOK, SingleExecutor, TableOK, TeardownOK, [Next]_vars
    PROVE  TeardownOK'
<1>1. ASSUME NEW t \in Threads, TakeWork(t)
      PROVE  TeardownOK'
  BY <1>1 DEF TakeWork, SetSlice, TeardownOK, TypeOK
<1>2. ASSUME NEW t \in Threads, RefuseSlice(t)
      PROVE  TeardownOK'
  BY <1>2 DEF RefuseSlice, ReleaseExecutor, SetSlice, SetState, TeardownOK, TypeOK
<1>3. ASSUME NEW t \in Threads, EnterSlice(t)
      PROVE  TeardownOK'
  BY <1>3 DEF EnterSlice, SetSlice, TeardownOK, TypeOK
<1>4. ASSUME NEW t \in Threads, BeginSlice(t)
      PROVE  TeardownOK'
  BY <1>4 DEF BeginSlice, SetSlice, ConsumeWait, TeardownOK, TypeOK
<1>5. ASSUME NEW t \in Threads, RegisterBlocked(t)
      PROVE  TeardownOK'
  BY <1>5 DEF RegisterBlocked, SetSlice, TeardownOK, TypeOK
<1>6. ASSUME NEW t \in Threads, LeaveSlice(t)
      PROVE  TeardownOK'
  BY <1>6 DEF LeaveSlice, ReleaseExecutor, SetSlice, TeardownOK, TypeOK
<1>7. ASSUME NEW t \in Threads, NestedResume(t)
      PROVE  TeardownOK'
  BY <1>7 DEF NestedResume, SetSlice, SetState, ConsumeWait, TeardownOK, TypeOK
<1>8. ASSUME NEW t \in Threads, NestedForced(t)
      PROVE  TeardownOK'
  BY <1>8 DEF NestedForced, SetSlice, TeardownOK, TypeOK
<1>9. ASSUME NEW t \in Threads, Resume(t)
      PROVE  TeardownOK'
  BY <1>9 DEF Resume, SetSlice, TeardownOK, TypeOK
<1>10. ASSUME NEW t \in Threads, StayParked(t)
      PROVE  TeardownOK'
  BY <1>10 DEF StayParked, SetSlice, Parking, SetState, TeardownOK, TypeOK
<1>11. ASSUME NEW t \in Threads, WakeAtPark(t)
      PROVE  TeardownOK'
  BY <1>11 DEF WakeAtPark, SetSlice, Parking, MakeReady, SetState, TeardownOK,
      TypeOK
<1>12. ASSUME NEW t \in Threads, NestedPark(t)
      PROVE  TeardownOK'
  BY <1>12 DEF NestedPark, SetSlice, Parking, SetState, TeardownOK, TypeOK
<1>13. ASSUME NEW t \in Threads, NestedWake(t)
      PROVE  TeardownOK'
  BY <1>13 DEF NestedWake, SetSlice, Parking, SetState, TeardownOK, TypeOK
<1>14. ASSUME NEW t \in Threads, NEW outcome \in {"Exited", "Faulted"},
        EndGuestCode(t, outcome)
      PROVE  TeardownOK'
  BY <1>14 DEF EndGuestCode, SetSlice, SetState, CanCall, InGuestCode, TeardownOK,
      TypeOK
<1>15. ASSUME NEW t \in Threads, NEW w \in NewWaits, RequestBlock(t, w)
      PROVE  TeardownOK'
  BY <1>15 DEF RequestBlock, SetSlice, CanCall, InGuestCode, TeardownOK, TypeOK
<1>16. ASSUME EntryReturn
      PROVE  TeardownOK'
  <2>1. session = "guest"
    BY <1>16, ActorsAssumption DEF EntryReturn, CanCall, InGuestCode
  <2>. QED  BY <1>16, <2>1 DEF EntryReturn, TeardownOK, TypeOK
<1>17. ASSUME RunInline
      PROVE  TeardownOK'
  BY <1>17 DEF RunInline, SetSlice, TeardownOK, TypeOK
<1>18. ASSUME DrainDone
      PROVE  TeardownOK'
  BY <1>18 DEF DrainDone, TeardownOK, TypeOK
<1>19. ASSUME Dispose
      PROVE  TeardownOK'
  BY <1>19 DEF Dispose, TeardownOK, TypeOK
<1>20. ASSUME Quiesce
      PROVE  TeardownOK'
  BY <1>20 DEF Quiesce, SingleExecutor, TableOK, TeardownOK, TypeOK
<1>21. ASSUME LeakSession
      PROVE  TeardownOK'
  BY <1>21 DEF LeakSession, TeardownOK, TypeOK
<1>22. ASSUME ClearGuestThreads
      PROVE  TeardownOK'
  BY <1>22 DEF ClearGuestThreads, TeardownOK, TypeOK
<1>23. ASSUME RequestHostShutdown
      PROVE  TeardownOK'
  BY <1>23 DEF RequestHostShutdown, TeardownOK, TypeOK
<1>24. ASSUME NEW a \in Actors, NEW t \in Threads, WakeWaiter(a, t) \/ PassWaiter(a,
        t) \/ TryStartThread(a, t)
      PROVE  TeardownOK'
  <2>1. UNCHANGED <<exec, session, forcedExit>>
    BY <1>24 DEF WakeWaiter, PassWaiter, TryStartThread
  <2>. QED  BY <2>1 DEF TeardownOK
<1>25. ASSUME NEW a \in Actors, WakeNobody(a) \/ PumpWakeExpired(a) \/ PumpSkip(a)
        \/ PumpEnter(a) \/ ClaimNothing(a) \/ ClaimReady(a) \/ PassHead(a) \/
        Schedule(a) \/ ScheduleDropped(a)
      PROVE  TeardownOK'
  <2>1. UNCHANGED <<exec, session, forcedExit>>
    BY <1>25 DEF WakeNobody, PumpWakeExpired, PumpSkip, PumpEnter, ClaimNothing,
        ClaimReady, PassHead, Schedule, ScheduleDropped
  <2>. QED  BY <2>1 DEF TeardownOK
<1>26. ASSUME NEW a \in Actors, NEW k \in Keys, NEW n \in WakeLimits, CallWake(a, k,
        n)
      PROVE  TeardownOK'
  <2>1. UNCHANGED <<exec, session, forcedExit>>
    BY <1>26 DEF CallWake
  <2>. QED  BY <2>1 DEF TeardownOK
<1>27. ASSUME NEW t \in Threads, EnterCallback(t) \/ LeaveCallback(t) \/
        PollExpired(t)
      PROVE  TeardownOK'
  <2>1. UNCHANGED <<exec, session, forcedExit>>
    BY <1>27 DEF EnterCallback, LeaveCallback, PollExpired
  <2>. QED  BY <2>1 DEF TeardownOK
<1>28. ASSUME NEW S \in SUBSET Expirable, TickerWake(S)
      PROVE  TeardownOK'
  <2>1. UNCHANGED <<exec, session, forcedExit>>
    BY <1>28 DEF TickerWake
  <2>. QED  BY <2>1 DEF TeardownOK
<1>29. ASSUME (\E a \in Actors : CallPump(a)) \/ TickerPump \/ DispatchTick \/ DrainPump \/ Over
      PROVE  TeardownOK'
  <2>1. UNCHANGED <<exec, session, forcedExit>>
    BY <1>29 DEF CallPump, TickerPump, DispatchTick, DrainPump, Over, vars
  <2>. QED  BY <2>1 DEF TeardownOK
<1>30. CASE UNCHANGED vars
  BY <1>30 DEF vars, TeardownOK
<1>. QED  BY <1>1, <1>2, <1>3, <1>4, <1>5, <1>6, <1>7, <1>8, <1>9, <1>10, <1>11,
      <1>12, <1>13, <1>14, <1>15, <1>16, <1>17, <1>18, <1>19, <1>20, <1>21, <1>22,
      <1>23, <1>24, <1>25, <1>26, <1>27, <1>28, <1>29, <1>30 DEF Next, ActorStep,
      LoopStep, SliceStep, RunnerStep, GuestStep, BackgroundStep, SessionStep

-----------------------------------------------------------------------------
\* The inductive invariant: types, who executes a thread, and how the session ends.
IInv ==
    /\ TypeOK /\ CallOK /\ WaitOK
    /\ SingleExecutor
    /\ LeavingOK /\ ParkedIsWakeable /\ TokenNotLost
    /\ TerminalOK
    /\ TableOK /\ TeardownOK

\* It holds at first.
LEMMA SafetyInit == Init => IInv
<1>. SUFFICES ASSUME Init PROVE IInv
  OBVIOUS
<1>1. TypeOK /\ CallOK /\ WaitOK
  BY TypeInit
<1>2. SingleExecutor
  BY ActorsAssumption DEF Init, SingleExecutor
<1>3. LeavingOK /\ ParkedIsWakeable /\ TokenNotLost /\ TerminalOK
  BY ActorsAssumption DEF Init, LeavingOK, ParkedIsWakeable, TokenNotLost, TerminalOK
<1>4. TableOK /\ TeardownOK
  BY DEF Init, TableOK, TeardownOK
<1>. QED  BY <1>1, <1>2, <1>3, <1>4 DEF IInv

\* Every step keeps it.
LEMMA SafetyStep == IInv /\ [Next]_vars => IInv'
  BY TypeStep, CallStep, WaitStep, ExecutorStep, TokenStep, TerminalStep, TableStep,
     TeardownStep DEF IInv

\* The inductive invariant holds in every reachable state.
THEOREM Safety == Spec => []IInv
  BY SafetyInit, SafetyStep, PTL DEF Spec

\* ExecutorActive is a single-owner token: no guest thread is ever executed by
\* two host threads, and neither InvalidOperationException of Schedule and
\* RunGuestThread is ever thrown.
THEOREM OneExecutor == Spec => []SingleExecutor
<1>1. IInv => SingleExecutor
  BY DEF IInv
<1>. QED  BY <1>1, Safety, PTL

\* ExecutorActive is cleared by the last holder of the token and by no other, so
\* no thread stays claimed with nobody to run it.
THEOREM ExecutorNotLost == Spec => []TokenNotLost
<1>1. IInv => TokenNotLost
  BY DEF IInv
<1>. QED  BY <1>1, Safety, PTL

\* A thread gives its executor back as Blocked only after its continuation has
\* been registered, so WakeBlockedThreads can see it.
THEOREM BlockedIsWakeable == Spec => []ParkedIsWakeable
<1>1. IInv => ParkedIsWakeable
  BY DEF IInv
<1>. QED  BY <1>1, Safety, PTL

\* Dispose frees guest memory only when no executor can be in guest code again.
THEOREM TeardownIsSafe == Spec => []NoGuestCodeAfterTeardown
<1>1. IInv => NoGuestCodeAfterTeardown
  BY DEF IInv, TeardownOK, NoGuestCodeAfterTeardown
<1>. QED  BY <1>1, Safety, PTL

\* No wake, expiry, stale queue entry or late claim revives a finished thread.
THEOREM FinishedStaysFinished == Spec => TerminalIsFinal
<1>1. IInv /\ [Next]_vars =>
        [\A t \in Threads : state[t] \in {"Exited", "Faulted"} => state'[t] = state[t]]_vars
  BY TerminalStep DEF IInv
<1>. QED  BY <1>1, Safety, PTL DEF Spec, TerminalIsFinal

-----------------------------------------------------------------------------
Queued(q, t) == \E i \in DOMAIN q : q[i] = t

\* Appending to a queue keeps its members and adds one.
LEMMA QueueAppend ==
    ASSUME NEW q \in Seq(Threads), NEW t \in Threads
    PROVE  \A u \in Threads : Queued(q, u) \/ u = t => Queued(Append(q, t), u)
<1>. SUFFICES ASSUME NEW u \in Threads, Queued(q, u) \/ u = t
              PROVE  Queued(Append(q, t), u)
  OBVIOUS
<1>1. CASE Queued(q, u)
  <2>1. PICK i \in DOMAIN q : q[i] = u
    BY <1>1 DEF Queued
  <2>2. i \in DOMAIN Append(q, t) /\ Append(q, t)[i] = u
    BY <2>1
  <2>. QED  BY <2>2 DEF Queued
<1>2. CASE u = t
  <2>1. Len(q) + 1 \in DOMAIN Append(q, t) /\ Append(q, t)[Len(q) + 1] = t
    OBVIOUS
  <2>. QED  BY <1>2, <2>1 DEF Queued
<1>. QED  BY <1>1, <1>2

\* Removing the head keeps every other member.
LEMMA QueueTail ==
    ASSUME NEW q \in Seq(Threads), q # <<>>
    PROVE  \A u \in Threads : Queued(q, u) /\ u # Head(q) => Queued(Tail(q), u)
<1>. SUFFICES ASSUME NEW u \in Threads, Queued(q, u), u # Head(q)
              PROVE  Queued(Tail(q), u)
  OBVIOUS
<1>1. PICK i \in DOMAIN q : q[i] = u
  BY DEF Queued
<1>2. i \in 2..Len(q)
  BY <1>1
<1>3. i - 1 \in DOMAIN Tail(q) /\ Tail(q)[i - 1] = u
  BY <1>1, <1>2
<1>. QED  BY <1>3 DEF Queued

\* WakeExpiredBlockedGuestThreads enqueues every thread it makes Ready.
LEMMA QueueExpired ==
    ASSUME TypeOK, NEW S \in SUBSET Expirable, WakeExpired(S)
    PROVE  \A u \in Threads : Queued(readyQueue, u) \/ u \in S => Queued(readyQueue', u)
<1>1. S \subseteq Threads
  BY DEF Expirable
<1>2. PICK order \in Orderings(S) : readyQueue' = readyQueue \o order
  BY DEF WakeExpired
<1>3. order \in Seq(Threads)
  BY <1>1, OrderingType
<1>. SUFFICES ASSUME NEW u \in Threads, Queued(readyQueue, u) \/ u \in S
              PROVE  Queued(readyQueue', u)
  OBVIOUS
<1>4. CASE Queued(readyQueue, u)
  <2>1. PICK i \in DOMAIN readyQueue : readyQueue[i] = u
    BY <1>4 DEF Queued
  <2>2. i \in DOMAIN readyQueue' /\ readyQueue'[i] = u
    BY <1>2, <1>3, <2>1 DEF TypeOK
  <2>. QED  BY <2>2 DEF Queued
<1>5. CASE u \in S
  <2>1. PICK i \in DOMAIN order : order[i] = u
    BY <1>2, <1>5 DEF Orderings
  <2>2. /\ Len(readyQueue) + i \in DOMAIN readyQueue'
        /\ readyQueue'[Len(readyQueue) + i] = u
    BY <1>2, <1>3, <2>1 DEF TypeOK
  <2>. QED  BY <2>2 DEF Queued
<1>. QED  BY <1>4, <1>5

\* A Ready thread that nobody polls for is in the queue.
LEMMA StrandedStep ==
    ASSUME TypeOK, SingleExecutor, NoStrandedReady, [Next]_vars
    PROVE  NoStrandedReady'
<1>1. ASSUME NEW a \in Actors, NEW t \in Threads, WakeWaiter(a, t)
      PROVE  NoStrandedReady'
  <2>1. \A u \in Threads : Queued(readyQueue, u) \/ u = t => Queued(readyQueue', u)
    BY <1>1, QueueAppend DEF WakeWaiter, MakeReady, TypeOK
  <2>. QED  BY <1>1, <2>1 DEF WakeWaiter, MakeReady, SetState, NoStrandedReady,
        Queued, TypeOK
<1>2. ASSUME NEW a \in Actors, PumpWakeExpired(a)
      PROVE  NoStrandedReady'
  <2>1. PICK S \in SUBSET Expirable : WakeExpired(S)
    BY <1>2 DEF PumpWakeExpired
  <2>2. \A u \in Threads : Queued(readyQueue, u) \/ u \in S => Queued(readyQueue', u)
    BY <1>2, <2>1, QueueExpired
  <2>. QED  BY <1>2, <2>1, <2>2 DEF PumpWakeExpired, WakeExpired, Expirable,
        NoStrandedReady, Queued, TypeOK
<1>3. ASSUME NEW a \in Actors, ClaimReady(a)
      PROVE  NoStrandedReady'
  <2>1. Head(readyQueue) \in Threads
    BY <1>3 DEF ClaimReady, TypeOK
  <2>2. \A u \in Threads : Queued(readyQueue, u) /\ u # Head(readyQueue) => Queued(readyQueue', u)
    BY <1>3, QueueTail DEF ClaimReady, TypeOK
  <2>. QED  BY <1>3, <2>1, <2>2 DEF ClaimReady, SetState, NoStrandedReady, Queued,
        TypeOK
<1>4. ASSUME NEW a \in Actors, PassHead(a)
      PROVE  NoStrandedReady'
  <2>1. Head(readyQueue) \in Threads /\ Tail(readyQueue) \in Seq(Threads)
    BY <1>4 DEF PassHead, TypeOK
  <2>2. \A u \in Threads : Queued(readyQueue, u) /\ u # Head(readyQueue) => Queued(Tail(readyQueue), u)
    BY <1>4, QueueTail DEF PassHead, TypeOK
  <2>3. \A u \in Threads : Queued(readyQueue, u) /\ state[u] = "Ready" => Queued(readyQueue', u)
    BY <1>4, <2>1, <2>2, QueueAppend DEF PassHead
  <2>. QED  BY <1>4, <2>1, <2>2, <2>3 DEF PassHead, NoStrandedReady, Queued, TypeOK
<1>5. ASSUME NEW a \in Actors, NEW t \in Threads, TryStartThread(a, t)
      PROVE  NoStrandedReady'
  <2>1. \A u \in Threads : Queued(readyQueue, u) \/ u = t => Queued(readyQueue', u)
    BY <1>5, QueueAppend DEF TryStartThread, TypeOK
  <2>. QED  BY ZenonT(40), <1>5, <2>1 DEF TryStartThread, SetState, NoStrandedReady, Queued,
        TypeOK
<1>6. ASSUME NEW t \in Threads, TakeWork(t)
      PROVE  NoStrandedReady'
  BY <1>6 DEF TakeWork, SetSlice, NoStrandedReady, Queued, TypeOK
<1>7. ASSUME NEW t \in Threads, RefuseSlice(t)
      PROVE  NoStrandedReady'
  BY <1>7 DEF RefuseSlice, ReleaseExecutor, SetSlice, SetState, NoStrandedReady,
      Queued, TypeOK
<1>8. ASSUME NEW t \in Threads, EnterSlice(t)
      PROVE  NoStrandedReady'
  BY <1>8 DEF EnterSlice, SetSlice, NoStrandedReady, Queued, TypeOK
<1>9. ASSUME NEW t \in Threads, BeginSlice(t)
      PROVE  NoStrandedReady'
  BY <1>9 DEF BeginSlice, SetSlice, ConsumeWait, NoStrandedReady, Queued, TypeOK
<1>10. ASSUME NEW t \in Threads, RegisterBlocked(t)
      PROVE  NoStrandedReady'
  BY <1>10 DEF RegisterBlocked, SetSlice, NoStrandedReady, Queued, TypeOK
<1>11. ASSUME NEW t \in Threads, LeaveSlice(t)
      PROVE  NoStrandedReady'
  BY <1>11 DEF LeaveSlice, ReleaseExecutor, SetSlice, NoStrandedReady, Queued,
      TypeOK
<1>12. ASSUME NEW t \in Threads, NestedResume(t)
      PROVE  NoStrandedReady'
  BY <1>12 DEF NestedResume, SetSlice, SetState, ConsumeWait, NoStrandedReady,
      Queued, TypeOK
<1>13. ASSUME NEW t \in Threads, NestedForced(t)
      PROVE  NoStrandedReady'
  BY <1>13 DEF NestedForced, SetSlice, NoStrandedReady, Queued, TypeOK
<1>14. ASSUME NEW t \in Threads, Resume(t)
      PROVE  NoStrandedReady'
  BY <1>14 DEF Resume, SetSlice, NoStrandedReady, Queued, TypeOK
<1>15. ASSUME NEW t \in Threads, StayParked(t)
      PROVE  NoStrandedReady'
  BY <1>15 DEF StayParked, SetSlice, Parking, SetState, NoStrandedReady, Queued,
      TypeOK
<1>16. ASSUME NEW t \in Threads, WakeAtPark(t)
      PROVE  NoStrandedReady'
  <2>1. \A u \in Threads : Queued(readyQueue, u) \/ u = t => Queued(readyQueue', u)
    BY <1>16, QueueAppend DEF WakeAtPark, MakeReady, TypeOK
  <2>. QED  BY <1>16, <2>1 DEF WakeAtPark, SetSlice, Parking, MakeReady, SetState,
        NoStrandedReady, Queued, TypeOK
<1>17. ASSUME NEW t \in Threads, NestedPark(t)
      PROVE  NoStrandedReady'
  BY <1>17 DEF NestedPark, SetSlice, Parking, SetState, NoStrandedReady, Queued,
      TypeOK
<1>18. ASSUME NEW t \in Threads, NestedWake(t)
      PROVE  NoStrandedReady'
  BY <1>18 DEF NestedWake, SetSlice, Parking, SetState, NoStrandedReady, Queued,
      TypeOK
<1>19. ASSUME NEW t \in Threads, NEW outcome \in {"Exited", "Faulted"},
        EndGuestCode(t, outcome)
      PROVE  NoStrandedReady'
  BY <1>19 DEF EndGuestCode, SetSlice, SetState, CanCall, InGuestCode,
      NoStrandedReady, Queued, TypeOK
<1>20. ASSUME NEW t \in Threads, NEW w \in NewWaits, RequestBlock(t, w)
      PROVE  NoStrandedReady'
  BY <1>20 DEF RequestBlock, SetSlice, CanCall, InGuestCode, NoStrandedReady,
      Queued, TypeOK
<1>21. ASSUME NEW t \in Threads, PollExpired(t)
      PROVE  NoStrandedReady'
  <2>1. PICK S \in SUBSET Expirable : WakeExpired(S)
    BY <1>21 DEF PollExpired
  <2>2. \A u \in Threads : Queued(readyQueue, u) \/ u \in S => Queued(readyQueue', u)
    BY <1>21, <2>1, QueueExpired
  <2>. QED  BY <1>21, <2>1, <2>2 DEF PollExpired, WakeExpired, Expirable,
        NoStrandedReady, Queued, TypeOK
<1>22. ASSUME NEW S \in SUBSET Expirable, TickerWake(S)
      PROVE  NoStrandedReady'
  <2>1. WakeExpired(S)
    BY <1>22 DEF TickerWake
  <2>2. \A u \in Threads : Queued(readyQueue, u) \/ u \in S => Queued(readyQueue', u)
    BY <1>22, <2>1, QueueExpired
  <2>. QED  BY <1>22, <2>1, <2>2 DEF TickerWake, WakeExpired, Expirable,
        NoStrandedReady, Queued, TypeOK
<1>23. ASSUME RunInline
      PROVE  NoStrandedReady'
  <2>1. Main \in Actors /\ exec[claimed[Main]] = "off"
    BY <1>23 DEF RunInline, Actors, SingleExecutor, TypeOK
  <2>. QED  BY <1>23, <2>1 DEF RunInline, SetSlice, NoStrandedReady, Queued, TypeOK
<1>24. ASSUME Dispose
      PROVE  NoStrandedReady'
  BY <1>24 DEF Dispose, NoStrandedReady, Queued, TypeOK
<1>25. ASSUME ClearGuestThreads
      PROVE  NoStrandedReady'
  BY <1>25 DEF ClearGuestThreads, NoStrandedReady, Queued, TypeOK
<1>26. ASSUME RequestHostShutdown
      PROVE  NoStrandedReady'
  BY <1>26 DEF RequestHostShutdown, NoStrandedReady, Queued, TypeOK
<1>27. ASSUME NEW a \in Actors, NEW t \in Threads, PassWaiter(a, t)
      PROVE  NoStrandedReady'
  <2>1. UNCHANGED <<state, exec, guestThreads, readyQueue, forcedExit>>
    BY <1>27 DEF PassWaiter
  <2>. QED  BY <2>1 DEF NoStrandedReady
<1>28. ASSUME NEW a \in Actors, WakeNobody(a) \/ PumpSkip(a) \/ PumpEnter(a) \/
        ClaimNothing(a) \/ Schedule(a) \/ ScheduleDropped(a)
      PROVE  NoStrandedReady'
  <2>1. UNCHANGED <<state, exec, guestThreads, readyQueue, forcedExit>>
    BY <1>28 DEF WakeNobody, PumpSkip, PumpEnter, ClaimNothing, Schedule,
        ScheduleDropped
  <2>. QED  BY <2>1 DEF NoStrandedReady
<1>29. ASSUME NEW a \in Actors, NEW k \in Keys, NEW n \in WakeLimits, CallWake(a, k,
        n)
      PROVE  NoStrandedReady'
  <2>1. UNCHANGED <<state, exec, guestThreads, readyQueue, forcedExit>>
    BY <1>29 DEF CallWake
  <2>. QED  BY <2>1 DEF NoStrandedReady
<1>30. ASSUME NEW t \in Threads, EnterCallback(t) \/ LeaveCallback(t)
      PROVE  NoStrandedReady'
  <2>1. UNCHANGED <<state, exec, guestThreads, readyQueue, forcedExit>>
    BY <1>30 DEF EnterCallback, LeaveCallback
  <2>. QED  BY <2>1 DEF NoStrandedReady
<1>31. ASSUME (\E a \in Actors : CallPump(a)) \/ TickerPump \/ DispatchTick \/ EntryReturn \/ DrainPump \/ DrainDone \/
        Quiesce \/ LeakSession \/ Over
      PROVE  NoStrandedReady'
  <2>1. UNCHANGED <<state, exec, guestThreads, readyQueue, forcedExit>>
    BY <1>31 DEF CallPump, TickerPump, DispatchTick, EntryReturn, DrainPump, DrainDone,
        Quiesce, LeakSession, Over, vars
  <2>. QED  BY <2>1 DEF NoStrandedReady
<1>32. CASE UNCHANGED vars
  BY <1>32 DEF vars, NoStrandedReady
<1>. QED  BY <1>1, <1>2, <1>3, <1>4, <1>5, <1>6, <1>7, <1>8, <1>9, <1>10, <1>11,
      <1>12, <1>13, <1>14, <1>15, <1>16, <1>17, <1>18, <1>19, <1>20, <1>21, <1>22,
      <1>23, <1>24, <1>25, <1>26, <1>27, <1>28, <1>29, <1>30, <1>31, <1>32 DEF Next,
      ActorStep, LoopStep, SliceStep, RunnerStep, GuestStep, BackgroundStep,
      SessionStep

\* A Ready thread can always be claimed: wherever it was woken, and however the
\* claim loops rotate and drop entries, the queue still holds it.
THEOREM ReadyIsQueued == Spec => []NoStrandedReady
<1>1. Init => NoStrandedReady
  BY DEF Init, NoStrandedReady
<1>2. TypeOK /\ SingleExecutor /\ NoStrandedReady /\ [Next]_vars => NoStrandedReady'
  BY StrandedStep
<1>. QED  BY <1>1, <1>2, TypeCorrect, OneExecutor, PTL DEF Spec

=============================================================================
