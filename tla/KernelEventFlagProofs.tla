------------------------ MODULE KernelEventFlagProofs ------------------------
(***************************************************************************)
(* What holds of the event flags for any threads, flags and conditions:    *)
(* they are a use of the scheduler, their state keeps its types, no set is *)
(* lost, and they implement the abstract flag.                             *)
(***************************************************************************)
EXTENDS KernelEventFlag, GuestSchedulerWakes

USE DEF flagVars, exportVars, GuestActors, Demands

\* The arguments the exports have been called with, and where the main host
\* thread is outside of them
OpOK(o) ==
    /\ o.kind = "set" => o.want \in SetPatterns
    /\ o.kind = "clear" => o.want \in ClearMasks
    /\ o.kind = "cancel" => o.want \in CancelPatterns

OpsOK ==
    /\ \A a \in GuestActors : op[a] # NoOp => OpOK(op[a])
    /\ hostWait # NoOp \/ session # "guest" => op[Main] = NoOp

FlagTypes == FlagTypeOK /\ OpsOK

\* The export a is in, if it is in one
LEMMA OpTypes ==
    ASSUME FlagTypes, NEW a \in GuestActors, op[a] # NoOp
    PROVE  /\ op[a].flag \in Keys /\ op[a].timed \in BOOLEAN
           /\ op[a].kind \in {"wait", "poll"} => op[a].want \in Demands
           /\ op[a].kind \in {"set", "clear", "cancel"} => op[a].want \in SUBSET AllBits
  BY DEF FlagTypes, FlagTypeOK, Ops

\* What a wait asks to block with
LEMMA BlockRequest ==
    ASSUME FlagTypes, NEW t \in Threads, WaitBlock(t)
    PROVE  \E w \in NewWaits : RequestBlock(t, w)
<1>. DEFINE w == [key |-> op[t].flag, timed |-> op[t].timed, waiter |-> op[t].want,
                  granted |-> FALSE]
<1>1. w \in NewWaits
  BY OpTypes DEF WaitBlock, InExport, NewWaits, Waits
<1>2. RequestBlock(t, w)
  BY DEF WaitBlock
<1>. QED  BY <1>1, <1>2

\* The exports act on the scheduler in its own steps only.
LEMMA SchedulerStep ==
    ASSUME FlagTypes, [FlagNext]_allVars
    PROVE  [Next]_vars
<1>1. CASE SchedulerOnly
  BY <1>1, ActorsAssumption DEF SchedulerOnly, Next, SliceStep, Actors
<1>2. CASE \E a \in Actors : FlagActorStep(a)
  BY <1>2 DEF FlagActorStep, FlagWake, FlagPass, Next, ActorStep
<1>3. CASE \E t \in Threads : FlagPark(t) \/ FlagWakeAtPark(t) \/ FlagResume(t)
  BY <1>3 DEF FlagPark, FlagWakeAtPark, FlagResume, Next, SliceStep
<1>4. ASSUME NEW t \in Threads, WaitBlock(t)
      PROVE  [Next]_vars
  BY <1>4, BlockRequest DEF Next
<1>5. ASSUME NEW a \in GuestActors, CallExport(a) \/ FinishExport(a)
      PROVE  [Next]_vars
  <2>1. a \in Actors
    BY DEF Actors
  <2>2. op[a] # NoOp => op[a].flag \in Keys
    BY OpTypes
  <2>. QED  BY <1>5, <2>1, <2>2, EventFlagAssumption DEF CallExport, Export, FinishExport,
            CompleteAtOnce, PollBusy, Set, Clear, Cancel, InExport, Next
<1>6. CASE \E a \in GuestActors, f \in Keys : Create(a, f) \/ Delete(a, f)
  BY <1>6 DEF Create, Delete
<1>7. CASE HostWait \/ HostPump \/ HostComplete \/ HostTimeout \/ HostAgain
  BY <1>7 DEF HostWait, HostPump, HostComplete, HostTimeout, HostAgain, Next, Actors
<1>8. CASE UNCHANGED allVars
  BY <1>8 DEF allVars
<1>. QED  BY <1>1, <1>2, <1>3, <1>4, <1>5, <1>6, <1>7, <1>8 DEF FlagNext

-----------------------------------------------------------------------------
\* Applying a clear mode, a clear and an unchanged flag only take bits away.
BitsShrink == \A f \in Keys : bits'[f] \subseteq bits[f]

LEMMA ClearsBits ==
    ASSUME FlagTypes, NEW f \in Keys, NEW d \in Demands, ApplyClearMode(f, d)
    PROVE  bits' \in [Keys -> SUBSET AllBits] /\ BitsShrink
<1>. DEFINE rest == CASE d.clear = "all" -> {}
                      [] d.clear = "pattern" -> bits[f] \ d.pattern
                      [] d.clear = "none" -> bits[f]
<1>1. bits \in [Keys -> SUBSET AllBits]
  BY DEF FlagTypes, FlagTypeOK
<1>2. d.clear \in {"none", "all", "pattern"}
  BY EventFlagAssumption
<1>3. rest \subseteq bits[f]
  BY <1>2
<1>4. bits' = [bits EXCEPT ![f] = rest]
  BY DEF ApplyClearMode
<1>. HIDE DEF rest
<1>. QED  BY <1>1, <1>3, <1>4 DEF BitsShrink

\* A wait names a flag and its condition.
LEMMA WaitType ==
    ASSUME TypeOK, NEW t \in Threads, wait[t] # NoWait
    PROVE  wait[t].key \in Keys /\ wait[t].waiter \in Demands
  BY DEF TypeOK, Waits

\* The slices of guest threads and the background threads leave the calls of
\* the exports alone, but for the main host thread inside Pump.
LEMMA RunnerCalls ==
    ASSUME IInv, NEW t \in Threads, RunnerStep(t)
    PROVE  pc' = pc \/ (pc[Main] = "inline" /\ \A b \in Actors \ {Main} : pc'[b] = pc[b])
<1>. USE DEF IInv
<1>1. inline # NoThread => pc[Main] = "inline"
  BY DEF CallOK, Actors
<1>2. CASE ReleaseExecutor(t)
  <2>1. CASE inline # t
    BY <1>2, <2>1 DEF ReleaseExecutor
  <2>2. CASE inline = t
    <3>1. inline # NoThread
      BY <2>2, ActorsAssumption, NoneAssumption
    <3>2. \E step : pc' = [pc EXCEPT ![Main] = step]
      BY <1>2, <2>2 DEF ReleaseExecutor, GoTo
    <3>3. \A b \in Actors \ {Main} : pc'[b] = pc[b]
      BY <3>2 DEF TypeOK
    <3>. QED  BY <1>1, <3>1, <3>3
  <2>. QED  BY <2>1, <2>2
<1>3. CASE RefuseSlice(t) \/ LeaveSlice(t)
  BY <1>2, <1>3 DEF RefuseSlice, LeaveSlice
<1>4. CASE \/ TakeWork(t) \/ EnterSlice(t) \/ BeginSlice(t) \/ RegisterBlocked(t)
           \/ NestedResume(t) \/ NestedForced(t)
  BY <1>4 DEF TakeWork, EnterSlice, BeginSlice, RegisterBlocked, NestedResume, NestedForced,
     callVars
<1>. QED  BY <1>3, <1>4 DEF RunnerStep

\* A loop moves its own actor, which is in a call.
LEMMA LoopCalls ==
    ASSUME TypeOK, NEW a \in Actors,
           LoopStep(a) \/ \E t \in Threads : WakeWaiter(a, t) \/ PassWaiter(a, t)
    PROVE  pc[a] # "idle" /\ \A b \in Actors \ {a} : pc'[b] = pc[b]
  BY DEF LoopStep, WakeWaiter, PassWaiter, WakeNobody, Scanning, ContinueScan, PumpWakeExpired,
     PumpSkip, PumpEnter, ClaimNothing, ClaimReady, PassHead, Claiming, LeaveLoop, Schedule,
     ScheduleDropped, EndIteration, GoTo, TypeOK

\* A call begins outside the exports, and the guest entry returns outside of them.
CallsKept ==
    /\ \A a \in GuestActors : pc'[a] # "idle" => pc[a] # "idle" \/ op[a] = NoOp
    /\ session' # "guest" => session # "guest" \/ op[Main] = NoOp

\* Steps that leave the exports alone
LEMMA TypesKept ==
    ASSUME FlagTypes, CallsKept, UNCHANGED <<handles, op, hostWait>>,
           bits' \in [Keys -> SUBSET AllBits]
    PROVE  FlagTypes'
  BY DEF FlagTypes, FlagTypeOK, OpsOK, CallsKept

LEMMA SchedulerCalls ==
    ASSUME FlagTypes, IInv, SchedulerOnly
    PROVE  CallsKept
<1>. USE DEF IInv
<1>1. ASSUME NEW t \in Threads, RunnerStep(t)
      PROVE  CallsKept
  <2>1. session' = session
    BY <1>1 DEF RunnerStep, TakeWork, RefuseSlice, EnterSlice, BeginSlice, RegisterBlocked,
       LeaveSlice, NestedResume, NestedForced, mainVars
  <2>2. \A a \in GuestActors : a \in Actors
    BY DEF Actors
  <2>. QED  BY <1>1, <2>1, <2>2, RunnerCalls DEF CallsKept
<1>2. ASSUME NEW t \in Threads, CanExport(t), GuestStep(t)
      PROVE  CallsKept
  BY <1>2 DEF GuestStep, EndGuestCode, EnterCallback, LeaveCallback, CallsKept, callVars, mainVars
<1>3. ASSUME NEW a \in GuestActors, CanExport(a), CallPump(a) \/ \E t \in Threads : TryStartThread(a, t)
      PROVE  CallsKept
  <2>1. op[a] = NoOp /\ session' = session
    BY <1>3 DEF CallPump, TryStartThread, CanExport, mainVars
  <2>2. \A b \in GuestActors \ {a} : pc'[b] = pc[b]
    BY <1>3 DEF CallPump, TryStartThread, GoTo, TypeOK, Actors
  <2>. QED  BY <2>1, <2>2 DEF CallsKept
<1>4. CASE CanExport(Main) /\ EntryReturn
  BY <1>4 DEF EntryReturn, CanExport, CallsKept, callVars
<1>5. CASE BackgroundStep
  <2>1. \A a \in GuestActors : a \in Actors /\ a # Ticker /\ a # ReadyDispatch
    BY ActorsAssumption DEF Actors
  <2>2. session' = session
    BY <1>5 DEF BackgroundStep, TickerWake, TickerPump, DispatchTick, PollExpired, mainVars
  <2>3. \A a \in GuestActors : pc'[a] = pc[a]
    BY <1>5, <2>1 DEF BackgroundStep, TickerWake, TickerPump, DispatchTick, PollExpired, GoTo,
       TypeOK, callVars
  <2>. QED  BY <2>2, <2>3 DEF CallsKept
<1>6. CASE SessionStep
  <2>1. CASE RunInline \/ DrainPump
    <3>1. session' = session /\ \A a \in GuestActors \ {Main} : pc'[a] = pc[a]
      BY <2>1 DEF RunInline, DrainPump, GoTo, TypeOK, Actors, mainVars
    <3>2. pc[Main] # "idle" \/ op[Main] = NoOp
      BY <2>1 DEF RunInline, DrainPump, FlagTypes, OpsOK
    <3>. QED  BY <3>1, <3>2 DEF CallsKept
  <2>2. CASE DrainDone \/ Dispose \/ Quiesce \/ LeakSession \/ ClearGuestThreads
             \/ RequestHostShutdown \/ Over
    BY <2>2 DEF DrainDone, Dispose, Quiesce, LeakSession, ClearGuestThreads,
       RequestHostShutdown, Over, CallsKept, vars, callVars
  <2>. QED  BY <1>6, <2>1, <2>2 DEF SessionStep
<1>. QED  BY <1>1, <1>2, <1>3, <1>4, <1>5, <1>6 DEF SchedulerOnly

\* An export begins with arguments its guards admit.
LEMMA ExportTypes ==
    ASSUME FlagTypes, IInv, NEW a \in GuestActors, CallExport(a)
    PROVE  FlagTypes'
<1>1. ASSUME NEW o \in Ops, OpOK(o),
             op' = [op EXCEPT ![a] = o], CanExport(a), UNCHANGED <<vars, flagVars, hostWait>>
      PROVE  FlagTypes'
  <2>1. pc' = pc /\ session' = session
    BY <1>1 DEF vars, callVars, mainVars
  <2>2. pc[a] = "idle" /\ (a = Main => hostWait = NoOp /\ session = "guest")
    BY <1>1, ActorsAssumption DEF CanExport, CanCall, InGuestCode
  <2>3. FlagTypeOK'
    BY <1>1, <2>1, <2>2 DEF FlagTypes, FlagTypeOK
  <2>4. OpsOK'
    BY <1>1, <2>1, <2>2 DEF FlagTypes, FlagTypeOK, OpsOK
  <2>. QED  BY <2>3, <2>4 DEF FlagTypes
<1>2. ASSUME NEW kind \in {"wait", "poll"}, NEW f \in Keys, NEW d \in Demands,
             NEW timed \in BOOLEAN, Export(a, kind, f, d, timed)
      PROVE  FlagTypes'
  <2>. DEFINE o == [kind |-> kind, flag |-> f, want |-> d, timed |-> timed]
  <2>1. o \in Ops /\ OpOK(o)
    BY DEF Ops, OpOK
  <2>2. /\ op' = [op EXCEPT ![a] = o] /\ CanExport(a) /\ UNCHANGED <<vars, flagVars, hostWait>>
    BY <1>2 DEF Export
  <2>. HIDE DEF o
  <2>. QED  BY <1>1, <2>1, <2>2
<1>3. ASSUME NEW kind \in {"set", "clear", "cancel"}, NEW f \in Keys, NEW p \in SUBSET AllBits,
             \/ kind = "set" /\ p \in SetPatterns
             \/ kind = "clear" /\ p \in ClearMasks
             \/ kind = "cancel" /\ p \in CancelPatterns,
             Export(a, kind, f, p, FALSE)
      PROVE  FlagTypes'
  <2>. DEFINE o == [kind |-> kind, flag |-> f, want |-> p, timed |-> FALSE]
  <2>1. o \in Ops /\ OpOK(o)
    BY <1>3 DEF Ops, OpOK
  <2>2. /\ op' = [op EXCEPT ![a] = o] /\ CanExport(a) /\ UNCHANGED <<vars, flagVars, hostWait>>
    BY <1>3 DEF Export
  <2>. HIDE DEF o
  <2>. QED  BY <1>1, <2>1, <2>2
<1>4. PICK f \in Keys :
        \/ \E d \in Demands, timed \in BOOLEAN : Export(a, "wait", f, d, timed)
        \/ \E d \in Demands : Export(a, "poll", f, d, FALSE)
        \/ \E p \in SetPatterns : Export(a, "set", f, p, FALSE)
        \/ \E p \in ClearMasks : Export(a, "clear", f, p, FALSE)
        \/ \E p \in CancelPatterns : Export(a, "cancel", f, p, FALSE)
  BY EventFlagAssumption DEF CallExport
<1>5. CASE \/ \E d \in Demands, timed \in BOOLEAN : Export(a, "wait", f, d, timed)
           \/ \E d \in Demands : Export(a, "poll", f, d, FALSE)
  BY <1>2, <1>5
<1>6. CASE \/ \E p \in SetPatterns : Export(a, "set", f, p, FALSE)
           \/ \E p \in ClearMasks : Export(a, "clear", f, p, FALSE)
           \/ \E p \in CancelPatterns : Export(a, "cancel", f, p, FALSE)
  BY <1>3, <1>6, EventFlagAssumption
<1>. QED  BY <1>4, <1>5, <1>6

\* The steps that evaluate the wake handler clear at most bits.
LEMMA HandlerClears ==
    ASSUME FlagTypes, TypeOK, NEW t \in Threads, wait[t] # NoWait,
           Prepare(wait[t]) \/ NotMet(wait[t])
    PROVE  /\ bits' \in [Keys -> SUBSET AllBits] /\ BitsShrink
           /\ UNCHANGED <<handles, op, hostWait>>
<1>1. wait[t].key \in Keys /\ wait[t].waiter \in Demands
  BY WaitType
<1>2. CASE Prepare(wait[t])
  BY <1>1, <1>2, ClearsBits DEF Prepare
<1>3. CASE NotMet(wait[t])
  BY <1>3 DEF NotMet, LeavesFlags, BitsShrink, FlagTypes, FlagTypeOK
<1>. QED  BY <1>2, <1>3

\* An export that ends leaves all other exports alone.
LEMMA EndTypes ==
    ASSUME FlagTypes, NEW a \in GuestActors, EndExport(a), op[a] # NoOp, pc[a] = "idle",
           \A b \in GuestActors \ {a} : pc'[b] = pc[b],
           handles' = handles, session' = session, bits' \in [Keys -> SUBSET AllBits],
           hostWait' = hostWait \/ (hostWait' \in HostWaits /\ a = Main)
    PROVE  FlagTypes'
<1>1. op' = [op EXCEPT ![a] = NoOp]
  BY DEF EndExport
<1>2. FlagTypeOK'
  BY <1>1 DEF FlagTypes, FlagTypeOK
<1>3. OpsOK'
  BY <1>1, ActorsAssumption DEF FlagTypes, FlagTypeOK, OpsOK
<1>. QED  BY <1>2, <1>3 DEF FlagTypes

\* Every step keeps the types and where the exports are.
LEMMA FlagTypesStep ==
    ASSUME FlagTypes, IInv, [FlagNext]_allVars
    PROVE  FlagTypes'
<1>. USE DEF IInv
<1>0. bits \in [Keys -> SUBSET AllBits]
  BY DEF FlagTypes, FlagTypeOK
<1>1. CASE SchedulerOnly
  <2>1. UNCHANGED <<handles, bits, op, hostWait>>
    BY <1>1 DEF SchedulerOnly, LeavesFlags
  <2>. QED  BY <1>0, <1>1, <2>1, SchedulerCalls, TypesKept
<1>2. ASSUME NEW a \in Actors, FlagActorStep(a)
      PROVE  FlagTypes'
  <2>1. LoopStep(a) \/ \E t \in Threads : WakeWaiter(a, t) \/ PassWaiter(a, t)
    BY <1>2 DEF FlagActorStep, FlagWake, FlagPass
  <2>2. session' = session
    BY <2>1 DEF LoopStep, WakeWaiter, PassWaiter, WakeNobody, PumpWakeExpired, PumpSkip,
       PumpEnter, ClaimNothing, ClaimReady, PassHead, Schedule, ScheduleDropped, mainVars
  <2>3. CallsKept
    BY <2>1, <2>2, LoopCalls DEF CallsKept, Actors
  <2>4. CASE LeavesFlags
    BY <1>0, <2>3, <2>4, TypesKept DEF LeavesFlags
  <2>5. ASSUME NEW t \in Threads, FlagWake(a, t) \/ FlagPass(a, t)
        PROVE  FlagTypes'
    <3>1. wait[t] # NoWait
      BY <2>5 DEF FlagWake, FlagPass, WakeWaiter, PassWaiter, Candidates, WaitOK, ParkedOn,
         Parked
    <3>. QED  BY <2>3, <2>5, <3>1, HandlerClears, TypesKept DEF FlagWake, FlagPass
  <2>. QED  BY <1>2, <2>4, <2>5 DEF FlagActorStep
<1>3. ASSUME NEW t \in Threads, FlagPark(t) \/ FlagWakeAtPark(t)
      PROVE  FlagTypes'
  <2>1. wait[t] # NoWait
    BY <1>3 DEF FlagPark, FlagWakeAtPark, StayParked, NestedPark, WakeAtPark, NestedWake,
       Parking, WaitOK
  <2>2. CallsKept
    BY <1>3 DEF FlagPark, FlagWakeAtPark, StayParked, NestedPark, WakeAtPark, NestedWake,
       CallsKept, callVars, mainVars
  <2>. QED  BY <1>3, <2>1, <2>2, HandlerClears, TypesKept DEF FlagPark, FlagWakeAtPark
<1>4. ASSUME NEW t \in Threads, FlagResume(t)
      PROVE  FlagTypes'
  <2>1. CallsKept /\ UNCHANGED <<handles, bits, op, hostWait>>
    BY <1>4 DEF FlagResume, LeavesFlags, Resume, CallsKept, callVars, mainVars
  <2>. QED  BY <1>0, <2>1, TypesKept
<1>5. ASSUME NEW t \in Threads, WaitBlock(t)
      PROVE  FlagTypes'
  <2>1. pc' = pc /\ session' = session
    BY <1>5 DEF WaitBlock, RequestBlock, callVars, mainVars
  <2>. QED  BY <1>0, <1>5, <2>1, EndTypes DEF WaitBlock, InExport
<1>6. ASSUME NEW a \in GuestActors, CallExport(a)
      PROVE  FlagTypes'
  BY <1>6, ExportTypes
<1>7. ASSUME NEW a \in GuestActors, FinishExport(a)
      PROVE  FlagTypes'
  <2>1. op[a] # NoOp /\ pc[a] = "idle" /\ EndExport(a) /\ UNCHANGED <<handles, hostWait>>
    BY <1>7 DEF FinishExport, CompleteAtOnce, PollBusy, Set, Clear, Cancel, InExport
  <2>2. \/ pc' = pc
        \/ pc' = [pc EXCEPT ![a] = "wake"]
    BY <1>7 DEF FinishExport, CompleteAtOnce, PollBusy, Set, Clear, Cancel, CallWake, GoTo,
       vars, callVars
  <2>3. \A b \in GuestActors \ {a} : pc'[b] = pc[b]
    BY <2>2 DEF TypeOK, Actors
  <2>4. session' = session
    BY <1>7 DEF FinishExport, CompleteAtOnce, PollBusy, Set, Clear, Cancel, CallWake, vars,
       mainVars
  <2>5. bits' \in [Keys -> SUBSET AllBits]
    <3>1. CASE CompleteAtOnce(a)
      BY <3>1, OpTypes, ClearsBits DEF CompleteAtOnce, InExport
    <3>2. CASE PollBusy(a)
      BY <1>0, <3>2 DEF PollBusy
    <3>3. CASE Set(a) \/ Clear(a) \/ Cancel(a)
      <4>1. op[a].flag \in Keys /\ op[a].want \in SUBSET AllBits
        BY <3>3, OpTypes DEF Set, Clear, Cancel, InExport
      <4>. QED  BY <1>0, <3>3, <4>1 DEF Set, Clear, Cancel
    <3>. QED  BY <1>7, <3>1, <3>2, <3>3 DEF FinishExport
  <2>. QED  BY <2>1, <2>3, <2>4, <2>5, EndTypes
<1>8. ASSUME NEW a \in GuestActors, NEW f \in Keys, Create(a, f) \/ Delete(a, f)
      PROVE  FlagTypes'
  <2>1. UNCHANGED <<pc, session, bits, op, hostWait>>
    BY <1>8 DEF Create, Delete, vars, callVars, mainVars
  <2>. QED  BY <1>8, <2>1 DEF Create, Delete, FlagTypes, FlagTypeOK, OpsOK
<1>9. CASE HostWait
  <2>1. UNCHANGED <<pc, session, handles, bits>>
    BY <1>9 DEF HostWait, vars, callVars, mainVars
  <2>2. op[Main] # NoOp /\ pc[Main] = "idle" /\ op[Main].kind = "wait" /\ EndExport(Main)
    BY <1>9 DEF HostWait, InExport
  <2>3. hostWait' \in HostWaits
    BY <1>9, <2>2, OpTypes DEF HostWait, HostWaits
  <2>. QED  BY <1>0, <2>1, <2>2, <2>3, EndTypes
<1>10. CASE HostPump \/ HostComplete \/ HostTimeout \/ HostAgain
  <2>1. /\ hostWait \in HostWaits /\ hostWait # NoOp /\ op[Main] = NoOp
        /\ hostWait.flag \in Keys /\ hostWait.want \in Demands
    BY <1>10 DEF HostPump, HostComplete, HostTimeout, HostAgain, HostLooks, FlagTypes,
       FlagTypeOK, OpsOK, HostWaits
  <2>2. hostWait' \in HostWaits \cup {NoOp} /\ UNCHANGED <<handles, op>>
    BY <1>10, <2>1 DEF HostPump, HostComplete, HostTimeout, HostAgain, HostWaits
  <2>3. bits' \in [Keys -> SUBSET AllBits]
    BY <1>0, <1>10, <2>1, ClearsBits DEF HostPump, HostComplete, HostTimeout, HostAgain
  <2>4. session' = session /\ \A a \in GuestActors \ {Main} : pc'[a] = pc[a]
    BY <1>10 DEF HostPump, HostComplete, HostTimeout, HostAgain, CallPump, GoTo, TypeOK,
       Actors, vars, callVars, mainVars
  <2>. QED  BY <2>1, <2>2, <2>3, <2>4 DEF FlagTypes, FlagTypeOK, OpsOK
<1>11. CASE UNCHANGED allVars
  BY <1>11 DEF allVars, vars, callVars, mainVars, FlagTypes, FlagTypeOK, OpsOK
<1>. QED  BY <1>1, <1>2, <1>3, <1>4, <1>5, <1>6, <1>7, <1>8, <1>9, <1>10, <1>11
          DEF FlagNext

\* It all holds at first.
LEMMA FlagTypesInit == FlagInit => FlagTypes /\ IInv
  BY EventFlagAssumption, SafetyInit DEF FlagInit, Init, FlagTypes, FlagTypeOK, OpsOK, Actors

\* The event flags live by the scheduler's rules: every behaviour of the guest
\* with event flags is one of the scheduler, so that whatever holds of it holds here.
THEOREM RunsScheduler == FlagSpec => Spec
<1>1. FlagInit => Init
  BY DEF FlagInit
<1>2. FlagTypes /\ IInv /\ [FlagNext]_allVars => [Next]_vars /\ (FlagTypes /\ IInv)'
  BY SchedulerStep, FlagTypesStep, SafetyStep
<1>. QED  BY <1>1, <1>2, FlagTypesInit, PTL DEF FlagSpec, Spec

\* Handles, bits and exports keep their types, and whoever wakes the waiters of a
\* flag or pumps, the host's wait loop too, has left every lock of a flag.
THEOREM FlagTypeCorrect == FlagSpec => []FlagTypeOK
<1>1. FlagTypes /\ IInv /\ [FlagNext]_allVars => (FlagTypes /\ IInv)'
  BY SchedulerStep, FlagTypesStep, SafetyStep
<1>. QED  BY <1>1, FlagTypesInit, PTL DEF FlagSpec, FlagTypes

-----------------------------------------------------------------------------
(* No set is lost *)

\* A condition that holds with fewer bits holds with more.
LEMMA MoreBits ==
    ASSUME TypeOK, BitsShrink, NEW t \in Threads, wait[t] # NoWait, wait'[t] = wait[t],
           Met(wait[t])'
    PROVE  Met(wait[t])
<1>1. bits'[wait[t].key] \subseteq bits[wait[t].key]
  BY WaitType DEF BitsShrink
<1>. QED  BY <1>1 DEF Met, IsSatisfied, Satisfies

\* What NoLostSet says of one thread
Covered(t) == SetIsComing(wait[t].key, t) \/ CancelSatisfies(wait[t].waiter)

\* A thread that stays parked keeps its cover if the wake that covers it stays
\* and keeps it as a candidate.
LEMMA CoverKept ==
    ASSUME NEW t \in Threads, Covered(t), wait'[t] = wait[t],
           \A b \in GuestActors :
               pc[b] = "wake" /\ call[b].key = wait[t].key /\ t \in Candidates(b) =>
               pc'[b] = "wake" /\ call'[b].key = wait[t].key /\ t \in Candidates(b)'
    PROVE  Covered(t)'
<1>1. CASE CancelSatisfies(wait[t].waiter)
  BY <1>1 DEF Covered, CancelSatisfies
<1>2. CASE SetIsComing(wait[t].key, t)
  <2>1. PICK b \in GuestActors : pc[b] = "wake" /\ call[b].key = wait[t].key /\ t \in Candidates(b)
    BY <1>2 DEF SetIsComing
  <2>. QED  BY <2>1 DEF Covered, SetIsComing
<1>. QED  BY <1>1, <1>2 DEF Covered

\* A step that parks nobody, touches no wake and adds no bit loses no set.
LEMMA QuietKeeps ==
    ASSUME FlagTypes, TypeOK, LimitOK, NoLostSet, [Next]_vars,
           WakesStay, ~forcedExit => NobodyParks, BitsShrink
    PROVE  LimitOK' /\ NoLostSet'
<1>1. LimitOK'
  BY DEF LimitOK, WakesStay
<1>2. ASSUME ~forcedExit', NEW t \in Threads, Parked(t)', Met(wait[t])'
      PROVE  Covered(t)'
  <2>1. ~forcedExit /\ Parked(t) /\ wait'[t] = wait[t]
    BY <1>2, ForcedStays DEF NobodyParks
  <2>2. Covered(t)
    BY <1>2, <2>1, MoreBits DEF NoLostSet, Covered, Parked
  <2>3. ASSUME NEW b \in GuestActors, pc[b] = "wake", call[b].key = wait[t].key,
               t \in Candidates(b)
        PROVE  pc'[b] = "wake" /\ call'[b].key = wait[t].key /\ t \in Candidates(b)'
    <3>1. /\ pc'[b] = "wake" /\ call'[b] = call[b] /\ (gate' = b <=> gate = b)
          /\ todo' = todo
      BY <2>3 DEF WakesStay, Actors
    <3>2. t \in ParkedOn(call[b].key)'
      BY <1>2, <2>1, <2>3, <3>1 DEF ParkedOn
    <3>. QED  BY <2>3, <3>1, <3>2 DEF Candidates
  <2>. QED  BY <2>1, <2>2, <2>3, CoverKept
<1>. QED  BY <1>1, <1>2 DEF NoLostSet, Covered

\* A step that leaves the scheduler alone and adds no bit, likewise.
LEMMA StillKeeps ==
    ASSUME FlagTypes, TypeOK, LimitOK, NoLostSet, UNCHANGED vars, BitsShrink
    PROVE  LimitOK' /\ NoLostSet'
<1>1. WakesStay /\ NobodyParks
  <2>1. UNCHANGED <<guestThreads, state, wait, gate, todo, pc, call>>
    BY DEF vars, tableVars, gateVars, callVars
  <2>. QED  BY <2>1 DEF WakesStay, NobodyParks, Parked
<1>. QED  BY <1>1, QuietKeeps

\* Cancel sets bits and wakes nobody: a thread they satisfy is one that a cancel
\* satisfies.
LEMMA CancelKeeps ==
    ASSUME FlagTypes, TypeOK, LimitOK, NoLostSet, NEW a \in GuestActors, Cancel(a)
    PROVE  LimitOK' /\ NoLostSet'
<1>1. UNCHANGED <<guestThreads, state, wait, gate, todo, pc, call, forcedExit>>
  BY DEF Cancel, vars, tableVars, gateVars, callVars, mainVars
<1>2. LimitOK'
  BY <1>1 DEF LimitOK
<1>3. op[a].flag \in Keys /\ op[a].want \in CancelPatterns
  BY OpTypes DEF Cancel, InExport, FlagTypes, OpsOK, OpOK
<1>4. ASSUME ~forcedExit', NEW t \in Threads, Parked(t)', Met(wait[t])'
      PROVE  Covered(t)'
  <2>1. ~forcedExit /\ Parked(t) /\ wait'[t] = wait[t]
    BY <1>1, <1>4 DEF Parked
  <2>2. wait[t].key \in Keys
    BY <2>1, WaitType DEF Parked
  <2>3. CASE wait[t].key = op[a].flag
    <3>1. bits'[wait[t].key] = op[a].want
      BY <1>3, <2>3 DEF Cancel, FlagTypes, FlagTypeOK
    <3>2. Satisfies(op[a].want, wait[t].waiter)
      BY <1>1, <1>4, <3>1 DEF Met, IsSatisfied
    <3>3. CancelSatisfies(wait[t].waiter)
      BY <1>3, <3>2 DEF CancelSatisfies
    <3>. QED  BY <1>1, <3>3 DEF Covered, CancelSatisfies
  <2>4. CASE wait[t].key # op[a].flag
    <3>1. bits'[wait[t].key] = bits[wait[t].key]
      BY <2>2, <2>4 DEF Cancel, FlagTypes, FlagTypeOK
    <3>2. Covered(t)
      BY <1>1, <1>4, <2>1, <3>1 DEF NoLostSet, Covered, Met, IsSatisfied
    <3>3. \A b \in GuestActors : t \in Candidates(b) => t \in Candidates(b)'
      BY <1>1 DEF Candidates, ParkedOn, Parked
    <3>. QED  BY <1>1, <2>1, <3>2, <3>3, CoverKept
  <2>. QED  BY <2>3, <2>4
<1>. QED  BY <1>2, <1>4 DEF NoLostSet, Covered

\* Set adds bits and begins the wake for them in the same step.
LEMMA SetKeeps ==
    ASSUME FlagTypes, IInv, LimitOK, NoLostSet, NEW a \in GuestActors, Set(a)
    PROVE  LimitOK' /\ NoLostSet'
<1>. USE DEF IInv
<1>. DEFINE f == op[a].flag
<1>1. /\ a \in Actors /\ f \in Keys /\ Cardinality(Threads) \in Nat \ {0}
      /\ Cardinality(Threads) \in WakeLimits /\ CallWake(a, f, Cardinality(Threads))
  BY OpTypes, EventFlagAssumption, BoundsAssumption DEF Set, InExport, Actors
<1>2. /\ pc[a] # "wake" /\ pc'[a] = "wake"
      /\ call'[a] = [key |-> f, limit |-> Cardinality(Threads)]
      /\ gate # a /\ gate' = gate /\ todo' = todo
      /\ \A u \in Threads : Parked(u)' => Parked(u) /\ wait'[u] = wait[u]
      /\ \A b \in Actors \ {a} : pc'[b] = pc[b] /\ call'[b] = call[b]
  BY <1>1, CallFrame
<1>3. LimitOK'
  BY <1>2 DEF LimitOK
<1>4. [Next]_vars
  BY <1>1 DEF Next
<1>5. \A g \in Keys \ {f} : bits'[g] = bits[g]
  BY <1>1 DEF Set, FlagTypes, FlagTypeOK
<1>. HIDE DEF f
<1>6. ASSUME ~forcedExit', NEW t \in Threads, Parked(t)', Met(wait[t])'
      PROVE  Covered(t)'
  <2>1. ~forcedExit /\ Parked(t) /\ wait'[t] = wait[t]
    BY <1>2, <1>4, <1>6, ForcedStays
  <2>2. wait[t].key \in Keys
    BY <2>1, WaitType DEF Parked
  <2>3. t \in ParkedOn(wait[t].key)'
    BY <1>6, <2>1 DEF ParkedOn
  <2>4. CASE wait[t].key = f
    BY <1>2, <2>1, <2>3, <2>4 DEF Covered, SetIsComing, Candidates
  <2>5. CASE wait[t].key # f
    <3>1. Met(wait[t])
      BY <1>5, <1>6, <2>1, <2>2, <2>5 DEF Met, IsSatisfied
    <3>2. Covered(t)
      BY <2>1, <3>1 DEF NoLostSet, Covered
    <3>3. ASSUME NEW b \in GuestActors, pc[b] = "wake", call[b].key = wait[t].key,
                 t \in Candidates(b)
          PROVE  pc'[b] = "wake" /\ call'[b].key = wait[t].key /\ t \in Candidates(b)'
      <4>1. b \in Actors \ {a}
        BY <1>2, <3>3 DEF Actors
      <4>. QED  BY <1>2, <2>1, <2>3, <3>3, <4>1 DEF Candidates
    <3>. QED  BY <2>1, <3>2, <3>3, CoverKept
  <2>. QED  BY <2>4, <2>5
<1>. QED  BY <1>3, <1>6 DEF NoLostSet, Covered

\* A visit of a wake: its thread leaves, or its condition does not hold; the loop
\* goes on unless nobody is left.
LEMMA VisitKeeps ==
    ASSUME FlagTypes, IInv, LimitOK, NoLostSet, NEW a \in Actors, NEW t \in Threads,
           FlagWake(a, t) \/ FlagPass(a, t)
    PROVE  LimitOK' /\ NoLostSet'
<1>. USE DEF IInv
<1>1. PICK n \in Nat : \/ FlagWake(a, t) /\ n = call[a].limit - 1
                       \/ FlagPass(a, t) /\ n = call[a].limit
  <2>1. pc[a] = "wake"
    BY DEF FlagWake, FlagPass, WakeWaiter, PassWaiter, Scanning
  <2>2. call[a].limit \in Nat \ {0}
    BY <2>1 DEF CallOK, Calls
  <2>3. CASE FlagWake(a, t)
    <3>1. call[a].limit - 1 \in Nat
      BY <2>2
    <3>. QED  BY <2>3, <3>1
  <2>4. CASE FlagPass(a, t)
    BY <2>2, <2>4
  <2>. QED  BY <2>3, <2>4
<1>2. /\ pc[a] = "wake" /\ call[a] \in Calls /\ gate \in {NoActor, a}
      /\ t \in Candidates(a)
      /\ \A u \in Threads \ {t} : Parked(u)' => Parked(u) /\ wait'[u] = wait[u]
      /\ \A b \in Actors \ {a} : /\ pc'[b] = pc[b] /\ call'[b] = call[b]
                                 /\ gate # b /\ gate' # b
      /\ \/ /\ gate' = a /\ todo' = Candidates(a) \ {t} /\ pc'[a] = "wake"
            /\ call'[a] = [key |-> call[a].key, limit |-> n]
         \/ /\ gate' = NoActor /\ pc'[a] # "wake"
            /\ Candidates(a) \ {t} = {} \/ n = 0
  BY <1>1, ScanFrame DEF FlagWake, FlagPass
<1>3. /\ IsFiniteSet(Candidates(a) \ {t})
      /\ Cardinality(Candidates(a) \ {t}) \in Nat
      /\ Cardinality(Candidates(a) \ {t}) <= n
  <2>1. /\ IsFiniteSet(Candidates(a)) /\ Cardinality(Candidates(a)) \in Nat
        /\ Cardinality(Candidates(a)) <= call[a].limit /\ call[a].limit \in Nat \ {0}
    BY <1>2, CandidatesBound DEF Calls
  <2>2. /\ IsFiniteSet(Candidates(a) \ {t})
        /\ Cardinality(Candidates(a) \ {t}) = Cardinality(Candidates(a)) - 1
        /\ Cardinality(Candidates(a) \ {t}) \in Nat
    BY <1>2, <2>1, FS_RemoveElement, FS_CardinalityType
  <2>3. n = call[a].limit - 1 \/ n = call[a].limit
    BY <1>1
  <2>. QED  BY <2>1, <2>2, <2>3
<1>4. LimitOK'
  <2>1. ASSUME NEW b \in Actors, pc'[b] = "wake"
        PROVE  (IF gate = b THEN Cardinality(todo) <= call[b].limit
                            ELSE call[b].limit = Cardinality(Threads))'
    <3>1. CASE b # a
      BY <1>2, <2>1, <3>1 DEF LimitOK
    <3>2. CASE b = a
      <4>1. gate' = a /\ todo' = Candidates(a) \ {t} /\ call'[a].limit = n
        BY <1>2, <2>1, <3>2
      <4>. QED  BY <1>3, <3>2, <4>1
    <3>. QED  BY <3>1, <3>2
  <2>. QED  BY <2>1 DEF LimitOK
<1>5. [Next]_vars
  BY DEF FlagWake, FlagPass, Next, ActorStep
<1>6. ASSUME Parked(t)', Met(wait[t])'
      PROVE  FALSE
  <2>1. CASE FlagWake(a, t)
    BY <1>6, <2>1 DEF FlagWake, WakeWaiter, MakeReady, SetState, Parked, TypeOK
  <2>2. CASE FlagPass(a, t)
    BY <1>6, <2>2 DEF FlagPass, PassWaiter, NotMet, LeavesFlags, Met, IsSatisfied, tableVars
  <2>. QED  BY <2>1, <2>2
<1>7. BitsShrink
  <2>1. wait[t] # NoWait
    BY <1>2 DEF Candidates, WaitOK, ParkedOn, Parked
  <2>. QED  BY <2>1, HandlerClears DEF FlagWake, FlagPass
<1>8. ASSUME ~forcedExit', NEW u \in Threads, Parked(u)', Met(wait[u])'
      PROVE  Covered(u)'
  <2>1. u # t /\ ~forcedExit /\ Parked(u) /\ wait'[u] = wait[u]
    BY <1>2, <1>5, <1>6, <1>8, ForcedStays
  <2>2. Covered(u)
    BY <1>7, <1>8, <2>1, MoreBits DEF NoLostSet, Covered, Parked
  <2>3. ASSUME NEW b \in GuestActors, pc[b] = "wake", call[b].key = wait[u].key,
               u \in Candidates(b)
        PROVE  pc'[b] = "wake" /\ call'[b].key = wait[u].key /\ u \in Candidates(b)'
    <3>1. b \in Actors
      BY DEF Actors
    <3>2. CASE b # a
      <4>1. u \in ParkedOn(call[b].key)'
        BY <1>2, <1>8, <2>1, <2>3, <3>1, <3>2 DEF ParkedOn
      <4>. QED  BY <1>2, <2>3, <3>1, <3>2, <4>1 DEF Candidates
    <3>3. CASE b = a
      <4>1. u \in Candidates(a) \ {t}
        BY <2>1, <2>3, <3>3
      <4>2. n # 0
        BY <1>3, <4>1, FS_EmptySet
      <4>3. /\ gate' = a /\ todo' = Candidates(a) \ {t} /\ pc'[a] = "wake"
            /\ call'[a].key = wait[u].key
        BY <1>2, <2>3, <3>3, <4>1, <4>2
      <4>. QED  BY <3>3, <4>1, <4>3 DEF Candidates
    <3>. QED  BY <3>2, <3>3
  <2>. QED  BY <2>1, <2>2, <2>3, CoverKept
<1>. QED  BY <1>4, <1>8 DEF NoLostSet, Covered

\* A wake that finds nobody was not what anybody was waiting for.
LEMMA NobodyKeeps ==
    ASSUME FlagTypes, IInv, LimitOK, NoLostSet, NEW a \in Actors, WakeNobody(a),
           [Next]_vars, BitsShrink
    PROVE  LimitOK' /\ NoLostSet'
<1>. USE DEF IInv
<1>1. /\ Candidates(a) = {} /\ pc[a] = "wake" /\ pc'[a] # "wake"
      /\ \A u \in Threads : Parked(u)' => Parked(u) /\ wait'[u] = wait[u]
      /\ \A b \in Actors \ {a} : /\ pc'[b] = pc[b] /\ call'[b] = call[b]
                                 /\ gate # b /\ gate' # b
  BY NobodyFrame
<1>2. LimitOK'
  BY <1>1 DEF LimitOK
<1>3. ASSUME ~forcedExit', NEW t \in Threads, Parked(t)', Met(wait[t])'
      PROVE  Covered(t)'
  <2>1. ~forcedExit /\ Parked(t) /\ wait'[t] = wait[t]
    BY <1>1, <1>3, ForcedStays
  <2>2. Covered(t)
    BY <1>3, <2>1, MoreBits DEF NoLostSet, Covered, Parked
  <2>3. ASSUME NEW b \in GuestActors, pc[b] = "wake", call[b].key = wait[t].key,
               t \in Candidates(b)
        PROVE  pc'[b] = "wake" /\ call'[b].key = wait[t].key /\ t \in Candidates(b)'
    <3>1. b \in Actors \ {a}
      BY <1>1, <2>3 DEF Actors
    <3>2. t \in ParkedOn(call[b].key)'
      BY <1>1, <1>3, <2>1, <2>3, <3>1 DEF ParkedOn
    <3>. QED  BY <1>1, <2>3, <3>1, <3>2 DEF Candidates
  <2>. QED  BY <2>1, <2>2, <2>3, CoverKept
<1>. QED  BY <1>2, <1>3 DEF NoLostSet, Covered

\* A thread that parks has just found its condition not to hold.
LEMMA ParkKeeps ==
    ASSUME FlagTypes, IInv, LimitOK, NoLostSet, NEW t \in Threads, FlagPark(t), [Next]_vars
    PROVE  LimitOK' /\ NoLostSet'
<1>. USE DEF IInv
<1>1. /\ \A u \in Threads \ {t} : Parked(u)' => Parked(u)
      /\ wait' = wait
      /\ WakesStay
  BY ParkFrame DEF FlagPark
<1>2. bits' = bits /\ ~Met(wait[t])
  BY DEF FlagPark, NotMet, LeavesFlags
<1>3. LimitOK'
  BY <1>1 DEF LimitOK, WakesStay
<1>4. ASSUME ~forcedExit', NEW u \in Threads, Parked(u)', Met(wait[u])'
      PROVE  Covered(u)'
  <2>1. u # t /\ Met(wait[u])
    BY <1>1, <1>2, <1>4 DEF Met, IsSatisfied
  <2>2. ~forcedExit /\ Parked(u)
    BY <1>1, <1>4, <2>1, ForcedStays
  <2>3. Covered(u)
    BY <2>1, <2>2 DEF NoLostSet, Covered
  <2>4. ASSUME NEW b \in GuestActors, pc[b] = "wake", call[b].key = wait[u].key,
               u \in Candidates(b)
        PROVE  pc'[b] = "wake" /\ call'[b].key = wait[u].key /\ u \in Candidates(b)'
    <3>1. /\ pc'[b] = "wake" /\ call'[b] = call[b] /\ (gate' = b <=> gate = b)
          /\ todo' = todo
      BY <1>1, <2>4 DEF WakesStay, Actors
    <3>2. u \in ParkedOn(wait[u].key)'
      BY <1>1, <1>4 DEF ParkedOn
    <3>. QED  BY <1>1, <2>4, <3>1, <3>2 DEF Candidates
  <2>. QED  BY <1>1, <2>3, <2>4, CoverKept
<1>. QED  BY <1>3, <1>4 DEF NoLostSet, Covered

\* What all steps keep together
FlagInvariant == IInv /\ RunningOK /\ FlagTypes /\ LimitOK /\ NoLostSet

\* The steps that add no bit, by the frame of the scheduler's step.
LEMMA OtherKeeps ==
    ASSUME FlagInvariant, QuietStep, BitsShrink, [Next]_vars
    PROVE  LimitOK' /\ NoLostSet'
<1>. USE DEF FlagInvariant, IInv
<1>1. WakesStay
  BY QuietWakes
<1>2. ~forcedExit => NobodyParks
  BY QuietParks
<1>. QED  BY <1>1, <1>2, QuietKeeps

\* Every step of the event flags keeps it.
LEMMA SetStep ==
    ASSUME FlagInvariant, [FlagNext]_allVars
    PROVE  LimitOK' /\ NoLostSet'
<1>. USE DEF FlagInvariant, IInv
<1>1. [Next]_vars
  BY SchedulerStep
<1>2. bits' = bits => BitsShrink
  BY DEF BitsShrink
<1>3. CASE SchedulerOnly
  <2>1. QuietStep
    BY <1>3, ActorsAssumption DEF SchedulerOnly, QuietStep, RunnerStep, GuestStep,
       BackgroundStep, SessionStep, GuestActors, Actors
  <2>2. bits' = bits
    BY <1>3 DEF SchedulerOnly, LeavesFlags
  <2>. QED  BY <1>1, <1>2, <2>1, <2>2, OtherKeeps
<1>4. ASSUME NEW a \in Actors, LoopStep(a), LeavesFlags
      PROVE  LimitOK' /\ NoLostSet'
  <2>1. BitsShrink
    BY <1>2, <1>4 DEF LeavesFlags
  <2>2. CASE WakeNobody(a)
    BY <1>1, <2>1, <2>2, NobodyKeeps
  <2>3. CASE ~WakeNobody(a)
    <3>1. QuietStep
      BY <1>4, <2>3 DEF LoopStep, QuietStep
    <3>. QED  BY <1>1, <2>1, <3>1, OtherKeeps
  <2>. QED  BY <2>2, <2>3
<1>5. ASSUME NEW a \in Actors, NEW t \in Threads, FlagWake(a, t) \/ FlagPass(a, t)
      PROVE  LimitOK' /\ NoLostSet'
  BY <1>5, VisitKeeps
<1>6. ASSUME NEW t \in Threads, FlagPark(t)
      PROVE  LimitOK' /\ NoLostSet'
  BY <1>1, <1>6, ParkKeeps
<1>7. ASSUME NEW t \in Threads, FlagWakeAtPark(t)
      PROVE  LimitOK' /\ NoLostSet'
  <2>1. QuietStep
    BY <1>7 DEF FlagWakeAtPark, QuietStep
  <2>2. wait[t] # NoWait
    BY <1>7 DEF FlagWakeAtPark, WakeAtPark, NestedWake, Parking, WaitOK
  <2>3. BitsShrink
    BY <1>7, <2>2, HandlerClears DEF FlagWakeAtPark
  <2>. QED  BY <1>1, <2>1, <2>3, OtherKeeps
<1>8. ASSUME NEW t \in Threads, FlagResume(t) \/ WaitBlock(t)
      PROVE  LimitOK' /\ NoLostSet'
  <2>1. BitsShrink
    BY <1>2, <1>8 DEF FlagResume, LeavesFlags, WaitBlock
  <2>2. CASE FlagResume(t)
    BY <1>1, <2>1, <2>2, OtherKeeps DEF FlagResume, QuietStep
  <2>3. CASE WaitBlock(t)
    BY <1>1, <2>1, <2>3, BlockRequest, OtherKeeps DEF QuietStep
  <2>. QED  BY <1>8, <2>2, <2>3
<1>9. ASSUME NEW a \in GuestActors, CallExport(a) \/ PollBusy(a) \/ CompleteAtOnce(a) \/ Clear(a)
      PROVE  LimitOK' /\ NoLostSet'
  <2>1. UNCHANGED vars
    BY <1>9 DEF CallExport, Export, PollBusy, CompleteAtOnce, Clear
  <2>2. CASE CallExport(a) \/ PollBusy(a)
    <3>1. BitsShrink
      BY <1>2, <2>2 DEF CallExport, Export, PollBusy
    <3>. QED  BY <2>1, <3>1, StillKeeps
  <2>3. CASE CompleteAtOnce(a)
    <3>1. BitsShrink
      BY <2>3, OpTypes, ClearsBits DEF CompleteAtOnce, InExport
    <3>. QED  BY <2>1, <3>1, StillKeeps
  <2>4. CASE Clear(a)
    <3>1. BitsShrink
      BY <2>4 DEF Clear, BitsShrink, FlagTypes, FlagTypeOK
    <3>. QED  BY <2>1, <3>1, StillKeeps
  <2>. QED  BY <1>9, <2>1, <2>2, <2>3, <2>4, StillKeeps
<1>10. ASSUME NEW a \in GuestActors, Set(a) \/ Cancel(a)
       PROVE  LimitOK' /\ NoLostSet'
  BY <1>10, SetKeeps, CancelKeeps
<1>11. CASE HostPump
  <2>1. BitsShrink
    BY <1>2, <1>11 DEF HostPump
  <2>2. CASE CallPump(Main)
    BY <1>1, <2>1, <2>2, OtherKeeps DEF QuietStep, Actors
  <2>3. CASE UNCHANGED vars
    BY <2>1, <2>3, StillKeeps
  <2>. QED  BY <1>11, <2>2, <2>3 DEF HostPump
<1>12. CASE HostComplete
  <2>1. hostWait.flag \in Keys /\ hostWait.want \in Demands
    BY <1>12 DEF HostComplete, HostLooks, FlagTypes, FlagTypeOK, HostWaits
  <2>2. UNCHANGED vars /\ BitsShrink
    BY <1>12, <2>1, ClearsBits DEF HostComplete
  <2>. QED  BY <2>2, StillKeeps
<1>13. CASE (\E a \in GuestActors, f \in Keys : Create(a, f) \/ Delete(a, f))
            \/ HostWait \/ HostTimeout \/ HostAgain \/ UNCHANGED allVars
  <2>1. UNCHANGED vars /\ bits' = bits
    BY <1>13 DEF Create, Delete, HostWait, HostTimeout, HostAgain, allVars
  <2>. QED  BY <1>2, <2>1, StillKeeps
<1>. QED  BY <1>3, <1>4, <1>5, <1>6, <1>7, <1>8, <1>9, <1>10, <1>11, <1>12, <1>13
          DEF FlagNext, FlagActorStep, FinishExport

\* No thread stays parked on a flag whose bits satisfy it unless a wake under way
\* will still visit it or a cancel may have set them, for any number of threads, flags
\* and bits: whatever else clears, polls, expires or waits only takes bits away.
THEOREM SetsAreNotLost == FlagSpec => []NoLostSet
<1>1. FlagInit => FlagInvariant
  <2>1. FlagInit => RunningOK /\ Init
    BY RunningInit DEF FlagInit
  <2>2. Init => LimitOK /\ NoLostSet
    BY DEF Init, LimitOK, NoLostSet, Parked
  <2>. QED  BY <2>1, <2>2, FlagTypesInit DEF FlagInvariant
<1>2. FlagInvariant /\ [FlagNext]_allVars => FlagInvariant'
  <2>. SUFFICES ASSUME FlagInvariant, [FlagNext]_allVars
                PROVE  FlagInvariant'
    OBVIOUS
  <2>1. [Next]_vars
    BY SchedulerStep DEF FlagInvariant
  <2>2. IInv' /\ FlagTypes'
    BY <2>1, SafetyStep, FlagTypesStep DEF FlagInvariant
  <2>3. RunningOK'
    BY <2>1, RunningStep DEF FlagInvariant
  <2>4. LimitOK' /\ NoLostSet'
    BY SetStep
  <2>. QED  BY <2>2, <2>3, <2>4 DEF FlagInvariant
<1>. QED  BY <1>1, <1>2, PTL DEF FlagSpec, FlagInvariant

-----------------------------------------------------------------------------
(* The waits of the clients *)

USE DEF tableVars, sliceVars, waitVars, gateVars, callVars, pumpVars, mainVars

\* An export of a thread runs in guest code.
ExportOK == \A t \in Threads : op[t] # NoOp => exec[t] = "guest"

\* Only an export, or guest code outside of one, leaves guest code.
LEMMA ExportStep ==
    ASSUME FlagTypes, IInv, ExportOK, [FlagNext]_allVars
    PROVE  ExportOK'
<1>. USE DEF IInv
<1>1. Main \notin Threads
  BY ActorsAssumption
<1>2. ASSUME op' = op, \A t \in Threads : exec[t] = "guest" => exec'[t] = "guest"
      PROVE  ExportOK'
  BY <1>2 DEF ExportOK
<1>3. CASE SchedulerOnly
  <2>1. op' = op
    BY <1>3 DEF SchedulerOnly, LeavesFlags
  <2>2. ASSUME NEW t \in Threads, RunnerStep(t)
        PROVE  ExportOK'
    BY <1>2, <2>1, <2>2 DEF RunnerStep, TakeWork, RefuseSlice, EnterSlice, BeginSlice,
       RegisterBlocked, LeaveSlice, NestedResume, NestedForced, ReleaseExecutor, SetSlice, TypeOK
  <2>3. ASSUME NEW t \in Threads, CanExport(t), GuestStep(t)
        PROVE  ExportOK'
    BY <1>1, <2>1, <2>3 DEF CanExport, GuestStep, EndGuestCode, EnterCallback, LeaveCallback,
       SetSlice, ExportOK, TypeOK
  <2>4. ASSUME RunInline
        PROVE  ExportOK'
    <3>1. claimed[Main] \in Threads /\ exec[claimed[Main]] = "off"
      BY <2>4, ActorsAssumption DEF RunInline, SingleExecutor, TypeOK, Actors
    <3>. QED  BY <1>2, <2>1, <2>4, <3>1 DEF RunInline, SetSlice, TypeOK
  <2>5. CASE \/ \E a \in GuestActors : CanExport(a) /\ CallPump(a)
             \/ \E a \in GuestActors, t \in Threads : CanExport(a) /\ TryStartThread(a, t)
             \/ CanExport(Main) /\ EntryReturn
    BY <1>2, <2>1, <2>5 DEF CallPump, TryStartThread, EntryReturn
  <2>6. CASE BackgroundStep
    BY <1>2, <2>1, <2>6 DEF BackgroundStep, TickerWake, TickerPump, DispatchTick, PollExpired
  <2>7. CASE SessionStep
    BY <1>2, <2>1, <2>4, <2>7 DEF SessionStep, DrainPump, DrainDone, Dispose, Quiesce,
       LeakSession, ClearGuestThreads, RequestHostShutdown, Over, vars
  <2>. QED  BY <1>3, <2>2, <2>3, <2>5, <2>6, <2>7 DEF SchedulerOnly
<1>4. ASSUME NEW a \in Actors, FlagActorStep(a)
      PROVE  ExportOK'
  BY <1>2, <1>4 DEF FlagActorStep, FlagWake, FlagPass, Prepare, NotMet,
     LeavesFlags, LoopStep, WakeNobody, PumpWakeExpired, PumpSkip, PumpEnter,
     ClaimNothing, ClaimReady, PassHead, Schedule, ScheduleDropped, WakeWaiter, PassWaiter
<1>5. ASSUME NEW t \in Threads, FlagPark(t) \/ FlagWakeAtPark(t) \/ FlagResume(t)
      PROVE  ExportOK'
  BY <1>2, <1>5 DEF FlagPark, FlagWakeAtPark, FlagResume, Prepare, NotMet, LeavesFlags,
     StayParked, NestedPark, WakeAtPark, NestedWake, Resume, Parking, SetSlice, TypeOK
<1>6. ASSUME NEW t \in Threads, WaitBlock(t)
      PROVE  ExportOK'
  BY <1>1, <1>6 DEF WaitBlock, RequestBlock, EndExport, SetSlice, ExportOK, FlagTypes,
     FlagTypeOK, TypeOK
<1>7. ASSUME NEW a \in GuestActors, CallExport(a)
      PROVE  ExportOK'
  <2>1. CanExport(a) /\ UNCHANGED exec /\ \E o : op' = [op EXCEPT ![a] = o]
    BY <1>7 DEF CallExport, Export, vars
  <2>. QED  BY <1>1, <2>1 DEF CanExport, CanCall, InGuestCode, ExportOK, FlagTypes, FlagTypeOK
<1>8. ASSUME NEW a \in GuestActors, FinishExport(a) \/ (a = Main /\ HostWait)
      PROVE  ExportOK'
  <2>1. UNCHANGED exec /\ op' = [op EXCEPT ![a] = NoOp]
    BY <1>8 DEF FinishExport, CompleteAtOnce, PollBusy, Set, Clear, Cancel, HostWait, EndExport,
       CallWake, vars
  <2>. QED  BY <2>1 DEF ExportOK, FlagTypes, FlagTypeOK
<1>9. CASE (\E a \in GuestActors, f \in Keys : Create(a, f) \/ Delete(a, f))
           \/ HostPump \/ HostComplete \/ HostTimeout \/ HostAgain
  BY <1>2, <1>9 DEF Create, Delete, HostPump, HostComplete, HostTimeout, HostAgain, CallPump,
     vars
<1>10. CASE UNCHANGED allVars
  BY <1>2, <1>10 DEF allVars, vars
<1>. QED  BY <1>3, <1>4, <1>5, <1>6, <1>7, <1>8, <1>9, <1>10 DEF FlagNext

-----------------------------------------------------------------------------
(* The refinement of the abstract event flag *)

\* What the waits of the clients rest on
ClientInv == IInv /\ RunningOK /\ StageOK /\ FlagTypes /\ ExportOK

AbstractStep == [Abstract!Next]_<<bits, Asks, forcedExit>>

\* A thread in guest code is in no wait, and asks at most by its export.
LEMMA GuestAsks ==
    ASSUME ClientInv, NEW a \in GuestActors,
           IF a = Main THEN hostWait = NoOp ELSE exec[a] = "guest"
    PROVE  op[a] = NoOp => AskOf(a) = NoOp
<1>1. a # Main => HeldWait(a) = NoWait
  BY DEF ClientInv, StageOK, HeldWait, Abandoned
<1>. QED  BY <1>1 DEF AskOf, HostAsk, BlockedAsk

\* A client asks by its export while it is in one.
LEMMA ExportAsks ==
    ASSUME ClientInv, NEW a \in GuestActors, op[a] # NoOp
    PROVE  /\ op[a] \in Ops /\ OpOK(op[a]) /\ AskOf(a) = ExportAsk(a)
           /\ IF a = Main THEN hostWait = NoOp ELSE exec[a] = "guest"
  BY DEF ClientInv, ExportOK, FlagTypes, FlagTypeOK, OpsOK, AskOf

\* A request is told from none.
LEMMA RequestType ==
    ASSUME NEW f \in Keys, NEW d \in Demands, NEW g \in BOOLEAN
    PROVE  /\ Request(f, d, g) \in Requests /\ Request(f, d, g) # NoOp
           /\ Request(f, d, g).flag = f /\ Request(f, d, g).demand = d
           /\ Request(f, d, g).granted = g
  BY NoOpAssumption DEF Request, Requests

LEMMA RequestAsks == \A f \in Keys, d \in Demands : Request(f, d, FALSE) # NoOp
  BY RequestType

\* Granting a request changes nothing else of it.
LEMMA RequestGranted ==
    ASSUME NEW f \in Keys, NEW d \in Demands
    PROVE  [Request(f, d, FALSE) EXCEPT !.granted = TRUE] = Request(f, d, TRUE)
<1>1. ASSUME NEW v \in Requests, NEW w \in Requests, v.flag = w.flag, v.demand = w.demand,
             v.granted = w.granted
      PROVE  v = w
  BY <1>1 DEF Requests
<1>. DEFINE r == Request(f, d, FALSE)  q == [r EXCEPT !.granted = TRUE]
<1>2. r \in Requests /\ r.flag = f /\ r.demand = d
  BY RequestType
<1>. HIDE DEF r
<1>3. q \in Requests /\ q.flag = f /\ q.demand = d /\ q.granted = TRUE
  BY <1>2 DEF Requests
<1>. HIDE DEF q
<1>4. q = Request(f, d, TRUE)
  BY <1>1, <1>3, RequestType
<1>. QED  BY <1>4 DEF q, r

\* One client's request changes.
LEMMA AsksMove ==
    ASSUME NEW c \in GuestActors, NEW v, AskOf(c)' = v,
           \A d \in GuestActors \ {c} : AskOf(d)' = AskOf(d)
    PROVE  Asks' = [Asks EXCEPT ![c] = v]
  BY DEF Asks

LEMMA AsksStay ==
    ASSUME \A d \in GuestActors : AskOf(d)' = AskOf(d)
    PROVE  Asks' = Asks
  BY DEF Asks

\* Who asks keeps asking while neither its export nor its wait moves.
LEMMA OthersAsk ==
    ASSUME NEW d \in GuestActors, op'[d] = op[d], d = Main => HostAsk' = HostAsk,
           d # Main => HeldWait(d)' = HeldWait(d)
    PROVE  AskOf(d)' = AskOf(d)
  BY DEF AskOf, ExportAsk, BlockedAsk

LEMMA ExportsAsk ==
    ASSUME NEW a \in GuestActors, NEW v, op' = [op EXCEPT ![a] = v],
           UNCHANGED <<pending, wait, resuming, exec, state>>,
           a # Main => hostWait' = hostWait, FlagTypes
    PROVE  \A d \in GuestActors \ {a} : AskOf(d)' = AskOf(d)
<1>1. \A t \in Threads : HeldWait(t)' = HeldWait(t)
  BY DEF HeldWait, Abandoned
<1>2. a # Main => HostAsk' = HostAsk
  BY DEF HostAsk
<1>. QED  BY <1>1, <1>2, OthersAsk DEF FlagTypes, FlagTypeOK

\* A step that leaves bits and requests alone is a stutter, or stops the session.
LEMMA StutterOrStop ==
    ASSUME ClientInv, [Next]_vars, forcedExit' \in BOOLEAN, bits' = bits, Asks' = Asks
    PROVE  AbstractStep
<1>1. forcedExit' = forcedExit \/ forcedExit' = TRUE
  BY ForcedStays DEF ClientInv, IInv, TypeOK
<1>. QED  BY <1>1 DEF AbstractStep, Abstract!Next, Abstract!Stop

\* A look-up of wait or poll begins the client's request; those of the other
\* calls begin none.
LEMMA LookupImplements ==
    ASSUME ClientInv, NEW a \in GuestActors, NEW o \in Ops,
           CanExport(a), op' = [op EXCEPT ![a] = o], UNCHANGED <<vars, flagVars, hostWait>>
    PROVE  AbstractStep
<1>. USE DEF ClientInv
<1>1. op[a] = NoOp /\ IF a = Main THEN hostWait = NoOp ELSE exec[a] = "guest"
  BY DEF CanExport, CanCall, InGuestCode
<1>2. \A d \in GuestActors \ {a} : AskOf(d)' = AskOf(d)
  BY ExportsAsk DEF vars
<1>3. AskOf(a) = NoOp
  BY <1>1, GuestAsks
<1>4. UNCHANGED <<bits, forcedExit>> /\ Asks[a] = NoOp
  BY <1>3 DEF vars, Asks
<1>5. op'[a] = o /\ o # NoOp
  BY NoOpAssumption DEF FlagTypes, FlagTypeOK
<1>6. AskOf(a)' = IF o.kind \in {"wait", "poll"} THEN Request(o.flag, o.want, FALSE) ELSE NoOp
  <2>1. AskOf(a)' = ExportAsk(a)'
    BY <1>5 DEF AskOf
  <2>. QED  BY <1>5, <2>1 DEF ExportAsk
<1>7. CASE o.kind \in {"wait", "poll"}
  <2>1. o.flag \in Keys /\ o.want \in Demands
    BY <1>7 DEF Ops
  <2>2. Asks' = [Asks EXCEPT ![a] = Request(o.flag, o.want, FALSE)]
    BY <1>2, <1>6, <1>7, AsksMove
  <2>3. Abstract!Ask(a)
    BY <1>4, <2>1, <2>2 DEF Abstract!Ask, Request
  <2>. QED  BY <2>3 DEF AbstractStep, Abstract!Next
<1>8. CASE o.kind \notin {"wait", "poll"}
  <2>1. Asks' = Asks
    BY <1>2, <1>3, <1>6, <1>8, AsksStay
  <2>. QED  BY <1>4, <2>1 DEF AbstractStep
<1>. QED  BY <1>7, <1>8

LEMMA CallImplements ==
    ASSUME ClientInv, NEW a \in GuestActors, CallExport(a)
    PROVE  AbstractStep
<1>1. PICK o \in Ops : CanExport(a) /\ op' = [op EXCEPT ![a] = o] /\ UNCHANGED <<vars, flagVars, hostWait>>
  <2>1. ASSUME NEW kind, NEW f, NEW want, NEW timed, Export(a, kind, f, want, timed),
               [kind |-> kind, flag |-> f, want |-> want, timed |-> timed] \in Ops
        PROVE  \E o \in Ops : CanExport(a) /\ op' = [op EXCEPT ![a] = o]
                              /\ UNCHANGED <<vars, flagVars, hostWait>>
    BY <2>1 DEF Export
  <2>2. \A f \in Keys, d \in Demands, timed \in BOOLEAN, kind \in {"wait", "poll"} :
          [kind |-> kind, flag |-> f, want |-> d, timed |-> timed] \in Ops
    BY DEF Ops
  <2>3. \A f \in Keys, p \in SUBSET AllBits, kind \in {"set", "clear", "cancel"} :
          [kind |-> kind, flag |-> f, want |-> p, timed |-> FALSE] \in Ops
    BY DEF Ops
  <2>4. CASE \E f \in Keys : \/ \E d \in Demands, timed \in Timeouts : Export(a, "wait", f, d, timed)
                             \/ \E d \in Demands : Export(a, "poll", f, d, FALSE)
    BY <2>1, <2>2, <2>4, EventFlagAssumption
  <2>5. CASE \E f \in Keys : \/ \E p \in SetPatterns : Export(a, "set", f, p, FALSE)
                             \/ \E p \in ClearMasks : Export(a, "clear", f, p, FALSE)
                             \/ \E p \in CancelPatterns : Export(a, "cancel", f, p, FALSE)
    BY <2>1, <2>3, <2>5, EventFlagAssumption
  <2>. QED  BY <2>4, <2>5 DEF CallExport
<1>. QED  BY <1>1, LookupImplements

\* A condition that holds and its clear mode are the abstract flag's.
LEMMA SucceedsOnce ==
    ASSUME FlagTypes, NEW f \in Keys, NEW d \in Demands, IsSatisfied(f, d), ApplyClearMode(f, d)
    PROVE  Abstract!Succeed(f, d)
  BY DEF FlagTypes, FlagTypeOK, IsSatisfied, Satisfies, ApplyClearMode, Abstract!Succeed,
     Abstract!Holds, Abstract!Kept

\* When its export is over, its client asks for nothing.
LEMMA ExportEnds ==
    ASSUME ClientInv, NEW a \in GuestActors, op[a] # NoOp, EndExport(a),
           UNCHANGED <<pending, wait, resuming, exec, state, hostWait>>
    PROVE  Asks' = [Asks EXCEPT ![a] = NoOp]
<1>. USE DEF ClientInv
<1>1. op' = [op EXCEPT ![a] = NoOp] /\ op'[a] = NoOp
  BY DEF EndExport, FlagTypes, FlagTypeOK
<1>2. \A d \in GuestActors \ {a} : AskOf(d)' = AskOf(d)
  BY <1>1, ExportsAsk
<1>3. IF a = Main THEN hostWait = NoOp ELSE exec[a] = "guest"
  BY ExportAsks
<1>4. a # Main => HeldWait(a)' = NoWait
  BY <1>3 DEF StageOK, HeldWait, Abandoned
<1>5. AskOf(a)' = NoOp
  <2>1. CASE a = Main
    BY <1>1, <1>3, <2>1 DEF AskOf, HostAsk
  <2>2. CASE a # Main
    BY <1>1, <1>4, <2>2 DEF AskOf, BlockedAsk
  <2>. QED  BY <2>1, <2>2
<1>. QED  BY <1>2, <1>5, AsksMove

\* In its lock an export succeeds and returns, returns without success, or
\* changes bits.
LEMMA FinishImplements ==
    ASSUME ClientInv, NEW a \in GuestActors, FinishExport(a)
    PROVE  AbstractStep
<1>. USE DEF ClientInv
<1>. DEFINE f == op[a].flag  d == op[a].want
<1>1. /\ op[a] # NoOp /\ EndExport(a)
      /\ UNCHANGED <<pending, wait, resuming, exec, state, hostWait, forcedExit>>
  BY DEF FinishExport, CompleteAtOnce, PollBusy, Set, Clear, Cancel, InExport, CallWake, vars
<1>2. op[a] \in Ops /\ OpOK(op[a]) /\ Asks[a] = ExportAsk(a) /\ f \in Keys
  BY <1>1, ExportAsks DEF Asks, Ops
<1>3. Asks' = [Asks EXCEPT ![a] = NoOp]
  BY <1>1, ExportEnds
<1>4. Asks[a] = NoOp => Asks' = Asks
  BY <1>3 DEF Asks
<1>5. ASSUME op[a].kind \in {"wait", "poll"}
      PROVE  /\ Asks[a] # NoOp /\ Asks[a].flag = f /\ Asks[a].demand = d /\ ~Asks[a].granted
             /\ d \in Demands
  <2>1. d \in Demands
    BY <1>2, <1>5 DEF Ops
  <2>2. Asks[a] = Request(f, d, FALSE)
    BY <1>2, <1>5 DEF ExportAsk
  <2>3. Asks[a] # NoOp
    BY <1>2, <2>1, <2>2, RequestAsks
  <2>. QED  BY <2>1, <2>2, <2>3 DEF Request
<1>6. CASE CompleteAtOnce(a)
  <2>1. op[a].kind \in {"wait", "poll"} /\ IsSatisfied(f, d) /\ ApplyClearMode(f, d)
    BY <1>6 DEF CompleteAtOnce, InExport
  <2>2. Abstract!Succeed(f, d)
    BY <1>2, <1>5, <2>1, SucceedsOnce
  <2>3. Abstract!SucceedAndReturn(a)
    BY <1>1, <1>3, <1>5, <2>1, <2>2 DEF Abstract!SucceedAndReturn, Abstract!Waits
  <2>. QED  BY <2>3 DEF AbstractStep, Abstract!Next
<1>7. CASE PollBusy(a)
  <2>1. op[a].kind \in {"wait", "poll"} /\ UNCHANGED bits
    BY <1>7 DEF PollBusy, InExport
  <2>2. Abstract!Return(a)
    BY <1>1, <1>3, <1>5, <2>1 DEF Abstract!Return
  <2>. QED  BY <2>2 DEF AbstractStep, Abstract!Next
<1>8. CASE Set(a) \/ Clear(a) \/ Cancel(a)
  <2>1. op[a].kind \in {"set", "clear", "cancel"}
    BY <1>8 DEF Set, Clear, Cancel, InExport
  <2>2. Asks' = Asks
    BY <1>2, <1>4, <2>1 DEF ExportAsk
  <2>3. CASE Set(a)
    <3>1. d \in SetPatterns /\ bits' = [bits EXCEPT ![f] = @ \cup d]
      BY <1>2, <2>3 DEF Set, InExport, OpOK
    <3>2. Abstract!Set(f)
      BY <1>1, <1>2, <2>2, <3>1 DEF Abstract!Set, Abstract!Assign, FlagTypes, FlagTypeOK
    <3>. QED  BY <1>2, <3>2 DEF AbstractStep, Abstract!Next
  <2>4. CASE Clear(a)
    <3>1. d \in ClearMasks /\ bits' = [bits EXCEPT ![f] = @ \cap d]
      BY <1>2, <2>4 DEF Clear, InExport, OpOK
    <3>2. Abstract!Clear(f)
      BY <1>1, <1>2, <2>2, <3>1 DEF Abstract!Clear, Abstract!Assign, FlagTypes, FlagTypeOK
    <3>. QED  BY <1>2, <3>2 DEF AbstractStep, Abstract!Next
  <2>5. CASE Cancel(a)
    <3>1. d \in CancelPatterns /\ bits' = [bits EXCEPT ![f] = d]
      BY <1>2, <2>5 DEF Cancel, InExport, OpOK
    <3>2. Abstract!Cancel(f)
      BY <1>1, <1>2, <2>2, <3>1 DEF Abstract!Cancel, Abstract!Assign
    <3>. QED  BY <1>2, <3>2 DEF AbstractStep, Abstract!Next
  <2>. QED  BY <1>8, <2>3, <2>4, <2>5
<1>. QED  BY <1>6, <1>7, <1>8 DEF FinishExport

\* The main host thread asks the same all along its host wait, whatever it pumps
\* meanwhile, and returns from there.
LEMMA HostImplements ==
    ASSUME ClientInv, HostWait \/ HostPump \/ HostComplete \/ HostTimeout \/ HostAgain
    PROVE  AbstractStep
<1>. USE DEF ClientInv
<1>1. \A d \in GuestActors \ {Main} : AskOf(d)' = AskOf(d)
  <2>1. op' = op \/ op' = [op EXCEPT ![Main] = NoOp]
    BY DEF HostWait, HostPump, HostComplete, HostTimeout, HostAgain, EndExport
  <2>2. UNCHANGED <<pending, wait, resuming, exec, state>>
    BY DEF HostWait, HostPump, HostComplete, HostTimeout, HostAgain, CallPump, vars
  <2>3. \A t \in Threads : HeldWait(t)' = HeldWait(t)
    BY <2>2 DEF HeldWait, Abandoned
  <2>. QED  BY <2>1, <2>3, OthersAsk DEF FlagTypes, FlagTypeOK
<1>2. UNCHANGED forcedExit
  BY DEF HostWait, HostPump, HostComplete, HostTimeout, HostAgain, CallPump, vars
<1>3. CASE HostWait
  <2>1. op[Main] # NoOp /\ op[Main].kind = "wait" /\ UNCHANGED bits
    BY <1>3 DEF HostWait, InExport
  <2>2. /\ op'[Main] = NoOp /\ hostWait' \in HostWaits
        /\ hostWait'.flag = op[Main].flag /\ hostWait'.want = op[Main].want
    BY <1>3, <2>1, OpTypes DEF HostWait, EndExport, HostWaits, FlagTypes, FlagTypeOK
  <2>3. hostWait' # NoOp
    BY <2>2, NoOpAssumption
  <2>4. AskOf(Main)' = AskOf(Main)
    BY <2>1, <2>2, <2>3 DEF AskOf, ExportAsk, HostAsk
  <2>5. Asks' = Asks
    BY <1>1, <2>4, AsksStay
  <2>. QED  BY <1>2, <2>1, <2>5 DEF AbstractStep
<1>4. CASE HostPump \/ HostAgain
  <2>1. hostWait # NoOp /\ hostWait \in HostWaits /\ op' = op /\ op[Main] = NoOp
    BY <1>4 DEF HostPump, HostAgain, HostLooks, FlagTypes, FlagTypeOK, OpsOK
  <2>2. hostWait' \in HostWaits /\ hostWait'.flag = hostWait.flag /\ hostWait'.want = hostWait.want
    BY <1>4, <2>1 DEF HostPump, HostAgain, HostWaits
  <2>3. hostWait' # NoOp
    BY <2>2, NoOpAssumption
  <2>4. AskOf(Main)' = AskOf(Main)
    BY <2>1, <2>2, <2>3 DEF AskOf, HostAsk
  <2>5. Asks' = Asks /\ UNCHANGED bits
    BY <1>1, <1>4, <2>4, AsksStay DEF HostPump, HostAgain
  <2>. QED  BY <1>2, <2>5 DEF AbstractStep
<1>5. CASE HostComplete \/ HostTimeout
  <2>. DEFINE f == hostWait.flag  d == hostWait.want
  <2>1. hostWait # NoOp /\ hostWait' = NoOp /\ op' = op /\ op[Main] = NoOp
    BY <1>5 DEF HostComplete, HostTimeout, HostLooks, FlagTypes, OpsOK
  <2>2. f \in Keys /\ d \in Demands
    BY <2>1 DEF FlagTypes, FlagTypeOK, HostWaits
  <2>3. Asks[Main] = Request(f, d, FALSE)
    BY <2>1 DEF Asks, AskOf, HostAsk
  <2>4. Asks[Main] # NoOp
    BY <2>2, <2>3, RequestAsks
  <2>5. AskOf(Main)' = NoOp
    BY <2>1 DEF AskOf, HostAsk
  <2>6. Asks' = [Asks EXCEPT ![Main] = NoOp]
    BY <1>1, <2>5, AsksMove
  <2>7. CASE HostComplete
    <3>1. Abstract!Succeed(f, d)
      BY <2>2, <2>7, SucceedsOnce DEF HostComplete
    <3>2. Abstract!SucceedAndReturn(Main)
      BY <1>2, <2>3, <2>4, <2>6, <3>1
         DEF Abstract!SucceedAndReturn, Abstract!Waits, Request
    <3>. QED  BY <3>2 DEF AbstractStep, Abstract!Next
  <2>8. CASE HostTimeout
    <3>1. Abstract!Return(Main)
      BY <1>2, <2>4, <2>6, <2>8 DEF HostTimeout, Abstract!Return
    <3>. QED  BY <3>1 DEF AbstractStep, Abstract!Next
  <2>. QED  BY <1>5, <2>7, <2>8
<1>. QED  BY <1>3, <1>4, <1>5

\* A step that leaves the waits and the bits alone is a stutter, or stops the
\* session.
LEMMA HeldImplements ==
    ASSUME ClientInv, [Next]_vars, WaitsHeld, UNCHANGED <<op, hostWait, bits>>
    PROVE  AbstractStep
<1>1. HostAsk' = HostAsk
  BY DEF HostAsk
<1>2. Asks' = Asks
  BY <1>1, AsksStay, OthersAsk DEF WaitsHeld
<1>3. forcedExit' \in BOOLEAN
  BY SafetyStep DEF ClientInv, IInv, TypeOK
<1>. QED  BY <1>2, <1>3, StutterOrStop

\* Another client asks what it asked, while one thread's wait changes.
LEMMA ThreadMoves ==
    ASSUME NEW t \in Threads, OthersHeld(t), UNCHANGED hostWait,
           \A d \in GuestActors \ {t} : op'[d] = op[d]
    PROVE  \A d \in GuestActors \ {t} : AskOf(d)' = AskOf(d)
<1>1. HostAsk' = HostAsk
  BY DEF HostAsk
<1>. QED  BY <1>1, OthersAsk DEF OthersHeld

\* A wait that ends is a return of its client, with success or without.
LEMMA EndImplements ==
    ASSUME ClientInv, NEW t \in Threads, exec[t] # "guest", HeldWait(t)' = NoWait,
           OthersHeld(t), UNCHANGED <<op, hostWait, bits, forcedExit>>
    PROVE  AbstractStep
<1>. USE DEF ClientInv
<1>1. op[t] = NoOp /\ op'[t] = NoOp
  BY DEF ExportOK
<1>2. \A d \in GuestActors \ {t} : AskOf(d)' = AskOf(d)
  BY ThreadMoves
<1>3. AskOf(t)' = NoOp
  BY <1>1, ActorsAssumption DEF AskOf, BlockedAsk
<1>4. Asks' = [Asks EXCEPT ![t] = NoOp]
  BY <1>2, <1>3, AsksMove
<1>5. CASE Asks[t] = NoOp
  <2>1. Asks' = Asks
    BY <1>4, <1>5 DEF Asks
  <2>. QED  BY <2>1 DEF AbstractStep
<1>6. CASE Asks[t] # NoOp
  <2>1. Abstract!Return(t)
    BY <1>4, <1>6 DEF Abstract!Return
  <2>. QED  BY <2>1 DEF AbstractStep, Abstract!Next
<1>. QED  BY <1>5, <1>6

\* The wake handler grants the request of the thread it is evaluated for; once a
\* forced exit has sent that thread away, it succeeds for nobody.
LEMMA WakeImplements ==
    ASSUME ClientInv, NEW t \in Threads,
           (\E a \in Actors : FlagWake(a, t)) \/ FlagWakeAtPark(t)
    PROVE  AbstractStep
<1>. USE DEF ClientInv
<1>. DEFINE f == wait[t].key  d == wait[t].waiter
<1>1. /\ (\E a \in Actors : WakeWaiter(a, t)) \/ WakeAtPark(t) \/ NestedWake(t)
      /\ IsSatisfied(f, d) /\ ApplyClearMode(f, d) /\ UNCHANGED <<op, hostWait>>
  BY DEF FlagWake, FlagWakeAtPark, Prepare, Met
<1>2. UNCHANGED forcedExit
  BY <1>1 DEF WakeWaiter, WakeAtPark, NestedWake
<1>3. /\ wait[t] \in Waits
      /\ \/ /\ HeldWait(t) = Disarmed(wait[t]) /\ ~wait[t].granted
            /\ HeldWait(t)' = Granted(wait[t])
            /\ OthersHeld(t)
         \/ forcedExit /\ WaitsHeld
  BY <1>1, WakeFrame
<1>4. f \in Keys /\ d \in Demands
  BY <1>3 DEF Waits
<1>5. Abstract!Succeed(f, d)
  BY <1>1, <1>4, SucceedsOnce
<1>6. CASE forcedExit /\ WaitsHeld
  <2>1. HostAsk' = HostAsk
    BY <1>1 DEF HostAsk
  <2>2. Asks' = Asks
    BY <1>1, <1>6, <2>1, AsksStay, OthersAsk DEF WaitsHeld
  <2>3. Abstract!Lose(f, d)
    BY <1>2, <1>5, <1>6, <2>2 DEF Abstract!Lose
  <2>. QED  BY <1>4, <2>3 DEF AbstractStep, Abstract!Next
<1>7. CASE /\ HeldWait(t) = Disarmed(wait[t]) /\ ~wait[t].granted
           /\ HeldWait(t)' = Granted(wait[t])
           /\ OthersHeld(t)
  <2>. DEFINE v == Disarmed(wait[t])  g == Granted(wait[t])
  <2>1. v \in Waits /\ v # NoWait /\ g # NoWait
    BY <1>3, GrantedWait, NoneAssumption DEF Waits
  <2>2. /\ v.key = f /\ v.waiter = d /\ v.granted = FALSE
        /\ g.key = f /\ g.waiter = d /\ g.granted = TRUE
    BY <1>3, <1>7 DEF Disarmed, Granted, Waits
  <2>3. op[t] = NoOp /\ op'[t] = NoOp
    BY <1>1, <1>7, <2>1 DEF ExportOK, StageOK, HeldWait, Abandoned
  <2>4. AskOf(t) = Request(f, d, FALSE)
    <3>1. AskOf(t) = BlockedAsk(t)
      BY <2>3, ActorsAssumption DEF AskOf
    <3>2. BlockedAsk(t) = Request(v.key, v.waiter, v.granted)
      BY <1>7, <2>1 DEF BlockedAsk
    <3>. QED  BY <2>2, <3>1, <3>2
  <2>5. AskOf(t)' = Request(f, d, TRUE)
    <3>1. AskOf(t)' = BlockedAsk(t)'
      BY <2>3, ActorsAssumption DEF AskOf
    <3>2. BlockedAsk(t)' = Request(g.key, g.waiter, g.granted)
      BY <1>7, <2>1 DEF BlockedAsk
    <3>. QED  BY <2>2, <3>1, <3>2
  <2>6. \A c \in GuestActors \ {t} : AskOf(c)' = AskOf(c)
    BY <1>1, <1>7, ThreadMoves
  <2>7. Asks' = [Asks EXCEPT ![t] = Request(f, d, TRUE)]
    BY <2>5, <2>6, AsksMove
  <2>8. Asks[t] = Request(f, d, FALSE)
    BY <2>4 DEF Asks
  <2>9. Asks' = [Asks EXCEPT ![t].granted = TRUE]
    BY <1>4, <2>7, <2>8, RequestGranted
  <2>10. Asks[t] # NoOp /\ Asks[t].flag = f /\ Asks[t].demand = d /\ ~Asks[t].granted
    BY <1>4, <2>8, RequestAsks DEF Request
  <2>11. Abstract!Grant(t)
    BY <1>2, <1>5, <2>9, <2>10 DEF Abstract!Grant, Abstract!Waits
  <2>. QED  BY <2>11 DEF AbstractStep, Abstract!Next
<1>. QED  BY <1>3, <1>6, <1>7

\* A thread that asks to block goes on asking, by its wait instead of its export.
LEMMA BlockImplements ==
    ASSUME ClientInv, NEW t \in Threads, WaitBlock(t)
    PROVE  AbstractStep
<1>. USE DEF ClientInv
<1>. DEFINE w == [key |-> op[t].flag, timed |-> op[t].timed, waiter |-> op[t].want,
                  granted |-> FALSE]
<1>1. w \in NewWaits /\ w \in Waits
  BY OpTypes DEF WaitBlock, InExport, NewWaits, Waits
<1>2. RequestBlock(t, w) /\ op[t] # NoOp /\ op[t].kind = "wait"
  BY DEF WaitBlock, InExport
<1>3. op' = [op EXCEPT ![t] = NoOp] /\ op'[t] = NoOp /\ UNCHANGED <<bits, hostWait>>
  BY DEF WaitBlock, EndExport, FlagTypes, FlagTypeOK
<1>4. HeldWait(t)' = Disarmed(w) /\ OthersHeld(t) /\ UNCHANGED forcedExit
  <2>1. UNCHANGED forcedExit
    BY <1>2 DEF RequestBlock
  <2>. HIDE DEF w
  <2>. QED  BY <1>1, <1>2, <2>1, RequestFrame
<1>5. w.key = op[t].flag /\ w.waiter = op[t].want /\ w.granted = FALSE
  OBVIOUS
<1>. HIDE DEF w
<1>6. /\ Disarmed(w) # NoWait /\ Disarmed(w).key = op[t].flag
      /\ Disarmed(w).waiter = op[t].want /\ Disarmed(w).granted = FALSE
  BY <1>1, <1>5, NoneAssumption DEF Disarmed, Waits
<1>7. AskOf(t)' = Request(op[t].flag, op[t].want, FALSE)
  <2>1. AskOf(t)' = BlockedAsk(t)'
    BY <1>3, ActorsAssumption DEF AskOf
  <2>2. BlockedAsk(t)' = Request(Disarmed(w).key, Disarmed(w).waiter, Disarmed(w).granted)
    BY <1>4, <1>6 DEF BlockedAsk
  <2>. QED  BY <1>6, <2>1, <2>2
<1>8. AskOf(t) = Request(op[t].flag, op[t].want, FALSE)
  BY <1>2 DEF AskOf, ExportAsk
<1>9. \A d \in GuestActors \ {t} : AskOf(d)' = AskOf(d)
  BY <1>3, <1>4, ThreadMoves DEF FlagTypes, FlagTypeOK
<1>10. Asks' = Asks
  BY <1>7, <1>8, <1>9, AsksStay
<1>. QED  BY <1>3, <1>4, <1>10 DEF AbstractStep

\* The other steps of the scheduler hold every wait, or send a thread away.
LEMMA SchedulerImplements ==
    ASSUME ClientInv, SchedulerOnly, [Next]_vars
    PROVE  AbstractStep
<1>. USE DEF ClientInv
<1>1. UNCHANGED <<op, hostWait, bits>>
  BY DEF SchedulerOnly, LeavesFlags
<1>2. ASSUME NEW t \in Threads, RefuseSlice(t) \/ NestedForced(t)
      PROVE  AbstractStep
  <2>1. exec[t] # "guest" /\ UNCHANGED forcedExit
    BY <1>2 DEF RefuseSlice, NestedForced
  <2>2. HeldWait(t)' = NoWait /\ OthersHeld(t)
    BY <1>2, ForcedFrame
  <2>. QED  BY <1>1, <2>1, <2>2, EndImplements
<1>3. CASE HoldStep
  <2>1. WaitsHeld
    BY <1>3, HoldFrame
  <2>. QED  BY <1>1, <2>1, HeldImplements
<1>4. HoldStep \/ \E t \in Threads : RefuseSlice(t) \/ NestedForced(t)
  <2>1. CASE \E t \in Threads : RunnerStep(t)
    BY <2>1 DEF RunnerStep, HoldStep, StillStep
  <2>2. CASE \E t \in Threads : GuestStep(t)
    BY <2>2 DEF GuestStep, HoldStep, StillStep
  <2>3. CASE \/ \E a \in GuestActors : CallPump(a)
             \/ \E a \in GuestActors, t \in Threads : TryStartThread(a, t)
             \/ EntryReturn \/ BackgroundStep \/ SessionStep
    BY <2>3 DEF HoldStep, StillStep, Actors
  <2>. QED  BY <2>1, <2>2, <2>3 DEF SchedulerOnly
<1>. QED  BY <1>2, <1>3, <1>4

\* Every step on the flags is a step of the abstract one, or a stutter.
LEMMA ClientStep ==
    ASSUME ClientInv, [FlagNext]_allVars
    PROVE  ClientInv' /\ AbstractStep
<1>. USE DEF ClientInv
<1>1. [Next]_vars
  BY SchedulerStep
<1>2. ClientInv'
  BY <1>1, SafetyStep, RunningStep, StageStep, FlagTypesStep, ExportStep
<1>3. ASSUME HoldStep, UNCHANGED <<op, hostWait, bits>>
      PROVE  AbstractStep
  <2>1. WaitsHeld
    BY <1>3, HoldFrame
  <2>. QED  BY <1>1, <1>3, <2>1, HeldImplements
<1>4. ASSUME NEW a \in Actors, FlagActorStep(a)
      PROVE  AbstractStep
  <2>1. CASE LoopStep(a) /\ LeavesFlags
    BY <1>3, <2>1 DEF HoldStep, StillStep, LeavesFlags
  <2>2. CASE \E t \in Threads : FlagWake(a, t)
    BY <2>2, WakeImplements
  <2>3. CASE \E t \in Threads : FlagPass(a, t)
    BY <1>3, <2>3 DEF FlagPass, NotMet, LeavesFlags, HoldStep, StillStep
  <2>. QED  BY <1>4, <2>1, <2>2, <2>3 DEF FlagActorStep
<1>5. ASSUME NEW t \in Threads, FlagPark(t)
      PROVE  AbstractStep
  BY <1>3, <1>5 DEF FlagPark, NotMet, LeavesFlags, HoldStep
<1>6. ASSUME NEW t \in Threads, FlagResume(t)
      PROVE  AbstractStep
  <2>1. /\ Resume(t) /\ exec[t] # "guest" /\ UNCHANGED <<op, hostWait, bits, forcedExit>>
    BY <1>6 DEF FlagResume, LeavesFlags, Resume
  <2>2. HeldWait(t)' = NoWait /\ OthersHeld(t)
    BY <2>1, ResumeFrame
  <2>. QED  BY <2>1, <2>2, EndImplements
<1>7. CASE \E a \in GuestActors, f \in Keys : Create(a, f) \/ Delete(a, f)
  <2>1. UNCHANGED <<vars, op, hostWait, bits>>
    BY <1>7 DEF Create, Delete
  <2>. QED  BY <1>2, <1>3, <2>1 DEF HoldStep, StillStep
<1>8. CASE UNCHANGED allVars
  <2>1. UNCHANGED <<vars, op, hostWait, bits>>
    BY <1>8 DEF allVars
  <2>. QED  BY <1>2, <1>3, <2>1 DEF HoldStep, StillStep
<1>9. FlagNext => AbstractStep
  BY <1>1, <1>4, <1>5, <1>6, <1>7, SchedulerImplements, WakeImplements, BlockImplements,
     CallImplements, FinishImplements, HostImplements DEF FlagNext
<1>. QED  BY <1>2, <1>8, <1>9

\* At first nobody asks, and the bits are those of the creation.
LEMMA ClientInit == FlagInit => ClientInv /\ Abstract!Init
<1>. SUFFICES ASSUME FlagInit
              PROVE  ClientInv /\ Abstract!Init
  OBVIOUS
<1>1. Init
  BY DEF FlagInit
<1>2. ExportOK
  BY DEF FlagInit, ExportOK
<1>3. ClientInv
  BY <1>1, <1>2, FlagTypesInit, RunningInit, StageInit DEF ClientInv
<1>4. \A c \in GuestActors : AskOf(c) = NoOp
  BY <1>1 DEF FlagInit, Init, AskOf, HostAsk, BlockedAsk, HeldWait
<1>5. Asks = [c \in GuestActors |-> NoOp]
  BY <1>4 DEF Asks
<1>6. bits = InitialBits /\ forcedExit = FALSE
  BY <1>1 DEF FlagInit, Init
<1>. QED  BY <1>3, <1>5, <1>6 DEF Abstract!Init

\* The event flags on the scheduler are event flags, for any threads, flags,
\* conditions and arguments: every export, wake handler, resume handler, park and
\* host wait maps to one step of the abstract flag or to none.
THEOREM ImplementsFlag == FlagSpec => ImplementsEventFlag
<1>1. FlagInit => ClientInv /\ Abstract!Init
  BY ClientInit
<1>2. ClientInv /\ [FlagNext]_allVars => ClientInv' /\ [Abstract!Next]_<<bits, Asks, forcedExit>>
  BY ClientStep DEF AbstractStep
<1>. QED  BY <1>1, <1>2, PTL DEF FlagSpec, ImplementsEventFlag, Abstract!Spec
=============================================================================
