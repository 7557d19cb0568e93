---------------------- MODULE KernelSyncOnAddressProofs ----------------------
(***************************************************************************)
(* What holds of sync-on-address for any threads, addresses and wakes: it  *)
(* is a use of the scheduler, a wake for all reaches every wait that began *)
(* before it, a limited one wakes as many as it may, and the host thread   *)
(* misses no pulse.                                                        *)
(***************************************************************************)
EXTENDS KernelSyncOnAddress, GuestSchedulerWakes

USE DEF GuestActors, Generations

\* What has been observed is a generation of the past or the present, and a
\* wake is one of those the bound admits.
Observed ==
    /\ \A k \in Keys : generation[k] \in 0..MaxGeneration[k]
    /\ \A t \in Threads : pending[t] # NoWait =>
         pending[t].waiter <= generation[pending[t].key]
    /\ \A a \in GuestActors : op[a] # NoOp =>
         /\ op[a].seen <= generation[op[a].address]
         /\ op[a].kind = "wake" => op[a].seen < MaxGeneration[op[a].address]

SyncTypes == SyncTypeOK /\ Observed

\* Generations are numbers.
LEMMA GenerationNat ==
    Waiters \subseteq Nat /\ \A k \in Keys : 0..MaxGeneration[k] \subseteq Waiters
<1>1. \A k \in Keys : MaxGeneration[k] \in Nat
  BY AddressAssumption
<1>. QED  BY <1>1, AddressAssumption

\* The export a is in, if it is in one
LEMMA OpTypes ==
    ASSUME SyncTypes, NEW a \in GuestActors, op[a] # NoOp
    PROVE  /\ op[a] \in Ops /\ op[a].address \in Keys /\ op[a].seen \in Waiters
           /\ op[a].seen \in Nat /\ op[a].seen <= generation[op[a].address]
           /\ op[a].kind = "wake" => op[a].seen + 1 \in 1..MaxGeneration[op[a].address]
           /\ generation[op[a].address] \in Nat
<1>1. op[a] \in Ops /\ op[a].address \in Keys /\ op[a].seen \in Waiters
  BY DEF SyncTypes, SyncTypeOK, Ops
<1>2. op[a].seen \in Nat /\ generation[op[a].address] \in 0..MaxGeneration[op[a].address]
  BY <1>1, GenerationNat DEF SyncTypes, Observed
<1>3. MaxGeneration[op[a].address] \in Nat
  BY <1>1, AddressAssumption
<1>. QED  BY <1>1, <1>2, <1>3 DEF SyncTypes, Observed

\* What a wait asks to block with
LEMMA BlockRequest ==
    ASSUME SyncTypes, NEW t \in Threads, WaitBlock(t)
    PROVE  \E w \in NewWaits :
        RequestBlock(t, w) /\ w.key = op[t].address /\ w.waiter = op[t].seen
<1>. DEFINE w == [key |-> op[t].address, timed |-> TRUE, waiter |-> op[t].seen, granted |-> FALSE]
<1>1. op[t] # NoOp
  BY DEF WaitBlock, InExport
<1>2. w \in NewWaits
  BY <1>1, OpTypes DEF NewWaits, Waits
<1>3. RequestBlock(t, w)
  BY DEF WaitBlock
<1>. QED  BY <1>2, <1>3

\* What a wake calls the scheduler with
LEMMA WakeRequest ==
    ASSUME SyncTypes, NEW a \in GuestActors, WakeCall(a)
    PROVE  /\ op[a] # NoOp /\ op[a].kind = "wake" /\ a \in Actors
           /\ WakeCount[op[a].address][op[a].seen + 1] \in WakeLimits
<1>1. op[a] # NoOp /\ op[a].kind = "wake"
  BY DEF WakeCall, InExport
<1>2. op[a].address \in Keys /\ op[a].seen + 1 \in 1..MaxGeneration[op[a].address]
  BY <1>1, OpTypes
<1>. QED  BY <1>1, <1>2, AddressAssumption DEF Actors

\* Every other step is one of the scheduler that requests no block.
LEMMA OtherSteps ==
    ASSUME SyncTypes, [SyncNext]_allVars, ~\E t \in Threads : WaitBlock(t)
    PROVE  NoRequest
<1>1. CASE SchedulerOnly
  BY <1>1 DEF SchedulerOnly, NoRequest, ActorStep, SliceStep, Actors
<1>2. CASE \E a \in Actors, t \in Threads : SyncWake(a, t) \/ SyncPass(a, t)
  BY <1>2 DEF SyncWake, SyncPass, NoRequest, ActorStep
<1>3. CASE \E t \in Threads : SyncPark(t) \/ SyncWakeAtPark(t)
  BY <1>3 DEF SyncPark, SyncWakeAtPark, NoRequest, SliceStep
<1>4. ASSUME NEW a \in GuestActors, WakeCall(a)
      PROVE  NoRequest
  <2>1. a \in Actors /\ op[a] # NoOp /\ WakeCount[op[a].address][op[a].seen + 1] \in WakeLimits
    BY <1>4, WakeRequest
  <2>2. op[a].address \in Keys
    BY <2>1, OpTypes
  <2>. QED  BY <1>4, <2>1, <2>2 DEF WakeCall, NoRequest
<1>5. CASE \/ \E a \in GuestActors, k \in Keys : WaitBegin(a, k) \/ WakeBegin(a, k)
           \/ \E a \in GuestActors : WakePulse(a)
           \/ HostWait \/ HostTimeout \/ UNCHANGED allVars
  BY <1>5 DEF WaitBegin, WakeBegin, WakePulse, HostWait, HostTimeout, allVars, NoRequest
<1>. QED  BY <1>1, <1>2, <1>3, <1>4, <1>5 DEF SyncNext

\* The exports act on the scheduler in its own steps only.
LEMMA SchedulerStep ==
    ASSUME SyncTypes, [SyncNext]_allVars
    PROVE  [Next]_vars
<1>1. CASE \E t \in Threads : WaitBlock(t)
  BY <1>1, BlockRequest DEF Next
<1>2. CASE ~\E t \in Threads : WaitBlock(t)
  BY <1>2, OtherSteps DEF NoRequest, Next
<1>. QED  BY <1>1, <1>2

-----------------------------------------------------------------------------
\* Steps that change no generation and observe none anew
LEMMA SameGeneration ==
    ASSUME SyncTypes, WaitsMove, generation' = generation, op' = op, hostWait' = hostWait,
           TypeOK
    PROVE  SyncTypes'
<1>1. ASSUME NEW t \in Threads, wait'[t] # NoWait
      PROVE  wait'[t].waiter <= generation[wait'[t].key]
  BY <1>1 DEF WaitsMove, SameWait, SyncTypes, SyncTypeOK, Observed
<1>2. ASSUME NEW t \in Threads, pending'[t] # NoWait
      PROVE  pending'[t].waiter <= generation[pending'[t].key]
  BY <1>2 DEF WaitsMove, SyncTypes, Observed
<1>. QED  BY <1>1, <1>2 DEF SyncTypes, SyncTypeOK, Observed

\* Every step keeps the types and the order of what has been observed.
LEMMA SyncTypesStep ==
    ASSUME SyncTypes, IInv, [SyncNext]_allVars
    PROVE  SyncTypes'
<1>. USE DEF IInv
<1>1. ASSUME NEW t \in Threads, WaitBlock(t)
      PROVE  SyncTypes'
  <2>1. PICK w \in NewWaits : /\ RequestBlock(t, w) /\ w.key = op[t].address
                              /\ w.waiter = op[t].seen
    BY <1>1, BlockRequest
  <2>2. op[t] # NoOp
    BY <1>1 DEF WaitBlock, InExport
  <2>3. w.waiter <= generation[w.key]
    BY <2>1, <2>2, OpTypes
  <2>4. wait' = wait /\ pending' = [pending EXCEPT ![t] = w]
    BY <2>1 DEF RequestBlock, tableVars
  <2>5. op' = [op EXCEPT ![t] = NoOp] /\ generation' = generation /\ hostWait' = hostWait
    BY <1>1 DEF WaitBlock, SetOp
  <2>6. SyncTypeOK'
    BY <2>4, <2>5 DEF SyncTypes, SyncTypeOK
  <2>7. \A u \in Threads :
      pending'[u] # NoWait => pending'[u].waiter <= generation[pending'[u].key]
    BY <2>3, <2>4 DEF SyncTypes, Observed, TypeOK
  <2>. QED  BY <2>5, <2>6, <2>7 DEF SyncTypes, SyncTypeOK, Observed
<1>2. CASE ~\E t \in Threads : WaitBlock(t)
  <2>1. WaitsMove
    BY <1>2, OtherSteps, WaitFrame
  <2>2. CASE UNCHANGED syncVars
    BY <2>1, <2>2, SameGeneration DEF syncVars
  <2>3. ASSUME NEW a \in GuestActors, NEW k \in Keys, WaitBegin(a, k)
        PROVE  SyncTypes'
    <3>1. /\ UNCHANGED <<wait, pending, generation, hostWait>>
          /\ op' = [op EXCEPT ![a] = [kind |-> "wait", address |-> k, seen |-> generation[k]]]
      BY <2>3 DEF WaitBegin, SetOp, Operation, vars, tableVars, sliceVars, waitVars
    <3>2. generation[k] \in Nat /\ generation[k] \in Waiters
      BY AddressAssumption DEF SyncTypes, SyncTypeOK, Observed
    <3>3. [kind |-> "wait", address |-> k, seen |-> generation[k]] \in Ops
      BY <3>2 DEF Ops
    <3>. QED  BY <3>1, <3>2, <3>3 DEF SyncTypes, SyncTypeOK, Observed
  <2>4. ASSUME NEW a \in GuestActors, NEW k \in Keys, WakeBegin(a, k)
        PROVE  SyncTypes'
    <3>1. /\ UNCHANGED <<wait, pending, hostWait>> /\ generation[k] < MaxGeneration[k]
          /\ generation' = [generation EXCEPT ![k] = @ + 1]
          /\ op' = [op EXCEPT ![a] = [kind |-> "wake", address |-> k, seen |-> generation[k]]]
      BY <2>4 DEF WakeBegin, SetOp, Operation, vars, tableVars, sliceVars, waitVars
    <3>2. /\ \A l \in Keys : generation[l] \in 0..MaxGeneration[l] /\ MaxGeneration[l] \in Nat
          /\ generation \in [Keys -> Waiters]
      BY AddressAssumption DEF SyncTypes, SyncTypeOK, Observed
    <3>3. \A l \in Keys : /\ generation'[l] \in 0..MaxGeneration[l]
                          /\ generation[l] <= generation'[l]
      BY <3>1, <3>2
    <3>4. generation' \in [Keys -> Waiters]
      BY <3>1, <3>2, <3>3, GenerationNat
    <3>5. [kind |-> "wake", address |-> k, seen |-> generation[k]] \in Ops
      BY <3>2 DEF Ops
    <3>6. op' \in [GuestActors -> Ops \cup {NoOp}]
      BY <3>1, <3>5 DEF SyncTypes, SyncTypeOK
    <3>7. ASSUME NEW w \in Waits, w.waiter <= generation[w.key]
          PROVE  w.waiter <= generation'[w.key]
      <4>1. w.key \in Keys /\ w.waiter \in Nat
        BY GenerationNat DEF Waits
      <4>. QED  BY <3>2, <3>3, <3>7, <4>1
    <3>8. \A t \in Threads : wait[t] # NoWait => wait[t].waiter <= generation'[wait[t].key]
      BY <3>7 DEF SyncTypes, SyncTypeOK, TypeOK
    <3>9. \A t \in Threads :
        pending[t] # NoWait => pending[t].waiter <= generation'[pending[t].key]
      BY <3>7 DEF SyncTypes, Observed, TypeOK
    <3>10. ASSUME NEW b \in GuestActors, op'[b] # NoOp
           PROVE  /\ op'[b].seen <= generation'[op'[b].address]
                  /\ op'[b].kind = "wake" => op'[b].seen < MaxGeneration[op'[b].address]
      <4>1. CASE b = a
        BY <3>1, <3>2, <3>3, <4>1 DEF SyncTypes, SyncTypeOK
      <4>2. CASE b # a
        <5>1. op'[b] = op[b]
          BY <3>1, <4>2 DEF SyncTypes, SyncTypeOK
        <5>2. /\ op[b].address \in Keys /\ op[b].seen \in Nat
              /\ op[b].seen <= generation[op[b].address]
          BY <3>10, <5>1, OpTypes
        <5>3. op[b].seen <= generation'[op[b].address]
          BY <3>2, <3>3, <5>2
        <5>. QED  BY <3>10, <5>1, <5>3 DEF SyncTypes, Observed
      <4>. QED  BY <4>1, <4>2
    <3>. QED  BY <3>1, <3>3, <3>4, <3>6, <3>8, <3>9, <3>10 DEF SyncTypes, SyncTypeOK, Observed
  <2>5. ASSUME NEW a \in GuestActors, WakeCall(a)
        PROVE  SyncTypes'
    <3>1. /\ UNCHANGED <<wait, pending, hostWait, generation>>
          /\ op' = [op EXCEPT ![a] = [op[a] EXCEPT !.kind = "pulse"]]
      BY <2>5 DEF WakeCall, SetOp, CallWake, tableVars, sliceVars, waitVars
    <3>2. op[a] # NoOp /\ op[a] \in Ops
      BY <2>5, WakeRequest, OpTypes
    <3>3. /\ [op[a] EXCEPT !.kind = "pulse"] \in Ops
          /\ [op[a] EXCEPT !.kind = "pulse"].seen = op[a].seen
          /\ [op[a] EXCEPT !.kind = "pulse"].address = op[a].address
          /\ [op[a] EXCEPT !.kind = "pulse"].kind = "pulse"
      BY <3>2 DEF Ops
    <3>. HIDE DEF Ops
    <3>. QED  BY <3>1, <3>2, <3>3 DEF SyncTypes, SyncTypeOK, Observed
  <2>6. ASSUME NEW a \in GuestActors, WakePulse(a)
        PROVE  SyncTypes'
    <3>1. UNCHANGED <<wait, pending, generation>> /\ op' = [op EXCEPT ![a] = NoOp]
      BY <2>6 DEF WakePulse, SetOp, vars, tableVars, sliceVars, waitVars
    <3>2. hostWait' \in Ops \cup {NoOp}
      BY <2>6 DEF WakePulse, SyncTypes, SyncTypeOK
    <3>. QED  BY <3>1, <3>2 DEF SyncTypes, SyncTypeOK, Observed
  <2>7. CASE HostWait
    <3>1. UNCHANGED <<wait, pending, generation>> /\ op' = [op EXCEPT ![Main] = NoOp]
      BY <2>7 DEF HostWait, SetOp, vars, tableVars, sliceVars, waitVars
    <3>2. hostWait' \in Ops \cup {NoOp}
      BY <2>7 DEF HostWait, SyncTypes, SyncTypeOK
    <3>. QED  BY <3>1, <3>2 DEF SyncTypes, SyncTypeOK, Observed
  <2>8. CASE HostTimeout
    <3>1. UNCHANGED <<wait, pending, generation, op>> /\ hostWait' = NoOp
      BY <2>8 DEF HostTimeout, vars, tableVars, sliceVars, waitVars
    <3>. QED  BY <3>1 DEF SyncTypes, SyncTypeOK, Observed
  <2>. QED  BY <1>2, <2>2, <2>3, <2>4, <2>5, <2>6, <2>7, <2>8 DEF SyncNext, SchedulerOnly,
            SyncWake, SyncPass, SyncPark, SyncWakeAtPark, Leaves, allVars
<1>. QED  BY <1>1, <1>2

\* It all holds at first.
LEMMA SyncTypesInit == SyncInit => SyncTypes /\ IInv
<1>. SUFFICES ASSUME SyncInit
              PROVE  SyncTypes /\ IInv
  OBVIOUS
<1>1. Init /\ IInv
  BY SafetyInit DEF SyncInit
<1>2. \A k \in Keys : 0 \in 0..MaxGeneration[k]
  BY AddressAssumption
<1>3. generation \in [Keys -> Waiters]
  BY <1>2, GenerationNat DEF SyncInit
<1>. QED  BY <1>1, <1>2, <1>3 DEF SyncInit, Init, SyncTypes, SyncTypeOK, Observed

\* Sync-on-address lives by the scheduler's rules: every behaviour of the guest
\* with it is one of the scheduler, so that whatever holds of that holds here.
THEOREM RunsScheduler == SyncSpec => Spec
<1>1. SyncInit => Init
  BY DEF SyncInit
<1>2. SyncTypes /\ IInv /\ [SyncNext]_allVars => [Next]_vars /\ (SyncTypes /\ IInv)'
  BY SchedulerStep, SyncTypesStep, SafetyStep
<1>. QED  BY <1>1, <1>2, SyncTypesInit, PTL DEF SyncSpec, Spec

\* A wait, wherever it is, has observed a generation of the past or the present.
THEOREM SyncTypeCorrect == SyncSpec => []SyncTypeOK
<1>1. SyncTypes /\ IInv /\ [SyncNext]_allVars => (SyncTypes /\ IInv)'
  BY SchedulerStep, SyncTypesStep, SafetyStep
<1>2. SyncTypes => SyncTypeOK
  BY DEF SyncTypes
<1>. QED  BY <1>1, <1>2, SyncTypesInit, PTL DEF SyncSpec

-----------------------------------------------------------------------------
(* The host thread looks at the generation again under its monitor, and a  *)
(* wake pulses the monitor after the bump.                                 *)

\* A pulse of k is still to come
PulseComes(k) ==
    \E a \in GuestActors : op[a] # NoOp /\ op[a].address = k /\ op[a].kind \in {"wake", "pulse"}

\* A step that leaves the generations, the host wait and the wakes alone
LEMMA PulseStays ==
    ASSUME NoMissedPulse, generation' = generation, hostWait' = hostWait \/ hostWait' = NoOp,
           \A a \in GuestActors : op[a] # NoOp /\ op[a].kind \in {"wake", "pulse"} =>
              /\ op'[a] # NoOp /\ op'[a].address = op[a].address
              /\ op'[a].kind \in {"wake", "pulse"}
    PROVE  NoMissedPulse'
  BY DEF NoMissedPulse

\* No step loses a pulse.
LEMMA PulseStep ==
    ASSUME SyncTypes, NoMissedPulse, [SyncNext]_allVars
    PROVE  NoMissedPulse'
<1>. USE DEF SyncTypes, SyncTypeOK
<1>1. CASE UNCHANGED syncVars
  BY <1>1, PulseStays DEF syncVars
<1>2. ASSUME NEW a \in GuestActors, NEW k \in Keys, WaitBegin(a, k)
      PROVE  NoMissedPulse'
  BY <1>2, PulseStays DEF WaitBegin, CanExport, SetOp
<1>3. ASSUME NEW a \in GuestActors, NEW k \in Keys, WakeBegin(a, k)
      PROVE  NoMissedPulse'
  <2>1. /\ op[a] = NoOp /\ hostWait' = hostWait
        /\ generation' = [generation EXCEPT ![k] = @ + 1]
        /\ op' = [op EXCEPT ![a] = [kind |-> "wake", address |-> k, seen |-> generation[k]]]
    BY <1>3 DEF WakeBegin, CanExport, SetOp, Operation
  <2>2. op'[a] # NoOp /\ op'[a].address = k /\ op'[a].kind = "wake"
    <3>1. generation[k] \in Waiters
      OBVIOUS
    <3>2. [kind |-> "wake", address |-> k, seen |-> generation[k]] \in Ops
      BY <3>1 DEF Ops
    <3>. QED  BY <2>1, <3>2, NoOpAssumption
  <2>3. \A b \in GuestActors : op[b] # NoOp => op'[b] = op[b]
    BY <2>1
  <2>4. hostWait # NoOp => hostWait.address \in Keys
    BY DEF Ops
  <2>. QED  BY <2>1, <2>2, <2>3, <2>4 DEF NoMissedPulse
<1>4. ASSUME NEW a \in GuestActors, WakeCall(a)
      PROVE  NoMissedPulse'
  <2>1. /\ generation' = generation /\ hostWait' = hostWait
        /\ op' = [op EXCEPT ![a] = [op[a] EXCEPT !.kind = "pulse"]]
    BY <1>4 DEF WakeCall, SetOp
  <2>2. op[a] # NoOp /\ op[a] \in Ops
    BY <1>4, WakeRequest, OpTypes
  <2>3. /\ [op[a] EXCEPT !.kind = "pulse"] \in Ops
        /\ [op[a] EXCEPT !.kind = "pulse"].address = op[a].address
        /\ [op[a] EXCEPT !.kind = "pulse"].kind = "pulse"
    BY <2>2 DEF Ops
  <2>. QED  BY <2>1, <2>3, NoOpAssumption, PulseStays
<1>5. ASSUME NEW a \in GuestActors, WakePulse(a)
      PROVE  NoMissedPulse'
  <2>1. /\ generation' = generation
        /\ op' = [op EXCEPT ![a] = NoOp]
        /\ hostWait' = IF hostWait # NoOp /\ hostWait.address = op[a].address
                         THEN NoOp ELSE hostWait
    BY <1>5 DEF WakePulse, SetOp
  <2>2. \A b \in GuestActors \ {a} : op'[b] = op[b]
    BY <2>1
  <2>. QED  BY <2>1, <2>2 DEF NoMissedPulse
<1>6. ASSUME NEW t \in Threads, WaitBlock(t)
      PROVE  NoMissedPulse'
  BY <1>6, PulseStays DEF WaitBlock, InExport, SetOp
<1>7. CASE HostWait
  <2>1. /\ generation' = generation /\ op' = [op EXCEPT ![Main] = NoOp]
        /\ hostWait' # NoOp => generation[hostWait'.address] = hostWait'.seen
    BY <1>7 DEF HostWait, SetOp
  <2>. QED  BY <2>1 DEF NoMissedPulse
<1>8. CASE HostTimeout
  BY <1>8, PulseStays DEF HostTimeout
<1>. QED  BY <1>1, <1>2, <1>3, <1>4, <1>5, <1>6, <1>7, <1>8 DEF SyncNext, SchedulerOnly,
          SyncWake, SyncPass, SyncPark, SyncWakeAtPark, Leaves, allVars, syncVars

\* The main host thread never sleeps through a wake, for any number of wakers
\* and addresses: not even one between its two looks at the generation.
THEOREM PulsesAreNotMissed == SyncSpec => []NoMissedPulse
<1>1. SyncInit => NoMissedPulse
  BY DEF SyncInit, NoMissedPulse
<1>2. SyncTypes /\ IInv /\ [SyncNext]_allVars => (SyncTypes /\ IInv)'
  BY SchedulerStep, SyncTypesStep, SafetyStep
<1>3. SyncTypes /\ NoMissedPulse /\ [SyncNext]_allVars => NoMissedPulse'
  BY PulseStep
<1>. QED  BY <1>1, <1>2, <1>3, SyncTypesInit, PTL DEF SyncSpec

-----------------------------------------------------------------------------
(* A wake for all waiters.  The n-th wake of an address is the one that     *)
(* bumps its generation from n - 1 to n; if its limit is no smaller than    *)
(* the number of threads it visits every thread that was parked before it. *)

\* The wake of a can still wake everyone it has yet to visit
Unlimited(a) ==
    IF gate = a THEN Cardinality(todo) <= call[a].limit
                ELSE Cardinality(Threads) <= call[a].limit

\* The n-th wake of k is still to reach t
WakeReaches(k, n, t) ==
    \E a \in GuestActors :
        /\ op[a] # NoOp /\ op[a].address = k
        /\ \/ op[a].kind = "wake" /\ op[a].seen + 1 = n
           \/ op[a].kind = "pulse" /\ pc[a] = "wake" /\ t \in Candidates(a) /\ Unlimited(a)

\* Whoever parked before a wake for all will be reached by that very wake.
WakesReach ==
    ~forcedExit => \A t \in Threads : Parked(t) =>
        \A n \in wait[t].waiter + 1..generation[wait[t].key] :
            WakeCount[wait[t].key][n] >= Cardinality(Threads)
                => WakeReaches(wait[t].key, n, t)

\* What a registered wait has observed
LEMMA ObservedWait ==
    ASSUME TypeOK, NEW t \in Threads, wait[t] # NoWait
    PROVE  wait[t].key \in Keys /\ wait[t].waiter \in Nat
<1>1. wait[t] \in Waits
  BY DEF TypeOK
<1>. QED  BY <1>1, GenerationNat DEF Waits

\* The wakes of an address that came after it are among those of the bound.
LEMMA LaterWakes ==
    ASSUME SyncTypes, NEW k \in Keys, NEW w \in Nat, NEW n \in w + 1..generation[k]
    PROVE  n \in 1..MaxGeneration[k]
<1>1. generation[k] \in 0..MaxGeneration[k] /\ MaxGeneration[k] \in Nat
  BY AddressAssumption DEF SyncTypes, Observed
<1>. QED  BY <1>1

\* A wake for all that reaches every parked thread leaves nobody behind.
LEMMA ReachSuffices ==
    ASSUME SyncTypes, TypeOK, WakesReach
    PROVE  NoMissedWake
<1>1. SUFFICES ASSUME ~forcedExit, NEW t \in Threads, LeftBehind(t),
                      NEW n \in wait[t].waiter + 1..generation[wait[t].key]
               PROVE  WakeCount[wait[t].key][n] < Cardinality(Threads)
  BY DEF NoMissedWake
<1>2. Parked(t) /\ ~WakeIsComing(wait[t].key, t) /\ wait[t] # NoWait
  BY <1>1 DEF LeftBehind, Parked
<1>3. ~WakeReaches(wait[t].key, n, t)
  BY <1>2 DEF WakeReaches, WakeIsComing
<1>4. ~(WakeCount[wait[t].key][n] >= Cardinality(Threads))
  BY <1>1, <1>2, <1>3 DEF WakesReach
<1>5. n \in 1..MaxGeneration[wait[t].key] /\ wait[t].key \in Keys
  <2>1. wait[t].waiter \in Nat /\ wait[t].key \in Keys
    BY <1>2, ObservedWait
  <2>. QED  BY <1>1, <2>1, LaterWakes
<1>6. WakeCount[wait[t].key][n] \in Nat
  BY <1>5, AddressAssumption, BoundsAssumption
<1>7. Cardinality(Threads) \in Nat
  BY ActorsAssumption, FS_CardinalityType
<1>. QED  BY <1>4, <1>6, <1>7

\* Steps that park nobody, bump nothing and touch no wake
LEMMA QuietReaches ==
    ASSUME SyncTypes, TypeOK, WakesReach, [Next]_vars,
           WakesStay, ~forcedExit => NobodyParks, generation' = generation,
           \A a \in GuestActors :
              /\ op[a] # NoOp
              /\ op[a].kind = "wake" \/ (op[a].kind = "pulse" /\ pc[a] = "wake")
              => op'[a] = op[a]
    PROVE  WakesReach'
<1>1. SUFFICES ASSUME ~forcedExit', NEW t \in Threads, Parked(t)',
                      NEW n \in wait'[t].waiter + 1..generation'[wait'[t].key],
                      WakeCount[wait'[t].key][n] >= Cardinality(Threads)
               PROVE  WakeReaches(wait[t].key, n, t)'
  BY DEF WakesReach
<1>2. ~forcedExit /\ Parked(t) /\ wait'[t] = wait[t]
  BY <1>1, ForcedStays DEF NobodyParks
<1>3. WakeReaches(wait[t].key, n, t)
  BY <1>1, <1>2 DEF WakesReach
<1>4. PICK a \in GuestActors :
        /\ op[a] # NoOp /\ op[a].address = wait[t].key
        /\ \/ op[a].kind = "wake" /\ op[a].seen + 1 = n
           \/ op[a].kind = "pulse" /\ pc[a] = "wake" /\ t \in Candidates(a) /\ Unlimited(a)
  BY <1>3 DEF WakeReaches
<1>5. op'[a] = op[a] /\ a \in Actors
  BY <1>4 DEF Actors
<1>6. CASE op[a].kind = "wake" /\ op[a].seen + 1 = n
  BY <1>2, <1>4, <1>5, <1>6 DEF WakeReaches
<1>7. CASE op[a].kind = "pulse" /\ pc[a] = "wake" /\ t \in Candidates(a) /\ Unlimited(a)
  <2>1. pc'[a] = "wake" /\ call'[a] = call[a] /\ (gate' = a <=> gate = a) /\ todo' = todo
    BY <1>5, <1>7 DEF WakesStay
  <2>2. gate # a => t \in ParkedOn(call[a].key)'
    BY <1>1, <1>2, <1>7, <2>1 DEF Candidates, ParkedOn
  <2>3. t \in Candidates(a)' /\ Unlimited(a)'
    BY <1>7, <2>1, <2>2 DEF Candidates, Unlimited
  <2>. QED  BY <1>2, <1>4, <1>5, <1>7, <2>1, <2>3 DEF WakeReaches
<1>. QED  BY <1>4, <1>6, <1>7

\* Steps that leave the scheduler alone
LEMMA IdleFrame ==
    ASSUME UNCHANGED vars
    PROVE  WakesStay /\ NobodyParks
<1>1. UNCHANGED <<guestThreads, state, wait, gate, todo, pc, call>>
  BY DEF vars, tableVars, gateVars, callVars
<1>. QED  BY <1>1 DEF WakesStay, NobodyParks, Parked

\* What all steps keep together
SyncInvariant == IInv /\ RunningOK /\ SyncTypes /\ WakesReach

\* The scheduler's quiet steps, whatever becomes of the exports that only wait
LEMMA OtherReaches ==
    ASSUME SyncInvariant, QuietStep, [Next]_vars, generation' = generation,
           \A a \in GuestActors : op[a] # NoOp /\ op[a].kind # "wait" => op'[a] = op[a]
    PROVE  WakesReach'
<1>. USE DEF SyncInvariant, IInv
<1>1. WakesStay
  BY QuietWakes
<1>2. ~forcedExit => NobodyParks
  BY QuietParks
<1>. QED  BY <1>1, <1>2, QuietReaches

\* A wake begins: it bumps the generation and has everybody to visit.
LEMMA BeginReaches ==
    ASSUME SyncTypes, TypeOK, WakesReach, NEW a \in GuestActors, NEW k \in Keys, WakeBegin(a, k)
    PROVE  WakesReach'
<1>1. /\ UNCHANGED vars /\ op[a] = NoOp
      /\ generation' = [generation EXCEPT ![k] = @ + 1]
      /\ op' = [op EXCEPT ![a] = [kind |-> "wake", address |-> k, seen |-> generation[k]]]
  BY DEF WakeBegin, CanExport, SetOp, Operation
<1>2. /\ UNCHANGED <<guestThreads, state, wait, gate, todo, pc, call, forcedExit>>
  BY <1>1 DEF vars, tableVars, gateVars, callVars, mainVars
<1>3. generation \in [Keys -> Waiters] /\ \A l \in Keys : generation[l] \in Nat
  BY GenerationNat DEF SyncTypes, SyncTypeOK
<1>4. [kind |-> "wake", address |-> k, seen |-> generation[k]] \in Ops
  BY <1>3 DEF Ops
<1>5. /\ op'[a] # NoOp /\ op'[a].address = k /\ op'[a].kind = "wake"
      /\ op'[a].seen = generation[k]
  BY <1>1, <1>4, NoOpAssumption DEF SyncTypes, SyncTypeOK
<1>6. \A b \in GuestActors : op[b] # NoOp => op'[b] = op[b]
  BY <1>1
<1>7. SUFFICES ASSUME ~forcedExit, NEW t \in Threads, Parked(t),
                      NEW n \in wait[t].waiter + 1..generation'[wait[t].key],
                      WakeCount[wait[t].key][n] >= Cardinality(Threads)
               PROVE  WakeReaches(wait[t].key, n, t)'
  <2>1. \A t \in Threads : Parked(t)' <=> Parked(t)
    BY <1>2 DEF Parked
  <2>. QED  BY <1>2, <1>7, <2>1 DEF WakesReach
<1>8. wait[t].key \in Keys /\ wait[t].waiter \in Nat
  BY <1>7, ObservedWait DEF Parked
<1>9. CASE wait[t].key = k /\ n = generation[k] + 1
  BY <1>2, <1>5, <1>9 DEF WakeReaches
<1>10. CASE ~(wait[t].key = k /\ n = generation[k] + 1)
  <2>1. n \in wait[t].waiter + 1..generation[wait[t].key]
    BY <1>1, <1>3, <1>7, <1>8, <1>10
  <2>2. WakeReaches(wait[t].key, n, t)
    BY <1>7, <2>1 DEF WakesReach
  <2>3. \A b \in GuestActors : /\ Candidates(b)' = Candidates(b)
                               /\ Unlimited(b)' <=> Unlimited(b)
    BY <1>2 DEF Candidates, ParkedOn, Parked, Unlimited
  <2>. QED  BY <1>2, <1>6, <2>2, <2>3 DEF WakeReaches
<1>. QED  BY <1>9, <1>10

\* The wake calls the scheduler: everybody who is parked is to be visited.
LEMMA CallReaches ==
    ASSUME SyncTypes, IInv, WakesReach, NEW a \in GuestActors, WakeCall(a), [Next]_vars
    PROVE  WakesReach'
<1>. USE DEF IInv
<1>. DEFINE k == op[a].address  limit == WakeCount[op[a].address][op[a].seen + 1]
<1>1. op[a] # NoOp /\ op[a].kind = "wake" /\ a \in Actors /\ limit \in WakeLimits
  BY WakeRequest
<1>2. op[a] \in Ops /\ k \in Keys /\ limit \in Nat \ {0}
  BY <1>1, OpTypes, BoundsAssumption
<1>3. CallWake(a, k, limit)
  BY DEF WakeCall
<1>4. /\ pc[a] # "wake" /\ pc'[a] = "wake" /\ call'[a] = [key |-> k, limit |-> limit]
      /\ gate # a /\ gate' = gate /\ todo' = todo
      /\ \A u \in Threads : Parked(u)' => Parked(u) /\ wait'[u] = wait[u]
      /\ \A b \in Actors \ {a} : pc'[b] = pc[b] /\ call'[b] = call[b]
  BY <1>1, <1>2, <1>3, CallFrame
<1>5. generation' = generation /\ op' = [op EXCEPT ![a] = [op[a] EXCEPT !.kind = "pulse"]]
  BY DEF WakeCall, SetOp
<1>6. /\ [op[a] EXCEPT !.kind = "pulse"] \in Ops
      /\ [op[a] EXCEPT !.kind = "pulse"].address = k
      /\ [op[a] EXCEPT !.kind = "pulse"].kind = "pulse"
  BY <1>2 DEF Ops
<1>7. op'[a] # NoOp /\ op'[a].address = k /\ op'[a].kind = "pulse"
  BY <1>5, <1>6, NoOpAssumption DEF SyncTypes, SyncTypeOK
<1>8. \A b \in GuestActors \ {a} : op'[b] = op[b] /\ b \in Actors \ {a}
  BY <1>5 DEF SyncTypes, SyncTypeOK, Actors
<1>9. SUFFICES ASSUME ~forcedExit', NEW t \in Threads, Parked(t)',
                      NEW n \in wait'[t].waiter + 1..generation'[wait'[t].key],
                      WakeCount[wait'[t].key][n] >= Cardinality(Threads)
               PROVE  WakeReaches(wait[t].key, n, t)'
  BY DEF WakesReach
<1>10. ~forcedExit /\ Parked(t) /\ wait'[t] = wait[t]
  BY <1>4, <1>9, ForcedStays
<1>11. WakeReaches(wait[t].key, n, t)
  BY <1>5, <1>9, <1>10 DEF WakesReach
<1>12. PICK b \in GuestActors :
        /\ op[b] # NoOp /\ op[b].address = wait[t].key
        /\ \/ op[b].kind = "wake" /\ op[b].seen + 1 = n
           \/ op[b].kind = "pulse" /\ pc[b] = "wake" /\ t \in Candidates(b) /\ Unlimited(b)
  BY <1>11 DEF WakeReaches
<1>13. t \in ParkedOn(wait[t].key)'
  BY <1>9 DEF ParkedOn
<1>14. CASE b = a
  <2>1. k = wait[t].key /\ op[a].seen + 1 = n
    BY <1>1, <1>12, <1>14
  <2>2. limit >= Cardinality(Threads)
    BY <1>9, <1>10, <2>1
  <2>3. t \in Candidates(a)'
    BY <1>4, <1>10, <1>13, <2>1 DEF Candidates
  <2>4. Unlimited(a)'
    BY <1>2, <1>4, <2>2, FS_CardinalityType, ActorsAssumption DEF Unlimited
  <2>. QED  BY <1>4, <1>7, <1>10, <2>1, <2>3, <2>4 DEF WakeReaches
<1>15. CASE b # a
  <2>1. op'[b] = op[b] /\ pc'[b] = pc[b] /\ call'[b] = call[b]
    BY <1>4, <1>8, <1>15
  <2>2. CASE op[b].kind = "wake" /\ op[b].seen + 1 = n
    BY <1>10, <1>12, <2>1, <2>2 DEF WakeReaches
  <2>3. CASE op[b].kind = "pulse" /\ pc[b] = "wake" /\ t \in Candidates(b) /\ Unlimited(b)
    <3>1. gate # b => t \in ParkedOn(call[b].key)'
      BY <1>9, <1>10, <2>1, <2>3 DEF Candidates, ParkedOn
    <3>2. t \in Candidates(b)' /\ Unlimited(b)'
      BY <1>4, <2>1, <2>3, <3>1 DEF Candidates, Unlimited
    <3>. QED  BY <1>10, <1>12, <2>1, <2>3, <3>2 DEF WakeReaches
  <2>. QED  BY <1>12, <2>2, <2>3
<1>. QED  BY <1>14, <1>15

\* An unlimited wake may wake all of its candidates.
LEMMA UnlimitedBound ==
    ASSUME TypeOK, NEW a \in Actors, Unlimited(a), call[a] \in Calls
    PROVE  /\ IsFiniteSet(Candidates(a))
           /\ Cardinality(Candidates(a)) \in Nat
           /\ Cardinality(Candidates(a)) <= call[a].limit
<1>1. IsFiniteSet(Threads) /\ Cardinality(Threads) \in Nat /\ call[a].limit \in Nat
  BY ActorsAssumption, FS_CardinalityType DEF Calls
<1>2. Candidates(a) \subseteq Threads
  BY DEF Candidates, ParkedOn, TypeOK
<1>3. /\ IsFiniteSet(Candidates(a)) /\ Cardinality(Candidates(a)) \in Nat
      /\ Cardinality(Candidates(a)) <= Cardinality(Threads)
  BY <1>1, <1>2, FS_Subset, FS_CardinalityType
<1>. QED  BY <1>1, <1>3 DEF Unlimited, Candidates

\* A visit: its thread leaves, or has observed the present generation; a wake
\* for all goes on unless nobody is left.
LEMMA VisitReaches ==
    ASSUME SyncTypes, IInv, WakesReach, NEW a \in Actors, NEW t \in Threads,
           SyncWake(a, t) \/ SyncPass(a, t)
    PROVE  WakesReach'
<1>. USE DEF IInv
<1>1. PICK m \in Nat : \/ SyncWake(a, t) /\ m = call[a].limit - 1
                       \/ SyncPass(a, t) /\ m = call[a].limit
  <2>1. pc[a] = "wake"
    BY DEF SyncWake, SyncPass, WakeWaiter, PassWaiter, Scanning
  <2>2. call[a].limit \in Nat \ {0}
    BY <2>1 DEF CallOK, Calls
  <2>3. CASE SyncWake(a, t)
    <3>1. call[a].limit - 1 \in Nat
      BY <2>2
    <3>. QED  BY <2>3, <3>1
  <2>4. CASE SyncPass(a, t)
    BY <2>2, <2>4
  <2>. QED  BY <2>3, <2>4
<1>2. /\ pc[a] = "wake" /\ call[a] \in Calls /\ gate \in {NoActor, a}
      /\ t \in Candidates(a)
      /\ \A u \in Threads \ {t} : Parked(u)' => Parked(u) /\ wait'[u] = wait[u]
      /\ \A b \in Actors \ {a} : /\ pc'[b] = pc[b] /\ call'[b] = call[b]
                                 /\ gate # b /\ gate' # b
      /\ \/ /\ gate' = a /\ todo' = Candidates(a) \ {t} /\ pc'[a] = "wake"
            /\ call'[a] = [key |-> call[a].key, limit |-> m]
         \/ /\ gate' = NoActor /\ pc'[a] # "wake"
            /\ Candidates(a) \ {t} = {} \/ m = 0
  BY <1>1, ScanFrame DEF SyncWake, SyncPass
<1>3. generation' = generation /\ op' = op
  BY DEF SyncWake, SyncPass, Leaves, syncVars
<1>4. [Next]_vars
  BY DEF SyncWake, SyncPass, Next, ActorStep
<1>5. Unlimited(a) => /\ IsFiniteSet(Candidates(a) \ {t})
                      /\ Cardinality(Candidates(a) \ {t}) \in Nat
                      /\ Cardinality(Candidates(a) \ {t}) <= m
  <2>. SUFFICES ASSUME Unlimited(a)
                PROVE  /\ IsFiniteSet(Candidates(a) \ {t})
                       /\ Cardinality(Candidates(a) \ {t}) \in Nat
                       /\ Cardinality(Candidates(a) \ {t}) <= m
    OBVIOUS
  <2>1. /\ IsFiniteSet(Candidates(a)) /\ Cardinality(Candidates(a)) \in Nat
        /\ Cardinality(Candidates(a)) <= call[a].limit /\ call[a].limit \in Nat \ {0}
    BY <1>2, UnlimitedBound DEF Calls
  <2>2. /\ IsFiniteSet(Candidates(a) \ {t})
        /\ Cardinality(Candidates(a) \ {t}) = Cardinality(Candidates(a)) - 1
        /\ Cardinality(Candidates(a) \ {t}) \in Nat
    BY <1>2, <2>1, FS_RemoveElement, FS_CardinalityType
  <2>3. m = call[a].limit - 1 \/ m = call[a].limit
    BY <1>1
  <2>. QED  BY <2>1, <2>2, <2>3
<1>6. SUFFICES ASSUME ~forcedExit', NEW u \in Threads, Parked(u)',
                      NEW n \in wait'[u].waiter + 1..generation'[wait'[u].key],
                      WakeCount[wait'[u].key][n] >= Cardinality(Threads)
               PROVE  WakeReaches(wait[u].key, n, u)'
  BY DEF WakesReach
<1>7. u # t
  <2>1. CASE SyncWake(a, t)
    BY <1>6, <2>1 DEF SyncWake, WakeWaiter, MakeReady, SetState, Parked, TypeOK
  <2>2. CASE SyncPass(a, t) /\ u = t
    <3>1. wait' = wait /\ generation[wait[t].key] = wait[t].waiter
      BY <2>2 DEF SyncPass, PassWaiter, MovedOn, tableVars
    <3>2. wait[t].waiter \in Nat
      BY <1>6, <2>2, <3>1, ObservedWait DEF Parked
    <3>. QED  BY <1>3, <1>6, <2>2, <3>1, <3>2
  <2>. QED  BY <1>1, <2>1, <2>2
<1>8. ~forcedExit /\ Parked(u) /\ wait'[u] = wait[u]
  BY <1>2, <1>4, <1>6, <1>7, ForcedStays
<1>9. WakeReaches(wait[u].key, n, u)
  BY <1>3, <1>6, <1>8 DEF WakesReach
<1>10. PICK b \in GuestActors :
        /\ op[b] # NoOp /\ op[b].address = wait[u].key
        /\ \/ op[b].kind = "wake" /\ op[b].seen + 1 = n
           \/ op[b].kind = "pulse" /\ pc[b] = "wake" /\ u \in Candidates(b) /\ Unlimited(b)
  BY <1>9 DEF WakeReaches
<1>11. b \in Actors
  BY DEF Actors
<1>12. CASE op[b].kind = "wake" /\ op[b].seen + 1 = n
  BY <1>3, <1>8, <1>10, <1>12 DEF WakeReaches
<1>13. CASE op[b].kind = "pulse" /\ pc[b] = "wake" /\ u \in Candidates(b) /\ Unlimited(b) /\ b # a
  <2>1. u \in ParkedOn(call[b].key)'
    BY <1>2, <1>6, <1>8, <1>11, <1>13 DEF Candidates, ParkedOn
  <2>2. pc'[b] = "wake" /\ u \in Candidates(b)' /\ Unlimited(b)'
    BY <1>2, <1>11, <1>13, <2>1 DEF Candidates, Unlimited
  <2>. QED  BY <1>3, <1>8, <1>10, <1>13, <2>2 DEF WakeReaches
<1>14. CASE op[b].kind = "pulse" /\ pc[b] = "wake" /\ u \in Candidates(b) /\ Unlimited(b) /\ b = a
  <2>1. u \in Candidates(a) \ {t}
    BY <1>7, <1>14
  <2>2. m # 0
    BY <1>5, <1>14, <2>1, FS_EmptySet
  <2>3. /\ gate' = a /\ todo' = Candidates(a) \ {t} /\ pc'[a] = "wake"
        /\ call'[a].limit = m
    BY <1>2, <2>1, <2>2
  <2>4. u \in Candidates(a)' /\ Unlimited(a)'
    BY <1>5, <1>14, <2>1, <2>3 DEF Candidates, Unlimited
  <2>. QED  BY <1>3, <1>8, <1>10, <1>14, <2>3, <2>4 DEF WakeReaches
<1>. QED  BY <1>10, <1>12, <1>13, <1>14

\* A wake that finds nobody reaches nobody.
LEMMA NobodyReaches ==
    ASSUME SyncTypes, IInv, WakesReach, NEW a \in Actors, WakeNobody(a), [Next]_vars,
           generation' = generation, op' = op
    PROVE  WakesReach'
<1>1. /\ Candidates(a) = {} /\ pc[a] = "wake" /\ pc'[a] # "wake"
      /\ \A u \in Threads : Parked(u)' => Parked(u) /\ wait'[u] = wait[u]
      /\ \A b \in Actors \ {a} : /\ pc'[b] = pc[b] /\ call'[b] = call[b]
                                 /\ gate # b /\ gate' # b
  BY NobodyFrame
<1>2. SUFFICES ASSUME ~forcedExit', NEW u \in Threads, Parked(u)',
                      NEW n \in wait'[u].waiter + 1..generation'[wait'[u].key],
                      WakeCount[wait'[u].key][n] >= Cardinality(Threads)
               PROVE  WakeReaches(wait[u].key, n, u)'
  BY DEF WakesReach
<1>3. ~forcedExit /\ Parked(u) /\ wait'[u] = wait[u]
  BY <1>1, <1>2, ForcedStays
<1>4. WakeReaches(wait[u].key, n, u)
  BY <1>2, <1>3 DEF WakesReach
<1>5. PICK b \in GuestActors :
        /\ op[b] # NoOp /\ op[b].address = wait[u].key
        /\ \/ op[b].kind = "wake" /\ op[b].seen + 1 = n
           \/ op[b].kind = "pulse" /\ pc[b] = "wake" /\ u \in Candidates(b) /\ Unlimited(b)
  BY <1>4 DEF WakeReaches
<1>6. CASE op[b].kind = "wake" /\ op[b].seen + 1 = n
  BY <1>3, <1>5, <1>6 DEF WakeReaches
<1>7. CASE op[b].kind = "pulse" /\ pc[b] = "wake" /\ u \in Candidates(b) /\ Unlimited(b)
  <2>1. b \in Actors \ {a}
    BY <1>1, <1>7 DEF Actors
  <2>2. u \in ParkedOn(call[b].key)'
    BY <1>1, <1>2, <1>3, <1>7, <2>1 DEF Candidates, ParkedOn
  <2>3. pc'[b] = "wake" /\ u \in Candidates(b)' /\ Unlimited(b)'
    BY <1>1, <1>7, <2>1, <2>2 DEF Candidates, Unlimited
  <2>. QED  BY <1>3, <1>5, <1>7, <2>3 DEF WakeReaches
<1>. QED  BY <1>5, <1>6, <1>7

\* A thread that parks has just found its generation to be the present one.
LEMMA ParkReaches ==
    ASSUME SyncTypes, IInv, WakesReach, NEW t \in Threads, SyncPark(t), [Next]_vars
    PROVE  WakesReach'
<1>. USE DEF IInv
<1>1. /\ \A u \in Threads \ {t} : Parked(u)' => Parked(u)
      /\ wait' = wait
      /\ WakesStay
  BY ParkFrame DEF SyncPark
<1>2. generation' = generation /\ op' = op /\ generation[wait[t].key] = wait[t].waiter
  BY DEF SyncPark, Leaves, syncVars, MovedOn
<1>3. SUFFICES ASSUME ~forcedExit', NEW u \in Threads, Parked(u)',
                      NEW n \in wait[u].waiter + 1..generation[wait[u].key],
                      WakeCount[wait[u].key][n] >= Cardinality(Threads)
               PROVE  WakeReaches(wait[u].key, n, u)'
  BY <1>1, <1>2 DEF WakesReach
<1>4. u # t
  <2>1. wait[u].waiter \in Nat
    BY <1>1, <1>3, ObservedWait DEF Parked
  <2>. QED  BY <1>2, <1>3, <2>1
<1>5. ~forcedExit /\ Parked(u)
  BY <1>1, <1>3, <1>4, ForcedStays
<1>6. WakeReaches(wait[u].key, n, u)
  BY <1>3, <1>5 DEF WakesReach
<1>7. PICK b \in GuestActors :
        /\ op[b] # NoOp /\ op[b].address = wait[u].key
        /\ \/ op[b].kind = "wake" /\ op[b].seen + 1 = n
           \/ op[b].kind = "pulse" /\ pc[b] = "wake" /\ u \in Candidates(b) /\ Unlimited(b)
  BY <1>6 DEF WakeReaches
<1>8. CASE op[b].kind = "wake" /\ op[b].seen + 1 = n
  BY <1>1, <1>2, <1>7, <1>8 DEF WakeReaches
<1>9. CASE op[b].kind = "pulse" /\ pc[b] = "wake" /\ u \in Candidates(b) /\ Unlimited(b)
  <2>1. pc'[b] = "wake" /\ call'[b] = call[b] /\ (gate' = b <=> gate = b) /\ todo' = todo
    BY <1>1, <1>9 DEF WakesStay, Actors
  <2>2. gate # b => u \in ParkedOn(call[b].key)'
    BY <1>1, <1>3, <1>9, <2>1 DEF Candidates, ParkedOn
  <2>3. u \in Candidates(b)' /\ Unlimited(b)'
    BY <1>9, <2>1, <2>2 DEF Candidates, Unlimited
  <2>. QED  BY <1>1, <1>2, <1>7, <1>9, <2>1, <2>3 DEF WakeReaches
<1>. QED  BY <1>7, <1>8, <1>9

\* Every step of sync-on-address keeps it.
LEMMA ReachStep ==
    ASSUME SyncInvariant, [SyncNext]_allVars
    PROVE  WakesReach'
<1>. USE DEF SyncInvariant, IInv
<1>1. [Next]_vars
  BY SchedulerStep
<1>2. CASE SchedulerOnly
  <2>1. generation' = generation /\ op' = op
    BY <1>2 DEF SchedulerOnly, Leaves, syncVars
  <2>2. ASSUME NEW a \in Actors, WakeNobody(a)
        PROVE  WakesReach'
    BY <1>1, <2>1, <2>2, NobodyReaches
  <2>3. CASE ~\E a \in Actors : WakeNobody(a)
    <3>1. QuietStep
      BY <1>2, <2>3, ActorsAssumption DEF SchedulerOnly, QuietStep, LoopStep, RunnerStep,
         GuestStep, BackgroundStep, SessionStep, Actors
    <3>. QED  BY <1>1, <2>1, <3>1, OtherReaches
  <2>. QED  BY <2>2, <2>3
<1>3. ASSUME NEW a \in Actors, NEW t \in Threads, SyncWake(a, t) \/ SyncPass(a, t)
      PROVE  WakesReach'
  BY <1>3, VisitReaches
<1>4. ASSUME NEW t \in Threads, SyncPark(t)
      PROVE  WakesReach'
  BY <1>1, <1>4, ParkReaches
<1>5. ASSUME NEW t \in Threads, SyncWakeAtPark(t)
      PROVE  WakesReach'
  BY <1>1, <1>5, OtherReaches DEF SyncWakeAtPark, QuietStep, Leaves, syncVars
<1>6. ASSUME NEW t \in Threads, WaitBlock(t)
      PROVE  WakesReach'
  <2>1. QuietStep
    BY <1>6, BlockRequest DEF QuietStep
  <2>2. /\ generation' = generation /\ op' = [op EXCEPT ![t] = NoOp]
        /\ op[t] # NoOp /\ op[t].kind = "wait"
    BY <1>6 DEF WaitBlock, InExport, SetOp
  <2>3. \A a \in GuestActors : op[a] # NoOp /\ op[a].kind # "wait" => op'[a] = op[a]
    BY <2>2 DEF SyncTypes, SyncTypeOK
  <2>. QED  BY <1>1, <2>1, <2>2, <2>3, OtherReaches
<1>7. ASSUME NEW a \in GuestActors, NEW k \in Keys, WakeBegin(a, k)
      PROVE  WakesReach'
  BY <1>7, BeginReaches
<1>8. ASSUME NEW a \in GuestActors, WakeCall(a)
      PROVE  WakesReach'
  BY <1>1, <1>8, CallReaches
<1>9. ASSUME UNCHANGED vars, generation' = generation,
             \A a \in GuestActors :
                /\ op[a] # NoOp
                /\ op[a].kind = "wake" \/ (op[a].kind = "pulse" /\ pc[a] = "wake")
                => op'[a] = op[a]
      PROVE  WakesReach'
  BY <1>1, <1>9, IdleFrame, QuietReaches
<1>10. ASSUME NEW a \in GuestActors, NEW k \in Keys, WaitBegin(a, k)
       PROVE  WakesReach'
  BY <1>9, <1>10 DEF WaitBegin, CanExport, SetOp, SyncTypes, SyncTypeOK
<1>11. ASSUME NEW a \in GuestActors, WakePulse(a)
       PROVE  WakesReach'
  BY <1>9, <1>11 DEF WakePulse, InExport, SetOp, SyncTypes, SyncTypeOK
<1>12. CASE HostWait
  BY <1>9, <1>12 DEF HostWait, InExport, SetOp, SyncTypes, SyncTypeOK
<1>13. CASE HostTimeout \/ UNCHANGED allVars
  BY <1>9, <1>13 DEF HostTimeout, allVars, syncVars
<1>. QED  BY <1>2, <1>3, <1>4, <1>5, <1>6, <1>7, <1>8, <1>10, <1>11, <1>12, <1>13
          DEF SyncNext

\* A thread whose wait began before a wake for all is not left parked by it, for
\* any number of threads, addresses and wakes, whatever part of the scheduler
\* held the thread when the generation was bumped.
THEOREM WakesAreNotMissed == SyncSpec => []NoMissedWake
<1>1. SyncInit => SyncInvariant
  <2>1. SyncInit => RunningOK /\ Init
    BY RunningInit DEF SyncInit
  <2>2. Init => WakesReach
    BY DEF Init, WakesReach, Parked
  <2>. QED  BY <2>1, <2>2, SyncTypesInit DEF SyncInvariant
<1>2. SyncInvariant /\ [SyncNext]_allVars => SyncInvariant'
  <2>. SUFFICES ASSUME SyncInvariant, [SyncNext]_allVars
                PROVE  SyncInvariant'
    OBVIOUS
  <2>1. [Next]_vars
    BY SchedulerStep DEF SyncInvariant
  <2>2. IInv' /\ SyncTypes'
    BY <2>1, SafetyStep, SyncTypesStep DEF SyncInvariant
  <2>3. RunningOK'
    BY <2>1, RunningStep DEF SyncInvariant
  <2>4. WakesReach'
    BY ReachStep
  <2>. QED  BY <2>2, <2>3, <2>4 DEF SyncInvariant
<1>3. SyncInvariant => NoMissedWake
  BY ReachSuffices DEF SyncInvariant, IInv
<1>. QED  BY <1>1, <1>2, <1>3, PTL DEF SyncSpec

-----------------------------------------------------------------------------
(* A limited wake counts the threads it wakes.  A thread it has passed has  *)
(* observed the present generation; if that moves on while the wake still   *)
(* holds the gate, the wake that has bumped it is behind this one.  The     *)
(* argument needs the gate only: it holds after a forced exit as well.      *)

\* The wake of a calls the scheduler with the address of its export.
KeyOK ==
    \A a \in GuestActors :
        op[a] # NoOp /\ op[a].kind = "pulse" /\ pc[a] = "wake" => call[a].key = op[a].address

\* Another wake of a's key has bumped the generation and is not finished
AnotherWake(a) ==
    \E b \in GuestActors \ {a} :
        /\ op[b] # NoOp /\ op[b].address = call[a].key
        /\ op[b].kind = "wake" \/ (op[b].kind = "pulse" /\ pc[b] = "wake")

\* What a wake has passed does not concern it, or concerns another one.
ScanOK ==
    \A a \in Actors : pc[a] = "wake" /\ gate = a =>
        \A t \in ParkedOn(call[a].key) \ todo : MovedOn(wait[t]) => AnotherWake(a)

\* Exports that are in no wake may begin, block or end
OpsOfWakesStay ==
    \A a \in GuestActors :
        op[a] # NoOp /\ (op[a].kind = "wake" \/ (op[a].kind = "pulse" /\ pc[a] = "wake"))
            => op'[a] = op[a]

\* No export gets into a wake.
NoOpScans ==
    \A a \in GuestActors : pc[a] = "wake" /\ op'[a] # NoOp /\ op'[a].kind = "pulse" => op'[a] = op[a]

\* Steps that change neither a wake nor, as long as one holds the gate, the table
LEMMA QuietScan ==
    ASSUME KeyOK, ScanOK, WakesStay, OpsOfWakesStay, NoOpScans, generation' = generation,
           \A a \in Actors : gate = a /\ pc[a] = "wake" => UNCHANGED <<guestThreads, state, wait>>
    PROVE  KeyOK' /\ ScanOK'
<1>1. ASSUME NEW a \in GuestActors, op'[a] # NoOp, op'[a].kind = "pulse", pc'[a] = "wake"
      PROVE  call'[a].key = op'[a].address
  <2>1. a \in Actors
    BY DEF Actors
  <2>2. pc[a] = "wake" /\ call'[a] = call[a]
    BY <1>1, <2>1 DEF WakesStay
  <2>3. op'[a] = op[a]
    BY <1>1, <2>2 DEF NoOpScans
  <2>. QED  BY <1>1, <2>2, <2>3 DEF KeyOK
<1>2. ASSUME NEW a \in Actors, pc'[a] = "wake", gate' = a,
             NEW t \in ParkedOn(call[a].key)' \ todo', MovedOn(wait[t])'
      PROVE  AnotherWake(a)'
  <2>1. pc[a] = "wake" /\ gate = a /\ call'[a] = call[a] /\ todo' = todo
    BY <1>2 DEF WakesStay
  <2>2. UNCHANGED <<guestThreads, state, wait>>
    BY <2>1
  <2>3. t \in ParkedOn(call[a].key) \ todo /\ MovedOn(wait[t])
    BY <1>2, <2>1, <2>2 DEF ParkedOn, Parked, MovedOn
  <2>4. PICK b \in GuestActors \ {a} :
          /\ op[b] # NoOp /\ op[b].address = call[a].key
          /\ op[b].kind = "wake" \/ (op[b].kind = "pulse" /\ pc[b] = "wake")
    BY <2>1, <2>3 DEF ScanOK, AnotherWake
  <2>5. op'[b] = op[b] /\ b \in Actors
    BY <2>4 DEF OpsOfWakesStay, Actors
  <2>6. pc[b] = "wake" => pc'[b] = "wake"
    BY <2>5 DEF WakesStay
  <2>. QED  BY <2>1, <2>4, <2>5, <2>6 DEF AnotherWake
<1>. QED  BY <1>1, <1>2 DEF KeyOK, ScanOK

\* A wake that begins is another wake for whoever holds the gate on its address.
LEMMA BeginScan ==
    ASSUME SyncTypes, TypeOK, KeyOK, ScanOK, NEW b \in GuestActors, NEW k \in Keys, WakeBegin(b, k)
    PROVE  KeyOK' /\ ScanOK'
<1>1. /\ UNCHANGED <<guestThreads, state, wait, gate, todo, pc, call>>
      /\ pc[b] = "idle" /\ op[b] = NoOp
      /\ generation' = [generation EXCEPT ![k] = @ + 1]
      /\ op' = [op EXCEPT ![b] = [kind |-> "wake", address |-> k, seen |-> generation[k]]]
  BY DEF WakeBegin, CanExport, CanCall, SetOp, Operation, vars, tableVars, gateVars, callVars
<1>2. [kind |-> "wake", address |-> k, seen |-> generation[k]] \in Ops
  BY DEF Ops, SyncTypes, SyncTypeOK
<1>3. op'[b] # NoOp /\ op'[b].address = k /\ op'[b].kind = "wake"
  BY <1>1, <1>2, NoOpAssumption DEF SyncTypes, SyncTypeOK
<1>4. \A c \in GuestActors \ {b} : op'[c] = op[c]
  BY <1>1 DEF SyncTypes, SyncTypeOK
<1>5. KeyOK'
  BY <1>1, <1>3, <1>4 DEF KeyOK
<1>6. ASSUME NEW a \in Actors, pc[a] = "wake", gate = a,
             NEW t \in ParkedOn(call[a].key) \ todo, MovedOn(wait[t])'
      PROVE  AnotherWake(a)'
  <2>1. a # b
    BY <1>1, <1>6
  <2>2. CASE k = call[a].key
    BY <1>1, <1>3, <2>1, <2>2 DEF AnotherWake
  <2>3. CASE k # call[a].key
    <3>1. MovedOn(wait[t])
      BY <1>1, <1>6, <2>3 DEF MovedOn, ParkedOn, SyncTypes, SyncTypeOK
    <3>2. AnotherWake(a)
      BY <1>6, <3>1 DEF ScanOK
    <3>3. PICK c \in GuestActors \ {a} :
            /\ op[c] # NoOp /\ op[c].address = call[a].key
            /\ op[c].kind = "wake" \/ (op[c].kind = "pulse" /\ pc[c] = "wake")
      BY <3>2 DEF AnotherWake
    <3>4. op'[c] = op[c]
      BY <1>1, <1>4, <3>3
    <3>. QED  BY <1>1, <3>3, <3>4 DEF AnotherWake
  <2>. QED  BY <2>2, <2>3
<1>7. ScanOK'
  BY <1>1, <1>6 DEF ScanOK, ParkedOn, Parked
<1>. QED  BY <1>5, <1>7

\* It calls the scheduler with its own address and stays another wake.
LEMMA CallScan ==
    ASSUME SyncTypes, IInv, KeyOK, ScanOK, NEW b \in GuestActors, WakeCall(b)
    PROVE  KeyOK' /\ ScanOK'
<1>. USE DEF IInv
<1>. DEFINE k == op[b].address  limit == WakeCount[op[b].address][op[b].seen + 1]
<1>1. op[b] # NoOp /\ op[b].kind = "wake" /\ b \in Actors /\ limit \in WakeLimits
  BY WakeRequest
<1>2. op[b] \in Ops /\ k \in Keys /\ limit \in Nat \ {0}
  BY <1>1, OpTypes, BoundsAssumption
<1>3. CallWake(b, k, limit)
  BY DEF WakeCall
<1>4. /\ pc[b] # "wake" /\ pc'[b] = "wake" /\ call'[b] = [key |-> k, limit |-> limit]
      /\ gate # b /\ gate' = gate /\ todo' = todo
      /\ \A c \in Actors \ {b} : pc'[c] = pc[c] /\ call'[c] = call[c]
  BY <1>1, <1>2, <1>3, CallFrame
<1>5. /\ UNCHANGED <<guestThreads, state, wait>> /\ generation' = generation
      /\ op' = [op EXCEPT ![b] = [op[b] EXCEPT !.kind = "pulse"]]
  BY DEF WakeCall, SetOp, CallWake, tableVars
<1>6. /\ [op[b] EXCEPT !.kind = "pulse"] \in Ops
      /\ [op[b] EXCEPT !.kind = "pulse"].address = k
      /\ [op[b] EXCEPT !.kind = "pulse"].kind = "pulse"
  BY <1>2 DEF Ops
<1>7. op'[b] # NoOp /\ op'[b].address = k /\ op'[b].kind = "pulse"
  BY <1>5, <1>6, NoOpAssumption DEF SyncTypes, SyncTypeOK
<1>8. \A c \in GuestActors \ {b} : op'[c] = op[c] /\ c \in Actors \ {b}
  BY <1>5 DEF SyncTypes, SyncTypeOK, Actors
<1>9. KeyOK'
  BY <1>4, <1>7, <1>8 DEF KeyOK
<1>10. ASSUME NEW a \in Actors, pc'[a] = "wake", gate' = a,
              NEW t \in ParkedOn(call[a].key)' \ todo', MovedOn(wait[t])'
       PROVE  AnotherWake(a)'
  <2>1. a # b /\ gate = a /\ pc[a] = "wake" /\ call'[a] = call[a]
    BY <1>4, <1>10
  <2>2. t \in ParkedOn(call[a].key) \ todo /\ MovedOn(wait[t])
    BY <1>4, <1>5, <1>10, <2>1 DEF ParkedOn, Parked, MovedOn
  <2>3. PICK c \in GuestActors \ {a} :
          /\ op[c] # NoOp /\ op[c].address = call[a].key
          /\ op[c].kind = "wake" \/ (op[c].kind = "pulse" /\ pc[c] = "wake")
    BY <2>1, <2>2 DEF ScanOK, AnotherWake
  <2>4. CASE c = b
    BY <1>4, <1>7, <2>1, <2>3, <2>4 DEF AnotherWake
  <2>5. CASE c # b
    <3>1. op'[c] = op[c] /\ pc'[c] = pc[c]
      BY <1>4, <1>8, <2>3, <2>5
    <3>. QED  BY <2>1, <2>3, <3>1 DEF AnotherWake
  <2>. QED  BY <2>4, <2>5
<1>11. ScanOK'
  BY <1>10 DEF ScanOK
<1>. QED  BY <1>9, <1>11

\* A waiter the loop will not visit any more does not concern it or concerns another wake.
LEMMA PassedOver ==
    ASSUME ScanOK, NEW a \in Actors, pc[a] = "wake", NEW u \in ParkedOn(call[a].key),
           u \notin Candidates(a), MovedOn(wait[u])
    PROVE  AnotherWake(a)
  BY DEF ScanOK, Candidates

\* A step of a's wake is no step of another wake.
LEMMA AnotherStays ==
    ASSUME NEW a \in Actors, AnotherWake(a), op' = op, call'[a].key = call[a].key,
           \A b \in Actors \ {a} : pc'[b] = pc[b]
    PROVE  AnotherWake(a)'
<1>1. PICK b \in GuestActors \ {a} :
        /\ op[b] # NoOp /\ op[b].address = call[a].key
        /\ op[b].kind = "wake" \/ (op[b].kind = "pulse" /\ pc[b] = "wake")
  BY DEF AnotherWake
<1>2. pc'[b] = pc[b]
  BY <1>1 DEF Actors
<1>. QED  BY <1>1, <1>2 DEF AnotherWake

\* What a step of a's wake does to it and to the others
ScanStep(a) ==
    /\ op' = op /\ generation' = generation
    /\ pc[a] = "wake" /\ gate \in {NoActor, a}
    /\ pc'[a] = "wake" => call'[a].key = call[a].key
    /\ \A b \in Actors \ {a} : pc'[b] = pc[b] /\ call'[b] = call[b] /\ gate' # b
    /\ \A u \in Threads : Parked(u)' /\ MovedOn(wait[u])' =>
         Parked(u) /\ wait'[u] = wait[u]
    /\ gate' = a => \A u \in Candidates(a) \ todo' : Parked(u)' => ~MovedOn(wait[u])'

\* Such a step keeps both.
LEMMA ScanStepOK ==
    ASSUME KeyOK, ScanOK, NEW a \in Actors, ScanStep(a)
    PROVE  KeyOK' /\ ScanOK'
<1>1. ASSUME NEW b \in GuestActors, op'[b] # NoOp, op'[b].kind = "pulse", pc'[b] = "wake"
      PROVE  call'[b].key = op'[b].address
  <2>1. b \in Actors
    BY DEF Actors
  <2>2. pc[b] = "wake" /\ call'[b].key = call[b].key
    BY <1>1, <2>1 DEF ScanStep
  <2>. QED  BY <1>1, <2>2 DEF KeyOK, ScanStep
<1>2. ASSUME NEW b \in Actors, pc'[b] = "wake", gate' = b,
             NEW u \in ParkedOn(call[b].key)' \ todo', MovedOn(wait[u])'
      PROVE  AnotherWake(b)'
  <2>1. b = a /\ call'[a].key = call[a].key /\ gate' = a
    BY <1>2 DEF ScanStep
  <2>2. u \in Threads /\ Parked(u)' /\ wait'[u].key = call[a].key
    BY <1>2, <2>1 DEF ParkedOn
  <2>3. Parked(u) /\ wait'[u] = wait[u]
    BY <1>2, <2>2 DEF ScanStep
  <2>4. u \in ParkedOn(call[a].key) /\ MovedOn(wait[u])
    BY <1>2, <2>2, <2>3 DEF ParkedOn, MovedOn, ScanStep
  <2>5. u \notin Candidates(a)
    BY <1>2, <2>1, <2>2 DEF ScanStep
  <2>6. AnotherWake(a)
    BY <2>4, <2>5, PassedOver DEF ScanStep
  <2>. QED  BY <2>1, <2>6, AnotherStays DEF ScanStep
<1>. QED  BY <1>1, <1>2 DEF KeyOK, ScanOK

\* If it ends the wake, whoever it leaves behind was still to be visited.
LEMMA ScanStepEnds ==
    ASSUME KeyOK, ScanOK, NEW a \in Actors, ScanStep(a), NEW u \in Threads, LeftBehind(u)',
           wait'[u].key = call[a].key
    PROVE  u \in Candidates(a)
<1>1. Parked(u) /\ wait'[u] = wait[u] /\ Parked(u)'
  BY DEF ScanStep, LeftBehind
<1>2. u \in ParkedOn(call[a].key) /\ MovedOn(wait[u])
  BY <1>1 DEF ParkedOn, MovedOn, LeftBehind, ScanStep
<1>3. ~AnotherWake(a)
  <2>1. SUFFICES ASSUME NEW b \in GuestActors \ {a}, op[b] # NoOp, op[b].address = call[a].key,
                        op[b].kind = "wake" \/ (op[b].kind = "pulse" /\ pc[b] = "wake")
                 PROVE  WakeIsComing(wait[u].key, u)'
    BY DEF AnotherWake, LeftBehind
  <2>2. b \in Actors \ {a} /\ op'[b] = op[b] /\ pc'[b] = pc[b] /\ call'[b] = call[b] /\ gate' # b
    BY DEF Actors, ScanStep
  <2>3. CASE op[b].kind = "wake"
    BY <2>1, <2>2, <2>3 DEF WakeIsComing
  <2>4. CASE op[b].kind = "pulse" /\ pc[b] = "wake"
    <3>1. call'[b].key = wait'[u].key
      BY <2>1, <2>2, <2>4 DEF KeyOK
    <3>2. u \in Candidates(b)'
      BY <1>1, <2>2, <3>1 DEF Candidates, ParkedOn
    <3>. QED  BY <2>1, <2>2, <2>4, <3>2 DEF WakeIsComing
  <2>. QED  BY <2>1, <2>3, <2>4
<1>. QED  BY <1>2, <1>3, PassedOver DEF ScanStep

\* A visit is such a step.
LEMMA VisitIsScanStep ==
    ASSUME SyncTypes, IInv, NEW a \in Actors, NEW t \in Threads, SyncWake(a, t) \/ SyncPass(a, t)
    PROVE  ScanStep(a)
<1>. USE DEF IInv
<1>1. PICK m : \/ WakeWaiter(a, t) /\ m = call[a].limit - 1
               \/ PassWaiter(a, t) /\ m = call[a].limit
  BY DEF SyncWake, SyncPass
<1>2. /\ pc[a] = "wake" /\ gate \in {NoActor, a}
      /\ \A u \in Threads \ {t} : Parked(u)' => Parked(u) /\ wait'[u] = wait[u]
      /\ \A b \in Actors \ {a} : /\ pc'[b] = pc[b] /\ call'[b] = call[b]
                                 /\ gate # b /\ gate' # b
      /\ \/ /\ gate' = a /\ todo' = Candidates(a) \ {t} /\ pc'[a] = "wake"
            /\ call'[a] = [key |-> call[a].key, limit |-> m]
         \/ gate' = NoActor /\ pc'[a] # "wake"
  BY <1>1, ScanFrame
<1>3. generation' = generation /\ op' = op
  BY DEF SyncWake, SyncPass, Leaves, syncVars
<1>4. ~(Parked(t)' /\ MovedOn(wait[t])')
  <2>1. CASE SyncWake(a, t)
    BY <2>1 DEF SyncWake, WakeWaiter, MakeReady, SetState, Parked, TypeOK
  <2>2. CASE SyncPass(a, t)
    BY <1>3, <2>2 DEF SyncPass, PassWaiter, MovedOn, tableVars
  <2>. QED  BY <2>1, <2>2
<1>5. \A u \in Threads : Parked(u)' /\ MovedOn(wait[u])' => Parked(u) /\ wait'[u] = wait[u]
  BY <1>2, <1>4
<1>6. gate' = a => \A u \in Candidates(a) \ todo' : Parked(u)' => ~MovedOn(wait[u])'
  BY <1>2, <1>4, ActorsAssumption
<1>7. pc'[a] = "wake" => call'[a].key = call[a].key
  BY <1>2
<1>. QED  BY <1>2, <1>3, <1>5, <1>6, <1>7 DEF ScanStep

\* So is the end of a wake that finds nobody.
LEMMA NobodyIsScanStep ==
    ASSUME IInv, NEW a \in Actors, WakeNobody(a), generation' = generation, op' = op
    PROVE  ScanStep(a)
<1>1. /\ pc[a] = "wake" /\ pc'[a] # "wake"
      /\ \A u \in Threads : Parked(u)' => Parked(u) /\ wait'[u] = wait[u]
      /\ \A b \in Actors \ {a} : pc'[b] = pc[b] /\ call'[b] = call[b] /\ gate' # b
  BY NobodyFrame
<1>2. gate \in {NoActor, a} /\ gate' # a
  BY ActorsAssumption DEF WakeNobody, Scanning, MayEnter, ContinueScan
<1>. QED  BY <1>1, <1>2 DEF ScanStep

\* Every step keeps both.
LEMMA ScanStepKeeps ==
    ASSUME SyncTypes, IInv, KeyOK, ScanOK, [SyncNext]_allVars
    PROVE  KeyOK' /\ ScanOK'
<1>. USE DEF IInv
<1>1. ASSUME QuietStep, generation' = generation, OpsOfWakesStay, NoOpScans
      PROVE  KeyOK' /\ ScanOK'
  BY <1>1, QuietWakes, QuietTable, QuietScan
<1>2. ASSUME UNCHANGED vars, generation' = generation, OpsOfWakesStay, NoOpScans
      PROVE  KeyOK' /\ ScanOK'
  <2>1. WakesStay
    BY <1>2, IdleFrame
  <2>2. UNCHANGED <<guestThreads, state, wait>>
    BY <1>2 DEF vars, tableVars
  <2>. QED  BY <1>2, <2>1, <2>2, QuietScan
<1>3. op' = op => OpsOfWakesStay /\ NoOpScans
  BY DEF OpsOfWakesStay, NoOpScans
<1>4. CASE SchedulerOnly
  <2>1. generation' = generation /\ op' = op
    BY <1>4 DEF SchedulerOnly, Leaves, syncVars
  <2>2. ASSUME NEW a \in Actors, WakeNobody(a)
        PROVE  KeyOK' /\ ScanOK'
    BY <2>1, <2>2, NobodyIsScanStep, ScanStepOK
  <2>3. CASE ~\E a \in Actors : WakeNobody(a)
    <3>1. QuietStep
      BY <1>4, <2>3, ActorsAssumption DEF SchedulerOnly, QuietStep, LoopStep, RunnerStep,
         GuestStep, BackgroundStep, SessionStep, Actors
    <3>. QED  BY <1>1, <1>3, <2>1, <3>1
  <2>. QED  BY <2>2, <2>3
<1>5. ASSUME NEW a \in Actors, NEW t \in Threads, SyncWake(a, t) \/ SyncPass(a, t)
      PROVE  KeyOK' /\ ScanOK'
  BY <1>5, VisitIsScanStep, ScanStepOK
<1>6. ASSUME NEW t \in Threads, SyncPark(t)
      PROVE  KeyOK' /\ ScanOK'
  <2>1. WakesStay /\ gate = NoActor
    BY <1>6, ParkFrame DEF SyncPark, StayParked, NestedPark, Parking, GateFree
  <2>2. generation' = generation /\ OpsOfWakesStay /\ NoOpScans
    BY <1>3, <1>6 DEF SyncPark, Leaves, syncVars
  <2>. QED  BY <2>1, <2>2, QuietScan, ActorsAssumption
<1>7. ASSUME NEW t \in Threads, SyncWakeAtPark(t)
      PROVE  KeyOK' /\ ScanOK'
  BY <1>1, <1>3, <1>7 DEF SyncWakeAtPark, QuietStep, Leaves, syncVars
<1>8. ASSUME NEW t \in Threads, WaitBlock(t)
      PROVE  KeyOK' /\ ScanOK'
  <2>1. QuietStep
    BY <1>8, BlockRequest DEF QuietStep
  <2>2. OpsOfWakesStay /\ NoOpScans
    BY <1>8 DEF WaitBlock, InExport, SetOp, OpsOfWakesStay, NoOpScans, SyncTypes, SyncTypeOK
  <2>. QED  BY <1>1, <1>8, <2>1, <2>2 DEF WaitBlock
<1>9. ASSUME NEW a \in GuestActors, NEW k \in Keys, WaitBegin(a, k)
      PROVE  KeyOK' /\ ScanOK'
  <2>1. OpsOfWakesStay /\ NoOpScans
    BY <1>9 DEF WaitBegin, CanExport, CanCall, SetOp, OpsOfWakesStay, NoOpScans, SyncTypes,
       SyncTypeOK
  <2>. QED  BY <1>2, <1>9, <2>1 DEF WaitBegin
<1>10. ASSUME NEW a \in GuestActors, NEW k \in Keys, WakeBegin(a, k)
       PROVE  KeyOK' /\ ScanOK'
  BY <1>10, BeginScan
<1>11. ASSUME NEW a \in GuestActors, WakeCall(a)
       PROVE  KeyOK' /\ ScanOK'
  BY <1>11, CallScan
<1>12. ASSUME NEW a \in GuestActors, WakePulse(a)
       PROVE  KeyOK' /\ ScanOK'
  <2>1. OpsOfWakesStay /\ NoOpScans
    BY <1>12 DEF WakePulse, InExport, SetOp, OpsOfWakesStay, NoOpScans, SyncTypes, SyncTypeOK
  <2>. QED  BY <1>2, <1>12, <2>1 DEF WakePulse
<1>13. CASE HostWait
  <2>1. OpsOfWakesStay /\ NoOpScans
    BY <1>13 DEF HostWait, InExport, SetOp, OpsOfWakesStay, NoOpScans, SyncTypes, SyncTypeOK
  <2>. QED  BY <1>2, <1>13, <2>1 DEF HostWait
<1>14. CASE HostTimeout \/ UNCHANGED allVars
  BY <1>2, <1>3, <1>14 DEF HostTimeout, allVars, syncVars
<1>. QED  BY <1>4, <1>5, <1>6, <1>7, <1>8, <1>9, <1>10, <1>11, <1>12, <1>13, <1>14 DEF SyncNext

\* A step at which a wake ends leaves nobody behind, or spends its last wake.
LEMMA ShareStep ==
    ASSUME SyncTypes, IInv, KeyOK, ScanOK, [SyncNext]_allVars,
           NEW a \in Actors, NEW u \in Threads, pc[a] = "wake", pc'[a] # "wake",
           LeftBehind(u)', wait'[u].key = call[a].key
    PROVE  LimitReached(a)
<1>. USE DEF IInv
<1>1. ~WakesStay
  BY DEF WakesStay
<1>2. ~QuietStep
  BY <1>1, QuietWakes
<1>3. ~UNCHANGED vars
  BY <1>1, IdleFrame
<1>4. \A b \in Actors : ~WakeNobody(b) \/ generation' # generation \/ op' # op
  <2>1. SUFFICES ASSUME NEW b \in Actors, WakeNobody(b), generation' = generation, op' = op
                 PROVE  FALSE
    OBVIOUS
  <2>2. ScanStep(b) /\ Candidates(b) = {}
    BY <2>1, NobodyIsScanStep DEF WakeNobody
  <2>3. b = a
    BY <2>2 DEF ScanStep
  <2>. QED  BY <2>2, <2>3, ScanStepEnds
<1>5. ~SchedulerOnly
  <2>1. SUFFICES ASSUME SchedulerOnly
                 PROVE  FALSE
    OBVIOUS
  <2>2. ~\E b \in Actors : WakeNobody(b)
    BY <1>4, <2>1 DEF SchedulerOnly, Leaves, syncVars
  <2>3. QuietStep
    BY <2>1, <2>2, ActorsAssumption DEF SchedulerOnly, QuietStep, LoopStep, RunnerStep,
       GuestStep, BackgroundStep, SessionStep, Actors
  <2>. QED  BY <1>2, <2>3
<1>6. \A t \in Threads : ~SyncPark(t)
  BY <1>1, ParkFrame DEF SyncPark
<1>7. \A t \in Threads : ~SyncWakeAtPark(t)
  BY <1>2 DEF SyncWakeAtPark, QuietStep
<1>8. \A t \in Threads : ~WaitBlock(t)
  BY <1>2, BlockRequest DEF QuietStep
<1>9. \A b \in GuestActors : ~WakeCall(b)
  BY DEF WakeCall, CallWake, GoTo, TypeOK
<1>10. PICK b \in Actors, t \in Threads : SyncWake(b, t) \/ SyncPass(b, t)
  BY <1>3, <1>5, <1>6, <1>7, <1>8, <1>9 DEF SyncNext, WaitBegin, WakeBegin, WakePulse, HostWait,
     HostTimeout, allVars
<1>11. ScanStep(b)
  BY <1>10, VisitIsScanStep
<1>12. b = a
  BY <1>11 DEF ScanStep
<1>13. u \in Candidates(a)
  BY <1>11, <1>12, ScanStepEnds
<1>14. call[a].limit \in Nat \ {0}
  BY DEF CallOK, Calls
<1>15. CASE SyncWake(a, t)
  <2>1. state'[t] = "Ready" /\ t \in Candidates(a)
    BY <1>15 DEF SyncWake, WakeWaiter, MakeReady, SetState, TypeOK
  <2>2. u # t
    BY <2>1 DEF LeftBehind, Parked
  <2>3. state[t] = "Blocked"
    BY <2>1 DEF Candidates, ParkedOn, Parked, WaitOK
  <2>4. Candidates(a) \ {t} = {} \/ call[a].limit - 1 = 0
    <3>1. PICK m : WakeWaiter(a, t) /\ m = call[a].limit - 1
      BY <1>15 DEF SyncWake
    <3>2. \/ gate' = a /\ pc'[a] = "wake"
          \/ Candidates(a) \ {t} = {} \/ m = 0
      <4>1. \/ WakeWaiter(a, t) /\ m = call[a].limit - 1
            \/ PassWaiter(a, t) /\ m = call[a].limit
        BY <3>1
      <4>. QED  BY <4>1, ScanFrame
    <3>. QED  BY <3>1, <3>2
  <2>5. call[a].limit = 1
    BY <1>13, <1>14, <2>2, <2>4
  <2>. QED  BY <2>1, <2>3, <2>5 DEF LimitReached
<1>16. CASE SyncPass(a, t)
  <2>1. u # t
    <3>1. ~MovedOn(wait[t])'
      BY <1>16 DEF SyncPass, PassWaiter, MovedOn, Leaves, syncVars, tableVars
    <3>. QED  BY <3>1 DEF LeftBehind
  <2>2. Candidates(a) \ {t} = {} \/ call[a].limit = 0
    BY <1>16, ScanFrame DEF SyncPass
  <2>. QED  BY <1>13, <1>14, <2>1, <2>2
<1>. QED  BY <1>10, <1>12, <1>15, <1>16

\* A limited wake leaves a waiter behind only after waking as many as it may, for
\* any number of threads, addresses and wakes, and under a forced exit as well.
THEOREM WakesDoTheirShare == SyncSpec => WakeDoesItsShare
<1>. DEFINE Inv == SyncTypes /\ IInv /\ KeyOK /\ ScanOK
<1>1. SyncInit => Inv
  <2>1. SyncInit => KeyOK /\ ScanOK
    BY DEF SyncInit, Init, KeyOK, ScanOK, GuestActors, Actors
  <2>. QED  BY <2>1, SyncTypesInit
<1>2. Inv /\ [SyncNext]_allVars => Inv'
  BY SchedulerStep, SyncTypesStep, SafetyStep, ScanStepKeeps
<1>3. Inv /\ [SyncNext]_allVars =>
        [\A a \in Actors, t \in Threads :
            /\ pc[a] = "wake" /\ pc'[a] # "wake"
            /\ LeftBehind(t)'
            /\ wait'[t].key = call[a].key
            => LimitReached(a)]_allVars
  BY ShareStep
<1>. QED  BY <1>1, <1>2, <1>3, PTL DEF SyncSpec, WakeDoesItsShare
=============================================================================
