# A formal model of SharpEmu

SharpEmu runs PS4 and PS5 programs on a host machine: `src/desktop` is the
emulator in C#, `src/app` an Android front end that hands the guest to FEX, and
`src/fex-emu` the vendored FEX sources. Guest code runs natively; every call of
a system library is an *import* that enters a high-level export written in C#.
What decides whether a game makes progress, and whether the process survives
its end, is the cooperative scheduler of guest threads and the synchronisation
primitives built on it. What decides it for FEX is whether a translation of code
that has changed is ever run, and the locks that are needed for that. This
directory models these cores in TLA+, checks them with TLC and proves their
safety with TLAPS.

FEX is modelled as it runs on Linux. The Android app links only FEXCore: it shares
the caches, the compiler's locks and the mutex, but its own `OrbisSyscallHandler`
protects nothing (`MarkGuestExecutableRange` is empty), and
`SyscallsSMCTracking.cpp`, by which FEX follows writes to code, is not part of it.

Paths below are relative to `src/desktop/src/`, those of the FEX parts to
`src/fex-emu/`; *Backend* is `SharpEmu.Core/Cpu/Native/DirectExecutionBackend.cs`.

## Inventory

| Part | State it keeps | Operations | Talks to | What is hard | What makes it correct |
|---|---|---|---|---|---|
| Guest thread scheduler (*Backend*, `SharpEmu.HLE/GuestThreadExecution.cs`) | `_guestThreads`, `_readyGuestThreads`, per thread `State`, `ExecutorActive`, blocked continuation and waiter, runner; pump depth; `_forcedGuestExit` | `TryStartThread`, `Pump`, `WakeBlockedThreads`, `RunGuestThread`, `RequestCurrentThreadBlock`, nested callbacks, two background dispatchers, `Dispose` | every blocking export, session control, debugger | four kinds of host threads claim from one queue; waits end by signal or deadline; shutdown under running guests | one executor per thread; no ready or parked thread out of reach; no guest code after the teardown |
| Kernel semaphores (`KernelSemaphoreCompatExports.cs`) | handle table, `Count`, `WaitingThreads` | create, wait, poll, signal, cancel, delete | scheduler: wake predicates and keys | tokens and wake-ups under different locks, timeouts, host-thread waiters | tokens taken whole and once; no lost wake-up; the bound |
| Event flags (`KernelEventFlagCompatExports.cs`) | handle table, `Bits`, `WaitingThreads` | create, wait, poll, set, clear, cancel, delete | scheduler: wake predicates and keys | clear modes make one waiter disable another; a host thread leaves the lock to pump | a wait succeeds once, with its bits; no lost set |
| Sync-on-address (`KernelSyncOnAddressCompatExports.cs`) | a generation and a monitor per address | wait, wake one or all | scheduler: wake predicates and keys | a wake in three steps under three locks, limited wakes | no missed wake, no missed pulse |
| Event queues (`KernelEventQueue*`) | registrations, pending events | add, trigger, wait, delete | scheduler, video | coalescing, events before the wait | no lost event |
| Mutexes, condition variables, rwlocks (`KernelPthread*`) | owner, recursion, waiter queues | lock, unlock, wait, signal, broadcast | scheduler | hand-over of ownership, wait-release-reacquire, timeouts | mutual exclusion, a signal reaches a waiter |
| Guest exceptions (*Backend*, `.Exceptions.cs`) | pending and active delivery per thread | raise, deliver at a safe point or on a parked thread | scheduler, imports | delivery races parking, nested delivery | each raise delivered once, the interrupted wait survives |
| Fibers (`Fiber/FiberExports.cs`) | fiber state and context | run, switch, return | thread contexts | a fiber run by two threads | one runner per fiber |
| Host session (`HostSessionControl.cs`, `HostMainThread.cs`) | handler, pending request; work queue | request, install, reset; post, pump, shut down | GUI, backend | a stop during start-up | no stop request is lost |
| Debugger (`SharpEmu.Debugger`) | run state, breakpoints, clients | pause, resume, step, stop events | CPU thread | command against stop event | a paused CPU is resumed exactly once |
| Write tracking (`GuestImageWriteTracker.cs`, `GuestWriteWatch.cs`) | tracked pages and protections | track, fault, rearm | memory, video | a write between check and protection | no missed write |
| Memory and allocators (`Memory/*`, `KernelMemory*`, `KernelVirtualRangeAllocator.cs`) | regions, reservations | map, unmap, reserve, protect | loader, exports | overlap and boundary arithmetic | regions are disjoint |
| Loader, runtime, CPU dispatcher | module images, symbol tables | load, link, start | memory, backend | sequential | - |
| Video, graphics, shader compilers | command state, Vulkan objects, flip queue | submit, flip, translate | event queues | size | - |
| Audio, players, system services | tables, devices, files | many sequential exports | host | - | - |
| GUI, CLI, logging, tools | settings, windows | start and stop | session control | - | - |
| FEX write-priority mutex (`FEXCore/include/FEXCore/Utils/WritePriorityMutex.h`) | one futex word: owner and waiter bits, two counts | `lock`, `try_lock`, `unlock`, shared ones, reset in a forked child | kernel futexes | reads of the word before `FUTEX_WAIT`, wakes decided from one read | writers exclude, no sleeper is left behind, each count stays in its bits as long as it has room |
| FEX translations and self-modifying code (`FEXCore/Source/Interface/Core`: `LookupCache.h`, `Core.cpp`, `JIT/JIT.cpp`; `Source/Tools/LinuxEmulation/LinuxSyscalls/SyscallsSMCTracking.cpp`) | shared block list, code pages and block links; L1, L2, `CachedCodePages` per thread; page protections | look up, compile, link, fault, remap, invalidate, fork | the mutex above, host signals | caches read without locks while another thread invalidates them; an L1 that is resized with its entries left where they are; three locks in several orders | no stale translation runs, no deadlock |
| Android service and FEX bridge (`src/app`) | service state, native handle, guest thread | start, stop, destroy | FEX | independent coroutines, native races | one live handle, a stop stops |

`PROJECT.json` lists every part with its sources and, under `hazards`, the
lines where this code can go wrong in a way a test would hardly reach.

## Modules

| Module | Models |
|---|---|
| `GuestScheduler` | the scheduler of *Backend*, with what waits wait for left open |
| `MCGuestScheduler` | the instance TLC checks |
| `GuestSchedulerProofs`, `GuestSchedulerSafety` | its type invariant and safety, proved |
| `GuestSchedulerWakes` | what each of its steps does to parked threads, wakes under way and the waits of the threads: the lemmas the primitives' proofs share; `NoSpuriousWakeup` proved |
| `Semaphore` | what a counting semaphore promises its clients (abstract) |
| `KernelSemaphore` | the six semaphore exports composed with `GuestScheduler` |
| `EventFlag` | what an event flag promises its clients (abstract) |
| `KernelEventFlag` | the seven event flag exports composed with `GuestScheduler` |
| `KernelSyncOnAddress` | wait and wake on an address composed with `GuestScheduler` |
| `MCKernelSemaphore`, `MCKernelEventFlag`, `MCKernelSyncOnAddress` | the instances TLC checks |
| `KernelSemaphoreProofs` | types, `CountInRange`, `NoLostWakeup`, `ImplementsSemaphore`, `WaitingThreadsNeverOver`, `WaitingThreadsExact`, proved |
| `KernelEventFlagProofs` | types, `NoLostSet`, `ImplementsEventFlag`, proved |
| `KernelSyncOnAddressProofs` | types, `NoMissedWake`, `NoMissedPulse`, `WakeDoesItsShare`, proved |
| `ReadWriteLock` | what a reader-writer lock that prefers writers promises (abstract) |
| `WritePriorityMutex`, `WritePriorityMutexProofs` | the futex code of the FEX mutex; its safety and the refinement, proved |
| `GuestCode`, `GuestCodeProofs` | FEX's translations of code that changes; its safety, proved |
| `CallReturnStack` | the shadow stack of return addresses on top of `GuestCode` |
| `MCWritePriorityMutex`, `MCGuestCode`, `MCCallReturnStack` | the instances TLC checks |

### GuestScheduler

Actors are the runners of the guest threads, the main host thread (`Main`),
`SharpEmu-ReadyDispatch` and `SharpEmu-GuestThreadDispatcher` (`Ticker`).

State and code:

- `guestThreads`, `state`, `executorActive`, `wait`, `readyQueue` are the
  dictionary, `State`, `ExecutorActive`, the blocked continuation with key,
  deadline and waiter, and the ready queue. The value `"none"` is a thread that
  has not been created.
- `exec[t]` is the place of the executor of `t` in `RunGuestThread`: `entered`
  before the test of `_forcedGuestExit`, `entering` after it, `resuming` between
  taking the continuation and `Resume()`, `guest` in guest code or an export,
  `yielding` after `RequestCurrentThreadBlock`, `unwinding` after the
  registration, `leaving` before the `finally` block; `polling` is the loop of
  `ResumeBlockedNestedGuestCallback`, which tests `_forcedGuestExit` once per turn, and
  once more after it has taken a continuation back, whose waiter it then drops
  (`NestedForced`).
- `work[t]` is the delegate given to `GuestExecutionRunner`, `pending[t]` the
  thread-static block request, `resuming[t]` the continuation the slice consumed.
- `pc[a]`, `call[a]`, `claimed[a]`, `creating` are the position of an actor in
  `WakeBlockedThreads`, `Pump` and `DispatchReadyGuestThreads`; `pumpOwner` and
  `budget` are `_guestThreadPumpDepth` and the loop of eight.
- `session` follows the main host thread through `ExecuteEntry` and `Dispose`.

`CallPump` is the call of `Pump` that sleeping exports make. It is taken only
while there is something to pump (`NothingToPump`); otherwise `Pump` returns
without a change.

A critical section of `_guestThreadGate` is one step. Two loops under the gate
visit several threads, and a wake predicate runs in one of them; they take one
step per visited thread and keep `gate` in between. The reads outside the gate
(`_forcedGuestExit`, the ready count, the pump depth) are steps of their own.
A deadline is a Boolean: it may pass at any time once it is set, so every order
of expiry and signal is covered.

Left out: logging, affinities, priorities and register contexts; the early
returns for an invalid continuation, which would need a guest return address
below 64 KiB; the transient values of `_readyGuestThreadCount` inside a claim
(the skip test of `Pump` reads the queue itself); thread joins; threads the
scheduler does not run (`RegisterGuestThreadContext`); guest exceptions. The
default wake limit `int.MaxValue` is the number of threads.

### KernelSemaphore

A wake key is a handle and a waiter is the number of tokens needed, so the
predicate of a parked wait is `count >= need`. An export looks up its handle in
one step (`Export`), enters the semaphore's lock in a second one and, after a
signal or cancel, wakes the waiters in later ones, as the code does. The main
host thread waits in `hostWait` on the monitor of the semaphore. `SemaPark`,
`SemaWakeAtPark`, `SemaWake`, `SemaPass` and `SemaResume` are the scheduler's
steps with its open predicate and resume handler filled in. The tests that
reject an argument and change nothing are guards of `CallExport`; the POSIX
`sem_*` exports call the same six operations. A handle is used once
(`_nextSemaphoreHandle` counts up).

`Semaphore` knows no threads: a client makes a call (`Ask`: a wait, poll, signal or
cancel), which lives until the export returns, and no token moves but by a call
under way. A signal adds its tokens once and ends, or is refused; a cancel sets
the count once and ends; a wait or poll takes all its tokens and returns, returns
busy because they are not there, or, being a wait, is blocked. A blocked wait is
granted all its tokens at once or never, and returns; one that returns ungranted
has taken none, and can take none any more.

A forced exit weakens this in one place: it sends a nested wait back to guest code
with its continuation still registered (`NestedForced`), and a wake may still take
the tokens of that wait. `left` holds the wait a client was sent away from
(`SendAway`), which alone may take its tokens after its return (`Lose`), until it
is gone (`Forget`).

`KernelSemaphore` implements `Semaphore` under the mapping that finds the call of
a client wherever it is (`AskOf`): in the export, in the block request, in the
registered continuation or in the slice that is resuming (`HeldWait`). `LeftOf` is
the continuation of a thread that a forced exit has sent on (`Deserted`). `Timeouts`
says which waits of the guest are timed. Expiry is always optional, so a timed wait
has every behaviour of an untimed one; the passing runs of the semaphore do with timed
waits only, and assume nothing of their expiry.

### KernelEventFlag

A waiter is the condition of the wait: pattern, AND or OR, clear mode. The
condition is tested and the clear mode applied in one step, under the lock of the
flag: by the wait itself, by a poll, by the wake predicate in the scheduler's wake
loop or at the exit of a slice, and by the loop of the main host thread. That
loop leaves the lock, pumps the scheduler (`HostPump`), takes the lock again and
looks (`HostComplete`, `HostTimeout`, `HostAgain`), whatever happened meanwhile.
`Set` adds the bits and calls the wake loop afterwards, without the lock, so that
bits can be cleared before any waiter is visited. `Cancel` assigns the bits and
pulses the monitor but wakes no guest thread; `NoLostSet` therefore excepts the
waits that the bits of a cancel would satisfy (in the instance there are none).
`WaitingThreads` is left out: only cancel reports it, and a wait that times out
is not taken off it, so it grows without a bound. Results that cannot be written
to guest memory are left out.

`EventFlag` is the abstract flag: a wait succeeds in one step in which its
condition holds and its clear mode is applied, and one that ended without success
has cleared nothing; once the session is being stopped, a wait that was left
behind (`Abandoned`) may still clear bits (`Lose`). The waits are found as in
`KernelSemaphore`, with the loop of the main host thread as one more place.

### KernelSyncOnAddress

A waiter is the generation the wait has read. A wait reads it (`WaitBegin`),
and asks to block in a second step with the self-heal deadline, or, on the main
host thread, waits on the monitor of the address if the generation is still the
same. A wake bumps the generation (`WakeBegin`), wakes through the scheduler
(`WakeCall`) and pulses the monitor (`WakePulse`): three steps under three locks,
with every other actor in between. `WakeCount` is the number of waiters a wake
releases and `MaxGeneration` bounds the wakes of each address.

`NoMissedWake` excepts a session whose exit is forced: a nested callback that is
polling then gives its wait up without another look at the generation, as the
code does. The same holds for `NoLostWakeup` of the semaphore and `NoLostSet` of
the event flag.

### WritePriorityMutex

The lock is one word, `futex`, here a record of its fields: `WRITE_OWNED_BIT`,
`READ_WAITER_BIT` and the counts of queued writers and of readers. One step is
one successful atomic operation on the word or one futex call. A
`compare_exchange_strong` that fails only refreshes `Expected`, so its loop is the
step of the attempt that succeeds. What a thread has read and the kernel compares
with the word when it goes to sleep is kept in `seen`: an unlock may run between
the two. A writer first tries without queueing (`TryLock`; the attempts with
`WFE` are more of the same), then enlists itself. `unlock` chooses from the old
word whether to wake a writer or the readers, and calls the kernel in a second
step (`wakeWriter`, `wakeReaders`). After a fork the child resets the word.

`FutexWait` is the kernel's comparison; `SpuriousWake` is a wait that a signal ends.
The counts have 14 and 16 bits in the masks (`WriterSlots` and `ReaderSlots` values),
and nothing but assertions keeps them there. So the arithmetic on the word carries
as the code's does: one writer too many sets the count to zero and flips
`READ_WAITER_BIT` (`WriterAdded`), one reader too many enlists a writer that does
not exist (`ReaderAdded`), and likewise downwards. That the word tells the truth
(`WordExact`), and what follows from it, holds with `Room`: fewer threads than either
count has values. The header (28) promises more, up to 32767 pending writers, which is
one bit more than the count of `lock` has (392): the 16384th writer in the queue sets
it to zero and flips `READ_WAITER_BIT`, so that `unlock` finds nobody to wake. Such a
number of threads is far from what FEX runs, and the properties below do not claim
anything of it; with two values for the writers TLC shows the word wrong at once.
Windows waits on a part of the word and is left out.

`ReadWriteLock` is the lock its clients know: one writer alone or readers together,
and no reader starts while a writer is in the queue. `WritePriorityMutex`
implements it.

### GuestCode

The model of FEX with `SMCChecks = mtrack` on Linux. A page is the unit: it has
one block with one entry, and host code is the *version* of the page it was
decoded from, so "stale" is a comparison of two numbers.

- `mem`, `writable` are the guest's memory and what the host lets it write to.
- `blockList`, `codePages`, `link` are L3 (`GuestToHostMap`) and the branches that
  `ExitFunctionLink` has patched; all threads share them.
- `l1`, `l2`, `cached` are the caches of each thread and `CachedCodePages`, by
  which an invalidation finds them. L1 is direct-mapped: the slot of a page follows
  from its `Address` and the size of L1 (`L1Slot`), and pages with the same slot
  push each other out.
- `l1Size` is the number of entries of L1 in use. With `DynamicL1Cache`, as by
  default, a block found in L2 or L3 may double or halve it (`FillCaches`). No entry
  is moved; halving empties the upper half. An invalidation looks at the slot
  under the present size only (`Drop`). `L1Sizes` are the sizes there are, one
  if L1 is not dynamic; `L1Shrinks` says whether
  `DynamicL1CacheDecreaseCountHeuristic` lets L1 shrink. How many hits a second
  it takes is left open. `DisableL2Cache` is on by default.
- `pc`, `task`, `at`, `code`, `victim` are where a thread is. Who holds
  `VMATracking.Mutex`, `ThreadCreationMutex` and `CodeInvalidationMutex` follows
  from that (`VMAShared` to `CodeQueue`), as every lock in this code is scoped;
  `Blockers(t)` is the set of threads `t` waits for.

A thread comes to a page over a patched branch, the linker, L1 or the dispatcher,
compiles it under the shared mutex (decode, look again, register, protect, map;
decoding and protecting take `VMATracking.Mutex` as well, shared),
and writes to a page (store, fault, invalidate, store again) or remaps it
(`mmap`, `munmap`, `mprotect` and their like). An invalidation severs the shared
entries first and then visits the threads one by one, while they go on executing.
A thread that writes to the page it executes goes on with a block of one
instruction. A fork takes `CodeInvalidationMutex` and then *tries*
`VMATracking.Mutex`; only the parent is followed.

The guest keeps the rule of the processor for cross-modifying code: a page is not
written while another thread executes it or is about to (`MayUse`, `MayChange`).
Without this rule native hardware promises nothing either. It also keeps four
windows of the code closed, in which a page changes while another thread is on
its way into it: between finding and patching in `ExitFunctionLink`
(`JIT.cpp` 547), between decoding and protecting, between `mprotect` and its
invalidation, and between a remap and its invalidation when a fork comes first.

Left out: blocks that span pages and several blocks on a page, code caches on
disk, replacing a full code buffer (`ClearCache`), mirrored mappings, the creation
of threads, the child of a fork.

`CallReturnStack` adds the top entry of each thread's shadow stack to `GuestCode`,
for the fourth finding below.

## Runs

| Run | Shows | Distinct states |
|---|---|---|
| `scheduler_session` | safety of a whole session, with callbacks, expiry, host stop, teardown | 1.31 million |
| `scheduler_progress` | `RunsAgain` (expiry by the ticker, and the background dispatcher closes the starvation hole its comment describes), `SignalReturns` | 0.11 million |
| `scheduler_forced_exit` | the comment in `Dispose` about imports does not hold | - |
| `semaphore_waits` | counting semaphore, no lost wake-up, `WaitingThreads` never too high, with cancel and delete | 0.45 million |
| `semaphore_signalled` | two signallers; exact `WaitingThreads`; a parked thread whose tokens stay is made ready | 0.25 million |
| `semaphore_delete` | the comment on `WakeKey` about delete does not hold | - |
| `eventflag_host` | no lost set; the event flag, with the pumping loop of the main host thread against a guest thread that sets, waits, calls back and is stopped; `HostWaitEnds`, `NoSpuriousWakeup` | 0.37 million |
| `address_wakes` | no missed wake or pulse, and a limited wake does its share, with two wakers | 0.99 million |
| `mutex` | the futex code is a reader-writer lock; no lost wake-up; writers and readers get in | 5,929 |
| `guest_code` | no stale translation, coherent caches, protected pages, no circular wait, with L2 and an L1 that grows | 2.12 million |
| `guest_code_resize` | with an L1 that shrinks, an invalidation does not reach every entry | - |
| `call_return_stack` | the comment on the shadow stack about invalidation does not hold | - |

**Bounds.** Two guest threads and one key are enough for every interaction in
the hazard list: a thread and its waker, two claimers of one thread (there are
five actors), a stale entry behind a fresh one. `PumpBatch = 1` makes the budget
of `Pump` run out at once, which the eight of the code does with nine ready
threads. `Callers` bounds which guest threads signal and create, `Nesting` which
may call back, `MaxQueue` the queue length with which a nested wait may begin
(each nested wait can leave one more stale entry), `Ends` whether the session
ends, `Watched` which guest threads the liveness properties are about. `WakeLimits`
are the `maxCount` arguments. Semaphores have a maximum of two
tokens where polls for one compete with waits for two, else one. The event flag has
two bits, waits for one of them that clear all, sets of both, and a clear and a cancel
that leave the other bit: a waiter, a clear and a cancel each disable another waiter.
Two wakes of an address let a wait begin before, between and after them, and a wake
meet a wait that an earlier one has already released. One guest thread is enough in
`eventflag_host`: it is the partner of the host loop, and the background dispatchers
contend with both. Nested callbacks that wait occur in `scheduler_session` and
`eventflag_host`; for semaphores and addresses the proofs cover them. Nor does the
session end in the runs of the semaphore: what a forced exit leaves behind
(`SendAway`, `Lose`, `Forget`) is covered by the proof of the refinement.

Three threads use the mutex: a holder, a sleeper and one that comes between the two;
every count, bit and wake occurs, and the proof covers the rest. Four values for each
count are `Room` for three threads.

In the runs of `GuestCode` one of two pages is written or remapped, once
(`MCMaxVersion`), which is enough for one stale version beside the current one; the
two threads have its translation in each other's caches, links and hands; and the two
pages fight for one slot of the smallest L1 and have one each in the next
(`MCAddress`), which is all that a size can change. Two invalidations never meet in
this instance; the proof covers them, with any number of threads, pages, sizes and
writes. The threads are symmetric there, the pages are not, since their addresses
differ; the runs that use symmetry check no temporal property other than refinement.

`CHECK_DEADLOCK FALSE` stands in the runs of the kernel primitives only: all guest
threads may wait for something that nobody signals, and only `eventflag_host` ends the
session.

**Fairness.** The gate is a .NET monitor, which is not first-come-first-served,
so the steps that need it are strongly fair: a thread that keeps contending gets
it in the end. The holder of the gate goes on (weak fairness). Each liveness
property names only the threads it depends on: `RunsAgain` the ticker, the ready
dispatcher and the executors of slices that are over,
`SignalReturns` the calling thread, `SignalledWaiterRuns` the signaller,
`HostWaitEnds` the main host thread inside its wait loop. Guest
code is never fair: it may compute for ever, and no run assumes that a game
signals. A deadline passes if the thread stays parked (strong fairness of its
expiry by the ticker). The ticker exists only if the stall watchdog is enabled
(`SHARPEMU_STALL_WATCHDOG_SECONDS` above zero, as by default). Only
`scheduler_forced_exit` assumes that guest code keeps making imports, which makes
its counterexample stronger: even a worker that always comes to its next import
does not unwind. In the mutex every thread that is inside the code of the mutex,
or holds it, goes on (weak fairness of `Progress`); nothing makes a thread call
`lock`, and an atomic operation that others keep disturbing needs no more, for
the step it is part of stays enabled until it succeeds.

**Findings.**

1. `scheduler_forced_exit`: *Backend* 6354 says that guest workers unwind "at
   their next import or block boundary" after a forced exit. No import tests the
   flag for guest workers, so a worker that never blocks keeps running; `Dispose`
   waits five seconds and leaks the session (`GuestSessionLeaked`), which keeps
   the process safe.
2. `semaphore_delete`: `KernelSemaphoreCompatExports.cs` 20 says that delete
   wakes through the key; `KernelDeleteSema` only removes the handle.
3. `guest_code_resize`: the comment on `InvalidateCacheRange` (`LookupCache.h` 332)
   says that it invalidates all entries of L1 and L2 in the range. It looks at one slot
   of L1, under the present mask (304), but a change of the mask (246, 255) moves no
   entry. A block entered before L1 grew keeps its entry in the lower slot when its
   page is written to, `CachedCodePages` forgets the page, and once L1 has shrunk again
   the dropped block is found and run: `ExecutesCurrentCode` fails there as well.
   Both settings it takes are defaults. With an L1 that only grows the entry is never
   found again, and everything below holds.
4. `call_return_stack`: `JIT/BranchOps.cpp` 99 says that the shadow stack is cleared
   on block invalidation, so that what it points to is always valid. It is cleared
   only in threads in whose own caches the page is found (`Core.cpp` 992). A thread
   that came to the block over a branch another thread had patched has it in none
   of them, and keeps the return address of the dropped block.

## Proofs

`GuestSchedulerProofs` proves the type invariant, `GuestSchedulerSafety` the
safety properties of the scheduler, for every set of threads, keys and waiters,
every batch size and every set of callers and nesting threads. The assumptions
are those of `GuestScheduler`: the thread set is finite and the five kinds of
actors differ (`ActorsAssumption`), the bounds are numbers of the right kind
(`BoundsAssumption`), and the null values differ from the real ones
(`NoneAssumption`).

The properties are not inductive: that a slice owns its thread depends on where
the other actors are. The invariant `IInv` adds

- `CallOK`: the position of an actor fits the gate, the pump depth, its call and
  its claim; a claim loop that holds the gate has between one and
  `Len(readyQueue)` candidates left;
- `WaitOK`: the wake loop has threads left to visit only while it holds the gate, and they are
  parked; a yielding slice has a request and an unwinding one a registration;
- `LeavingOK`: what the state of a thread can be while its slice leaves or polls;
- `TerminalOK`: an ended thread has no claimer, no scheduled work, and a slice
  only if it is leaving;
- `TableOK`: a thread is outside the table only before its creation or after the
  table was cleared;
- `TeardownOK`: from `Dispose` on the exit is forced, and once quiescent no
  slice is past the test of the flag.

With it, `SingleExecutor`, `TokenNotLost` and `ParkedIsWakeable` are inductive:
one lemma per action, each split into the conjuncts the action can disturb.
`NoGuestCodeAfterTeardown` follows from `TeardownOK`, and `TerminalIsFinal` from
`TerminalOK`. `NoStrandedReady` is proved on top of `IInv`: wakes append, a claim
removes the entry of a thread it makes Running, a deferral moves an entry to the
back, and every other thread keeps its entry.

Proved: `TypeCorrect`, `Safety`, `OneExecutor`, `ExecutorNotLost`,
`BlockedIsWakeable`, `TeardownIsSafe`, `FinishedStaysFinished`, `ReadyIsQueued`, and in
`GuestSchedulerWakes` `WakesAreNotSpurious`: a parked thread has no executor in guest
code (`RunningOK`), so only a wake that granted its wait or an expiry makes it go on. Its
property excepts a forced exit, which sends parked nested callers on, and is checked
in `eventflag_host`, whose waits are timed and untimed.

### The primitives on the scheduler

`GuestSchedulerWakes` states once, for every action of the scheduler, which threads
it parks, frees or visits: a thread is parked only by `StayParked` and `NestedPark`,
a wake under way loses a candidate only by visiting it, and a wake that may visit
every thread never stops before it has (`LimitOK`). With `RunningOK`, that a slice in guest
code belongs to a Running thread, this is what a primitive needs.

Each of `KernelSemaphoreProofs`, `KernelEventFlagProofs` and
`KernelSyncOnAddressProofs` first proves that every step of the primitive is a step
of the scheduler (`RunsScheduler`, as `SemaSpec => Spec`), so that all of the
scheduler's theorems hold under it. Then:

- `SemaTypeCorrect`, `CountStaysInRange`: from the type invariant strengthened with the
  ranges of the waits the scheduler holds (`SemaTypes`).
- `WakeupsAreNotLost`: `NoLostWakeup` with `LimitOK` and `RunningOK`. Only a signal
  or a cancel adds tokens, and it begins its wake in the same step, with every parked
  thread as a candidate; a thread parks only after its predicate has failed.
- `FlagTypeCorrect`, `SetsAreNotLost`: only a set or a cancel adds bits; a set begins
  its wake in the same step, with every parked thread as a candidate, and what a cancel
  adds is excepted. Clear modes, polls, expiries and the host's loop only take
  bits away (`BitsShrink`), which satisfies no wait that was not satisfied before.
- `SyncTypeCorrect`, `PulsesAreNotMissed`: a wake that bumped the generation still has
  its pulse to come, so `NoMissedPulse` is inductive with the types.
- `WakesAreNotMissed`: what a wait has read is a past or the present generation
  (`Observed`), and an older parked one is still to be visited (`WakesReach`).
- `WakesDoTheirShare`: of the waiters a wake has visited or found unwilling, each has
  read the present generation, or another wake of the address is under way (`ScanOK`).
  While a wake holds the gate nobody else changes what it visits (`QuietTable`), so the
  argument needs neither `RunningOK` nor an exit that is not forced.

The refinements `ImplementsCountingSemaphore` and `ImplementsFlag` need to know in
whose hands a wait is. `StageOK` says that a block request exists just while the slice
yields and a consumed continuation just while it resumes; that neither has company
from a registered wait; and that until a forced exit a parked or unwinding thread has
not been granted its wait. With `ExportOK` (an export is under way only in guest code)
and the types of its arguments it makes the mapping of the waits one lemma per kind of
step, stated in `GuestSchedulerWakes` once for both primitives:

- most steps leave every wait as it is, up to its deadline (`HoldFrame`);
- a block request hands the ask of the export to the scheduler (`RequestFrame`):
  `Block` of the semaphore, a stutter of the event flag;
- a wake, at any of its three places, grants a wait that was not granted yet
  (`WakeFrame`): `Grant`, or `Lose` if a forced exit had sent its thread away;
- `Resume` and `NestedForced` take the wait off (`ResumeFrame`, `ForcedFrame`):
  `Unblock` or `SendAway` of the semaphore, `Return` of the event flag.

The steps of the exports themselves and of the host's loop are `Ask`, `TakeAndReturn`
(`SucceedAndReturn`), `ReturnWithout` (`Return`), `Signal` and `Refuse` (`Set`, `Clear`)
and `Cancel`, and setting `_forcedGuestExit` is `Stop`. The continuation that a forced
exit of a callback leaves registered would look like a second ask of its thread. The
event flag counts it as nobody's (`Abandoned`, with `eventflag_host`, whose `Ends` is
`TRUE`, to check it). The semaphore follows it in `left`: it appears only with
`NestedForced` (`DesertFrame`), what it takes is what its client had asked for
(`SpendFrame`), and otherwise it stays as it is or goes (`FadeFrame`, `SteadyFrame`).

`WaitersAreNotOvercounted` and `WaitersAreCounted` compare `WaitingThreads` with the
number of unfinished waits. Every step adds one wait to those of a semaphore and one to
its counter, or takes both off, or leaves both, or is a cancel that zeroes the counter
alone (`CountMoves`); a decrement stops at zero. So the counter never exceeds the number,
and equals it where cancel is not called: `WaitersAreCounted` assumes
`CancelCounts = {}`, and the property is false without it.

Each module's named assumption (`SemaphoreAssumption`, `EventFlagAssumption`,
`AddressAssumption`) says that its constants are of the right kind and that the limits
it wakes with are among `WakeLimits`: `Cardinality(Threads)`, the `int.MaxValue` of the
code, for semaphores and flags, and any `WakeCount` for addresses.

### The write-priority mutex

The four safety properties `MutexTypeOK`, `WordExact`, `MutualExclusion` and `NoLostWake`
are inductive together (`MutexInv`). `WordExact` carries the counts, as cardinalities of sets of
places; `NoLostWake` needs it to know from the word who is queued. On top of it every step
is shown to be one of `ReadWriteLock` or a stutter (`MutexImplementsLock`). Of the
constants it is assumed that the threads are finite (`ThreadsAssumption`) and that each
count has a value (`WidthsAssumption`). The types hold whatever the widths are;
`WordIsExact`, `LocksExclude`, `WakesAreNotLost` and `MutexImplementsLock` say in their
statement that there is `Room`, without which they are false.

### Guest code

`L1OnlyGrows` says of the constants that no change of size makes L1 smaller; it holds
where L1 does not shrink or has one size (`GrowingL1`), and not with the default
settings. `TranslationsAreCurrent` and `CachesAgree` assume it in their statement and
are false without it (the third finding); `GuestTypeCorrect`, `PagesAreProtected` and
`LocksAreOrdered` do not. Both come from one invariant, some of whose parts hold under
`L1OnlyGrows` only. `GuestInv` joins the type invariant with

- `Disciplined`, `WellPlaced`, `Exclusive`: the guest's rule, what a thread holds at
  each place, and that an invalidator is alone;
- `Protected`: `TrackedPagesProtected`, in a form that names the thread that has yet to
  protect the page;
- `BlocksCurrent`: for a page that nobody writes to or invalidates, L3 is current;
- `L1TailEmpty`: beyond its present size L1 is empty, so that growing uncovers nothing;
- `LinksCoherent`, `EntriesCoherent`, `EntriesCovered` (under `L1OnlyGrows`): for such a
  page the links and caches agree with L3, and `CachedCodePages` leads to every entry
  that can be found;
- `Severed`: during an invalidation the shared blocks are gone and, under `L1OnlyGrows`,
  the links too, and only the threads in `todo` can still have the page in their caches;
- `CodeInHand`: what a thread has found or decoded and not yet entered is current, if
  it comes from a cache under `L1OnlyGrows`.

`TranslationsAreCurrent`, `CachesAgree` and `PagesAreProtected` follow from it.
`LocksAreOrdered` needs no further induction: every set of threads has one that none of the
others keeps waiting, namely one that invalidates or forks, else one that compiles or
has faulted, else one that waits for `CodeInvalidationMutex`, else one that waits
for `ThreadCreationMutex`, else any.

### Only model-checked

Everything under fairness (liveness and `ENABLED` are out of the prover's reach):
`RunsAgain`, `SignalReturns`, `SignalledWaiterRuns`, `HostWaitEnds`, `WriterGetsIn` and
`ReadersGetIn`. The four violations are counterexamples. Every invariant, action
property and refinement of the passing runs is also a theorem.

## Not modelled, and the plan

In this order; each primitive composes with `GuestScheduler` in the way
`KernelSemaphore` does, and gets an abstract specification of its own.

1. `KernelMutex`, `KernelCond` (hand-over, mutual exclusion, a signal is not lost
   between release and park), then rwlocks.
2. `GuestException` (delivery once, the interrupted wait is restored, a second
   raise while a delivery is under way, a delivery nested in a running handler on
   the same exception stack).
3. `KernelEventQueue` (coalescing, events that come before the wait).
4. `HostSession` (stop request against start-up) and `EmulatorLifecycle` (the
   Android service, its native handle and guest thread).
5. FEX's `ThreadManager`: its idle wait, and a fork against `ThreadCreationMutex`,
   which `LockBeforeFork` does not take and the child resets.
6. `DebuggerSession`, then fibers and write tracking, and the range allocator as
   a pure algorithm.

Graphics, shaders, audio, codecs, system services, the loader, the user
interfaces and the rest of FEX are not planned: they are data processing, host
calls or third-party code. FEX and the libraries it carries are nearly all of the
repository's lines; the tables, assemblers and translators among them keep no
state that two actors share. `PROJECT.json` gives the reason for each.
