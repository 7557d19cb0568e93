------------------------ MODULE WritePriorityMutex ------------------------
(***************************************************************************)
(* FEXCore::Utils::WritePriorityMutex on Linux: a reader-writer lock in one *)
(* 32-bit futex word.                                                      *)
(*                                                                         *)
(* A step is one successful atomic operation on the word or one futex call. *)
(* A compare_exchange_strong that fails only refreshes Expected, so a loop *)
(* of them is the step of the one that succeeds.  What a thread has read   *)
(* and the kernel compares with the word later is kept in seen.            *)
(***************************************************************************)
EXTENDS Integers, FiniteSets

CONSTANTS
    Threads,
    WriterSlots,  \* 2^14: the values of the count of waiting writers
    ReaderSlots   \* 2^16: the values of the count of readers that are in

ASSUME ThreadsAssumption == IsFiniteSet(Threads)

ASSUME WidthsAssumption == WriterSlots \in Nat \ {0} /\ ReaderSlots \in Nat \ {0}

\* Futex: from the top bit down WRITE_OWNED_BIT, READ_WAITER_BIT and the counts
Words == [owned : BOOLEAN, readWaiter : BOOLEAN,
          writers : 0..(WriterSlots - 1), readers : 0..(ReaderSlots - 1)]

Zero == [owned |-> FALSE, readWaiter |-> FALSE, writers |-> 0, readers |-> 0]

VARIABLES
    futex,  \* Mutex::Futex
    pc,     \* where each thread is in the code of the mutex
    seen    \* the word a thread hands to FUTEX_WAIT_BITSET, Zero elsewhere

vars == <<futex, pc, seen>>

\* In lock() before and after the fetch_add, and in lock_shared()
Queued == {"writerLoop", "writerPark", "writerAsleep"}
Writers == {"wantWrite"} \cup Queued
Readers == {"wantRead", "readerPark", "readerAsleep"}
Places == {"idle", "writing", "reading", "wakeWriter", "wakeReaders"}
          \cup Writers \cup Readers

At(places) == {t \in Threads : pc[t] \in places}

Goes(t, place) == pc' = [pc EXCEPT ![t] = place]

MutexInit ==
    /\ futex = Zero
    /\ pc = [t \in Threads |-> "idle"]
    /\ seen = [t \in Threads |-> Zero]

\* What keeps a writer out, and what keeps a reader out
Held(w) == w.owned \/ w.readers # 0
WriterAhead(w) == w.owned \/ w.writers # 0

-----------------------------------------------------------------------------
(* Arithmetic on the word: what leaves a count carries into the bits above it, *)
(* or borrows from them.  Only builds with assertions look for that.       *)

WriterAdded(w) ==
    IF w.writers + 1 < WriterSlots
    THEN [w EXCEPT !.writers = @ + 1]
    ELSE [w EXCEPT !.writers = 0, !.readWaiter = ~@, !.owned = @ # w.readWaiter]

WriterDropped(w) ==
    IF w.writers # 0
    THEN [w EXCEPT !.writers = @ - 1]
    ELSE [w EXCEPT !.writers = WriterSlots - 1,
                   !.readWaiter = ~@, !.owned = @ = w.readWaiter]

ReaderAdded(w) ==
    IF w.readers + 1 < ReaderSlots
    THEN [w EXCEPT !.readers = @ + 1]
    ELSE [WriterAdded(w) EXCEPT !.readers = 0]

ReaderDropped(w) ==
    IF w.readers # 0
    THEN [w EXCEPT !.readers = @ - 1]
    ELSE [WriterDropped(w) EXCEPT !.readers = ReaderSlots - 1]

-----------------------------------------------------------------------------
(* lock() *)

\* try_lock, the first thing lock does, and the one-shot attempts of WFE
TryLock(t) ==
    /\ pc[t] \in {"idle", "wantWrite"}
    /\ futex = Zero
    /\ futex' = [futex EXCEPT !.owned = TRUE]
    /\ Goes(t, "writing")
    /\ UNCHANGED seen

\* try_lock fails in lock
Lock(t) ==
    /\ pc[t] = "idle"
    /\ futex # Zero
    /\ Goes(t, "wantWrite")
    /\ UNCHANGED <<futex, seen>>

\* The attempts with WFE time out: the thread is counted as a write waiter
EnlistWriter(t) ==
    /\ pc[t] = "wantWrite"
    /\ futex' = WriterAdded(futex)
    /\ Goes(t, "writerLoop")
    /\ UNCHANGED seen

\* Mutant of TakeWrite: the readers that still own the lock are not looked at
TakeWriteFromReaders(t) ==
    /\ pc[t] = "writerLoop"
    /\ ~futex.owned
    /\ futex' = WriterDropped([futex EXCEPT !.owned = TRUE])
    /\ Goes(t, "writing")
    /\ UNCHANGED seen

TakeWrite(t) ==
    /\ pc[t] = "writerLoop"
    /\ ~Held(futex)
    /\ futex' = WriterDropped([futex EXCEPT !.owned = TRUE])
    /\ Goes(t, "writing")
    /\ UNCHANGED seen

\* The lock is held by somebody: FutexWaitForWriteAvailable with the word read
ParkWriter(t) ==
    /\ pc[t] = "writerLoop"
    /\ Held(futex)
    /\ seen' = [seen EXCEPT ![t] = futex]
    /\ Goes(t, "writerPark")
    /\ UNCHANGED futex

-----------------------------------------------------------------------------
(* lock_shared() *)

LockShared(t) ==
    /\ pc[t] = "idle"
    /\ Goes(t, "wantRead")
    /\ UNCHANGED <<futex, seen>>

\* Mutant of TakeRead: the writers in the queue are not looked at
TakeReadBarging(t) ==
    /\ pc[t] = "wantRead"
    /\ ~futex.owned
    /\ futex' = ReaderAdded(futex)
    /\ Goes(t, "reading")
    /\ UNCHANGED seen

\* try_lock_shared, the attempts with WFE and the loop take the lock alike
TakeRead(t) ==
    /\ pc[t] = "wantRead"
    /\ ~WriterAhead(futex)
    /\ futex' = ReaderAdded(futex)
    /\ Goes(t, "reading")
    /\ UNCHANGED seen

\* Mutant of EnlistReader: the kernel is handed the word without READ_WAITER_BIT
EnlistReaderOldWord(t) ==
    /\ pc[t] = "wantRead"
    /\ WriterAhead(futex)
    /\ futex' = [futex EXCEPT !.readWaiter = TRUE]
    /\ seen' = [seen EXCEPT ![t] = futex]
    /\ Goes(t, "readerPark")

\* A writer is ahead: READ_WAITER_BIT, then FutexWaitForReadAvailable
EnlistReader(t) ==
    /\ pc[t] = "wantRead"
    /\ WriterAhead(futex)
    /\ futex' = [futex EXCEPT !.readWaiter = TRUE]
    /\ seen' = [seen EXCEPT ![t] = futex']
    /\ Goes(t, "readerPark")

-----------------------------------------------------------------------------
(* The futex calls *)

\* Where a thread sleeps, and where it goes on
Asleep(t) == IF pc[t] = "writerPark" THEN "writerAsleep" ELSE "readerAsleep"
Again(t) == IF pc[t] \in Queued THEN "writerLoop" ELSE "wantRead"

\* Mutant of FutexWait: the kernel does not compare the word
FutexWaitBlindly(t) ==
    /\ pc[t] \in {"writerPark", "readerPark"}
    /\ Goes(t, Asleep(t))
    /\ seen' = [seen EXCEPT ![t] = Zero]
    /\ UNCHANGED futex

\* FUTEX_WAIT_BITSET: the kernel puts the thread to sleep only if the word is
\* still the one it was handed
FutexWait(t) ==
    /\ pc[t] \in {"writerPark", "readerPark"}
    /\ Goes(t, IF futex = seen[t] THEN Asleep(t) ELSE Again(t))
    /\ seen' = [seen EXCEPT ![t] = Zero]
    /\ UNCHANGED futex

\* A signal ends the wait
SpuriousWake(t) ==
    /\ pc[t] \in {"writerAsleep", "readerAsleep"}
    /\ Goes(t, Again(t))
    /\ UNCHANGED <<futex, seen>>

\* FutexWakeWriter wakes one of the writers that sleep, if there is one
WakeWriter(t) ==
    /\ pc[t] = "wakeWriter"
    /\ \/ \E u \in At({"writerAsleep"}) :
            pc' = [pc EXCEPT ![t] = "idle", ![u] = "writerLoop"]
       \/ At({"writerAsleep"}) = {} /\ Goes(t, "idle")
    /\ UNCHANGED <<futex, seen>>

\* FutexWakeReaders wakes all the readers that sleep
WakeReaders(t) ==
    /\ pc[t] = "wakeReaders"
    /\ pc' = [u \in Threads |-> IF u = t THEN "idle"
                                ELSE IF pc[u] = "readerAsleep" THEN "wantRead"
                                ELSE pc[u]]
    /\ UNCHANGED <<futex, seen>>

-----------------------------------------------------------------------------
(* unlock(), unlock_shared(), StealAndDropActiveLocks() *)

\* Mutant of Unlock: READ_WAITER_BIT is cleared although writers go first
UnlockForgetsReaders(t) ==
    /\ pc[t] = "writing"
    /\ futex' = [futex EXCEPT !.owned = FALSE, !.readWaiter = FALSE]
    /\ Goes(t, IF futex.writers # 0 THEN "wakeWriter"
               ELSE IF futex.readWaiter THEN "wakeReaders"
               ELSE "idle")
    /\ UNCHANGED seen

\* READ_WAITER_BIT stays while writers wait; they are woken before the readers
Unlock(t) ==
    /\ pc[t] = "writing"
    /\ futex' = [futex EXCEPT !.owned = FALSE,
                              !.readWaiter = @ /\ futex.writers # 0]
    /\ Goes(t, IF futex.writers # 0 THEN "wakeWriter"
               ELSE IF futex.readWaiter THEN "wakeReaders"
               ELSE "idle")
    /\ UNCHANGED seen

\* Mutant of UnlockShared: the last reader wakes nobody
UnlockSharedSilently(t) ==
    /\ pc[t] = "reading"
    /\ futex' = ReaderDropped(futex)
    /\ Goes(t, "idle")
    /\ UNCHANGED seen

\* The last reader hands over to a writer
UnlockShared(t) ==
    /\ pc[t] = "reading"
    /\ futex' = ReaderDropped(futex)
    /\ Goes(t, IF futex'.writers # 0 /\ futex'.readers = 0
               THEN "wakeWriter" ELSE "idle")
    /\ UNCHANGED seen

\* Mutant of StealAndDropActiveLocks: the child only gives up its own lock
StealOwnedOnly(t) ==
    /\ pc[t] = "writing"
    /\ futex' = [futex EXCEPT !.owned = FALSE]
    /\ pc' = [u \in Threads |-> "idle"]
    /\ seen' = [u \in Threads |-> Zero]

\* The child of a fork goes on with a copy of the word and without the other
\* threads; the thread that forked has taken the lock before
StealAndDropActiveLocks(t) ==
    /\ pc[t] = "writing"
    /\ futex' = Zero
    /\ pc' = [u \in Threads |-> "idle"]
    /\ seen' = [u \in Threads |-> Zero]

-----------------------------------------------------------------------------
\* What a thread does inside the mutex, and the end of what it does under it
Progress(t) ==
    \/ TryLock(t) /\ pc[t] # "idle"
    \/ EnlistWriter(t) \/ TakeWrite(t) \/ ParkWriter(t)
    \/ TakeRead(t) \/ EnlistReader(t)
    \/ FutexWait(t) \/ WakeWriter(t) \/ WakeReaders(t)
    \/ Unlock(t) \/ UnlockShared(t)

MutexNext ==
    \E t \in Threads :
        \/ Progress(t)
        \/ TryLock(t) \/ Lock(t) \/ LockShared(t)
        \/ SpuriousWake(t)
        \/ StealAndDropActiveLocks(t)

MutexSpec == MutexInit /\ [][MutexNext]_vars

\* Fairness: a thread that runs is scheduled, and its critical sections end.
\* Nothing makes a thread call lock, and no signal is sure to come.
MutexFairness == \A t \in Threads : WF_vars(Progress(t))

FairMutexSpec == MutexSpec /\ MutexFairness

-----------------------------------------------------------------------------
(* Properties *)

\* Types; only a thread on its way into the kernel remembers a word, and that
\* word says why it must sleep.
MutexTypeOK ==
    /\ futex \in Words
    /\ pc \in [Threads -> Places]
    /\ seen \in [Threads -> Words]
    /\ \A t \in Threads :
        /\ pc[t] = "writerPark" => Held(seen[t])
        /\ pc[t] = "readerPark" => WriterAhead(seen[t]) /\ seen[t].readWaiter

\* The word tells the truth: the write bit is the one writer that is in, the two
\* counts are the readers that are in and the writers that queue, whichever
\* of lock, unlock, the wakes and a fork ran in between.  That takes Room.
WordExact ==
    /\ At({"writing"}) = {} <=> ~futex.owned
    /\ futex.readers = Cardinality(At({"reading"}))
    /\ futex.writers = Cardinality(At(Queued))

\* There are fewer threads than each count has values.  The header promises more,
\* "Up to 32767 pending exclusive locks": one bit more than the 14 bits of the count
\* in lock.  A writer too many carries, and what follows does not hold of the word.
Room == Cardinality(Threads) < WriterSlots /\ Cardinality(Threads) < ReaderSlots

\* Exclusive locks are exclusive, also against shared ones.
MutualExclusion ==
    /\ \A t, u \in At({"writing"}) : t = u
    /\ At({"writing"}) # {} => At({"reading"}) = {}

\* No lost wake-up ("be careful about dead-locking other waiters").  While a
\* writer sleeps on a free lock, a wake is on its way or another queued writer
\* is up and will take the lock and pass the wake on when it unlocks.  While a
\* reader sleeps, the word remembers it for the unlock to come, and somebody
\* is left to do that unlock, or the wake of the readers is on its way.
NoLostWake ==
    /\ At({"writerAsleep"}) # {} /\ ~Held(futex) =>
            At({"wakeWriter", "writerLoop", "writerPark"}) # {}
    /\ At({"readerAsleep"}) # {} =>
            \/ At({"wakeReaders"}) # {}
            \/ futex.readWaiter /\ WriterAhead(futex)

\* The lock as its clients know it
RoleAt(place) ==
    IF place \in {"writing", "reading"} THEN place
    ELSE IF place \in Queued THEN "queued" ELSE "out"

\* The futex code is a reader-writer lock in which writers go first: in
\* particular a reader never gets in past a writer that has queued.
Abstract == INSTANCE ReadWriteLock WITH role <- [t \in Threads |-> RoleAt(pc[t])]

ImplementsLock == Abstract!LockSpec

\* Readers cannot starve writers, nor does a wake get lost between two of them:
\* when a writer has queued some writer gets the lock.
WriterGetsIn == At(Queued) # {} ~> At({"writing"}) # {}

\* Once the writers are gone every reader gets in, also one that went to sleep
\* behind them: writers have priority, they do not lock readers out for good.
ReadersGetIn ==
    <>[](At(Writers \cup {"writing"}) = {}) =>
        \A t \in Threads : pc[t] \in Readers ~> pc[t] \notin Readers
=============================================================================
