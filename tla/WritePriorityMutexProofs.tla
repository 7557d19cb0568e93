--------------------- MODULE WritePriorityMutexProofs ---------------------
(* The write-priority mutex is well-typed for every number of threads.  For *)
(* every number its counts have room for it is correct and implements     *)
(* ReadWriteLock; Room is a hypothesis of each of those theorems.           *)
EXTENDS WritePriorityMutex, TLAPS, FiniteSetTheorems

\* The properties of the mutex hold each other up.
MutexInv == MutexTypeOK /\ WordExact /\ MutualExclusion /\ NoLostWake

-----------------------------------------------------------------------------
\* Sets of threads are finite, and hold no more than all of them.
LEMMA ThreadSets ==
    ASSUME NEW S \in SUBSET Threads
    PROVE  /\ IsFiniteSet(S)
           /\ Cardinality(S) \in Nat
           /\ Cardinality(Threads) \in Nat
           /\ Cardinality(S) <= Cardinality(Threads)
           /\ Cardinality(S) = 0 <=> S = {}
<1>1. IsFiniteSet(S) /\ Cardinality(S) <= Cardinality(Threads)
  BY FS_Subset, ThreadsAssumption
<1>2. Cardinality(S) \in Nat /\ Cardinality(Threads) \in Nat
  BY <1>1, FS_CardinalityType, ThreadsAssumption
<1>3. Cardinality(S) = 0 <=> S = {}
  BY <1>1, FS_EmptySet
<1>. QED  BY <1>1, <1>2, <1>3

\* Arithmetic on the word gives a word, with a carry or without.
LEMMA WordArithmetic ==
    ASSUME NEW w \in Words
    PROVE  /\ WriterAdded(w) \in Words
           /\ WriterDropped(w) \in Words
           /\ ReaderAdded(w) \in Words
           /\ ReaderDropped(w) \in Words
<1>0. /\ w.owned \in BOOLEAN /\ w.readWaiter \in BOOLEAN
      /\ \A n \in 0..(WriterSlots - 1) : [w EXCEPT !.writers = n] \in Words
      /\ \A n \in 0..(WriterSlots - 1), r, o \in BOOLEAN :
            [w EXCEPT !.writers = n, !.readWaiter = r, !.owned = o] \in Words
  BY DEF Words
<1>a. w.writers \in 0..(WriterSlots - 1)
  BY DEF Words
<1>b. /\ (~w.readWaiter) \in BOOLEAN
      /\ (w.owned # w.readWaiter) \in BOOLEAN
      /\ (w.owned = w.readWaiter) \in BOOLEAN
      /\ 0 \in 0..(WriterSlots - 1) /\ WriterSlots - 1 \in 0..(WriterSlots - 1)
  BY WidthsAssumption
<1>1. WriterAdded(w) \in Words
  <2>1. CASE w.writers + 1 < WriterSlots
    <3>1. w.writers + 1 \in 0..(WriterSlots - 1)
      BY <1>a, <2>1, WidthsAssumption
    <3>2. WriterAdded(w) = [w EXCEPT !.writers = w.writers + 1]
      BY <2>1, Zenon DEF WriterAdded
    <3>. QED  BY <1>0, <3>1, <3>2
  <2>2. CASE ~(w.writers + 1 < WriterSlots)
    BY <1>0, <1>b, <2>2, Zenon DEF WriterAdded
  <2>. QED  BY <2>1, <2>2
<1>2. WriterDropped(w) \in Words
  <2>1. CASE w.writers # 0
    <3>1. w.writers - 1 \in 0..(WriterSlots - 1)
      BY <1>a, <2>1, WidthsAssumption
    <3>2. WriterDropped(w) = [w EXCEPT !.writers = w.writers - 1]
      BY <2>1, Zenon DEF WriterDropped
    <3>. QED  BY <1>0, <3>1, <3>2
  <2>2. CASE w.writers = 0
    BY <1>0, <1>b, <2>2, Zenon DEF WriterDropped
  <2>. QED  BY <2>1, <2>2
<1>3. \A v \in Words, n \in 0..(ReaderSlots - 1) : [v EXCEPT !.readers = n] \in Words
  BY DEF Words
<1>4. 0 \in 0..(ReaderSlots - 1) /\ ReaderSlots - 1 \in 0..(ReaderSlots - 1)
  BY WidthsAssumption
<1>5. w.readers \in 0..(ReaderSlots - 1)
  BY DEF Words
<1>6. ReaderAdded(w) \in Words
  <2>1. CASE w.readers + 1 < ReaderSlots
    BY <1>3, <1>5, <2>1, WidthsAssumption DEF ReaderAdded
  <2>2. CASE ~(w.readers + 1 < ReaderSlots)
    BY <1>1, <1>3, <1>4, <2>2 DEF ReaderAdded
  <2>. QED  BY <2>1, <2>2
<1>7. ReaderDropped(w) \in Words
  <2>1. CASE w.readers # 0
    BY <1>3, <1>5, <2>1, WidthsAssumption DEF ReaderDropped
  <2>2. CASE w.readers = 0
    BY <1>2, <1>3, <1>4, <2>2 DEF ReaderDropped
  <2>. QED  BY <2>1, <2>2
<1>. QED  BY <1>1, <1>2, <1>6, <1>7

\* What a step of one thread does to a set the properties speak of.
LEMMA Moves ==
    ASSUME MutexTypeOK, NEW t \in Threads, NEW p \in Places, Goes(t, p), NEW places
    PROVE  /\ p \in places => At(places)' = At(places) \cup {t}
           /\ p \notin places => At(places)' = At(places) \ {t}
<1>1. pc'[t] = p /\ \A u \in Threads \ {t} : pc'[u] = pc[u]
  BY DEF MutexTypeOK, Goes
<1>2. p \in places => At(places)' = At(places) \cup {t}
  BY <1>1 DEF At
<1>3. p \notin places => At(places)' = At(places) \ {t}
  BY <1>1 DEF At
<1>. QED  BY <1>2, <1>3

\* And the count of the set follows it.
LEMMA MoveCount ==
    ASSUME MutexTypeOK, NEW t \in Threads, NEW p \in Places, Goes(t, p), NEW places
    PROVE  /\ (p \in places <=> pc[t] \in places) =>
                Cardinality(At(places)') = Cardinality(At(places))
           /\ p \in places /\ pc[t] \notin places =>
                Cardinality(At(places)') = Cardinality(At(places)) + 1
           /\ p \notin places /\ pc[t] \in places =>
                Cardinality(At(places)') = Cardinality(At(places)) - 1
<1>1. IsFiniteSet(At(places))
  BY ThreadSets DEF At
<1>2. t \in At(places) <=> pc[t] \in places
  BY DEF At
<1>3. Cardinality(At(places) \cup {t}) =
          IF t \in At(places) THEN Cardinality(At(places)) ELSE Cardinality(At(places)) + 1
  BY <1>1, FS_AddElement
<1>4. Cardinality(At(places) \ {t}) =
          IF t \in At(places) THEN Cardinality(At(places)) - 1 ELSE Cardinality(At(places))
  BY <1>1, FS_RemoveElement
<1>5. CASE p \in places
  <2>1. At(places)' = At(places) \cup {t}
    BY <1>5, Moves
  <2>. QED  BY <1>2, <1>3, <1>5, <2>1
<1>6. CASE p \notin places
  <2>1. At(places)' = At(places) \ {t}
    BY <1>6, Moves
  <2>. QED  BY <1>2, <1>4, <1>6, <2>1
<1>. QED  BY <1>5, <1>6

\* The fork empties all the sets, the wake of the readers moves several threads.
LEMMA WakeReadersMoves ==
    ASSUME MutexTypeOK, NEW t \in Threads, WakeReaders(t)
    PROVE  /\ At({"writing"})' = At({"writing"})
           /\ At({"reading"})' = At({"reading"})
           /\ At(Queued)' = At(Queued)
           /\ At({"readerAsleep"})' = {}
  BY DEF WakeReaders, At, Queued, MutexTypeOK

\* The writer that is woken stays in the queue.
LEMMA WakeWriterMoves ==
    ASSUME MutexTypeOK, NEW t \in Threads, WakeWriter(t)
    PROVE  /\ At({"writing"})' = At({"writing"})
           /\ At({"reading"})' = At({"reading"})
           /\ At(Queued)' = At(Queued)
  BY DEF WakeWriter, Goes, At, Queued, MutexTypeOK

\* Who is in a set makes its count positive.
LEMMA Counted ==
    ASSUME NEW t \in Threads, NEW places, pc[t] \in places
    PROVE  Cardinality(At(places)) \in Nat /\ Cardinality(At(places)) >= 1
<1>1. At(places) \in SUBSET Threads /\ t \in At(places)
  BY DEF At
<1>2. Cardinality(At(places)) \in Nat /\ Cardinality(At(places)) # 0
  BY <1>1, ThreadSets
<1>. QED  BY <1>2

-----------------------------------------------------------------------------
\* The mutex starts well-typed.
LEMMA TypeInit == MutexInit => MutexTypeOK
  BY WidthsAssumption DEF MutexInit, MutexTypeOK, Words, Zero, Places

\* and stays so, whether or not a count runs over.
LEMMA TypeStep == MutexTypeOK /\ [MutexNext]_vars => MutexTypeOK'
<1>. SUFFICES ASSUME MutexTypeOK, [MutexNext]_vars
              PROVE  MutexTypeOK'
  OBVIOUS
<1>. USE DEF MutexTypeOK, Places, Writers, Readers, Queued, Goes
<1>0. Zero \in Words /\ \A w \in Words, b \in BOOLEAN : [w EXCEPT !.owned = b] \in Words
  BY WidthsAssumption DEF Zero, Words
<1>1. ASSUME NEW t \in Threads, TryLock(t) PROVE MutexTypeOK'
  BY <1>0, <1>1 DEF TryLock
<1>2. ASSUME NEW t \in Threads, Lock(t) PROVE MutexTypeOK'
  BY <1>2 DEF Lock
<1>3. ASSUME NEW t \in Threads, EnlistWriter(t) PROVE MutexTypeOK'
  BY <1>3, WordArithmetic DEF EnlistWriter
<1>4. ASSUME NEW t \in Threads, TakeWrite(t) PROVE MutexTypeOK'
  BY <1>0, <1>4, WordArithmetic DEF TakeWrite
<1>5. ASSUME NEW t \in Threads, ParkWriter(t) PROVE MutexTypeOK'
  BY <1>5 DEF ParkWriter, Held
<1>6. ASSUME NEW t \in Threads, LockShared(t) PROVE MutexTypeOK'
  BY <1>6 DEF LockShared
<1>7. ASSUME NEW t \in Threads, TakeRead(t) PROVE MutexTypeOK'
  BY <1>7, WordArithmetic DEF TakeRead
<1>8. ASSUME NEW t \in Threads, EnlistReader(t) PROVE MutexTypeOK'
  BY <1>8 DEF EnlistReader, WriterAhead, Words
<1>9. ASSUME NEW t \in Threads, FutexWait(t) PROVE MutexTypeOK'
  BY <1>0, <1>9 DEF FutexWait, Asleep, Again
<1>10. ASSUME NEW t \in Threads, SpuriousWake(t) PROVE MutexTypeOK'
  BY <1>10 DEF SpuriousWake, Again
<1>11. ASSUME NEW t \in Threads, WakeWriter(t) PROVE MutexTypeOK'
  BY <1>11 DEF WakeWriter, At
<1>12. ASSUME NEW t \in Threads, WakeReaders(t) PROVE MutexTypeOK'
  BY <1>12 DEF WakeReaders
<1>13. ASSUME NEW t \in Threads, Unlock(t) PROVE MutexTypeOK'
  BY <1>13 DEF Unlock, Words
<1>14. ASSUME NEW t \in Threads, UnlockShared(t) PROVE MutexTypeOK'
  BY <1>14, WordArithmetic DEF UnlockShared
<1>15. ASSUME NEW t \in Threads, StealAndDropActiveLocks(t) PROVE MutexTypeOK'
  BY <1>0, <1>15 DEF StealAndDropActiveLocks
<1>16. CASE UNCHANGED vars
  BY <1>16 DEF vars, Held, WriterAhead
<1>. QED
  BY <1>1, <1>2, <1>3, <1>4, <1>5, <1>6, <1>7, <1>8, <1>9, <1>10, <1>11, <1>12,
     <1>13, <1>14, <1>15, <1>16 DEF MutexNext, Progress

-----------------------------------------------------------------------------
\* Going from one place to another in the terms of the word.
LEMMA WordMoves ==
    ASSUME MutexTypeOK, WordExact, NEW t \in Threads, NEW p \in Places, Goes(t, p)
    PROVE  /\ At({"writing"})' = IF p = "writing" THEN At({"writing"}) \cup {t}
                                 ELSE At({"writing"}) \ {t}
           /\ Cardinality(At({"reading"})') =
                  IF p = "reading"
                  THEN IF pc[t] = "reading" THEN futex.readers ELSE futex.readers + 1
                  ELSE IF pc[t] = "reading" THEN futex.readers - 1 ELSE futex.readers
           /\ Cardinality(At(Queued)') =
                  IF p \in Queued
                  THEN IF pc[t] \in Queued THEN futex.writers ELSE futex.writers + 1
                  ELSE IF pc[t] \in Queued THEN futex.writers - 1 ELSE futex.writers
<1>1. At({"writing"})' = IF p = "writing" THEN At({"writing"}) \cup {t}
                         ELSE At({"writing"}) \ {t}
  BY Moves
<1>2. Cardinality(At({"reading"})') =
          IF p = "reading"
          THEN IF pc[t] = "reading" THEN futex.readers ELSE futex.readers + 1
          ELSE IF pc[t] = "reading" THEN futex.readers - 1 ELSE futex.readers
  BY MoveCount DEF WordExact
<1>3. Cardinality(At(Queued)') =
          IF p \in Queued
          THEN IF pc[t] \in Queued THEN futex.writers ELSE futex.writers + 1
          ELSE IF pc[t] \in Queued THEN futex.writers - 1 ELSE futex.writers
  BY MoveCount DEF WordExact
<1>. QED  BY <1>1, <1>2, <1>3

\* With room for all threads no count runs over, or below zero.
LEMMA NoCarry ==
    ASSUME Room, MutexTypeOK, WordExact, NEW t \in Threads
    PROVE  /\ pc[t] \notin Queued => WriterAdded(futex) = [futex EXCEPT !.writers = @ + 1]
           /\ pc[t] \in Queued =>
                WriterDropped([futex EXCEPT !.owned = TRUE])
                    = [futex EXCEPT !.owned = TRUE, !.writers = @ - 1]
           /\ pc[t] # "reading" => ReaderAdded(futex) = [futex EXCEPT !.readers = @ + 1]
           /\ pc[t] = "reading" => ReaderDropped(futex) = [futex EXCEPT !.readers = @ - 1]
<1>1. ASSUME NEW places, pc[t] \notin places
      PROVE  Cardinality(At(places)) + 1 <= Cardinality(Threads)
  <2>1. /\ At(places) \cup {t} \in SUBSET Threads /\ t \notin At(places)
        /\ IsFiniteSet(At(places)) /\ Cardinality(At(places)) \in Nat
    BY <1>1, ThreadSets DEF At
  <2>2. Cardinality(At(places) \cup {t}) = Cardinality(At(places)) + 1
    BY <2>1, FS_AddElement
  <2>. QED  BY <2>1, <2>2, ThreadSets
<1>2. ASSUME NEW places, pc[t] \in places PROVE Cardinality(At(places)) # 0
  BY <1>2, ThreadSets, Counted
<1>3. pc[t] \notin Queued => futex.writers + 1 < WriterSlots
  BY <1>1, ThreadSets, WidthsAssumption DEF Room, WordExact, MutexTypeOK, Words
<1>4. pc[t] # "reading" => futex.readers + 1 < ReaderSlots
  BY <1>1, ThreadSets, WidthsAssumption DEF Room, WordExact, MutexTypeOK, Words
<1>5. pc[t] \in Queued => futex.writers # 0
  BY <1>2 DEF WordExact
<1>6. pc[t] = "reading" => futex.readers # 0
  BY <1>2 DEF WordExact
<1>. QED
  BY <1>3, <1>4, <1>5, <1>6
  DEF WriterAdded, WriterDropped, ReaderAdded, ReaderDropped, MutexTypeOK, Words

\* The word is zero while nobody uses the mutex,
LEMMA WordInit == MutexInit => WordExact
<1>. SUFFICES ASSUME MutexInit PROVE WordExact
  OBVIOUS
<1>1. At({"writing"}) = {} /\ At({"reading"}) = {} /\ At(Queued) = {}
  BY DEF MutexInit, At, Queued
<1>2. Cardinality({}) = 0
  BY FS_EmptySet
<1>3. ~futex.owned /\ futex.readers = 0 /\ futex.writers = 0
  BY DEF MutexInit, Zero
<1>. QED  BY <1>1, <1>2, <1>3 DEF WordExact

\* and every compare-and-swap keeps it exact.
LEMMA WordStep ==
    Room /\ MutexTypeOK /\ WordExact /\ MutualExclusion /\ [MutexNext]_vars => WordExact'
<1>. SUFFICES ASSUME Room, MutexTypeOK, WordExact, MutualExclusion, [MutexNext]_vars
              PROVE  /\ At({"writing"})' = {} <=> ~futex'.owned
                     /\ futex'.readers = Cardinality(At({"reading"})')
                     /\ futex'.writers = Cardinality(At(Queued)')
  BY DEF WordExact
<1>. DEFINE Goal == /\ At({"writing"})' = {} <=> ~futex'.owned
                    /\ futex'.readers = Cardinality(At({"reading"})')
                    /\ futex'.writers = Cardinality(At(Queued)')
<1>0. /\ futex \in Words /\ pc \in [Threads -> Places]
      /\ At({"writing"}) = {} <=> ~futex.owned
      /\ futex.readers = Cardinality(At({"reading"}))
      /\ futex.writers = Cardinality(At(Queued))
      /\ \A t \in Threads : t \in At({"writing"}) <=> pc[t] = "writing"
      /\ \A t \in Threads : pc[t] = "writing" => At({"writing"}) = {t}
  BY DEF MutexTypeOK, WordExact, MutualExclusion, At
<1>. USE DEF Words, Queued, Places, Writers, Readers
<1>1. ASSUME NEW t \in Threads, TryLock(t) PROVE Goal
  BY <1>0, <1>1, WordMoves DEF TryLock, Zero
<1>2. ASSUME NEW t \in Threads, Lock(t) PROVE Goal
  BY <1>0, <1>2, WordMoves DEF Lock
<1>3. ASSUME NEW t \in Threads, EnlistWriter(t) PROVE Goal
  BY <1>0, <1>3, NoCarry, WordMoves DEF EnlistWriter
<1>4. ASSUME NEW t \in Threads, TakeWrite(t) PROVE Goal
  BY <1>0, <1>4, NoCarry, WordMoves DEF TakeWrite
<1>5. ASSUME NEW t \in Threads, ParkWriter(t) PROVE Goal
  BY <1>0, <1>5, WordMoves DEF ParkWriter
<1>6. ASSUME NEW t \in Threads, LockShared(t) PROVE Goal
  BY <1>0, <1>6, WordMoves DEF LockShared
<1>7. ASSUME NEW t \in Threads, TakeRead(t) PROVE Goal
  BY <1>0, <1>7, NoCarry, WordMoves DEF TakeRead
<1>8. ASSUME NEW t \in Threads, EnlistReader(t) PROVE Goal
  BY <1>0, <1>8, WordMoves DEF EnlistReader
<1>9. ASSUME NEW t \in Threads, FutexWait(t) PROVE Goal
  BY <1>0, <1>9, WordMoves DEF FutexWait, Asleep, Again
<1>10. ASSUME NEW t \in Threads, SpuriousWake(t) PROVE Goal
  BY <1>0, <1>10, WordMoves DEF SpuriousWake, Again
<1>11. ASSUME NEW t \in Threads, WakeWriter(t) PROVE Goal
  BY <1>0, <1>11, WakeWriterMoves DEF WakeWriter
<1>12. ASSUME NEW t \in Threads, WakeReaders(t) PROVE Goal
  BY <1>0, <1>12, WakeReadersMoves DEF WakeReaders
<1>13. ASSUME NEW t \in Threads, Unlock(t) PROVE Goal
  <2>1. PICK p \in {"wakeWriter", "wakeReaders", "idle"} : Goes(t, p)
    BY <1>13 DEF Unlock
  <2>. QED  BY <1>0, <1>13, <2>1, WordMoves DEF Unlock
<1>14. ASSUME NEW t \in Threads, UnlockShared(t) PROVE Goal
  <2>1. PICK p \in {"wakeWriter", "idle"} : Goes(t, p)
    BY <1>14 DEF UnlockShared
  <2>. QED  BY <1>0, <1>14, <2>1, NoCarry, WordMoves DEF UnlockShared
<1>15. ASSUME NEW t \in Threads, StealAndDropActiveLocks(t) PROVE Goal
  <2>1. At({"writing"})' = {} /\ At({"reading"})' = {} /\ At(Queued)' = {}
    BY <1>15 DEF StealAndDropActiveLocks, At
  <2>. QED  BY <1>15, <2>1, FS_EmptySet DEF StealAndDropActiveLocks, Zero
<1>16. CASE UNCHANGED vars
  BY <1>0, <1>16 DEF vars, At
<1>. QED
  BY <1>1, <1>2, <1>3, <1>4, <1>5, <1>6, <1>7, <1>8, <1>9, <1>10, <1>11, <1>12,
     <1>13, <1>14, <1>15, <1>16 DEF MutexNext, Progress

-----------------------------------------------------------------------------
\* At first nobody holds the mutex,
LEMMA ExclusionInit == MutexInit => MutualExclusion
  BY DEF MutexInit, MutualExclusion, At

\* and nobody takes it next to a writer.
LEMMA ExclusionStep ==
    Room /\ MutexTypeOK /\ WordExact /\ MutualExclusion /\ [MutexNext]_vars => MutualExclusion'
<1>. SUFFICES ASSUME Room, MutexTypeOK, WordExact, MutualExclusion, [MutexNext]_vars
              PROVE  MutualExclusion'
  OBVIOUS
<1>0. /\ futex \in Words /\ pc \in [Threads -> Places]
      /\ \A t, u \in Threads : pc[t] = "writing" /\ pc[u] = "writing" => t = u
      /\ \A t, u \in Threads : pc[t] = "writing" => pc[u] # "reading"
      /\ ~futex.owned => \A t \in Threads : pc[t] # "writing"
      /\ futex.readers = 0 => \A t \in Threads : pc[t] # "reading"
  <2>1. futex.readers = 0 => At({"reading"}) = {}
    BY ThreadSets DEF WordExact, At
  <2>. QED  BY <2>1 DEF MutexTypeOK, WordExact, MutualExclusion, At
<1>. DEFINE Goal == /\ \A t, u \in Threads : pc'[t] = "writing" /\ pc'[u] = "writing" => t = u
                    /\ \A t, u \in Threads : pc'[t] = "writing" => pc'[u] # "reading"
<1>. SUFFICES Goal
  BY DEF MutualExclusion, At
<1>1. ASSUME NEW t \in Threads, TryLock(t) PROVE Goal
  BY <1>0, <1>1 DEF TryLock, Goes, Zero
<1>2. ASSUME NEW t \in Threads, TakeWrite(t) PROVE Goal
  BY <1>0, <1>2, NoCarry DEF TakeWrite, Queued, Goes, Held
<1>3. ASSUME NEW t \in Threads, TakeRead(t) PROVE Goal
  BY <1>0, <1>3 DEF TakeRead, Goes, WriterAhead
<1>4. ASSUME NEW t \in Threads,
             \/ Lock(t) \/ EnlistWriter(t) \/ ParkWriter(t) \/ LockShared(t) \/ EnlistReader(t)
             \/ FutexWait(t) \/ SpuriousWake(t) \/ Unlock(t) \/ UnlockShared(t)
      PROVE  Goal
  <2>1. \E p : p \notin {"writing", "reading"} /\ Goes(t, p)
    BY <1>4 DEF Lock, EnlistWriter, ParkWriter, LockShared, EnlistReader, FutexWait, Asleep,
         Again, SpuriousWake, Unlock, UnlockShared
  <2>. QED  BY <1>0, <2>1 DEF Goes
<1>5. ASSUME NEW t \in Threads, WakeWriter(t) PROVE Goal
  BY <1>0, <1>5 DEF WakeWriter, Goes
<1>6. ASSUME NEW t \in Threads, WakeReaders(t) PROVE Goal
  BY <1>0, <1>6 DEF WakeReaders
<1>7. ASSUME NEW t \in Threads, StealAndDropActiveLocks(t) PROVE Goal
  BY <1>7 DEF StealAndDropActiveLocks
<1>8. CASE UNCHANGED vars
  BY <1>0, <1>8 DEF vars
<1>. QED
  BY <1>1, <1>2, <1>3, <1>4, <1>5, <1>6, <1>7, <1>8 DEF MutexNext, Progress

-----------------------------------------------------------------------------
\* At first nobody sleeps.
LEMMA WakeInit == MutexInit => NoLostWake
  BY DEF MutexInit, NoLostWake, At

\* The two halves of NoLostWake, thread by thread.
WriterWoken == \A t \in Threads : pc[t] = "writerAsleep" =>
    Held(futex) \/ \E u \in Threads : pc[u] \in {"wakeWriter", "writerLoop", "writerPark"}

ReaderWoken == \A t \in Threads : pc[t] = "readerAsleep" =>
    \/ \E u \in Threads : pc[u] = "wakeReaders"
    \/ futex.readWaiter /\ WriterAhead(futex)

\* The promise to sleepers is one to writers and one to readers.
LEMMA NoLostWakeSplit == NoLostWake <=> WriterWoken /\ ReaderWoken
  BY DEF NoLostWake, WriterWoken, ReaderWoken, At

\* What the word tells of a thread that is in or queues.
LEMMA WordTells ==
    ASSUME MutexTypeOK, WordExact, MutualExclusion
    PROVE  /\ futex \in Words /\ pc \in [Threads -> Places]
           /\ \A t \in Threads : pc[t] \in Queued => futex.writers >= 1
           /\ \A t \in Threads : pc[t] = "reading" => futex.readers >= 1 /\ ~futex.owned
           /\ \A t \in Threads : pc[t] = "writing" => futex.owned /\ futex.readers = 0
           /\ futex.owned => \E t \in Threads : pc[t] = "writing"
           /\ futex.readers = 0 => \A t \in Threads : pc[t] # "reading"
           /\ futex.writers = 0 => \A t \in Threads : pc[t] \notin Queued
<1>1. futex \in Words /\ pc \in [Threads -> Places]
  BY DEF MutexTypeOK
<1>2. \A t \in Threads : pc[t] \in Queued => futex.writers >= 1
  BY Counted DEF WordExact
<1>3. \A t \in Threads : pc[t] = "reading" => futex.readers >= 1
  BY Counted DEF WordExact
<1>4. /\ \A t \in Threads : pc[t] = "writing" => futex.owned
      /\ futex.owned => \E t \in Threads : pc[t] = "writing"
  BY DEF WordExact, At
<1>5. \A t, u \in Threads : pc[t] = "writing" => pc[u] # "reading"
  BY DEF MutualExclusion, At
<1>6. At({"reading"}) = {} => futex.readers = 0
  BY FS_EmptySet DEF WordExact
<1>7. \A t \in Threads : pc[t] = "writing" => futex.readers = 0
  BY <1>5, <1>6 DEF At
<1>8. /\ futex.readers = 0 => \A t \in Threads : pc[t] # "reading"
      /\ futex.writers = 0 => \A t \in Threads : pc[t] \notin Queued
  BY <1>2, <1>3
<1>. QED  BY <1>1, <1>2, <1>3, <1>4, <1>5, <1>7, <1>8

\* No step leaves a sleeping writer with a free mutex and nobody to wake it.
LEMMA WriterWokenStep ==
    Room /\ MutexTypeOK /\ WordExact /\ MutualExclusion /\ WriterWoken /\ [MutexNext]_vars
        => WriterWoken'
<1>. SUFFICES ASSUME Room, MutexTypeOK, WordExact, MutualExclusion, WriterWoken, [MutexNext]_vars,
                     NEW w \in Threads, pc'[w] = "writerAsleep"
              PROVE  \/ Held(futex)'
                     \/ \E u \in Threads : pc'[u] \in {"wakeWriter", "writerLoop", "writerPark"}
  BY DEF WriterWoken
<1>. DEFINE Ready(s) == s \in {"wakeWriter", "writerLoop", "writerPark"}
            Goal == Held(futex)' \/ \E u \in Threads : Ready(pc'[u])
<1>0. /\ futex \in Words /\ pc \in [Threads -> Places]
      /\ \A t \in Threads : pc[t] = "writerAsleep" => futex.writers >= 1
      /\ \A t \in Threads : pc[t] = "reading" => futex.readers >= 1 /\ ~futex.owned
      /\ pc[w] = "writerAsleep" => Held(futex) \/ \E u \in Threads : Ready(pc[u])
  BY WordTells DEF WriterWoken, Queued
<1>. USE DEF Words, Held, Goes
<1>1. ASSUME NEW t \in Threads, TryLock(t) \/ TakeWrite(t) PROVE Goal
  BY <1>0, <1>1, NoCarry DEF TryLock, TakeWrite, Queued
<1>2. ASSUME NEW t \in Threads, EnlistWriter(t) PROVE Goal
  BY <1>0, <1>2, NoCarry DEF EnlistWriter, Queued
<1>3. ASSUME NEW t \in Threads, TakeRead(t) PROVE Goal
  BY <1>0, <1>3, NoCarry DEF TakeRead
<1>4. ASSUME NEW t \in Threads,
             \/ Lock(t) \/ ParkWriter(t) \/ LockShared(t) \/ EnlistReader(t)
      PROVE  Goal
  <2>1. futex'.owned = futex.owned /\ futex'.readers = futex.readers
    BY <1>0, <1>4 DEF Lock, ParkWriter, LockShared, EnlistReader
  <2>2. pc[t] \in {"idle", "wantRead", "writerLoop"} /\ pc'[t] # "writerAsleep"
    BY <1>0, <1>4 DEF Lock, ParkWriter, LockShared, EnlistReader
  <2>3. \A u \in Threads : Ready(pc[u]) => Ready(pc'[u])
    BY <1>0, <1>4 DEF Lock, ParkWriter, LockShared, EnlistReader
  <2>4. pc[w] = "writerAsleep"
    BY <1>0, <1>4 DEF Lock, ParkWriter, LockShared, EnlistReader
  <2>. QED  BY <1>0, <2>1, <2>3, <2>4
<1>5. ASSUME NEW t \in Threads, FutexWait(t) PROVE Goal
  <2>1. CASE pc[t] = "writerPark"
    BY <1>0, <1>5, <2>1 DEF FutexWait, Asleep, Again, Queued, MutexTypeOK
  <2>2. CASE pc[t] = "readerPark"
    BY <1>0, <1>5, <2>2 DEF FutexWait, Asleep, Again, Queued
  <2>. QED  BY <1>5, <2>1, <2>2 DEF FutexWait
<1>6. ASSUME NEW t \in Threads, SpuriousWake(t) PROVE Goal
  BY <1>0, <1>6 DEF SpuriousWake, Again, Queued
<1>7. ASSUME NEW t \in Threads, WakeWriter(t) PROVE Goal
  BY <1>0, <1>7 DEF WakeWriter, At
<1>8. ASSUME NEW t \in Threads, WakeReaders(t) PROVE Goal
  BY <1>0, <1>8 DEF WakeReaders
<1>9. ASSUME NEW t \in Threads, Unlock(t) PROVE Goal
  BY <1>0, <1>9 DEF Unlock
<1>10. ASSUME NEW t \in Threads, UnlockShared(t) PROVE Goal
  <2>1. futex.writers >= 1
    BY <1>0, <1>10 DEF UnlockShared
  <2>2. CASE futex.readers = 1
    BY <1>0, <1>10, <2>1, <2>2, NoCarry DEF UnlockShared
  <2>3. CASE futex.readers # 1
    BY <1>0, <1>10, <2>3, NoCarry DEF UnlockShared
  <2>. QED  BY <2>2, <2>3
<1>11. ASSUME NEW t \in Threads, StealAndDropActiveLocks(t) PROVE Goal
  BY <1>11 DEF StealAndDropActiveLocks
<1>12. CASE UNCHANGED vars
  BY <1>0, <1>12 DEF vars
<1>. QED
  BY <1>1, <1>2, <1>3, <1>4, <1>5, <1>6, <1>7, <1>8, <1>9, <1>10, <1>11, <1>12
  DEF MutexNext, Progress

\* No step leaves a sleeping reader with a readable mutex and nobody to wake it.
LEMMA ReaderWokenStep ==
    Room /\ MutexTypeOK /\ WordExact /\ MutualExclusion /\ ReaderWoken /\ [MutexNext]_vars
        => ReaderWoken'
<1>. SUFFICES ASSUME Room, MutexTypeOK, WordExact, MutualExclusion, ReaderWoken, [MutexNext]_vars,
                     NEW r \in Threads, pc'[r] = "readerAsleep"
              PROVE  \/ \E u \in Threads : pc'[u] = "wakeReaders"
                     \/ futex'.readWaiter /\ WriterAhead(futex)'
  BY DEF ReaderWoken
<1>. DEFINE Goal == \/ \E u \in Threads : pc'[u] = "wakeReaders"
                    \/ futex'.readWaiter /\ WriterAhead(futex)'
<1>0. /\ futex \in Words /\ pc \in [Threads -> Places]
      /\ \A t \in Threads : pc[t] = "writing" => futex.owned
      /\ \A t \in Threads : pc[t] = "reading" => ~futex.owned
      /\ pc[r] = "readerAsleep" => \/ \E u \in Threads : pc[u] = "wakeReaders"
                                   \/ futex.readWaiter /\ WriterAhead(futex)
  BY WordTells DEF ReaderWoken
<1>. USE DEF Words, WriterAhead, Goes
<1>1. ASSUME NEW t \in Threads,
             TryLock(t) \/ EnlistWriter(t) \/ TakeWrite(t) \/ TakeRead(t)
      PROVE  Goal
  <2>1. CASE TryLock(t)
    BY <1>0, <2>1 DEF TryLock, Zero
  <2>2. CASE EnlistWriter(t)
    <3>1. futex.writers + 1 # 0
      BY <1>0
    <3>. QED  BY <1>0, <2>2, <3>1, NoCarry DEF EnlistWriter, Queued
  <2>3. CASE TakeWrite(t)
    BY <1>0, <2>3, NoCarry DEF TakeWrite, Queued
  <2>4. CASE TakeRead(t)
    BY <1>0, <2>4, NoCarry DEF TakeRead
  <2>. QED  BY <1>1, <2>1, <2>2, <2>3, <2>4
<1>2. ASSUME NEW t \in Threads, Lock(t) \/ ParkWriter(t) \/ LockShared(t) PROVE Goal
  BY <1>0, <1>2 DEF Lock, ParkWriter, LockShared
<1>3. ASSUME NEW t \in Threads, EnlistReader(t) PROVE Goal
  BY <1>0, <1>3 DEF EnlistReader
<1>4. ASSUME NEW t \in Threads, FutexWait(t) PROVE Goal
  <2>1. CASE pc[t] = "writerPark"
    BY <1>0, <1>4, <2>1 DEF FutexWait, Asleep, Again, Queued
  <2>2. CASE pc[t] = "readerPark"
    BY <1>0, <1>4, <2>2 DEF FutexWait, Asleep, Again, Queued, MutexTypeOK
  <2>. QED  BY <1>4, <2>1, <2>2 DEF FutexWait
<1>5. ASSUME NEW t \in Threads, SpuriousWake(t) PROVE Goal
  BY <1>0, <1>5 DEF SpuriousWake, Again, Queued
<1>6. ASSUME NEW t \in Threads, WakeWriter(t) PROVE Goal
  BY <1>0, <1>6 DEF WakeWriter, At
<1>7. ASSUME NEW t \in Threads, WakeReaders(t) PROVE Goal
  BY <1>0, <1>7 DEF WakeReaders
<1>8. ASSUME NEW t \in Threads, Unlock(t) PROVE Goal
  BY <1>0, <1>8 DEF Unlock
<1>9. ASSUME NEW t \in Threads, UnlockShared(t) PROVE Goal
  BY <1>0, <1>9, NoCarry DEF UnlockShared
<1>10. ASSUME NEW t \in Threads, StealAndDropActiveLocks(t) PROVE Goal
  BY <1>10 DEF StealAndDropActiveLocks
<1>11. CASE UNCHANGED vars
  BY <1>0, <1>11 DEF vars
<1>. QED
  BY <1>1, <1>2, <1>3, <1>4, <1>5, <1>6, <1>7, <1>8, <1>9, <1>10, <1>11 DEF MutexNext, Progress

-----------------------------------------------------------------------------
\* The inductive invariant holds at first,
LEMMA MutexInvInit == MutexInit => MutexInv
  BY TypeInit, WordInit, ExclusionInit, WakeInit DEF MutexInv

\* and in every step.
LEMMA MutexInvStep == Room /\ MutexInv /\ [MutexNext]_vars => MutexInv'
<1>. SUFFICES ASSUME Room, MutexInv, [MutexNext]_vars PROVE MutexInv'
  OBVIOUS
<1>1. MutexTypeOK' /\ WordExact' /\ MutualExclusion'
  BY TypeStep, WordStep, ExclusionStep DEF MutexInv
<1>2. WriterWoken' /\ ReaderWoken'
  BY WriterWokenStep, ReaderWokenStep, NoLostWakeSplit DEF MutexInv
<1>3. NoLostWake'
  BY <1>2, NoLostWakeSplit, PTL
<1>. QED  BY <1>1, <1>3 DEF MutexInv

\* Word, holders and sleepers of the mutex fit together, for any number of threads
\* that the counts have room for (the inductive invariant).
THEOREM MutexInvariant == ASSUME Room PROVE MutexSpec => []MutexInv
<1>1. MutexInit => MutexInv
  BY MutexInvInit
<1>2. MutexInv /\ [MutexNext]_vars => MutexInv'
  BY MutexInvStep
<1>. QED  BY <1>1, <1>2, PTL DEF MutexSpec

\* The state of the mutex has its types, whoever calls lock, unlock or forks, and
\* also when the counts run over.
THEOREM MutexTypeCorrect == MutexSpec => []MutexTypeOK
<1>1. MutexInit => MutexTypeOK
  BY TypeInit
<1>2. MutexTypeOK /\ [MutexNext]_vars => MutexTypeOK'
  BY TypeStep
<1>. QED  BY <1>1, <1>2, PTL DEF MutexSpec

\* While there are no more threads than a count holds, the write bit and the two
\* counts of the word are what the threads did to it, whatever lock, unlock,
\* wakes and forks came before: no add carries and no subtraction borrows.
THEOREM WordIsExact == ASSUME Room PROVE MutexSpec => []WordExact
  BY MutexInvariant, PTL DEF MutexInv

\* lock excludes lock and lock_shared.
THEOREM LocksExclude == ASSUME Room PROVE MutexSpec => []MutualExclusion
  BY MutexInvariant, PTL DEF MutexInv

\* unlock and unlock_shared never leave a sleeper that nobody will wake.
THEOREM WakesAreNotLost == ASSUME Room PROVE MutexSpec => []NoLostWake
  BY MutexInvariant, PTL DEF MutexInv

-----------------------------------------------------------------------------
(* Refinement of ReadWriteLock *)

role == [t \in Threads |-> RoleAt(pc[t])]

\* Moving a thread changes its role and no other.
LEMMA RoleMoves ==
    ASSUME MutexTypeOK, NEW t \in Threads, NEW p \in Places, Goes(t, p)
    PROVE  role' = [role EXCEPT ![t] = RoleAt(p)]
<1>1. pc \in [Threads -> Places] /\ pc' = [pc EXCEPT ![t] = p]
  BY DEF Goes, MutexTypeOK
<1>2. role' = [u \in Threads |-> RoleAt(pc'[u])]
  BY DEF role, RoleAt
<1>. QED  BY <1>1, <1>2 DEF role

\* Roles and places.
LEMMA Roles ==
    ASSUME MutexTypeOK, NEW t \in Threads
    PROVE  /\ role[t] = RoleAt(pc[t])
           /\ role[t] = "writing" <=> pc[t] = "writing"
           /\ role[t] = "reading" <=> pc[t] = "reading"
           /\ role[t] = "queued" <=> pc[t] \in Queued
           /\ role[t] = "out" <=> pc[t] \notin {"writing", "reading"} \cup Queued
  BY DEF role, RoleAt, Queued, MutexTypeOK, Places, Writers, Readers

\* The initial states map to initial states.
LEMMA RoleInit == MutexInit => Abstract!LockInit
  BY DEF MutexInit, Abstract!LockInit, RoleAt, Queued

\* Every step of the mutex maps to a step of the abstract lock or to a stutter.
LEMMA RoleStep == MutexInv /\ [MutexNext]_vars => [Abstract!LockNext]_role
<1>. SUFFICES ASSUME MutexInv, [MutexNext]_vars
              PROVE  (\E t \in Threads :
                         \/ Abstract!Queue(t) \/ Abstract!StartWriting(t)
                         \/ Abstract!StartReading(t) \/ Abstract!Stop(t) \/ Abstract!Forget(t))
                     \/ role' = role
  BY DEF Abstract!LockNext, role
<1>. DEFINE Steps(t) == \/ Abstract!Queue(t) \/ Abstract!StartWriting(t)
                        \/ Abstract!StartReading(t) \/ Abstract!Stop(t) \/ Abstract!Forget(t)
<1>0. MutexTypeOK /\ WordExact /\ MutualExclusion
  BY DEF MutexInv
<1>a. /\ Abstract!With("writing") = At({"writing"})
      /\ Abstract!With("reading") = At({"reading"})
      /\ Abstract!With("queued") = At(Queued)
  BY <1>0, Roles DEF Abstract!With, At, role
<1>b. /\ ~futex.owned => At({"writing"}) = {}
      /\ futex.readers = 0 => At({"reading"}) = {}
      /\ futex.writers = 0 => At(Queued) = {}
  BY ThreadSets DEF WordExact, At, MutexInv
<1>c. ASSUME NEW t \in Threads, NEW p \in Places, Goes(t, p), RoleAt(p) = RoleAt(pc[t])
      PROVE  role' = role
  BY <1>0, <1>c, RoleMoves DEF role
<1>1. ASSUME NEW t \in Threads, TryLock(t) PROVE Steps(t)
  <2>1. role' = [role EXCEPT ![t] = "writing"]
    BY <1>0, <1>1, RoleMoves DEF TryLock, Places, RoleAt
  <2>2. role[t] = "out"
    BY <1>0, <1>1, Roles DEF TryLock, Queued
  <2>3. At({"writing"}) = {} /\ At({"reading"}) = {}
    BY <1>1, <1>b DEF TryLock, Zero
  <2>. QED  BY <2>1, <2>2, <2>3, <1>a DEF Abstract!StartWriting, Abstract!Becomes, role
<1>2. ASSUME NEW t \in Threads, TakeWrite(t) PROVE Steps(t)
  <2>1. role' = [role EXCEPT ![t] = "writing"]
    BY <1>0, <1>2, RoleMoves DEF TakeWrite, Places, RoleAt
  <2>2. role[t] = "queued"
    BY <1>0, <1>2, Roles DEF TakeWrite, Queued
  <2>3. At({"writing"}) = {} /\ At({"reading"}) = {}
    BY <1>2, <1>b DEF TakeWrite, Held
  <2>. QED  BY <2>1, <2>2, <2>3, <1>a DEF Abstract!StartWriting, Abstract!Becomes, role
<1>3. ASSUME NEW t \in Threads, TakeRead(t) PROVE Steps(t)
  <2>1. role' = [role EXCEPT ![t] = "reading"]
    BY <1>0, <1>3, RoleMoves DEF TakeRead, Places, RoleAt
  <2>2. role[t] = "out"
    BY <1>0, <1>3, Roles DEF TakeRead, Queued
  <2>3. At({"writing"}) = {} /\ At(Queued) = {}
    BY <1>0, <1>3, <1>b DEF TakeRead, WriterAhead
  <2>. QED  BY <2>1, <2>2, <2>3, <1>a DEF Abstract!StartReading, Abstract!Becomes, role
<1>4. ASSUME NEW t \in Threads, EnlistWriter(t) PROVE Steps(t)
  <2>1. role' = [role EXCEPT ![t] = "queued"]
    BY <1>0, <1>4, RoleMoves DEF EnlistWriter, Places, Writers, Queued, RoleAt
  <2>2. role[t] = "out"
    BY <1>0, <1>4, Roles DEF EnlistWriter, Queued
  <2>. QED  BY <2>1, <2>2 DEF Abstract!Queue, Abstract!Becomes, role
<1>5. ASSUME NEW t \in Threads, Unlock(t) \/ UnlockShared(t) PROVE Steps(t)
  <2>1. PICK p \in {"wakeWriter", "wakeReaders", "idle"} : Goes(t, p)
    BY <1>5 DEF Unlock, UnlockShared
  <2>2. RoleAt(p) = "out" /\ p \in Places
    BY <2>1 DEF RoleAt, Queued, Places
  <2>3. role' = [role EXCEPT ![t] = "out"]
    BY <1>0, <2>1, <2>2, RoleMoves
  <2>4. role[t] \in {"writing", "reading"}
    BY <1>0, <1>5, Roles DEF Unlock, UnlockShared
  <2>. QED  BY <2>3, <2>4 DEF Abstract!Stop, Abstract!Becomes, role
<1>6. ASSUME NEW t \in Threads, StealAndDropActiveLocks(t) PROVE Steps(t)
  <2>1. role' = [u \in Threads |-> "out"]
    BY <1>6 DEF StealAndDropActiveLocks, role, RoleAt, Queued
  <2>2. role[t] = "writing"
    BY <1>0, <1>6, Roles DEF StealAndDropActiveLocks
  <2>. QED  BY <2>1, <2>2 DEF Abstract!Forget, role
<1>7. ASSUME NEW t \in Threads,
             \/ Lock(t) \/ ParkWriter(t) \/ LockShared(t) \/ EnlistReader(t)
             \/ FutexWait(t) \/ SpuriousWake(t)
      PROVE  role' = role
  <2>1. CASE Lock(t)
    BY <2>1, <1>c DEF Lock, Places, Writers, RoleAt, Queued
  <2>2. CASE ParkWriter(t)
    BY <2>2, <1>c DEF ParkWriter, Places, Writers, RoleAt, Queued
  <2>3. CASE LockShared(t)
    BY <2>3, <1>c DEF LockShared, Places, Readers, RoleAt, Queued
  <2>4. CASE EnlistReader(t)
    BY <2>4, <1>c DEF EnlistReader, Places, Readers, RoleAt, Queued
  <2>5. CASE FutexWait(t)
    BY <2>5, <1>c DEF FutexWait, Asleep, Again, Places, Writers, Readers, RoleAt, Queued
  <2>6. CASE SpuriousWake(t)
    BY <2>6, <1>c DEF SpuriousWake, Again, Places, Writers, Readers, RoleAt, Queued
  <2>. QED  BY <1>7, <2>1, <2>2, <2>3, <2>4, <2>5, <2>6
<1>8. ASSUME NEW t \in Threads, WakeWriter(t) \/ WakeReaders(t) PROVE role' = role
  <2>1. \A u \in Threads : RoleAt(pc'[u]) = RoleAt(pc[u])
    <3>1. CASE WakeWriter(t)
      BY <1>0, <3>1 DEF WakeWriter, At, Goes, RoleAt, Queued, MutexTypeOK
    <3>2. CASE WakeReaders(t)
      BY <1>0, <3>2 DEF WakeReaders, RoleAt, Queued
    <3>. QED  BY <1>8, <3>1, <3>2
  <2>. QED  BY <2>1 DEF role
<1>9. CASE UNCHANGED vars
  BY <1>9 DEF vars, role
<1>. QED
  BY <1>1, <1>2, <1>3, <1>4, <1>5, <1>6, <1>7, <1>8, <1>9 DEF MutexNext, Progress

\* The futex code implements the reader-writer lock in which writers go first:
\* no reader passes a writer that has queued, in whatever order they were woken.
THEOREM MutexImplementsLock == ASSUME Room PROVE MutexSpec => ImplementsLock
<1>1. MutexInit => Abstract!LockInit
  BY RoleInit
<1>2. MutexInv /\ [MutexNext]_vars => [Abstract!LockNext]_role
  BY RoleStep
<1>. QED
  BY <1>1, <1>2, MutexInvariant, PTL DEF MutexSpec, ImplementsLock, Abstract!LockSpec, role
=============================================================================
