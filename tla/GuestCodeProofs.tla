--------------------------- MODULE GuestCodeProofs ---------------------------
(***************************************************************************)
(* What holds of GuestCode for any threads, pages, sizes of L1 and number of *)
(* writes.                                                                 *)
(***************************************************************************)
EXTENDS GuestCode, TLAPS

\* L1 never shrinks: DynamicL1Cache is off, or DynamicL1CacheDecreaseCountHeuristic is 0
L1OnlyGrows == \A n \in L1Sizes : \A m \in NextSizes(n) : n <= m

\* The guest keeps to its rule
Disciplined ==
    \A t, u \in Threads : t # u /\ victim[u] # NoPage
        => victim[t] # victim[u] /\ at[t] # victim[u]

\* A thread that is looking for a block
LookingUp == {"link", "dispatch", "storeL1", "compile", "patch"} \cup Compiling

\* What a thread is doing follows from where it is
WellPlaced ==
    \A t \in Threads :
        /\ pc[t] = "run" => task[t] = "none"
        /\ pc[t] \in LookingUp => task[t] \in {"jump", "link"} /\ at[t] # NoPage
        /\ pc[t] \in {"store", "single", "fault"} => task[t] = "store"
        /\ pc[t] = "remap" => task[t] = "map"
        /\ pc[t] = "lockCreation" => task[t] \in {"store", "map"}
        /\ pc[t] = "lockCode" => task[t] \in {"store", "map", "fork"}
        /\ pc[t] \in Invalidating => task[t] \in {"store", "map"}
        /\ pc[t] = "unprotect" => task[t] = "store"
        /\ pc[t] \in Forking => task[t] = "fork"
        /\ victim[t] # NoPage <=> task[t] \in {"store", "map"}
        /\ task[t] = "map" => at[t] # victim[t]
        /\ pc[t] = "single" => at[t] = victim[t]

\* CodeInvalidationMutex is what its name says
Exclusive ==
    \A t, u \in Threads : t # u /\ pc[t] \in Invalidating \cup Forking
        => pc[u] \notin Compiling \cup Invalidating \cup Forking

\* No thread is on its way to invalidate page p
Quiet(p) ==
    \A t \in Threads :
        ~(victim[t] = p /\ pc[t] \in {"lockCreation", "lockCode"} \cup Invalidating)

\* A page with a block is protected, or about to be
Protected ==
    /\ \A t \in Threads : pc[t] \in {"protect", "map"} => at[t] \in codePages
    /\ \A p \in Pages :
        /\ blockList[p] # NoCode => p \in codePages
        /\ p \in codePages /\ p \in writable /\ Quiet(p)
            => \E t \in Threads : pc[t] = "protect" /\ at[t] = p

\* A block is the translation of its page as it is
BlocksCurrent ==
    \A p \in Pages : Quiet(p) /\ blockList[p] # NoCode => blockList[p] = mem[p]

\* The part of L1 beyond its size is empty
L1TailEmpty == \A t \in Threads : \A s \in L1Slots : s >= l1Size[t] => l1[t][s] = NoEntry

\* The parts under L1OnlyGrows are what an L1 that shrinks breaks.
\* A patched branch leads to the block
LinkCoherent(p) ==
    link[p] # NoCode => p \in codePages /\ (Quiet(p) => link[p] = blockList[p])

LinksCoherent == L1OnlyGrows => \A p \in Pages : LinkCoherent(p)

\* So do the caches of thread t
EntryCoherent(t, p) ==
    /\ L1At(t, p).page = p => L1At(t, p).code = blockList[p]
    /\ l2[t][p] # NoCode => l2[t][p] = blockList[p]

\* So do the caches of all threads
EntriesCoherent ==
    L1OnlyGrows => \A t \in Threads : \A p \in Pages : Quiet(p) => EntryCoherent(t, p)

\* CachedCodePages leads to every entry
EntryCovered(t, p) == L1At(t, p).page = p \/ l2[t][p] # NoCode => p \in cached[t]

EntriesCovered ==
    L1OnlyGrows => \A t \in Threads : \A p \in Pages : EntryCovered(t, p)

\* What an invalidation has done so far
Severed ==
    \A t \in Threads : pc[t] \in {"drop", "unprotect"} =>
        /\ victim[t] \notin codePages
        /\ blockList[victim[t]] = NoCode
        /\ pc[t] = "unprotect" => todo = {}
        /\ L1OnlyGrows => /\ link[victim[t]] = NoCode
                          /\ \A u \in Threads \ todo : victim[t] \notin cached[u]

\* The host code a thread has in its hands
InHand(t) ==
    /\ pc[t] \in {"recheck", "register", "protect", "map"} => code[t] = mem[at[t]]
    /\ pc[t] = "storeL1" => code[t] = l2[t][at[t]] /\ code[t] # NoCode
    /\ L1OnlyGrows =>
        /\ pc[t] = "patch" => code[t] = blockList[at[t]] /\ code[t] # NoCode
        /\ pc[t] \notin LookingUp /\ at[t] # NoPage /\ at[t] # victim[t]
            => code[t] = mem[at[t]] /\ at[t] \in codePages
        /\ pc[t] = "store" /\ at[t] = victim[t] /\ code[t] # NoCode => at[t] \in codePages

CodeInHand == \A t \in Threads : InHand(t)

\* The inductive invariant
GuestInv ==
    /\ GuestTypeOK /\ Disciplined /\ WellPlaced /\ Exclusive /\ Protected
    /\ BlocksCurrent /\ L1TailEmpty /\ LinksCoherent /\ EntriesCoherent /\ EntriesCovered
    /\ Severed /\ CodeInHand

USE DEF vars, guestVars, mapVars, cacheVars, threadVars, Goes, Sets, NoCode, NoEntry,
        LookingUp, Compiling, Invalidating, Forking,
        LinkCoherent, EntryCoherent, EntryCovered, InHand
USE GuestAssumption

\* L1 never shrinks when it has one size, or no number of hits is too small for it.
LEMMA GrowingL1 ==
    ASSUME ~L1Shrinks \/ L1Sizes = {MinL1Entries}
    PROVE  L1OnlyGrows
<1> SUFFICES ASSUME NEW n \in L1Sizes, NEW m \in NextSizes(n) PROVE n <= m
  BY DEF L1OnlyGrows
<1>1. n \in Nat \ {0}
  BY L1Assumption
<1>2. m = n \/ m = 2 * n \/ (m \in L1Sizes /\ L1Shrinks)
  BY DEF NextSizes
<1>3. CASE m \in L1Sizes /\ L1Shrinks
  BY <1>1, <1>3
<1> QED
  BY <1>1, <1>2, <1>3

\* Division with remainder.
LEMMA Division ==
    ASSUME NEW a \in Nat, NEW n \in Nat \ {0}
    PROVE  a % n \in 0..(n - 1) /\ a \div n \in Nat /\ a = n * (a \div n) + (a % n)
BY SMT

\* The remainder is unique.
LEMMA Remainder ==
    ASSUME NEW n \in Nat \ {0}, NEW q \in Nat, NEW r \in 0..(n - 1), NEW a \in Nat,
           a = n * q + r
    PROVE  a % n = r
BY SMT

\* Under a mask with one bit more a block keeps its slot or moves to the new half.
LEMMA Doubling ==
    ASSUME NEW a \in Nat, NEW n \in Nat \ {0}
    PROVE  a % (2 * n) \in {a % n, (a % n) + n}
<1>1. PICK q \in Nat : a = (2 * n) * q + (a % (2 * n))
  <2>1. 2 * n \in Nat \ {0}
    OBVIOUS
  <2> QED
    BY <2>1, Division
<1>2. a % (2 * n) \in 0..(2 * n - 1)
  BY Division
<1> DEFINE r == a % (2 * n)
<1> HIDE DEF r
<1>3. r \in 0..(2 * n - 1) /\ a = (2 * n) * q + r
  BY <1>1, <1>2 DEF r
<1>4. CASE r < n
  <2>1. a = n * (2 * q) + r /\ 2 * q \in Nat /\ r \in 0..(n - 1)
    BY <1>3, <1>4
  <2>2. a % n = r
    BY <2>1, Remainder
  <2> QED
    BY <2>2 DEF r
<1>5. CASE r >= n
  <2>1. PICK r1 \in 0..(n - 1) : r = r1 + n
    BY <1>3, <1>5
  <2>2. PICK q1 \in Nat : q1 = 2 * q + 1
    OBVIOUS
  <2>3. a = n * q1 + r1
    BY <2>1, <2>2, <1>3
  <2>4. a % n = r1
    BY <2>3, Remainder
  <2> QED
    BY <2>1, <2>4 DEF r
<1> QED
  BY <1>3, <1>4, <1>5

\* Slots are numbers.
LEMMA SlotsAreNumbers == L1Slots \subseteq Nat
<1> SUFFICES ASSUME NEW s \in L1Slots PROVE s \in Nat
  OBVIOUS
<1>1. PICK n \in L1Sizes : s \in 0..(n - 1)
  BY DEF L1Slots
<1> QED
  BY <1>1, L1Assumption

\* The slot of a page is one of L1, below its present size.
LEMMA SlotInRange ==
    ASSUME NEW n \in L1Sizes, NEW p \in Pages
    PROVE  Address[p] % n \in L1Slots /\ Address[p] % n < n
<1>1. n \in Nat \ {0} /\ Address[p] \in Nat
  BY L1Assumption
<1>2. Address[p] % n \in 0..(n - 1)
  BY <1>1, Division
<1>3. Address[p] % n \in L1Slots
  BY <1>2 DEF L1Slots
<1> QED
  BY <1>1, <1>2, <1>3

\* What a lookup finds in L1 is an entry.
LEMMA L1AtType ==
    ASSUME GuestTypeOK, NEW t \in Threads, NEW p \in Pages
    PROVE  L1Slot(t, p) \in L1Slots /\ L1At(t, p) \in L1Entries
BY SlotInRange DEF GuestTypeOK, L1Slot, L1At

\* A lookup finds the same as long as L1 stays as it is.
LEMMA L1AtKept ==
    ASSUME UNCHANGED <<l1, l1Size>>
    PROVE  \A t, p : L1At(t, p)' = L1At(t, p)
BY DEF L1At, L1Slot

\* An entry e is put into the slot of page p, and L1 keeps its size.
LEMMA L1Stored ==
    ASSUME GuestTypeOK, L1TailEmpty, NEW t \in Threads, NEW p \in Pages,
           NEW e \in L1Entries, l1Size' = l1Size,
           l1' = [l1 EXCEPT ![t][L1Slot(t, p)] = e]
    PROVE  /\ l1' \in [Threads -> [L1Slots -> L1Entries]]
           /\ L1TailEmpty'
           /\ L1At(t, p)' = e
           /\ \A q \in Pages : L1At(t, q)' \in {L1At(t, q), e}
           /\ \A u \in Threads \ {t} : \A q \in Pages : L1At(u, q)' = L1At(u, q)
<1> USE DEF L1Slot
<1>1. /\ l1Size[t] \in L1Sizes /\ l1Size[t] \in Nat /\ L1Slots \subseteq Nat
      /\ L1Slot(t, p) \in L1Slots /\ L1Slot(t, p) < l1Size[t]
  BY L1Assumption, SlotInRange, SlotsAreNumbers DEF GuestTypeOK
<1> DEFINE s == L1Slot(t, p)
<1>2. /\ l1' = [l1 EXCEPT ![t] = [l1[t] EXCEPT ![s] = e]]
      /\ l1 \in [Threads -> [L1Slots -> L1Entries]] /\ s \in L1Slots
  BY <1>1 DEF GuestTypeOK
<1>3. \A u \in Threads \ {t} : l1'[u] = l1[u]
  BY <1>2
<1>4. l1'[t] = [l1[t] EXCEPT ![s] = e] /\ l1[t] \in [L1Slots -> L1Entries]
  BY <1>2
<1>5. \A q \in Pages : L1Slot(t, q) \in L1Slots
  BY SlotInRange DEF GuestTypeOK
<1>6. \A u, q : L1At(u, q)' = l1'[u][L1Slot(u, q)]
  BY DEF L1At
<1>7. l1' \in [Threads -> [L1Slots -> L1Entries]]
  BY <1>2
<1>8. L1TailEmpty'
  <2> SUFFICES ASSUME NEW u \in Threads, NEW x \in L1Slots, x >= l1Size[u]
               PROVE  l1'[u][x] = NoEntry
    BY DEF L1TailEmpty
  <2>1. l1[u][x] = NoEntry
    BY DEF L1TailEmpty
  <2>2. CASE u = t
    <3>1. x # s
      BY <1>1, <2>2
    <3> QED
      BY <2>1, <2>2, <3>1, <1>4
  <2>3. CASE u # t
    BY <2>1, <2>3, <1>3
  <2> QED
    BY <2>2, <2>3
<1> HIDE DEF L1Slot, s, NoEntry
<1>9. L1At(t, p)' = e
  BY <1>2, <1>4, <1>6 DEF s
<1>10. \A q \in Pages : L1At(t, q)' \in {L1At(t, q), e}
  BY <1>4, <1>5, <1>6 DEF L1At
<1>11. \A u \in Threads \ {t} : \A q \in Pages : L1At(u, q)' = L1At(u, q)
  BY <1>3, <1>6 DEF L1At
<1> QED
  BY <1>7, <1>8, <1>9, <1>10, <1>11

\* FindBlock puts an entry for page p into L1 and resizes it: while L1 only grows, a
\* lookup finds what it has found before, the new entry, or nothing.
LEMMA L1Resized ==
    ASSUME GuestTypeOK, L1TailEmpty, NEW t \in Threads, NEW p \in Pages, NEW c \in Versions,
           FillCaches(t, p, c)
    PROVE  /\ l1' \in [Threads -> [L1Slots -> L1Entries]] /\ l1Size' \in [Threads -> L1Sizes]
           /\ L1TailEmpty'
           /\ L1OnlyGrows => \A q \in Pages :
                L1At(t, q)' \in {L1At(t, q), [page |-> p, code |-> c], NoEntry}
           /\ \A u \in Threads \ {t} : \A q \in Pages : L1At(u, q)' = L1At(u, q)
<1> DEFINE e == [page |-> p, code |-> c]
           s == L1Slot(t, p)
           k == l1Size[t]
<1>1. PICK n \in NextSizes(k) :
        /\ l1Size' = [l1Size EXCEPT ![t] = n]
        /\ l1' = [l1 EXCEPT ![t] = [x \in L1Slots |->
                     IF x >= n THEN NoEntry ELSE IF x = s THEN e ELSE l1[t][x]]]
  BY DEF FillCaches
<1>2. e \in L1Entries /\ NoEntry \in L1Entries
  BY DEF L1Entries
<1>3. k \in L1Sizes /\ n \in L1Sizes /\ L1Sizes \subseteq Nat \ {0}
  BY L1Assumption DEF GuestTypeOK, NextSizes
<1>4. /\ l1 \in [Threads -> [L1Slots -> L1Entries]] /\ l1Size \in [Threads -> L1Sizes]
      /\ L1Slots \subseteq Nat
  BY SlotsAreNumbers DEF GuestTypeOK
<1> HIDE DEF e, s, k, NoEntry
<1>5. /\ l1'[t] = [x \in L1Slots |->
                     IF x >= n THEN NoEntry ELSE IF x = s THEN e ELSE l1[t][x]]
      /\ l1Size'[t] = n
      /\ \A u \in Threads \ {t} : l1'[u] = l1[u] /\ l1Size'[u] = l1Size[u]
  BY <1>1, <1>4
<1>6. l1'[t] \in [L1Slots -> L1Entries]
  BY <1>2, <1>4, <1>5
<1>7. l1' \in [Threads -> [L1Slots -> L1Entries]] /\ l1Size' \in [Threads -> L1Sizes]
  BY <1>1, <1>3, <1>4, <1>5, <1>6
<1>8. L1TailEmpty'
  <2> SUFFICES ASSUME NEW u \in Threads, NEW x \in L1Slots, x >= l1Size'[u]
               PROVE  l1'[u][x] = NoEntry
    BY DEF L1TailEmpty, NoEntry
  <2>1. CASE u = t
    BY <2>1, <1>5
  <2>2. CASE u # t
    BY <2>2, <1>5 DEF L1TailEmpty, NoEntry
  <2> QED
    BY <2>1, <2>2
<1>9. ASSUME L1OnlyGrows, NEW q \in Pages
      PROVE  L1At(t, q)' \in {L1At(t, q), e, NoEntry}
  <2>1. n = k \/ n = 2 * k
    BY <1>3, <1>9 DEF L1OnlyGrows, NextSizes
  <2>2. /\ Address[q] % k \in L1Slots /\ Address[q] % n \in L1Slots
        /\ Address[q] % n < n
    BY <1>3, SlotInRange
  <2>3. Address[q] % n \in {Address[q] % k, (Address[q] % k) + k}
    BY <1>3, <2>1, Doubling, L1Assumption
  <2>4. L1At(t, q)' = l1'[t][Address[q] % n] /\ L1At(t, q) = l1[t][Address[q] % k]
    BY <1>5 DEF L1At, L1Slot, k
  <2>5. CASE Address[q] % n = Address[q] % k
    BY <1>5, <2>2, <2>4, <2>5
  <2>6. CASE Address[q] % n = (Address[q] % k) + k
    <3>0. k \in Nat /\ Address[q] % k \in Nat
      BY <1>3, <1>4, <2>2
    <3>1. Address[q] % n >= k
      BY <2>6, <3>0
    <3>2. l1[t][Address[q] % n] = NoEntry
      BY <2>2, <3>1 DEF L1TailEmpty, k, NoEntry
    <3> QED
      BY <1>5, <2>2, <2>4, <3>2
  <2> QED
    BY <2>3, <2>5, <2>6
<1>10. \A u \in Threads \ {t} : \A q \in Pages : L1At(u, q)' = L1At(u, q)
  BY <1>5 DEF L1At, L1Slot
<1> QED
  BY <1>7, <1>8, <1>9, <1>10 DEF e, NoEntry

\* Steps that leave the translations alone keep what is said of them.
LEMMA MemoryKept ==
    ASSUME GuestInv, UNCHANGED <<mem, mapVars, cacheVars>>,
           \A q \in Pages : Quiet(q)' => Quiet(q)
    PROVE  /\ BlocksCurrent' /\ LinksCoherent' /\ EntriesCoherent' /\ EntriesCovered'
           /\ L1TailEmpty'
<1>1. BlocksCurrent' /\ LinksCoherent' /\ L1TailEmpty'
  BY DEF GuestInv, BlocksCurrent, LinksCoherent, L1TailEmpty
<1>2. EntriesCoherent' /\ EntriesCovered'
  BY L1AtKept DEF GuestInv, EntriesCoherent, EntriesCovered
<1> QED
  BY <1>1, <1>2

\* A step that leaves the page table and the positions alone keeps pages protected.
LEMMA ProtectedKept ==
    ASSUME GuestInv, UNCHANGED <<writable, blockList, codePages, link>>,
           \A q \in Pages : Quiet(q)' => Quiet(q),
           \A u \in Threads : pc'[u] \in {"protect", "map"} => at'[u] \in codePages,
           \A u \in Threads : pc[u] = "protect" => pc'[u] = "protect" /\ at'[u] = at[u]
    PROVE  Protected'
BY DEF GuestInv, Protected

\* A page that nobody writes to or maps has one translation at most, the current one.
LEMMA Fresh ==
    ASSUME GuestInv, NEW t \in Threads, NEW p \in Pages, \A u \in Threads : victim[u] # p
    PROVE  /\ Quiet(p)
           /\ mem[p] \in Versions
           /\ blockList[p] # NoCode => blockList[p] = mem[p] /\ p \in codePages
           /\ L1OnlyGrows =>
                /\ link[p] # NoCode => link[p] = mem[p] /\ p \in codePages
                /\ L1At(t, p).page = p
                    => L1At(t, p).code = blockList[p] /\ blockList[p] # NoCode
                /\ l2[t][p] # NoCode => l2[t][p] = blockList[p]
                /\ Found(t, p) # NoCode => Found(t, p) = blockList[p]
<1>1. Quiet(p)
  BY DEF Quiet
<1>2. mem[p] \in Versions /\ L1At(t, p) \in L1Entries
  BY L1AtType DEF GuestInv, GuestTypeOK
<1>3. blockList[p] # NoCode => blockList[p] = mem[p] /\ p \in codePages
  BY <1>1 DEF GuestInv, BlocksCurrent, Protected
<1> SUFFICES ASSUME L1OnlyGrows
             PROVE  /\ link[p] # NoCode => link[p] = mem[p] /\ p \in codePages
                    /\ L1At(t, p).page = p
                        => L1At(t, p).code = blockList[p] /\ blockList[p] # NoCode
                    /\ l2[t][p] # NoCode => l2[t][p] = blockList[p]
                    /\ Found(t, p) # NoCode => Found(t, p) = blockList[p]
  BY <1>1, <1>2, <1>3
<1>4. link[p] # NoCode => link[p] = blockList[p]
  BY <1>1 DEF GuestInv, LinksCoherent
<1>5. /\ L1At(t, p).page = p => L1At(t, p).code = blockList[p]
      /\ l2[t][p] # NoCode => l2[t][p] = blockList[p]
  BY <1>1 DEF GuestInv, EntriesCoherent
<1>6. L1At(t, p).page = p => L1At(t, p).code # NoCode
  BY <1>2 DEF L1Entries, Versions
<1> QED
  BY <1>3, <1>4, <1>5, <1>6 DEF Found

\* So has one that a thread looks for or executes.
LEMMA AtQuiet ==
    ASSUME GuestInv, NEW t \in Threads, at[t] # NoPage, at[t] # victim[t]
    PROVE  at[t] \in Pages /\ \A u \in Threads : victim[u] # at[t]
BY DEF GuestInv, GuestTypeOK, Disciplined

\* FindBlock finds the block: the caches it fills agree with the block list.
LEMMA FindHit ==
    ASSUME GuestInv, NEW t \in Threads, pc[t] \in {"link", "compile", "recheck"},
           \A u \in Threads : pc[u] \notin Invalidating \cup Forking,
           NEW p \in Pages, p = at[t], NEW c \in Versions, c = Found(t, p),
           \/ L1At(t, p).page = p /\ UNCHANGED cacheVars
           \/ L1At(t, p).page # p /\ FillCaches(t, p, c),
           Deliver(t, c), UNCHANGED <<guestVars, mapVars, victim, todo>>
    PROVE  GuestInv'
<1>1. victim[t] = NoPage /\ \A u \in Threads : victim[u] # p
  BY AtQuiet DEF GuestInv, WellPlaced
<1>2. /\ c # NoCode
      /\ L1OnlyGrows => c = blockList[p] /\ c = mem[p] /\ p \in codePages
  BY <1>1, Fresh DEF Versions
<1>3. /\ pc' = [pc EXCEPT ![t] = pc'[t]] /\ task' = [task EXCEPT ![t] = task'[t]]
      /\ code' = [code EXCEPT ![t] = c] /\ at' = at
      /\ \/ pc'[t] = "patch" /\ task'[t] = "link"
         \/ pc'[t] = "run" /\ task'[t] = "none"
  BY DEF Deliver, Enter, GuestInv, GuestTypeOK
<1>4. /\ l1' \in [Threads -> [L1Slots -> L1Entries]] /\ l1Size' \in [Threads -> L1Sizes]
      /\ L1TailEmpty'
      /\ L1OnlyGrows => \A q \in Pages :
            L1At(t, q)' \in {L1At(t, q), [page |-> p, code |-> c], NoEntry}
      /\ \A u \in Threads \ {t} : \A q \in Pages : L1At(u, q)' = L1At(u, q)
  <2>1. CASE UNCHANGED cacheVars
    BY <2>1, L1AtKept DEF GuestInv, GuestTypeOK, L1TailEmpty
  <2>2. CASE FillCaches(t, p, c)
    BY <2>2, L1Resized DEF GuestInv
  <2> QED
    BY <2>1, <2>2
<1>5. /\ l2' \in [Threads -> [Pages -> HostCode]] /\ cached' \in [Threads -> SUBSET Pages]
      /\ \A u \in Threads \ {t} : l2'[u] = l2[u] /\ cached'[u] = cached[u]
      /\ \A q \in Pages \ {p} : l2'[t][q] = l2[t][q]
      /\ l2'[t][p] \in {l2[t][p], c}
      /\ cached'[t] \in {cached[t], cached[t] \cup {p}}
      /\ L1OnlyGrows => p \in cached'[t]
  <2>1. CASE L1At(t, p).page = p /\ UNCHANGED cacheVars
    BY <2>1 DEF GuestInv, GuestTypeOK, EntriesCovered
  <2>2. CASE FillCaches(t, p, c) /\ l2[t][p] # NoCode
    <3>1. L1OnlyGrows => p \in cached[t]
      BY <2>2 DEF GuestInv, EntriesCovered
    <3>2. l2' = l2 /\ cached' = cached
      BY <2>2 DEF FillCaches
    <3> QED
      BY <3>1, <3>2 DEF GuestInv, GuestTypeOK
  <2>3. CASE FillCaches(t, p, c) /\ l2[t][p] = NoCode
    <3>1. /\ l2' = l2 \/ l2' = [l2 EXCEPT ![t][p] = c]
          /\ cached' = [cached EXCEPT ![t] = @ \cup {p}]
      BY <2>3 DEF FillCaches
    <3>2. l2 \in [Threads -> [Pages -> HostCode]] /\ cached \in [Threads -> SUBSET Pages]
      BY DEF GuestInv, GuestTypeOK
    <3>3. c \in HostCode
      BY DEF HostCode
    <3>4. CASE l2' = l2
      BY <3>1, <3>2, <3>4
    <3>5. CASE l2' = [l2 EXCEPT ![t][p] = c]
      BY <3>1, <3>2, <3>3, <3>5
    <3> QED
      BY <3>1, <3>4, <3>5
  <2> QED
    BY <2>1, <2>2, <2>3
<1> HIDE DEF FillCaches, Deliver, Found
<1>6. GuestTypeOK'
  <2>1. l1' \in [Threads -> [L1Slots -> L1Entries]] /\ l1Size' \in [Threads -> L1Sizes]
    BY <1>4
  <2>2. pc'[t] \in Places /\ task'[t] \in Tasks
    BY <1>3 DEF Places, Tasks
  <2>3. code' \in [Threads -> HostCode]
    BY <1>3 DEF GuestInv, GuestTypeOK, HostCode
  <2> QED
    <3>1. pc' \in [Threads -> Places] /\ task' \in [Threads -> Tasks]
      BY ZenonT(40), <1>3, <2>2 DEF GuestInv, GuestTypeOK
    <3> QED
      BY <1>3, <1>5, <2>1, <2>3, <3>1 DEF GuestInv, GuestTypeOK
<1>7. Disciplined'
  BY <1>3 DEF GuestInv, Disciplined
<1>8. WellPlaced'
  BY <1>1, <1>3 DEF GuestInv, GuestTypeOK, WellPlaced
<1>9. Exclusive' /\ Severed'
  BY <1>3 DEF GuestInv, GuestTypeOK, Exclusive, Severed
<1>q. \A q \in Pages : Quiet(q)' => Quiet(q)
  BY <1>1, <1>3 DEF GuestInv, GuestTypeOK, Quiet
<1>10. Protected'
  BY <1>3, <1>q, ProtectedKept DEF GuestInv, GuestTypeOK, Protected
<1>11. BlocksCurrent' /\ LinksCoherent'
  BY <1>q DEF GuestInv, BlocksCurrent, LinksCoherent
<1> DEFINE e == [page |-> p, code |-> c]
<1>e. e.page = p /\ e.code = c /\ NoEntry.page \notin Pages
  OBVIOUS
<1> HIDE DEF e, NoEntry
<1>f. L1OnlyGrows => \A q \in Pages : L1At(t, q)' \in {L1At(t, q), e, NoEntry}
  BY <1>4 DEF e
<1>12. EntriesCoherent'
  <2> SUFFICES ASSUME L1OnlyGrows, NEW u \in Threads, NEW q \in Pages, Quiet(q)
               PROVE  /\ L1At(u, q)'.page = q => L1At(u, q)'.code = blockList[q]
                      /\ l2'[u][q] # NoCode => l2'[u][q] = blockList[q]
    BY <1>q DEF EntriesCoherent
  <2>1. /\ L1At(u, q).page = q => L1At(u, q).code = blockList[q]
        /\ l2[u][q] # NoCode => l2[u][q] = blockList[q]
    BY DEF GuestInv, EntriesCoherent
  <2>2. CASE u = t
    <3>1. L1At(t, q)' \in {L1At(t, q), e, NoEntry}
      BY <1>f
    <3>2. CASE q = p
      BY <2>1, <2>2, <3>1, <3>2, <1>e, <1>2, <1>5
    <3>3. CASE q # p
      BY <2>1, <2>2, <3>1, <3>3, <1>e, <1>5
    <3> QED
      BY <3>2, <3>3
  <2>3. CASE u # t
    BY <2>1, <2>3, <1>4, <1>5
  <2> QED
    BY <2>2, <2>3
<1>13. EntriesCovered' /\ L1TailEmpty'
  <2> SUFFICES ASSUME L1OnlyGrows, NEW u \in Threads, NEW q \in Pages,
                      L1At(u, q)'.page = q \/ l2'[u][q] # NoCode
               PROVE  q \in cached'[u]
    BY <1>4 DEF EntriesCovered
  <2>1. L1At(u, q).page = q \/ l2[u][q] # NoCode => q \in cached[u]
    BY DEF GuestInv, EntriesCovered
  <2>2. CASE u = t
    <3>1. L1At(t, q)' \in {L1At(t, q), e, NoEntry}
      BY <1>f
    <3> QED
      BY <2>1, <2>2, <3>1, <1>e, <1>5
  <2>3. CASE u # t
    BY <2>1, <2>3, <1>4, <1>5
  <2> QED
    BY <2>2, <2>3
<1>14. CodeInHand'
  <2>1. InHand(t)'
    BY ZenonT(40), <1>1, <1>2, <1>3, <1>5 DEF GuestInv, GuestTypeOK
  <2>2. ASSUME NEW u \in Threads, u # t PROVE InHand(u)'
    <3>1. InHand(u)
      BY DEF GuestInv, CodeInHand
    <3>2. UNCHANGED <<pc[u], at[u], code[u], victim[u], l2[u]>>
      BY <1>3, <1>5, <2>2 DEF GuestInv, GuestTypeOK
    <3> QED
      BY <3>1, <3>2, <1>1
  <2> QED
    BY <2>1, <2>2 DEF CodeInHand
<1> QED
  BY <1>6, <1>7, <1>8, <1>9, <1>10, <1>11, <1>12, <1>13, <1>14 DEF GuestInv

\* FindBlock finds nothing: it leaves the caches as they are.
LEMMA FindMiss ==
    ASSUME GuestInv, NEW t \in Threads, NEW place,
           \/ pc[t] = "link" /\ place = "compile"
           \/ pc[t] = "compile" /\ place = "decode"
           \/ pc[t] = "recheck" /\ place = "register",
           \A u \in Threads : pc[u] \notin Invalidating \cup Forking,
           Goes(t, place),
           UNCHANGED <<guestVars, mapVars, cacheVars, task, at, code, victim, todo>>
    PROVE  GuestInv'
<1>1. GuestTypeOK' /\ Disciplined'
  BY DEF GuestInv, GuestTypeOK, Places, Disciplined
<1>2. WellPlaced'
  BY DEF GuestInv, GuestTypeOK, WellPlaced
<1>3. Exclusive' /\ Severed'
  BY DEF GuestInv, GuestTypeOK, Exclusive, Severed
<1>q. \A q \in Pages : Quiet(q)' => Quiet(q)
  BY DEF GuestInv, GuestTypeOK, Quiet
<1>4. Protected'
  BY <1>q, ProtectedKept DEF GuestInv, GuestTypeOK, Protected
<1>5. BlocksCurrent' /\ LinksCoherent' /\ EntriesCoherent' /\ EntriesCovered' /\ L1TailEmpty'
  BY <1>q, MemoryKept
<1>6. CodeInHand'
  BY DEF GuestInv, GuestTypeOK, CodeInHand
<1> QED
  BY <1>1, <1>2, <1>3, <1>4, <1>5, <1>6 DEF GuestInv

\* FindBlock keeps the invariant, whether it finds the block or not.
LEMMA FindKeeps ==
    ASSUME GuestInv, NEW t \in Threads, NEW place,
           \/ pc[t] = "link" /\ place = "compile"
           \/ pc[t] = "compile" /\ place = "decode"
           \/ pc[t] = "recheck" /\ place = "register",
           \A u \in Threads : pc[u] \notin Invalidating \cup Forking,
           FindIn(t, place), UNCHANGED <<guestVars, mapVars, victim, todo>>
    PROVE  GuestInv'
<1>1. at[t] \in Pages /\ L1At(t, at[t]) \in L1Entries
  BY L1AtType DEF GuestInv, GuestTypeOK, WellPlaced
<1>2. CASE Found(t, at[t]) # NoCode
  <2>1. Found(t, at[t]) \in Versions
    BY <1>1, <1>2 DEF Found, GuestInv, GuestTypeOK, HostCode, L1Entries
  <2> QED
    <3>1. /\ Deliver(t, Found(t, at[t]))
          /\ \/ L1At(t, at[t]).page = at[t] /\ UNCHANGED cacheVars
             \/ L1At(t, at[t]).page # at[t] /\ FillCaches(t, at[t], Found(t, at[t]))
      BY <1>2 DEF FindIn
    <3> QED
      BY <1>1, <2>1, <3>1, FindHit
<1>3. CASE Found(t, at[t]) = NoCode
  BY <1>3, FindMiss DEF FindIn
<1> QED
  BY <1>2, <1>3

\* A patched branch leads to the current translation: nobody writes to the page meanwhile.
LEMMA FollowLinkKeeps ==
    ASSUME GuestInv, NEW t \in Threads, NEW p \in Pages, FollowLink(t, p)
    PROVE  GuestInv'
<1>q. \A q \in Pages : Quiet(q)' => Quiet(q)
  BY DEF FollowLink, Enter, MayUse, Changes, GuestInv, GuestTypeOK, Quiet, WellPlaced
<1>m. UNCHANGED <<mem, mapVars, cacheVars>>
  BY DEF FollowLink, Enter, MayUse, Changes
<1>f. /\ \A u \in Threads : victim[u] # p
      /\ link[p] # NoCode
      /\ pc[t] = "run" /\ Enter(t, p, link[p])
  BY DEF FollowLink, MayUse, Changes, GuestInv, WellPlaced
<1>g. L1OnlyGrows => code'[t] = mem[p] /\ p \in codePages
  BY <1>f, Fresh DEF Enter, GuestInv, GuestTypeOK
<1>1. GuestTypeOK'
  BY DEF FollowLink, Enter, MayUse, Changes, GuestInv, GuestTypeOK, Versions, HostCode,
     L1Entries, Places, Tasks, Disciplined, WellPlaced
<1>2. Disciplined'
  BY DEF FollowLink, Enter, MayUse, Changes, GuestInv, GuestTypeOK, Disciplined, WellPlaced
<1>3. WellPlaced'
  BY DEF FollowLink, Enter, MayUse, Changes, GuestInv, GuestTypeOK, WellPlaced, Disciplined,
     Tasks
<1>4. Exclusive'
  BY DEF FollowLink, Enter, MayUse, Changes, GuestInv, GuestTypeOK, Exclusive, WellPlaced
<1>5. Protected'
  BY <1>q, ProtectedKept DEF FollowLink, Enter, MayUse, Changes, GuestInv, GuestTypeOK,
     Protected
<1>6. BlocksCurrent'
  BY <1>q, <1>m, MemoryKept
<1>7. LinksCoherent'
  BY <1>q, <1>m, MemoryKept
<1>8. EntriesCoherent'
  BY <1>q, <1>m, MemoryKept
<1>9. EntriesCovered' /\ L1TailEmpty'
  BY <1>q, <1>m, MemoryKept
<1>10. Severed'
  BY DEF FollowLink, Enter, MayUse, Changes, GuestInv, GuestTypeOK, Severed, WellPlaced,
     Exclusive, Disciplined
<1>11. CodeInHand'
  <2>1. InHand(t)'
    BY <1>f, <1>g, <1>m DEF Enter, FollowLink, GuestInv, GuestTypeOK
  <2>2. ASSUME NEW u \in Threads, u # t PROVE InHand(u)'
    <3>1. InHand(u)
      BY DEF GuestInv, CodeInHand
    <3>2. UNCHANGED <<pc[u], at[u], code[u], victim[u], l2[u]>>
      BY <1>f, <1>m, <2>2 DEF Enter, FollowLink, GuestInv, GuestTypeOK
    <3> QED
      BY <3>1, <3>2, <1>m DEF FollowLink
  <2> QED
    BY <2>1, <2>2 DEF CodeInHand
<1> QED
  BY <1>1, <1>2, <1>3, <1>4, <1>5, <1>6, <1>7, <1>8, <1>9, <1>10, <1>11 DEF GuestInv

\* A thread begins to link a branch with no host code in its hands.
LEMMA ExitToLinkerKeeps ==
    ASSUME GuestInv, NEW t \in Threads, NEW p \in Pages, ExitToLinker(t, p)
    PROVE  GuestInv'
<1>q. \A q \in Pages : Quiet(q)' => Quiet(q)
  BY DEF ExitToLinker, MayUse, Changes, GuestInv, GuestTypeOK, Quiet, WellPlaced
<1>m. UNCHANGED <<mem, mapVars, cacheVars>>
  BY DEF ExitToLinker, MayUse, Changes
<1>1. GuestTypeOK'
  BY DEF ExitToLinker, MayUse, Changes, GuestInv, GuestTypeOK, Versions, HostCode,
     L1Entries, Places, Tasks, Disciplined, WellPlaced
<1>2. Disciplined'
  BY DEF ExitToLinker, MayUse, Changes, GuestInv, GuestTypeOK, Disciplined, WellPlaced
<1>3. WellPlaced'
  BY DEF ExitToLinker, MayUse, Changes, GuestInv, GuestTypeOK, WellPlaced, Disciplined, Tasks
<1>4. Exclusive'
  BY DEF ExitToLinker, MayUse, Changes, GuestInv, GuestTypeOK, Exclusive, WellPlaced
<1>5. Protected'
  BY <1>q, ProtectedKept DEF ExitToLinker, MayUse, Changes, GuestInv, GuestTypeOK, Protected
<1>6. BlocksCurrent'
  BY <1>q, <1>m, MemoryKept
<1>7. LinksCoherent'
  BY <1>q, <1>m, MemoryKept
<1>8. EntriesCoherent'
  BY <1>q, <1>m, MemoryKept
<1>9. EntriesCovered' /\ L1TailEmpty'
  BY <1>q, <1>m, MemoryKept
<1>10. Severed'
  BY DEF ExitToLinker, MayUse, Changes, GuestInv, GuestTypeOK, Severed, WellPlaced,
     Exclusive, Disciplined
<1>11. CodeInHand'
  BY DEF ExitToLinker, MayUse, Changes, GuestInv, GuestTypeOK, CodeInHand, WellPlaced,
     Disciplined
<1> QED
  BY <1>1, <1>2, <1>3, <1>4, <1>5, <1>6, <1>7, <1>8, <1>9, <1>10, <1>11 DEF GuestInv

\* A hit in L1 leads to the current translation.
LEMMA LookupL1Keeps ==
    ASSUME GuestInv, NEW t \in Threads, NEW p \in Pages, LookupL1(t, p)
    PROVE  GuestInv'
<1>q. \A q \in Pages : Quiet(q)' => Quiet(q)
  BY DEF LookupL1, Enter, MayUse, Changes, GuestInv, GuestTypeOK, Quiet, WellPlaced
<1>m. UNCHANGED <<mem, mapVars, cacheVars>>
  BY DEF LookupL1, Enter, MayUse, Changes
<1>f. /\ \A u \in Threads : victim[u] # p
      /\ L1At(t, p).page = p /\ L1At(t, p) \in L1Entries
      /\ pc[t] = "run" /\ Enter(t, p, L1At(t, p).code)
  BY L1AtType DEF LookupL1, MayUse, Changes, GuestInv, WellPlaced
<1>g. L1OnlyGrows => code'[t] = mem[p] /\ p \in codePages
  BY <1>f, Fresh DEF Enter, GuestInv, GuestTypeOK
<1>1. GuestTypeOK'
  <2>1. /\ pc' = [pc EXCEPT ![t] = "run"] /\ task' = [task EXCEPT ![t] = "none"]
        /\ at' = [at EXCEPT ![t] = p] /\ code' = [code EXCEPT ![t] = code'[t]]
        /\ UNCHANGED <<guestVars, mapVars, cacheVars, victim, todo>>
    BY <1>f DEF LookupL1, Enter, GuestInv, GuestTypeOK
  <2>2. code'[t] \in HostCode
    BY <1>f DEF Enter, HostCode, L1Entries, GuestInv, GuestTypeOK
  <2> QED
    BY <2>1, <2>2 DEF GuestInv, GuestTypeOK, Places, Tasks
<1>2. Disciplined'
  BY DEF LookupL1, Enter, MayUse, Changes, GuestInv, GuestTypeOK, Disciplined, WellPlaced
<1>3. WellPlaced'
  BY DEF LookupL1, Enter, MayUse, Changes, GuestInv, GuestTypeOK, WellPlaced, Disciplined, Tasks
<1>4. Exclusive'
  BY DEF LookupL1, Enter, MayUse, Changes, GuestInv, GuestTypeOK, Exclusive, WellPlaced
<1>5. Protected'
  BY <1>q, ProtectedKept DEF LookupL1, Enter, MayUse, Changes, GuestInv, GuestTypeOK, Protected
<1>6. BlocksCurrent'
  BY <1>q, <1>m, MemoryKept
<1>7. LinksCoherent'
  BY <1>q, <1>m, MemoryKept
<1>8. EntriesCoherent'
  BY <1>q, <1>m, MemoryKept
<1>9. EntriesCovered' /\ L1TailEmpty'
  BY <1>q, <1>m, MemoryKept
<1>10. Severed'
  BY DEF LookupL1, Enter, MayUse, Changes, GuestInv, GuestTypeOK, Severed, WellPlaced,
     Exclusive, Disciplined
<1>11. CodeInHand'
  <2>1. InHand(t)'
    BY <1>f, <1>g, <1>m DEF Enter, LookupL1, GuestInv, GuestTypeOK
  <2>2. ASSUME NEW u \in Threads, u # t PROVE InHand(u)'
    <3>1. InHand(u)
      BY DEF GuestInv, CodeInHand
    <3>2. UNCHANGED <<pc[u], at[u], code[u], victim[u], l2[u]>>
      BY <1>f, <1>m, <2>2 DEF Enter, LookupL1, GuestInv, GuestTypeOK
    <3> QED
      BY <3>1, <3>2, <1>m DEF LookupL1
  <2> QED
    BY <2>1, <2>2 DEF CodeInHand
<1> QED
  BY <1>1, <1>2, <1>3, <1>4, <1>5, <1>6, <1>7, <1>8, <1>9, <1>10, <1>11 DEF GuestInv

\* A thread begins to look a jump up with no host code in its hands.
LEMMA ExitToDispatcherKeeps ==
    ASSUME GuestInv, NEW t \in Threads, NEW p \in Pages, ExitToDispatcher(t, p)
    PROVE  GuestInv'
<1>q. \A q \in Pages : Quiet(q)' => Quiet(q)
  BY DEF ExitToDispatcher, MayUse, Changes, GuestInv, GuestTypeOK, Quiet, WellPlaced
<1>m. UNCHANGED <<mem, mapVars, cacheVars>>
  BY DEF ExitToDispatcher, MayUse, Changes
<1>1. GuestTypeOK'
  BY DEF ExitToDispatcher, MayUse, Changes, GuestInv, GuestTypeOK, Versions, HostCode,
     L1Entries, Places, Tasks, Disciplined, WellPlaced
<1>2. Disciplined'
  BY DEF ExitToDispatcher, MayUse, Changes, GuestInv, GuestTypeOK, Disciplined, WellPlaced
<1>3. WellPlaced'
  BY DEF ExitToDispatcher, MayUse, Changes, GuestInv, GuestTypeOK, WellPlaced, Disciplined,
     Tasks
<1>4. Exclusive'
  BY DEF ExitToDispatcher, MayUse, Changes, GuestInv, GuestTypeOK, Exclusive, WellPlaced
<1>5. Protected'
  BY <1>q, ProtectedKept DEF ExitToDispatcher, MayUse, Changes, GuestInv, GuestTypeOK, Protected
<1>6. BlocksCurrent'
  BY <1>q, <1>m, MemoryKept
<1>7. LinksCoherent'
  BY <1>q, <1>m, MemoryKept
<1>8. EntriesCoherent'
  BY <1>q, <1>m, MemoryKept
<1>9. EntriesCovered' /\ L1TailEmpty'
  BY <1>q, <1>m, MemoryKept
<1>10. Severed'
  BY DEF ExitToDispatcher, MayUse, Changes, GuestInv, GuestTypeOK, Severed, WellPlaced,
     Exclusive, Disciplined
<1>11. CodeInHand'
  BY DEF ExitToDispatcher, MayUse, Changes, GuestInv, GuestTypeOK, CodeInHand, WellPlaced,
     Disciplined
<1> QED
  BY <1>1, <1>2, <1>3, <1>4, <1>5, <1>6, <1>7, <1>8, <1>9, <1>10, <1>11 DEF GuestInv

\* A thread begins to write to a page that no other one executes or writes to.
LEMMA BeginStoreKeeps ==
    ASSUME GuestInv, NEW t \in Threads, NEW p \in Pages, BeginStore(t, p)
    PROVE  GuestInv'
<1>q. \A q \in Pages : Quiet(q)' => Quiet(q)
  BY DEF BeginStore, MayChange, Uses, Changes, GuestInv, GuestTypeOK, Quiet, WellPlaced
<1>m. UNCHANGED <<mem, mapVars, cacheVars>>
  BY DEF BeginStore, MayChange, Uses, Changes
<1>1. GuestTypeOK'
  BY DEF BeginStore, MayChange, Uses, Changes, GuestInv, GuestTypeOK, Versions, HostCode,
     L1Entries, Places, Tasks, Disciplined, WellPlaced
<1>2. Disciplined'
  BY DEF BeginStore, MayChange, Uses, Changes, GuestInv, GuestTypeOK, Disciplined, WellPlaced
<1>3. WellPlaced'
  BY DEF BeginStore, MayChange, Uses, Changes, GuestInv, GuestTypeOK, WellPlaced,
     Disciplined, Tasks
<1>4. Exclusive'
  BY DEF BeginStore, MayChange, Uses, Changes, GuestInv, GuestTypeOK, Exclusive, WellPlaced
<1>5. Protected'
  BY <1>q, ProtectedKept DEF BeginStore, MayChange, Uses, Changes, GuestInv, GuestTypeOK,
     Protected
<1>6. BlocksCurrent'
  BY <1>q, <1>m, MemoryKept
<1>7. LinksCoherent'
  BY <1>q, <1>m, MemoryKept
<1>8. EntriesCoherent'
  BY <1>q, <1>m, MemoryKept
<1>9. EntriesCovered' /\ L1TailEmpty'
  BY <1>q, <1>m, MemoryKept
<1>10. Severed'
  BY DEF BeginStore, MayChange, Uses, Changes, GuestInv, GuestTypeOK, Severed, WellPlaced,
     Exclusive, Disciplined
<1>11. CodeInHand'
  BY DEF BeginStore, MayChange, Uses, Changes, GuestInv, GuestTypeOK, CodeInHand,
     WellPlaced, Disciplined
<1> QED
  BY <1>1, <1>2, <1>3, <1>4, <1>5, <1>6, <1>7, <1>8, <1>9, <1>10, <1>11 DEF GuestInv

\* A thread begins a system call on a page that no other one executes or writes to.
LEMMA BeginMapKeeps ==
    ASSUME GuestInv, NEW t \in Threads, NEW p \in Pages, BeginMap(t, p)
    PROVE  GuestInv'
<1>q. \A q \in Pages : Quiet(q)' => Quiet(q)
  BY DEF BeginMap, MayChange, Uses, Changes, GuestInv, GuestTypeOK, Quiet, WellPlaced
<1>m. UNCHANGED <<mem, mapVars, cacheVars>>
  BY DEF BeginMap, MayChange, Uses, Changes
<1>1. GuestTypeOK'
  BY DEF BeginMap, MayChange, Uses, Changes, GuestInv, GuestTypeOK, Versions, HostCode,
     L1Entries, Places, Tasks, Disciplined, WellPlaced
<1>2. Disciplined'
  BY DEF BeginMap, MayChange, Uses, Changes, GuestInv, GuestTypeOK, Disciplined, WellPlaced
<1>3. WellPlaced'
  BY DEF BeginMap, MayChange, Uses, Changes, GuestInv, GuestTypeOK, WellPlaced, Disciplined,
     Tasks
<1>4. Exclusive'
  BY DEF BeginMap, MayChange, Uses, Changes, GuestInv, GuestTypeOK, Exclusive, WellPlaced
<1>5. Protected'
  BY <1>q, ProtectedKept DEF BeginMap, MayChange, Uses, Changes, GuestInv, GuestTypeOK,
     Protected
<1>6. BlocksCurrent'
  BY <1>q, <1>m, MemoryKept
<1>7. LinksCoherent'
  BY <1>q, <1>m, MemoryKept
<1>8. EntriesCoherent'
  BY <1>q, <1>m, MemoryKept
<1>9. EntriesCovered' /\ L1TailEmpty'
  BY <1>q, <1>m, MemoryKept
<1>10. Severed'
  BY DEF BeginMap, MayChange, Uses, Changes, GuestInv, GuestTypeOK, Severed, WellPlaced,
     Exclusive, Disciplined
<1>11. CodeInHand'
  BY DEF BeginMap, MayChange, Uses, Changes, GuestInv, GuestTypeOK, CodeInHand, WellPlaced,
     Disciplined
<1> QED
  BY <1>1, <1>2, <1>3, <1>4, <1>5, <1>6, <1>7, <1>8, <1>9, <1>10, <1>11 DEF GuestInv

\* A thread leaves the page it executes.
LEMMA LeaveKeeps ==
    ASSUME GuestInv, NEW t \in Threads, Leave(t)
    PROVE  GuestInv'
<1>q. \A q \in Pages : Quiet(q)' => Quiet(q)
  BY DEF Leave, GuestInv, GuestTypeOK, Quiet, WellPlaced
<1>m. UNCHANGED <<mem, mapVars, cacheVars>>
  BY DEF Leave
<1>1. GuestTypeOK'
  BY DEF Leave, GuestInv, GuestTypeOK, Versions, HostCode, L1Entries, Places, Tasks,
     Disciplined, WellPlaced
<1>2. Disciplined'
  BY DEF Leave, GuestInv, GuestTypeOK, Disciplined, WellPlaced
<1>3. WellPlaced'
  BY DEF Leave, GuestInv, GuestTypeOK, WellPlaced, Disciplined, Tasks
<1>4. Exclusive'
  BY DEF Leave, GuestInv, GuestTypeOK, Exclusive, WellPlaced
<1>5. Protected'
  BY <1>q, ProtectedKept DEF Leave, GuestInv, GuestTypeOK, Protected
<1>6. BlocksCurrent'
  BY <1>q, <1>m, MemoryKept
<1>7. LinksCoherent'
  BY <1>q, <1>m, MemoryKept
<1>8. EntriesCoherent'
  BY <1>q, <1>m, MemoryKept
<1>9. EntriesCovered' /\ L1TailEmpty'
  BY <1>q, <1>m, MemoryKept
<1>10. Severed'
  BY DEF Leave, GuestInv, GuestTypeOK, Severed, WellPlaced, Exclusive, Disciplined
<1>11. CodeInHand'
  BY DEF Leave, GuestInv, GuestTypeOK, CodeInHand, WellPlaced, Disciplined
<1> QED
  BY <1>1, <1>2, <1>3, <1>4, <1>5, <1>6, <1>7, <1>8, <1>9, <1>10, <1>11 DEF GuestInv

\* A thread begins to fork.
LEMMA BeginForkKeeps ==
    ASSUME GuestInv, NEW t \in Threads, BeginFork(t)
    PROVE  GuestInv'
<1>q. \A q \in Pages : Quiet(q)' => Quiet(q)
  BY DEF BeginFork, GuestInv, GuestTypeOK, Quiet, WellPlaced
<1>m. UNCHANGED <<mem, mapVars, cacheVars>>
  BY DEF BeginFork
<1>1. GuestTypeOK'
  BY DEF BeginFork, GuestInv, GuestTypeOK, Versions, HostCode, L1Entries, Places, Tasks,
     Disciplined, WellPlaced
<1>2. Disciplined'
  BY DEF BeginFork, GuestInv, GuestTypeOK, Disciplined, WellPlaced
<1>3. WellPlaced'
  BY DEF BeginFork, GuestInv, GuestTypeOK, WellPlaced, Disciplined, Tasks
<1>4. Exclusive'
  BY DEF BeginFork, GuestInv, GuestTypeOK, Exclusive, WellPlaced
<1>5. Protected'
  BY <1>q, ProtectedKept DEF BeginFork, GuestInv, GuestTypeOK, Protected
<1>6. BlocksCurrent'
  BY <1>q, <1>m, MemoryKept
<1>7. LinksCoherent'
  BY <1>q, <1>m, MemoryKept
<1>8. EntriesCoherent'
  BY <1>q, <1>m, MemoryKept
<1>9. EntriesCovered' /\ L1TailEmpty'
  BY <1>q, <1>m, MemoryKept
<1>10. Severed'
  BY DEF BeginFork, GuestInv, GuestTypeOK, Severed, WellPlaced, Exclusive, Disciplined
<1>11. CodeInHand'
  BY DEF BeginFork, GuestInv, GuestTypeOK, CodeInHand, WellPlaced, Disciplined
<1> QED
  BY <1>1, <1>2, <1>3, <1>4, <1>5, <1>6, <1>7, <1>8, <1>9, <1>10, <1>11 DEF GuestInv

\* What the dispatcher reads from L2 without a lock is the current translation.
LEMMA LookupL2Keeps ==
    ASSUME GuestInv, NEW t \in Threads, LookupL2(t)
    PROVE  GuestInv'
<1>q. \A q \in Pages : Quiet(q)' => Quiet(q)
  BY DEF LookupL2, GuestInv, GuestTypeOK, Quiet, WellPlaced
<1>m. UNCHANGED <<mem, mapVars, cacheVars>>
  BY DEF LookupL2
<1>1. GuestTypeOK'
  BY DEF LookupL2, GuestInv, GuestTypeOK, Versions, HostCode, L1Entries, Places, Tasks,
     Disciplined, WellPlaced
<1>2. Disciplined'
  BY DEF LookupL2, GuestInv, GuestTypeOK, Disciplined, WellPlaced
<1>3. WellPlaced'
  BY DEF LookupL2, GuestInv, GuestTypeOK, WellPlaced, Disciplined, Tasks
<1>4. Exclusive'
  BY DEF LookupL2, GuestInv, GuestTypeOK, Exclusive, WellPlaced
<1>5. Protected'
  BY <1>q, ProtectedKept DEF LookupL2, GuestInv, GuestTypeOK, Protected
<1>6. BlocksCurrent'
  BY <1>q, <1>m, MemoryKept
<1>7. LinksCoherent'
  BY <1>q, <1>m, MemoryKept
<1>8. EntriesCoherent'
  BY <1>q, <1>m, MemoryKept
<1>9. EntriesCovered' /\ L1TailEmpty'
  BY <1>q, <1>m, MemoryKept
<1>10. Severed'
  BY DEF LookupL2, GuestInv, GuestTypeOK, Severed, WellPlaced, Exclusive, Disciplined
<1>11. CodeInHand'
  BY DEF LookupL2, GuestInv, GuestTypeOK, CodeInHand, WellPlaced, Disciplined
<1> QED
  BY <1>1, <1>2, <1>3, <1>4, <1>5, <1>6, <1>7, <1>8, <1>9, <1>10, <1>11 DEF GuestInv

\* What it then puts into L1 still is, and CachedCodePages leads to it.
LEMMA StoreL1Keeps ==
    ASSUME GuestInv, NEW t \in Threads, StoreL1(t)
    PROVE  GuestInv'
<1>a. at[t] \in Pages /\ victim[t] = NoPage /\ \A u \in Threads : victim[u] # at[t]
  BY AtQuiet DEF StoreL1, GuestInv, WellPlaced
<1>b. code[t] = l2[t][at[t]] /\ code[t] # NoCode
  BY DEF StoreL1, GuestInv, CodeInHand
<1>c. /\ code[t] \in Versions
      /\ L1OnlyGrows => /\ code[t] = blockList[at[t]] /\ code[t] = mem[at[t]]
                        /\ at[t] \in codePages
  BY <1>a, <1>b, Fresh DEF GuestInv, GuestTypeOK, HostCode
<1>d. /\ pc' = [pc EXCEPT ![t] = "run"] /\ task' = [task EXCEPT ![t] = "none"]
      /\ at' = at /\ code' = code /\ pc[t] = "storeL1"
      /\ UNCHANGED <<guestVars, mapVars, l1Size, l2, cached, victim, todo>>
  BY DEF StoreL1, Enter, GuestInv, GuestTypeOK
<1> DEFINE e == [page |-> at[t], code |-> code[t]]
<1>e. /\ l1' \in [Threads -> [L1Slots -> L1Entries]] /\ L1TailEmpty'
      /\ \A q \in Pages : L1At(t, q)' \in {L1At(t, q), e}
      /\ \A u \in Threads \ {t} : \A q \in Pages : L1At(u, q)' = L1At(u, q)
  <2>1. e \in L1Entries
    BY <1>a, <1>c DEF L1Entries
  <2>2. l1' = [l1 EXCEPT ![t][L1Slot(t, at[t])] = e] /\ l1Size' = l1Size
    BY DEF StoreL1
  <2> HIDE DEF e
  <2> QED
    BY <1>a, <2>1, <2>2, L1Stored DEF GuestInv
<1>i. e.page = at[t] /\ e.code = code[t]
  OBVIOUS
<1> HIDE DEF e
<1>q. \A q \in Pages : Quiet(q)' => Quiet(q)
  BY <1>a, <1>d DEF GuestInv, GuestTypeOK, Quiet
<1>1. GuestTypeOK'
  BY ZenonT(40), <1>d, <1>e DEF GuestInv, GuestTypeOK, Places, Tasks
<1>2. Disciplined'
  BY DEF StoreL1, Enter, GuestInv, GuestTypeOK, Disciplined, WellPlaced
<1>3. WellPlaced'
  BY DEF StoreL1, Enter, GuestInv, GuestTypeOK, WellPlaced, Disciplined, Tasks
<1>4. Exclusive'
  BY DEF StoreL1, Enter, GuestInv, GuestTypeOK, Exclusive, WellPlaced
<1>5. Protected'
  BY <1>d, <1>q, ProtectedKept DEF GuestInv, GuestTypeOK, Protected
<1>6. BlocksCurrent'
  BY DEF StoreL1, Enter, GuestInv, GuestTypeOK, BlocksCurrent, Quiet, WellPlaced,
     Disciplined, Severed
<1>7. LinksCoherent'
  BY DEF StoreL1, Enter, GuestInv, GuestTypeOK, LinksCoherent, Quiet, WellPlaced, Severed
<1>8. EntriesCoherent'
  <2> SUFFICES ASSUME L1OnlyGrows, NEW u \in Threads, NEW q \in Pages, Quiet(q)
               PROVE  EntryCoherent(u, q)'
    BY <1>q DEF EntriesCoherent
  <2>1. EntryCoherent(u, q)
    BY DEF GuestInv, EntriesCoherent
  <2>2. CASE u = t
    BY <2>1, <2>2, <1>c, <1>d, <1>e, <1>i
  <2>3. CASE u # t
    BY <2>1, <2>3, <1>d, <1>e
  <2> QED
    BY <2>2, <2>3
<1>9. EntriesCovered' /\ L1TailEmpty'
  <2> SUFFICES ASSUME L1OnlyGrows, NEW w \in Threads, NEW q \in Pages
               PROVE  EntryCovered(w, q)'
    BY <1>e DEF EntriesCovered
  <2>1. EntryCovered(w, q)
    BY DEF GuestInv, EntriesCovered
  <2>0. at[t] \in cached[t]
    BY <1>a, <1>b DEF GuestInv, EntriesCovered
  <2>2. CASE w = t
    BY <2>1, <2>2, <1>a, <1>b, <1>d, <1>e, <1>i, <2>0
  <2>3. CASE w # t
    BY <2>1, <2>3, <1>d, <1>e
  <2> QED
    BY <2>2, <2>3
<1>10. Severed'
  BY DEF StoreL1, Enter, GuestInv, GuestTypeOK, Severed, WellPlaced, Exclusive, Disciplined
<1>11. CodeInHand'
  BY <1>a, <1>c, <1>d DEF GuestInv, GuestTypeOK, CodeInHand
<1> QED
  BY <1>1, <1>2, <1>3, <1>4, <1>5, <1>6, <1>7, <1>8, <1>9, <1>10, <1>11 DEF GuestInv

\* ExitFunctionLink looks the block up.
LEMMA FindForLinkKeeps ==
    ASSUME GuestInv, NEW t \in Threads, FindForLink(t)
    PROVE  GuestInv'
BY FindKeeps DEF FindForLink, May, Blockers, Waits, CodeExclusive

\* CompileBlock looks the block up.
LEMMA FindForCompileKeeps ==
    ASSUME GuestInv, NEW t \in Threads, FindForCompile(t)
    PROVE  GuestInv'
BY FindKeeps DEF FindForCompile, May, Blockers, Waits, CodeExclusive

\* A decoded page is the current one.
LEMMA DecodeKeeps ==
    ASSUME GuestInv, NEW t \in Threads, Decode(t)
    PROVE  GuestInv'
<1>q. \A q \in Pages : Quiet(q)' => Quiet(q)
  BY DEF Decode, GuestInv, GuestTypeOK, Quiet, WellPlaced
<1>m. UNCHANGED <<mem, mapVars, cacheVars>>
  BY DEF Decode
<1>1. GuestTypeOK'
  BY DEF Decode, GuestInv, GuestTypeOK, Versions, HostCode, L1Entries, Places, Tasks,
     Disciplined, WellPlaced
<1>2. Disciplined'
  BY DEF Decode, GuestInv, GuestTypeOK, Disciplined, WellPlaced
<1>3. WellPlaced'
  BY DEF Decode, GuestInv, GuestTypeOK, WellPlaced, Disciplined, Tasks
<1>4. Exclusive'
  BY DEF Decode, GuestInv, GuestTypeOK, Exclusive, WellPlaced
<1>5. Protected'
  <2>1. /\ pc[t] = "decode" /\ UNCHANGED <<mapVars, writable, at>>
        /\ pc' = [pc EXCEPT ![t] = "recheck"]
    BY DEF Decode, Goes, guestVars
  <2>2. Protected /\ pc \in [Threads -> Places]
    BY DEF GuestInv, GuestTypeOK
  <2>3. \A u \in Threads : pc'[u] \in {"protect", "map"} => pc[u] \in {"protect", "map"}
    BY <2>1, <2>2
  <2>4. \A u \in Threads : pc[u] = "protect" => pc'[u] = "protect"
    BY <2>1, <2>2
  <2>. QED  BY <1>q, <2>1, <2>2, <2>3, <2>4 DEF Protected, mapVars
<1>6. BlocksCurrent'
  BY <1>q, <1>m, MemoryKept
<1>7. LinksCoherent'
  BY <1>q, <1>m, MemoryKept
<1>8. EntriesCoherent'
  BY <1>q, <1>m, MemoryKept
<1>9. EntriesCovered' /\ L1TailEmpty'
  BY <1>q, <1>m, MemoryKept
<1>10. Severed'
  BY DEF Decode, GuestInv, GuestTypeOK, Severed, WellPlaced, Exclusive, Disciplined
<1>11. CodeInHand'
  BY DEF Decode, GuestInv, GuestTypeOK, CodeInHand, WellPlaced, Disciplined
<1> QED
  BY <1>1, <1>2, <1>3, <1>4, <1>5, <1>6, <1>7, <1>8, <1>9, <1>10, <1>11 DEF GuestInv

\* CompileCode looks the block up once more.
LEMMA RecheckKeeps ==
    ASSUME GuestInv, NEW t \in Threads, Recheck(t)
    PROVE  GuestInv'
BY FindKeeps DEF Recheck, GuestInv, Exclusive

\* The first block of a page registers it and is to protect it.
LEMMA RegisterKeeps ==
    ASSUME GuestInv, NEW t \in Threads, Register(t)
    PROVE  GuestInv'
<1>1. GuestTypeOK'
  BY DEF Register, GuestInv, GuestTypeOK, Versions, HostCode, L1Entries, Places, Tasks,
     Disciplined, WellPlaced
<1>2. Disciplined'
  BY DEF Register, GuestInv, GuestTypeOK, Disciplined, WellPlaced
<1>3. WellPlaced'
  BY DEF Register, GuestInv, GuestTypeOK, WellPlaced, Disciplined, Tasks
<1>4. Exclusive'
  BY DEF Register, GuestInv, GuestTypeOK, Exclusive, WellPlaced
<1>5. Protected'
  <2>1. /\ \A u \in Threads : pc'[u] \in {"protect", "map"} => at'[u] \in codePages'
        /\ \A q \in Pages : blockList'[q] # NoCode => q \in codePages'
    BY DEF Register, GuestInv, GuestTypeOK, Protected, WellPlaced
  <2>2. ASSUME NEW q \in Pages, q \in codePages', q \in writable, Quiet(q)'
        PROVE  \E u \in Threads : pc'[u] = "protect" /\ at'[u] = q
    <3>1. CASE q \in codePages
      <4>1. Quiet(q)
        BY <2>2 DEF Register, GuestInv, GuestTypeOK, Quiet, WellPlaced
      <4>2. PICK u \in Threads : pc[u] = "protect" /\ at[u] = q
        BY <2>2, <3>1, <4>1 DEF GuestInv, Protected
      <4> QED
        BY <4>2 DEF Register, GuestInv, GuestTypeOK
    <3>2. CASE q \notin codePages
      BY <2>2, <3>2 DEF Register, GuestInv, GuestTypeOK
    <3> QED
      BY <3>1, <3>2
  <2> QED
    BY <2>1, <2>2 DEF Protected, Register
<1>6. BlocksCurrent'
  BY DEF Register, GuestInv, GuestTypeOK, BlocksCurrent, Quiet, WellPlaced, Disciplined, Severed
<1>7. LinksCoherent'
  BY DEF Register, GuestInv, GuestTypeOK, LinksCoherent, Quiet, WellPlaced, Severed
<1>8. EntriesCoherent'
  <2>1. \A q \in Pages : Quiet(q)' => Quiet(q)
    BY DEF Register, GuestInv, GuestTypeOK, Quiet, WellPlaced
  <2> QED
    BY <2>1, L1AtKept DEF Register, GuestInv, EntriesCoherent
<1>9. EntriesCovered' /\ L1TailEmpty'
  BY L1AtKept DEF Register, GuestInv, GuestTypeOK, EntriesCovered, L1TailEmpty
<1>10. Severed'
  BY DEF Register, GuestInv, GuestTypeOK, Severed, WellPlaced, Exclusive, Disciplined
<1>11. CodeInHand'
  BY DEF Register, GuestInv, GuestTypeOK, CodeInHand, WellPlaced, Disciplined
<1> QED
  BY <1>1, <1>2, <1>3, <1>4, <1>5, <1>6, <1>7, <1>8, <1>9, <1>10, <1>11 DEF GuestInv

\* The page is protected before its block can be found.
LEMMA ProtectKeeps ==
    ASSUME GuestInv, NEW t \in Threads, Protect(t)
    PROVE  GuestInv'
<1>q. \A q \in Pages : Quiet(q)' => Quiet(q)
  BY DEF Protect, GuestInv, GuestTypeOK, Quiet, WellPlaced
<1>m. UNCHANGED <<mem, mapVars, cacheVars>>
  BY DEF Protect
<1>1. GuestTypeOK'
  BY DEF Protect, GuestInv, GuestTypeOK, Versions, HostCode, L1Entries, Places, Tasks,
     Disciplined, WellPlaced
<1>2. Disciplined'
  BY DEF Protect, GuestInv, GuestTypeOK, Disciplined, WellPlaced
<1>3. WellPlaced'
  BY DEF Protect, GuestInv, GuestTypeOK, WellPlaced, Disciplined, Tasks
<1>4. Exclusive'
  BY DEF Protect, GuestInv, GuestTypeOK, Exclusive, WellPlaced
<1>5. Protected'
  <2>1. /\ \A u \in Threads : pc'[u] \in {"protect", "map"} => at'[u] \in codePages'
        /\ \A q \in Pages : blockList'[q] # NoCode => q \in codePages'
    BY DEF Protect, GuestInv, GuestTypeOK, Protected
  <2>2. ASSUME NEW q \in Pages, q \in codePages, q \in writable', Quiet(q)'
        PROVE  \E u \in Threads : pc'[u] = "protect" /\ at'[u] = q
    <3>1. q \in writable /\ q # at[t]
      BY <2>2 DEF Protect
    <3>2. Quiet(q)
      BY <2>2 DEF Protect, GuestInv, GuestTypeOK, Quiet, WellPlaced
    <3>3. PICK u \in Threads : pc[u] = "protect" /\ at[u] = q
      BY <2>2, <3>1, <3>2 DEF GuestInv, Protected
    <3> QED
      BY <3>1, <3>3 DEF Protect, GuestInv, GuestTypeOK
  <2> QED
    BY <2>1, <2>2 DEF Protected, Protect
<1>6. BlocksCurrent'
  BY <1>q, <1>m, MemoryKept
<1>7. LinksCoherent'
  BY <1>q, <1>m, MemoryKept
<1>8. EntriesCoherent'
  BY <1>q, <1>m, MemoryKept
<1>9. EntriesCovered' /\ L1TailEmpty'
  BY <1>q, <1>m, MemoryKept
<1>10. Severed'
  BY DEF Protect, GuestInv, GuestTypeOK, Severed, WellPlaced, Exclusive, Disciplined
<1>11. CodeInHand'
  BY DEF Protect, GuestInv, GuestTypeOK, CodeInHand, WellPlaced, Disciplined
<1> QED
  BY <1>1, <1>2, <1>3, <1>4, <1>5, <1>6, <1>7, <1>8, <1>9, <1>10, <1>11 DEF GuestInv

\* A new block enters the block list, L1 and CachedCodePages.
LEMMA MapKeeps ==
    ASSUME GuestInv, NEW t \in Threads, Map(t)
    PROVE  GuestInv'
<1>a. at[t] \in Pages /\ victim[t] = NoPage /\ \A u \in Threads : victim[u] # at[t]
  BY AtQuiet DEF Map, GuestInv, WellPlaced
<1>b. code[t] = mem[at[t]] /\ code[t] \in Versions /\ at[t] \in codePages
  BY <1>a, Fresh DEF Map, GuestInv, CodeInHand, Protected
<1>c. \A u \in Threads :
        /\ blockList[at[t]] # NoCode => blockList[at[t]] = code[t]
        /\ L1OnlyGrows =>
            /\ link[at[t]] # NoCode => link[at[t]] = code[t]
            /\ L1At(u, at[t]).page = at[t] => L1At(u, at[t]).code = code[t]
            /\ l2[u][at[t]] # NoCode => l2[u][at[t]] = code[t]
  BY <1>a, <1>b, Fresh
<1>d. /\ pc[t] = "map" /\ pc' = [pc EXCEPT ![t] = pc'[t]]
      /\ task' = [task EXCEPT ![t] = task'[t]]
      /\ code' = code /\ at' = at
      /\ \/ pc'[t] = "patch" /\ task'[t] = "link"
         \/ pc'[t] = "run" /\ task'[t] = "none"
      /\ UNCHANGED <<guestVars, codePages, link, l1Size, l2, victim, todo>>
  BY DEF Map, Deliver, Enter, GuestInv, GuestTypeOK
<1> DEFINE e == [page |-> at[t], code |-> code[t]]
<1>e. /\ l1' \in [Threads -> [L1Slots -> L1Entries]] /\ L1TailEmpty'
      /\ \A q \in Pages : L1At(t, q)' \in {L1At(t, q), e}
      /\ \A u \in Threads \ {t} : \A q \in Pages : L1At(u, q)' = L1At(u, q)
  <2>1. e \in L1Entries
    BY <1>a, <1>b DEF L1Entries
  <2>2. l1' = [l1 EXCEPT ![t][L1Slot(t, at[t])] = e] /\ l1Size' = l1Size
    BY DEF Map
  <2> HIDE DEF e
  <2> QED
    BY <1>a, <2>1, <2>2, L1Stored DEF GuestInv
<1>i. e.page = at[t] /\ e.code = code[t]
  OBVIOUS
<1> HIDE DEF e
<1>g. blockList' = [blockList EXCEPT ![at[t]] = code[t]]
  BY DEF Map
<1>h. cached' = [cached EXCEPT ![t] = @ \cup {at[t]}]
  BY DEF Map
<1>q. \A q \in Pages : Quiet(q)' => Quiet(q)
  BY <1>a, <1>d DEF GuestInv, GuestTypeOK, Quiet
<1>1. GuestTypeOK'
  <2>1. pc'[t] \in Places /\ task'[t] \in Tasks /\ code[t] \in HostCode
    BY <1>b, <1>d DEF Places, Tasks, HostCode
  <2>2. blockList' \in [Pages -> HostCode] /\ cached' \in [Threads -> SUBSET Pages]
    BY <1>a, <1>g, <1>h, <2>1 DEF GuestInv, GuestTypeOK
  <2> QED
    <3>1. pc' \in [Threads -> Places] /\ task' \in [Threads -> Tasks]
      BY ZenonT(40), <1>d, <2>1 DEF GuestInv, GuestTypeOK
    <3> QED
      BY <1>d, <1>e, <2>2, <3>1 DEF GuestInv, GuestTypeOK
<1>2. Disciplined'
  BY DEF Map, Deliver, Enter, GuestInv, GuestTypeOK, Disciplined, WellPlaced
<1>3. WellPlaced'
  BY DEF Map, Deliver, Enter, GuestInv, GuestTypeOK, WellPlaced, Disciplined, Tasks
<1>4. Exclusive'
  BY <1>d DEF GuestInv, GuestTypeOK, Exclusive
<1>5. Protected'
  <2>1. /\ \A u \in Threads : pc'[u] \in {"protect", "map"} => at'[u] \in codePages'
        /\ \A q \in Pages : blockList'[q] # NoCode => q \in codePages'
    BY <1>a, <1>b, <1>d, <1>g DEF GuestInv, GuestTypeOK, Protected
  <2>2. ASSUME NEW q \in Pages, q \in codePages, q \in writable, Quiet(q)'
        PROVE  \E u \in Threads : pc'[u] = "protect" /\ at'[u] = q
    <3>1. PICK u \in Threads : pc[u] = "protect" /\ at[u] = q
      BY <1>q, <2>2 DEF GuestInv, Protected
    <3> QED
      BY <1>d, <3>1 DEF GuestInv, GuestTypeOK
  <2> QED
    BY <1>d, <2>1, <2>2 DEF Protected
<1>6. BlocksCurrent'
  BY <1>a, <1>b, <1>d, <1>g, <1>q DEF GuestInv, GuestTypeOK, BlocksCurrent
<1>7. LinksCoherent'
  BY <1>a, <1>c, <1>d, <1>g, <1>q DEF GuestInv, GuestTypeOK, LinksCoherent
<1>8. EntriesCoherent'
  <2> SUFFICES ASSUME L1OnlyGrows, NEW u \in Threads, NEW q \in Pages, Quiet(q)
               PROVE  EntryCoherent(u, q)'
    BY <1>q DEF EntriesCoherent
  <2>1. EntryCoherent(u, q)
    BY DEF GuestInv, EntriesCoherent
  <2>2. q = at[t] => /\ l2[u][q] # NoCode => l2[u][q] = code[t]
                     /\ L1At(u, q).page = q => L1At(u, q).code = code[t]
    BY <1>c
  <2>4. IF q = at[t] THEN blockList'[q] = code[t] ELSE blockList'[q] = blockList[q]
    BY <1>a, <1>d, <1>g DEF GuestInv, GuestTypeOK
  <2>5. CASE u = t
    BY <2>1, <2>2, <2>4, <2>5, <1>d, <1>e, <1>i
  <2>6. CASE u # t
    BY <2>1, <2>2, <2>4, <2>6, <1>d, <1>e
  <2> QED
    BY <2>5, <2>6
<1>9. EntriesCovered' /\ L1TailEmpty'
  <2> SUFFICES ASSUME L1OnlyGrows, NEW w \in Threads, NEW q \in Pages
               PROVE  EntryCovered(w, q)'
    BY <1>e DEF EntriesCovered
  <2>1. EntryCovered(w, q)
    BY DEF GuestInv, EntriesCovered
  <2>2. /\ cached'[t] = cached[t] \cup {at[t]}
        /\ \A u \in Threads \ {t} : cached'[u] = cached[u]
    BY <1>h DEF GuestInv, GuestTypeOK
  <2>3. CASE w = t
    BY <2>1, <2>2, <2>3, <1>d, <1>e, <1>i
  <2>4. CASE w # t
    BY <2>1, <2>2, <2>4, <1>d, <1>e
  <2> QED
    BY <2>3, <2>4
<1>10. Severed'
  BY DEF Map, Deliver, Enter, GuestInv, GuestTypeOK, Severed, WellPlaced, Exclusive, Disciplined
<1>11. CodeInHand'
  <2>1. InHand(t)'
    BY <1>a, <1>b, <1>d, <1>g DEF GuestInv, GuestTypeOK, Versions
  <2>2. ASSUME NEW u \in Threads, u # t PROVE InHand(u)'
    <3>1. InHand(u)
      BY DEF GuestInv, CodeInHand
    <3>2. /\ UNCHANGED <<pc[u], at[u], code[u], victim[u], l2[u]>>
          /\ at[u] = at[t] => blockList'[at[u]] = code[t]
          /\ at[u] # at[t] => blockList'[at[u]] = blockList[at[u]]
      BY <1>a, <1>d, <1>g, <2>2 DEF GuestInv, GuestTypeOK
    <3> QED
      BY <3>1, <3>2, <1>c, <1>d
  <2> QED
    BY <2>1, <2>2 DEF CodeInHand
<1> QED
  BY <1>1, <1>2, <1>3, <1>4, <1>5, <1>6, <1>7, <1>8, <1>9, <1>10, <1>11 DEF GuestInv

\* A branch is patched to the block the list still has.
LEMMA PatchKeeps ==
    ASSUME GuestInv, NEW t \in Threads, Patch(t)
    PROVE  GuestInv'
<1>a. at[t] \in Pages /\ victim[t] = NoPage /\ \A u \in Threads : victim[u] # at[t]
  BY AtQuiet DEF Patch, GuestInv, WellPlaced
<1>b. L1OnlyGrows => code[t] = blockList[at[t]] /\ code[t] # NoCode
  BY DEF Patch, GuestInv, CodeInHand
<1>c. L1OnlyGrows => code[t] = mem[at[t]] /\ at[t] \in codePages
  BY <1>a, <1>b, Fresh
<1>d. /\ pc[t] = "patch" /\ pc' = [pc EXCEPT ![t] = "run"] /\ task' = [task EXCEPT ![t] = "none"]
      /\ code' = code /\ at' = at /\ link' = [link EXCEPT ![at[t]] = code[t]]
      /\ UNCHANGED <<guestVars, blockList, codePages, cacheVars, victim, todo>>
  BY DEF Patch, Enter, GuestInv, GuestTypeOK
<1>q. \A q \in Pages : Quiet(q)' => Quiet(q)
  BY <1>a, <1>d DEF GuestInv, GuestTypeOK, Quiet
<1>1. GuestTypeOK'
  BY DEF Patch, Enter, GuestInv, GuestTypeOK, Versions, HostCode, L1Entries, Places, Tasks,
     Disciplined, WellPlaced
<1>2. Disciplined'
  BY DEF Patch, Enter, GuestInv, GuestTypeOK, Disciplined, WellPlaced
<1>3. WellPlaced'
  BY DEF Patch, Enter, GuestInv, GuestTypeOK, WellPlaced, Disciplined, Tasks
<1>4. Exclusive'
  BY DEF Patch, Enter, GuestInv, GuestTypeOK, Exclusive, WellPlaced
<1>5. Protected'
  <2>1. /\ \A u \in Threads : pc'[u] \in {"protect", "map"} => at'[u] \in codePages'
        /\ \A q \in Pages : blockList'[q] # NoCode => q \in codePages'
    BY <1>a, <1>c, <1>d DEF GuestInv, GuestTypeOK, Protected
  <2>2. ASSUME NEW q \in Pages, q \in codePages, q \in writable, Quiet(q)'
        PROVE  \E u \in Threads : pc'[u] = "protect" /\ at'[u] = q
    <3>1. PICK u \in Threads : pc[u] = "protect" /\ at[u] = q
      BY <1>q, <2>2 DEF GuestInv, Protected
    <3> QED
      BY <1>d, <3>1 DEF GuestInv, GuestTypeOK
  <2> QED
    BY <1>d, <2>1, <2>2 DEF Protected
<1>6. BlocksCurrent'
  BY SMTT(60) DEF Patch, Enter, GuestInv, GuestTypeOK, BlocksCurrent, Quiet, WellPlaced,
     Disciplined, Severed
<1>7. LinksCoherent'
  BY <1>a, <1>b, <1>c, <1>d, <1>q DEF GuestInv, GuestTypeOK, LinksCoherent
<1>8. EntriesCoherent'
  BY <1>d, <1>q, L1AtKept DEF GuestInv, GuestTypeOK, EntriesCoherent
<1>9. EntriesCovered' /\ L1TailEmpty'
  BY <1>d, L1AtKept DEF GuestInv, EntriesCovered, L1TailEmpty
<1>10. Severed'
  BY DEF Patch, Enter, GuestInv, GuestTypeOK, Severed, WellPlaced, Exclusive, Disciplined
<1>11. CodeInHand'
  BY <1>a, <1>c, <1>d DEF GuestInv, GuestTypeOK, CodeInHand
<1> QED
  BY <1>1, <1>2, <1>3, <1>4, <1>5, <1>6, <1>7, <1>8, <1>9, <1>10, <1>11 DEF GuestInv

\* A write reaches pages without translations only.
LEMMA StoreKeeps ==
    ASSUME GuestInv, NEW t \in Threads, Store(t)
    PROVE  GuestInv'
<1>a. /\ pc[t] = "store" /\ victim[t] \in Pages /\ victim[t] \in writable
      /\ \A u \in Threads \ {t} : victim[u] # victim[t] /\ at[u] # victim[t]
  BY DEF Store, GuestInv, GuestTypeOK, WellPlaced, Disciplined
<1>b. Quiet(victim[t])
  BY <1>a DEF Quiet
<1>c. victim[t] \notin codePages
  BY <1>a, <1>b DEF GuestInv, Protected
<1>d. /\ blockList[victim[t]] = NoCode
      /\ L1OnlyGrows => /\ link[victim[t]] = NoCode
                        /\ at[t] = victim[t] => code[t] = NoCode
  BY <1>a, <1>c DEF GuestInv, Protected, LinksCoherent, CodeInHand
<1>g. /\ mem' = [mem EXCEPT ![victim[t]] = @ + 1] /\ victim' = [victim EXCEPT ![t] = NoPage]
      /\ UNCHANGED <<writable, mapVars, cacheVars, at, code, todo>>
      /\ pc' = [pc EXCEPT ![t] = pc'[t]] /\ task' = [task EXCEPT ![t] = task'[t]]
      /\ IF at[t] = victim[t] /\ code[t] = NoCode
         THEN pc'[t] = "dispatch" /\ task'[t] = "jump"
         ELSE pc'[t] = "run" /\ task'[t] = "none"
  BY DEF Store, GuestInv, GuestTypeOK
<1>q. \A q \in Pages : Quiet(q)' => Quiet(q)
  BY SMTT(60), <1>a, <1>g DEF GuestInv, GuestTypeOK, Quiet
<1>1. GuestTypeOK'
  <2>1. mem' \in [Pages -> Versions]
    BY <1>a, <1>g DEF GuestInv, GuestTypeOK, Versions
  <2>2. pc'[t] \in Places /\ task'[t] \in Tasks
    BY <1>g DEF Places, Tasks
  <2> QED
    BY ZenonT(40), <1>g, <2>1, <2>2 DEF GuestInv, GuestTypeOK
<1>2. Disciplined'
  BY DEF Store, GuestInv, GuestTypeOK, Disciplined, WellPlaced
<1>3. WellPlaced'
  BY DEF Store, GuestInv, GuestTypeOK, WellPlaced, Disciplined, Tasks
<1>4. Exclusive'
  <2>1. pc'[t] \notin Compiling \cup Invalidating \cup Forking
    BY <1>g
  <2>2. \A u \in Threads \ {t} : pc'[u] = pc[u]
    BY <1>g DEF GuestInv, GuestTypeOK
  <2> QED
    BY <2>1, <2>2 DEF GuestInv, Exclusive
<1>5. Protected'
  BY <1>a, <1>g, <1>q, ProtectedKept DEF GuestInv, GuestTypeOK, Protected
<1>6. BlocksCurrent'
  BY <1>a, <1>d, <1>g, <1>q DEF GuestInv, GuestTypeOK, BlocksCurrent
<1>7. LinksCoherent'
  BY <1>g, <1>q DEF GuestInv, GuestTypeOK, LinksCoherent
<1>8. EntriesCoherent'
  BY <1>g, <1>q, L1AtKept DEF GuestInv, GuestTypeOK, EntriesCoherent
<1>9. EntriesCovered' /\ L1TailEmpty'
  BY <1>g, L1AtKept DEF GuestInv, EntriesCovered, L1TailEmpty
<1>10. Severed'
  BY DEF Store, GuestInv, GuestTypeOK, Severed, WellPlaced, Exclusive, Disciplined
<1>11. CodeInHand'
  BY <1>a, <1>d, <1>g DEF GuestInv, GuestTypeOK, WellPlaced, CodeInHand
<1> QED
  BY <1>1, <1>2, <1>3, <1>4, <1>5, <1>6, <1>7, <1>8, <1>9, <1>10, <1>11 DEF GuestInv

\* A write to a protected page faults.
LEMMA FaultKeeps ==
    ASSUME GuestInv, NEW t \in Threads, Fault(t)
    PROVE  GuestInv'
<1>q. \A q \in Pages : Quiet(q)' => Quiet(q)
  BY DEF Fault, GuestInv, GuestTypeOK, Quiet, WellPlaced
<1>m. UNCHANGED <<mem, mapVars, cacheVars>>
  BY DEF Fault
<1>1. GuestTypeOK'
  BY DEF Fault, GuestInv, GuestTypeOK, Versions, HostCode, L1Entries, Places, Tasks,
     Disciplined, WellPlaced
<1>2. Disciplined'
  BY DEF Fault, GuestInv, GuestTypeOK, Disciplined, WellPlaced
<1>3. WellPlaced'
  BY DEF Fault, GuestInv, GuestTypeOK, WellPlaced, Disciplined, Tasks
<1>4. Exclusive'
  BY DEF Fault, GuestInv, GuestTypeOK, Exclusive, WellPlaced
<1>5. Protected'
  BY <1>q, ProtectedKept DEF Fault, GuestInv, GuestTypeOK, Protected
<1>6. BlocksCurrent'
  BY <1>q, <1>m, MemoryKept
<1>7. LinksCoherent'
  BY <1>q, <1>m, MemoryKept
<1>8. EntriesCoherent'
  BY <1>q, <1>m, MemoryKept
<1>9. EntriesCovered' /\ L1TailEmpty'
  BY <1>q, <1>m, MemoryKept
<1>10. Severed'
  BY DEF Fault, GuestInv, GuestTypeOK, Severed, WellPlaced, Exclusive, Disciplined
<1>11. CodeInHand'
  BY DEF Fault, GuestInv, GuestTypeOK, CodeInHand, WellPlaced, Disciplined
<1> QED
  BY <1>1, <1>2, <1>3, <1>4, <1>5, <1>6, <1>7, <1>8, <1>9, <1>10, <1>11 DEF GuestInv

\* The fault handler takes VMATracking.Mutex.
LEMMA HandleSegfaultKeeps ==
    ASSUME GuestInv, NEW t \in Threads, HandleSegfault(t)
    PROVE  GuestInv'
<1>q. \A q \in Pages : Quiet(q)' => Quiet(q)
  BY DEF HandleSegfault, GuestInv, GuestTypeOK, Quiet, WellPlaced
<1>m. UNCHANGED <<mem, mapVars, cacheVars>>
  BY DEF HandleSegfault
<1>1. GuestTypeOK'
  BY DEF HandleSegfault, GuestInv, GuestTypeOK, Versions, HostCode, L1Entries, Places,
     Tasks, Disciplined, WellPlaced
<1>2. Disciplined'
  BY DEF HandleSegfault, GuestInv, GuestTypeOK, Disciplined, WellPlaced
<1>3. WellPlaced'
  BY DEF HandleSegfault, GuestInv, GuestTypeOK, WellPlaced, Disciplined, Tasks
<1>4. Exclusive'
  BY DEF HandleSegfault, GuestInv, GuestTypeOK, Exclusive, WellPlaced
<1>5. Protected'
  BY <1>q, ProtectedKept DEF HandleSegfault, GuestInv, GuestTypeOK, Protected
<1>6. BlocksCurrent'
  BY <1>q, <1>m, MemoryKept
<1>7. LinksCoherent'
  BY <1>q, <1>m, MemoryKept
<1>8. EntriesCoherent'
  BY <1>q, <1>m, MemoryKept
<1>9. EntriesCovered' /\ L1TailEmpty'
  BY <1>q, <1>m, MemoryKept
<1>10. Severed'
  BY DEF HandleSegfault, GuestInv, GuestTypeOK, Severed, WellPlaced, Exclusive, Disciplined
<1>11. CodeInHand'
  BY DEF HandleSegfault, GuestInv, GuestTypeOK, CodeInHand, WellPlaced, Disciplined
<1> QED
  BY <1>1, <1>2, <1>3, <1>4, <1>5, <1>6, <1>7, <1>8, <1>9, <1>10, <1>11 DEF GuestInv

\* A remapped page is on its way to be invalidated.
LEMMA RemapKeeps ==
    ASSUME GuestInv, NEW t \in Threads, Remap(t)
    PROVE  GuestInv'
<1>a. victim[t] \in Pages
  BY DEF Remap, GuestInv, GuestTypeOK, WellPlaced
<1>b. mem' \in [Pages -> Versions]
  <2>1. mem \in [Pages -> Versions] /\ mem[victim[t]] + 1 \in Versions
    BY <1>a DEF GuestInv, GuestTypeOK, Versions
  <2> QED
    BY <2>1 DEF Remap
<1>1. GuestTypeOK'
  BY <1>a, <1>b DEF Remap, GuestInv, GuestTypeOK, Places
<1>2. Disciplined'
  BY DEF Remap, GuestInv, GuestTypeOK, Disciplined, WellPlaced
<1>3. WellPlaced'
  BY DEF Remap, GuestInv, GuestTypeOK, WellPlaced, Disciplined, Tasks
<1>4. Exclusive'
  BY DEF Remap, GuestInv, GuestTypeOK, Exclusive, WellPlaced
<1>5. Protected'
  <2>1. /\ \A u \in Threads : pc'[u] \in {"protect", "map"} => at'[u] \in codePages'
        /\ \A q \in Pages : blockList'[q] # NoCode => q \in codePages'
    BY DEF Remap, GuestInv, GuestTypeOK, Protected
  <2>2. ASSUME NEW q \in Pages, q \in codePages, q \in writable', Quiet(q)'
        PROVE  \E u \in Threads : pc'[u] = "protect" /\ at'[u] = q
    <3>1. q # victim[t] /\ q \in writable
      BY <2>2 DEF Remap, GuestInv, GuestTypeOK, Quiet
    <3>2. Quiet(q)
      BY <2>2 DEF Remap, GuestInv, GuestTypeOK, Quiet
    <3>3. PICK u \in Threads : pc[u] = "protect" /\ at[u] = q
      BY <2>2, <3>1, <3>2 DEF GuestInv, Protected
    <3> QED
      BY <3>3 DEF Remap, GuestInv, GuestTypeOK
  <2> QED
    BY <2>1, <2>2 DEF Protected, Remap
<1>6. BlocksCurrent'
  BY DEF Remap, GuestInv, GuestTypeOK, BlocksCurrent, Quiet, WellPlaced, Disciplined, Severed
<1>7. LinksCoherent'
  BY DEF Remap, GuestInv, GuestTypeOK, LinksCoherent, Quiet, WellPlaced, Severed
<1>8. EntriesCoherent'
  BY L1AtKept DEF Remap, GuestInv, GuestTypeOK, EntriesCoherent, Quiet, WellPlaced, Severed,
     EntriesCovered
<1>9. EntriesCovered' /\ L1TailEmpty'
  BY L1AtKept DEF Remap, GuestInv, GuestTypeOK, EntriesCovered, L1TailEmpty
<1>10. Severed'
  BY DEF Remap, GuestInv, GuestTypeOK, Severed, WellPlaced, Exclusive, Disciplined
<1>11. CodeInHand'
  BY DEF Remap, GuestInv, GuestTypeOK, CodeInHand, WellPlaced, Disciplined
<1> QED
  BY <1>1, <1>2, <1>3, <1>4, <1>5, <1>6, <1>7, <1>8, <1>9, <1>10, <1>11 DEF GuestInv

\* An invalidation or a fork takes ThreadCreationMutex.
LEMMA LockCreationKeeps ==
    ASSUME GuestInv, NEW t \in Threads, LockCreation(t)
    PROVE  GuestInv'
<1>q. \A q \in Pages : Quiet(q)' => Quiet(q)
  BY DEF LockCreation, GuestInv, GuestTypeOK, Quiet, WellPlaced
<1>m. UNCHANGED <<mem, mapVars, cacheVars>>
  BY DEF LockCreation
<1>1. GuestTypeOK'
  BY DEF LockCreation, GuestInv, GuestTypeOK, Versions, HostCode, L1Entries, Places, Tasks,
     Disciplined, WellPlaced
<1>2. Disciplined'
  BY DEF LockCreation, GuestInv, GuestTypeOK, Disciplined, WellPlaced
<1>3. WellPlaced'
  BY DEF LockCreation, GuestInv, GuestTypeOK, WellPlaced, Disciplined, Tasks
<1>4. Exclusive'
  BY DEF LockCreation, GuestInv, GuestTypeOK, Exclusive, WellPlaced
<1>5. Protected'
  BY <1>q, ProtectedKept DEF LockCreation, GuestInv, GuestTypeOK, Protected
<1>6. BlocksCurrent'
  BY <1>q, <1>m, MemoryKept
<1>7. LinksCoherent'
  BY <1>q, <1>m, MemoryKept
<1>8. EntriesCoherent'
  BY <1>q, <1>m, MemoryKept
<1>9. EntriesCovered' /\ L1TailEmpty'
  BY <1>q, <1>m, MemoryKept
<1>10. Severed'
  BY DEF LockCreation, GuestInv, GuestTypeOK, Severed, WellPlaced, Exclusive, Disciplined
<1>11. CodeInHand'
  BY DEF LockCreation, GuestInv, GuestTypeOK, CodeInHand, WellPlaced, Disciplined
<1> QED
  BY <1>1, <1>2, <1>3, <1>4, <1>5, <1>6, <1>7, <1>8, <1>9, <1>10, <1>11 DEF GuestInv

\* An invalidation or a fork takes CodeInvalidationMutex, which nobody compiles under.
LEMMA LockCodeKeeps ==
    ASSUME GuestInv, NEW t \in Threads, LockCode(t)
    PROVE  GuestInv'
<1>q. \A q \in Pages : Quiet(q)' => Quiet(q)
  BY DEF LockCode, GuestInv, GuestTypeOK, Quiet, WellPlaced
<1>m. UNCHANGED <<mem, mapVars, cacheVars>>
  BY DEF LockCode
<1>1. GuestTypeOK'
  BY DEF LockCode, May, Blockers, Waits, CodeShared, CodeExclusive, GuestInv, GuestTypeOK,
     Versions, HostCode, L1Entries, Places, Tasks, Disciplined, WellPlaced
<1>2. Disciplined'
  BY DEF LockCode, May, Blockers, Waits, CodeShared, CodeExclusive, GuestInv, GuestTypeOK,
     Disciplined, WellPlaced
<1>3. WellPlaced'
  BY DEF LockCode, May, Blockers, Waits, CodeShared, CodeExclusive, GuestInv, GuestTypeOK,
     WellPlaced, Disciplined, Tasks
<1>4. Exclusive'
  BY DEF LockCode, May, Blockers, Waits, CodeShared, CodeExclusive, GuestInv, GuestTypeOK,
     Exclusive, WellPlaced
<1>5. Protected'
  BY <1>q, ProtectedKept DEF LockCode, GuestInv, GuestTypeOK, Protected
<1>6. BlocksCurrent'
  BY <1>q, <1>m, MemoryKept
<1>7. LinksCoherent'
  BY <1>q, <1>m, MemoryKept
<1>8. EntriesCoherent'
  BY <1>q, <1>m, MemoryKept
<1>9. EntriesCovered' /\ L1TailEmpty'
  BY <1>q, <1>m, MemoryKept
<1>10. Severed'
  BY DEF LockCode, May, Blockers, Waits, CodeShared, CodeExclusive, GuestInv, GuestTypeOK,
     Severed, WellPlaced, Exclusive, Disciplined
<1>11. CodeInHand'
  BY DEF LockCode, May, Blockers, Waits, CodeShared, CodeExclusive, GuestInv, GuestTypeOK,
     CodeInHand, WellPlaced, Disciplined
<1> QED
  BY <1>1, <1>2, <1>3, <1>4, <1>5, <1>6, <1>7, <1>8, <1>9, <1>10, <1>11 DEF GuestInv

\* The block of the page and the branches to it are gone; the caches are still to be cleaned.
LEMMA SeverKeeps ==
    ASSUME GuestInv, NEW t \in Threads, Sever(t)
    PROVE  GuestInv'
<1>1. GuestTypeOK'
  <2>1. /\ blockList' \in [Pages -> HostCode] /\ link' \in [Pages -> HostCode]
        /\ codePages' \subseteq Pages
    BY DEF Sever, GuestInv, GuestTypeOK, HostCode
  <2>2. pc' \in [Threads -> Places] /\ todo' \subseteq Threads
    BY DEF Sever, GuestInv, GuestTypeOK, Places
  <2>3. UNCHANGED <<mem, writable, cacheVars, task, at, code, victim>>
    BY DEF Sever
  <2> QED
    BY <2>1, <2>2, <2>3 DEF GuestInv, GuestTypeOK
<1>2. Disciplined'
  BY DEF Sever, GuestInv, GuestTypeOK, Disciplined, WellPlaced
<1>3. WellPlaced'
  BY DEF Sever, GuestInv, GuestTypeOK, WellPlaced, Disciplined, Tasks
<1>4. Exclusive'
  BY DEF Sever, GuestInv, GuestTypeOK, Exclusive, WellPlaced
<1>5. Protected'
  BY SMTT(60) DEF Sever, GuestInv, GuestTypeOK, Protected, Quiet, WellPlaced, Disciplined,
     Exclusive
<1>6. BlocksCurrent'
  BY DEF Sever, GuestInv, GuestTypeOK, BlocksCurrent, Quiet, WellPlaced, Disciplined, Severed
<1>7. LinksCoherent'
  BY DEF Sever, GuestInv, GuestTypeOK, LinksCoherent, Quiet, WellPlaced, Severed
<1>8. EntriesCoherent'
  BY L1AtKept DEF Sever, GuestInv, GuestTypeOK, EntriesCoherent, Quiet, WellPlaced, Severed,
     EntriesCovered
<1>9. EntriesCovered' /\ L1TailEmpty'
  BY L1AtKept DEF Sever, GuestInv, GuestTypeOK, EntriesCovered, L1TailEmpty
<1>10. Severed'
  <2>1. \A u \in Threads \ {t} : pc[u] \notin {"drop", "unprotect"}
    BY DEF Sever, GuestInv, Exclusive
  <2>2. victim[t] \in Pages
    BY DEF Sever, GuestInv, GuestTypeOK, WellPlaced
  <2>3. /\ victim[t] \notin codePages' /\ blockList'[victim[t]] = NoCode
        /\ L1OnlyGrows => link'[victim[t]] = NoCode
    BY <2>2 DEF Sever, GuestInv, GuestTypeOK, Protected, LinksCoherent
  <2> QED
    BY <2>1, <2>3 DEF Sever, GuestInv, GuestTypeOK, Severed
<1>11. CodeInHand'
  BY DEF Sever, GuestInv, GuestTypeOK, CodeInHand, WellPlaced, Disciplined
<1> QED
  BY <1>1, <1>2, <1>3, <1>4, <1>5, <1>6, <1>7, <1>8, <1>9, <1>10, <1>11 DEF GuestInv

\* All caches have been cleaned after a fault.
LEMMA DroppedKeeps ==
    ASSUME GuestInv, NEW t \in Threads, Dropped(t)
    PROVE  GuestInv'
<1>q. \A q \in Pages : Quiet(q)' => Quiet(q)
  BY DEF Dropped, GuestInv, GuestTypeOK, Quiet, WellPlaced
<1>m. UNCHANGED <<mem, mapVars, cacheVars>>
  BY DEF Dropped
<1>1. GuestTypeOK'
  BY DEF Dropped, GuestInv, GuestTypeOK, Versions, HostCode, L1Entries, Places, Tasks,
     Disciplined, WellPlaced
<1>2. Disciplined'
  BY DEF Dropped, GuestInv, GuestTypeOK, Disciplined, WellPlaced
<1>3. WellPlaced'
  BY DEF Dropped, GuestInv, GuestTypeOK, WellPlaced, Disciplined, Tasks
<1>4. Exclusive'
  BY DEF Dropped, GuestInv, GuestTypeOK, Exclusive, WellPlaced
<1>5. Protected'
  BY <1>q, ProtectedKept DEF Dropped, GuestInv, GuestTypeOK, Protected
<1>6. BlocksCurrent'
  BY <1>q, <1>m, MemoryKept
<1>7. LinksCoherent'
  BY <1>q, <1>m, MemoryKept
<1>8. EntriesCoherent'
  BY <1>q, <1>m, MemoryKept
<1>9. EntriesCovered' /\ L1TailEmpty'
  BY <1>q, <1>m, MemoryKept
<1>10. Severed'
  BY DEF Dropped, GuestInv, GuestTypeOK, Severed, WellPlaced, Exclusive, Disciplined
<1>11. CodeInHand'
  BY DEF Dropped, GuestInv, GuestTypeOK, CodeInHand, WellPlaced, Disciplined
<1> QED
  BY <1>1, <1>2, <1>3, <1>4, <1>5, <1>6, <1>7, <1>8, <1>9, <1>10, <1>11 DEF GuestInv

\* A page without translations becomes writable.
LEMMA UnprotectKeeps ==
    ASSUME GuestInv, NEW t \in Threads, Unprotect(t)
    PROVE  GuestInv'
<1>1. GuestTypeOK'
  BY DEF Unprotect, GuestInv, GuestTypeOK, Versions, HostCode, L1Entries, Places, Tasks,
     Disciplined, WellPlaced
<1>2. Disciplined'
  BY DEF Unprotect, GuestInv, GuestTypeOK, Disciplined, WellPlaced
<1>3. WellPlaced'
  BY DEF Unprotect, GuestInv, GuestTypeOK, WellPlaced, Disciplined, Tasks
<1>4. Exclusive'
  BY DEF Unprotect, GuestInv, GuestTypeOK, Exclusive, WellPlaced
<1>5. Protected'
  <2>1. /\ \A u \in Threads : pc'[u] \in {"protect", "map"} => at'[u] \in codePages'
        /\ \A q \in Pages : blockList'[q] # NoCode => q \in codePages'
    BY DEF Unprotect, GuestInv, GuestTypeOK, Protected
  <2>2. ASSUME NEW q \in Pages, q \in codePages, q \in writable', Quiet(q)'
        PROVE  \E u \in Threads : pc'[u] = "protect" /\ at'[u] = q
    <3>1. q \in writable /\ q # victim[t]
      BY <2>2 DEF Unprotect, GuestInv, Severed
    <3>2. Quiet(q)
      BY <2>2, <3>1 DEF Unprotect, GuestInv, GuestTypeOK, Quiet
    <3>3. PICK u \in Threads : pc[u] = "protect" /\ at[u] = q
      BY <2>2, <3>1, <3>2 DEF GuestInv, Protected
    <3> QED
      BY <3>3 DEF Unprotect, GuestInv, GuestTypeOK
  <2> QED
    BY <2>1, <2>2 DEF Protected, Unprotect
<1>6. BlocksCurrent'
  BY DEF Unprotect, GuestInv, GuestTypeOK, BlocksCurrent, Quiet, WellPlaced, Disciplined,
     Severed
<1>7. LinksCoherent'
  BY DEF Unprotect, GuestInv, GuestTypeOK, LinksCoherent, Quiet, WellPlaced, Severed
<1>8. EntriesCoherent'
  BY L1AtKept DEF Unprotect, GuestInv, GuestTypeOK, EntriesCoherent, Quiet, WellPlaced, Severed,
     EntriesCovered
<1>9. EntriesCovered' /\ L1TailEmpty'
  BY L1AtKept DEF Unprotect, GuestInv, GuestTypeOK, EntriesCovered, L1TailEmpty
<1>10. Severed'
  BY DEF Unprotect, GuestInv, GuestTypeOK, Severed, WellPlaced, Exclusive, Disciplined
<1>11. CodeInHand'
  BY DEF Unprotect, GuestInv, GuestTypeOK, CodeInHand, WellPlaced, Disciplined
<1> QED
  BY <1>1, <1>2, <1>3, <1>4, <1>5, <1>6, <1>7, <1>8, <1>9, <1>10, <1>11 DEF GuestInv

\* All caches have been cleaned after a system call.
LEMMA MappedKeeps ==
    ASSUME GuestInv, NEW t \in Threads, Mapped(t)
    PROVE  GuestInv'
<1>1. GuestTypeOK'
  BY DEF Mapped, GuestInv, GuestTypeOK, Versions, HostCode, L1Entries, Places, Tasks,
     Disciplined, WellPlaced
<1>2. Disciplined'
  BY DEF Mapped, GuestInv, GuestTypeOK, Disciplined, WellPlaced
<1>3. WellPlaced'
  BY DEF Mapped, GuestInv, GuestTypeOK, WellPlaced, Disciplined, Tasks
<1>4. Exclusive'
  BY DEF Mapped, GuestInv, GuestTypeOK, Exclusive, WellPlaced
<1>5. Protected'
  <2>1. /\ \A u \in Threads : pc'[u] \in {"protect", "map"} => at'[u] \in codePages'
        /\ \A q \in Pages : blockList'[q] # NoCode => q \in codePages'
    BY DEF Mapped, GuestInv, GuestTypeOK, Protected
  <2>2. ASSUME NEW q \in Pages, q \in codePages, q \in writable', Quiet(q)'
        PROVE  \E u \in Threads : pc'[u] = "protect" /\ at'[u] = q
    <3>1. q \in writable /\ q # victim[t]
      BY <2>2 DEF Mapped, GuestInv, Severed
    <3>2. Quiet(q)
      BY <2>2, <3>1 DEF Mapped, GuestInv, GuestTypeOK, Quiet
    <3>3. PICK u \in Threads : pc[u] = "protect" /\ at[u] = q
      BY <2>2, <3>1, <3>2 DEF GuestInv, Protected
    <3> QED
      BY <3>3 DEF Mapped, GuestInv, GuestTypeOK
  <2> QED
    BY <2>1, <2>2 DEF Protected, Mapped
<1>6. BlocksCurrent'
  BY DEF Mapped, GuestInv, GuestTypeOK, BlocksCurrent, Quiet, WellPlaced, Disciplined, Severed
<1>7. LinksCoherent'
  BY DEF Mapped, GuestInv, GuestTypeOK, LinksCoherent, Quiet, WellPlaced, Severed
<1>8. EntriesCoherent'
  BY L1AtKept DEF Mapped, GuestInv, GuestTypeOK, EntriesCoherent, Quiet, WellPlaced, Severed,
     EntriesCovered
<1>9. EntriesCovered' /\ L1TailEmpty'
  BY L1AtKept DEF Mapped, GuestInv, GuestTypeOK, EntriesCovered, L1TailEmpty
<1>10. Severed'
  BY DEF Mapped, GuestInv, GuestTypeOK, Severed, WellPlaced, Exclusive, Disciplined
<1>11. CodeInHand'
  BY DEF Mapped, GuestInv, GuestTypeOK, CodeInHand, WellPlaced, Disciplined
<1> QED
  BY <1>1, <1>2, <1>3, <1>4, <1>5, <1>6, <1>7, <1>8, <1>9, <1>10, <1>11 DEF GuestInv

\* A block of one instruction leaves nothing in the caches.
LEMMA CompileSingleStepKeeps ==
    ASSUME GuestInv, NEW t \in Threads, CompileSingleStep(t)
    PROVE  GuestInv'
<1>q. \A q \in Pages : Quiet(q)' => Quiet(q)
  BY DEF CompileSingleStep, GuestInv, GuestTypeOK, Quiet, WellPlaced
<1>m. UNCHANGED <<mem, mapVars, cacheVars>>
  BY DEF CompileSingleStep
<1>1. GuestTypeOK'
  BY DEF CompileSingleStep, GuestInv, GuestTypeOK, Versions, HostCode, L1Entries, Places,
     Tasks, Disciplined, WellPlaced
<1>2. Disciplined'
  BY DEF CompileSingleStep, GuestInv, GuestTypeOK, Disciplined, WellPlaced
<1>3. WellPlaced'
  BY DEF CompileSingleStep, GuestInv, GuestTypeOK, WellPlaced, Disciplined, Tasks
<1>4. Exclusive'
  BY DEF CompileSingleStep, GuestInv, GuestTypeOK, Exclusive, WellPlaced
<1>5. Protected'
  BY <1>q, ProtectedKept DEF CompileSingleStep, GuestInv, GuestTypeOK, Protected
<1>6. BlocksCurrent'
  BY <1>q, <1>m, MemoryKept
<1>7. LinksCoherent'
  BY <1>q, <1>m, MemoryKept
<1>8. EntriesCoherent'
  BY <1>q, <1>m, MemoryKept
<1>9. EntriesCovered' /\ L1TailEmpty'
  BY <1>q, <1>m, MemoryKept
<1>10. Severed'
  BY DEF CompileSingleStep, GuestInv, GuestTypeOK, Severed, WellPlaced, Exclusive, Disciplined
<1>11. CodeInHand'
  BY DEF CompileSingleStep, GuestInv, GuestTypeOK, CodeInHand, WellPlaced, Disciplined
<1> QED
  BY <1>1, <1>2, <1>3, <1>4, <1>5, <1>6, <1>7, <1>8, <1>9, <1>10, <1>11 DEF GuestInv

\* A fork takes VMATracking.Mutex, or gives the other locks back.
LEMMA TryVMAKeeps ==
    ASSUME GuestInv, NEW t \in Threads, TryVMA(t)
    PROVE  GuestInv'
<1>q. \A q \in Pages : Quiet(q)' => Quiet(q)
  BY DEF TryVMA, GuestInv, GuestTypeOK, Quiet, WellPlaced
<1>m. UNCHANGED <<mem, mapVars, cacheVars>>
  BY DEF TryVMA
<1>1. GuestTypeOK'
  BY DEF TryVMA, GuestInv, GuestTypeOK, Versions, HostCode, L1Entries, Places, Tasks,
     Disciplined, WellPlaced
<1>2. Disciplined'
  BY DEF TryVMA, GuestInv, GuestTypeOK, Disciplined, WellPlaced
<1>3. WellPlaced'
  BY DEF TryVMA, GuestInv, GuestTypeOK, WellPlaced, Disciplined, Tasks
<1>4. Exclusive'
  BY DEF TryVMA, GuestInv, GuestTypeOK, Exclusive, WellPlaced
<1>5. Protected'
  BY <1>q, ProtectedKept DEF TryVMA, GuestInv, GuestTypeOK, Protected
<1>6. BlocksCurrent'
  BY <1>q, <1>m, MemoryKept
<1>7. LinksCoherent'
  BY <1>q, <1>m, MemoryKept
<1>8. EntriesCoherent'
  BY <1>q, <1>m, MemoryKept
<1>9. EntriesCovered' /\ L1TailEmpty'
  BY <1>q, <1>m, MemoryKept
<1>10. Severed'
  BY DEF TryVMA, GuestInv, GuestTypeOK, Severed, WellPlaced, Exclusive, Disciplined
<1>11. CodeInHand'
  BY DEF TryVMA, GuestInv, GuestTypeOK, CodeInHand, WellPlaced, Disciplined
<1> QED
  BY <1>1, <1>2, <1>3, <1>4, <1>5, <1>6, <1>7, <1>8, <1>9, <1>10, <1>11 DEF GuestInv

\* A fork releases its locks.
LEMMA UnlockAfterForkKeeps ==
    ASSUME GuestInv, NEW t \in Threads, UnlockAfterFork(t)
    PROVE  GuestInv'
<1>q. \A q \in Pages : Quiet(q)' => Quiet(q)
  BY DEF UnlockAfterFork, GuestInv, GuestTypeOK, Quiet, WellPlaced
<1>m. UNCHANGED <<mem, mapVars, cacheVars>>
  BY DEF UnlockAfterFork
<1>1. GuestTypeOK'
  BY DEF UnlockAfterFork, GuestInv, GuestTypeOK, Versions, HostCode, L1Entries, Places,
     Tasks, Disciplined, WellPlaced
<1>2. Disciplined'
  BY DEF UnlockAfterFork, GuestInv, GuestTypeOK, Disciplined, WellPlaced
<1>3. WellPlaced'
  BY DEF UnlockAfterFork, GuestInv, GuestTypeOK, WellPlaced, Disciplined, Tasks
<1>4. Exclusive'
  BY DEF UnlockAfterFork, GuestInv, GuestTypeOK, Exclusive, WellPlaced
<1>5. Protected'
  BY <1>q, ProtectedKept DEF UnlockAfterFork, GuestInv, GuestTypeOK, Protected
<1>6. BlocksCurrent'
  BY <1>q, <1>m, MemoryKept
<1>7. LinksCoherent'
  BY <1>q, <1>m, MemoryKept
<1>8. EntriesCoherent'
  BY <1>q, <1>m, MemoryKept
<1>9. EntriesCovered' /\ L1TailEmpty'
  BY <1>q, <1>m, MemoryKept
<1>10. Severed'
  BY DEF UnlockAfterFork, GuestInv, GuestTypeOK, Severed, WellPlaced, Exclusive, Disciplined
<1>11. CodeInHand'
  BY DEF UnlockAfterFork, GuestInv, GuestTypeOK, CodeInHand, WellPlaced, Disciplined
<1> QED
  BY <1>1, <1>2, <1>3, <1>4, <1>5, <1>6, <1>7, <1>8, <1>9, <1>10, <1>11 DEF GuestInv

\* The caches of one more thread no longer lead to the page.
LEMMA DropKeeps ==
    ASSUME GuestInv, NEW t \in Threads, NEW u \in Threads, Drop(t, u)
    PROVE  GuestInv'
<1>a. /\ pc[t] = "drop" /\ u \in todo /\ todo' = todo \ {u}
      /\ UNCHANGED <<guestVars, mapVars, threadVars>>
      /\ victim[t] \in Pages
  BY DEF Drop, GuestInv, GuestTypeOK, WellPlaced
<1>b. /\ l1' \in [Threads -> [L1Slots -> L1Entries]] /\ l1Size' = l1Size /\ L1TailEmpty'
      /\ \A w \in Threads \ {u} : \A q \in Pages : L1At(w, q)' = L1At(w, q)
      /\ \A q \in Pages : L1At(u, q)' \in {L1At(u, q), NoEntry}
      /\ L1OnlyGrows => L1At(u, victim[t])'.page # victim[t]
  <2>1. NoEntry \in L1Entries /\ NoEntry.page \notin Pages /\ l1Size' = l1Size
    BY DEF L1Entries, Drop
  <2>2. CASE victim[t] \in cached[u] /\ L1At(u, victim[t]).page = victim[t]
    <3>1. l1' = [l1 EXCEPT ![u][L1Slot(u, victim[t])] = NoEntry]
      BY <2>2 DEF Drop, L1At
    <3> QED
      BY <1>a, <2>1, <3>1, L1Stored DEF GuestInv
  <2>3. CASE victim[t] \in cached[u] /\ L1At(u, victim[t]).page # victim[t]
    <3>1. l1' = [l1 EXCEPT ![u][L1Slot(u, victim[t])] = L1At(u, victim[t])]
      BY <2>3 DEF Drop, L1At
    <3>2. L1At(u, victim[t]) \in L1Entries
      BY <1>a, L1AtType DEF GuestInv
    <3>3. /\ l1' \in [Threads -> [L1Slots -> L1Entries]] /\ L1TailEmpty'
          /\ L1At(u, victim[t])' = L1At(u, victim[t])
          /\ \A w \in Threads \ {u} : \A q \in Pages : L1At(w, q)' = L1At(w, q)
      BY <1>a, <2>1, <3>1, <3>2, L1Stored DEF GuestInv
    <3>4. l1' = l1
      BY <1>a, <3>1, L1AtType DEF GuestInv, GuestTypeOK, L1At
    <3> QED
      BY <2>1, <2>3, <3>3, <3>4, L1AtKept
  <2>4. CASE victim[t] \notin cached[u]
    <3>1. l1' = l1 /\ (L1OnlyGrows => L1At(u, victim[t]).page # victim[t])
      BY <1>a, <2>4 DEF Drop, GuestInv, EntriesCovered
    <3> QED
      BY <1>a, <2>1, <3>1, L1AtKept DEF GuestInv, GuestTypeOK, L1TailEmpty
  <2> QED
    BY <2>2, <2>3, <2>4
<1>d. /\ l2' \in [Threads -> [Pages -> HostCode]]
      /\ cached' \in [Threads -> SUBSET Pages]
      /\ \A w \in Threads \ {u} : l2'[w] = l2[w] /\ cached'[w] = cached[w]
      /\ cached'[u] = cached[u] \ {victim[t]}
      /\ L1OnlyGrows => l2'[u][victim[t]] = NoCode
      /\ \A q \in Pages \ {victim[t]} : l2'[u][q] = l2[u][q]
  <2>1. /\ l2 \in [Threads -> [Pages -> HostCode]]
        /\ cached \in [Threads -> SUBSET Pages]
        /\ NoCode \in HostCode
    BY DEF GuestInv, GuestTypeOK, HostCode
  <2>2. CASE victim[t] \in cached[u]
    <3>1. /\ l2' = [l2 EXCEPT ![u][victim[t]] = NoCode]
          /\ cached' = [cached EXCEPT ![u] = @ \ {victim[t]}]
      BY <2>2 DEF Drop
    <3> QED
      BY <1>a, <2>1, <3>1
  <2>3. CASE victim[t] \notin cached[u]
    <3>1. L1OnlyGrows => l2[u][victim[t]] = NoCode
      BY <1>a, <2>3 DEF GuestInv, EntriesCovered
    <3> QED
      BY <2>1, <2>3, <3>1 DEF Drop
  <2> QED
    BY <2>2, <2>3
<1> HIDE DEF NoEntry
<1>c. NoEntry.page \notin Pages
  BY DEF NoEntry
<1>1. GuestTypeOK'
  BY <1>a, <1>b, <1>d DEF GuestInv, GuestTypeOK
<1>2. Disciplined'
  BY <1>a DEF GuestInv, Disciplined
<1>3. WellPlaced'
  BY <1>a DEF GuestInv, WellPlaced
<1>4. Exclusive'
  BY <1>a DEF GuestInv, Exclusive
<1>5. Protected'
  BY <1>a DEF GuestInv, Protected, Quiet
<1>6. BlocksCurrent'
  BY <1>a DEF GuestInv, BlocksCurrent, Quiet
<1>7. LinksCoherent'
  BY <1>a DEF GuestInv, LinksCoherent, Quiet
<1>8. EntriesCoherent'
  <2> SUFFICES ASSUME L1OnlyGrows, NEW w \in Threads, NEW q \in Pages, Quiet(q)'
               PROVE  EntryCoherent(w, q)'
    BY DEF EntriesCoherent
  <2>1. EntryCoherent(w, q)
    BY <1>a DEF GuestInv, EntriesCoherent, Quiet
  <2>2. CASE w = u
    BY <2>1, <2>2, <1>a, <1>b, <1>c, <1>d
  <2>3. CASE w # u
    BY <2>1, <2>3, <1>a, <1>b, <1>d
  <2> QED
    BY <2>2, <2>3
<1>9. EntriesCovered' /\ L1TailEmpty'
  <2> SUFFICES ASSUME L1OnlyGrows, NEW w \in Threads, NEW q \in Pages
               PROVE  EntryCovered(w, q)'
    BY <1>b DEF EntriesCovered
  <2>1. EntryCovered(w, q)
    BY DEF GuestInv, EntriesCovered
  <2>2. CASE w = u
    BY <2>1, <2>2, <1>a, <1>b, <1>c, <1>d
  <2>3. CASE w # u
    BY <2>1, <2>3, <1>b, <1>d
  <2> QED
    BY <2>2, <2>3
<1>10. Severed'
  <2> SUFFICES ASSUME NEW w \in Threads, pc[w] \in {"drop", "unprotect"}
               PROVE  /\ victim[w] \notin codePages /\ blockList[victim[w]] = NoCode
                      /\ pc[w] = "unprotect" => todo' = {}
                      /\ L1OnlyGrows => /\ link[victim[w]] = NoCode
                                        /\ \A x \in Threads \ todo' : victim[w] \notin cached'[x]
    BY <1>a DEF Severed
  <2>1. w = t
    BY <1>a DEF GuestInv, Exclusive
  <2>2. \A x \in Threads \ todo' : x = u \/ (x # u /\ x \in Threads \ todo)
    BY <1>a
  <2> QED
    BY <1>a, <1>d, <2>1, <2>2 DEF GuestInv, Severed
<1>11. CodeInHand'
  <2> SUFFICES ASSUME NEW w \in Threads PROVE InHand(w)'
    BY DEF CodeInHand
  <2>1. InHand(w)
    BY DEF GuestInv, CodeInHand
  <2>2. pc[w] = "storeL1" => l2'[w][at[w]] = l2[w][at[w]]
    <3> SUFFICES ASSUME pc[w] = "storeL1" PROVE l2'[w][at[w]] = l2[w][at[w]]
      OBVIOUS
    <3>1. w # t /\ at[w] # victim[t] /\ at[w] \in Pages
      BY <1>a DEF GuestInv, GuestTypeOK, Disciplined, WellPlaced
    <3> QED
      BY <1>d, <3>1
  <2> QED
    BY <1>a, <2>1, <2>2
<1> QED
  BY <1>1, <1>2, <1>3, <1>4, <1>5, <1>6, <1>7, <1>8, <1>9, <1>10, <1>11 DEF GuestInv

\* The invariant holds while nothing is translated.
LEMMA InitGuestInv == GuestInit => GuestInv
<1> SUFFICES ASSUME GuestInit PROVE GuestInv
  OBVIOUS
<1> USE DEF GuestInit
<1>1. GuestTypeOK
  BY L1Assumption DEF GuestTypeOK, Versions, HostCode, L1Entries, Places, Tasks
<1>2. Disciplined /\ WellPlaced /\ Exclusive
  BY DEF Disciplined, WellPlaced, Exclusive
<1>3. Protected /\ BlocksCurrent /\ LinksCoherent
  BY DEF Protected, BlocksCurrent, LinksCoherent
<1>4. EntriesCoherent /\ EntriesCovered /\ L1TailEmpty
  <2>1. \A t \in Threads : \A p \in Pages : L1At(t, p) = NoEntry
    BY L1Assumption, SlotInRange DEF L1At, L1Slot
  <2> QED
    BY <2>1 DEF EntriesCoherent, EntriesCovered, L1TailEmpty
<1>5. Severed /\ CodeInHand
  BY DEF Severed, CodeInHand
<1> QED
  BY <1>1, <1>2, <1>3, <1>4, <1>5 DEF GuestInv

\* Steps of others keep the invariant.
LEMMA StutterGuestInv == GuestInv /\ UNCHANGED vars => GuestInv'
<1> SUFFICES ASSUME GuestInv, UNCHANGED vars PROVE GuestInv'
  OBVIOUS
<1>1. GuestTypeOK' /\ Disciplined' /\ WellPlaced' /\ Exclusive' /\ Severed' /\ CodeInHand'
  BY DEF GuestInv, GuestTypeOK, Disciplined, WellPlaced, Exclusive, Severed, CodeInHand
<1>2. \A q \in Pages : Quiet(q)' <=> Quiet(q)
  BY DEF Quiet
<1>3. /\ Protected' /\ BlocksCurrent' /\ LinksCoherent' /\ EntriesCoherent'
      /\ EntriesCovered' /\ L1TailEmpty'
  BY <1>2, MemoryKept, ProtectedKept DEF GuestInv, Protected
<1> QED
  BY <1>1, <1>3 DEF GuestInv

\* The translations, the caches of every thread and the protection of the pages fit
\* together, whatever the threads do and in whichever order (the inductive invariant).
THEOREM GuestInvariant == GuestSpec => []GuestInv
<1>1. ASSUME GuestInv, NEW t \in Threads, GuestStep(t) PROVE GuestInv'
  <2>1. ASSUME NEW p \in Pages,
               \/ FollowLink(t, p) \/ ExitToLinker(t, p)
               \/ LookupL1(t, p) \/ ExitToDispatcher(t, p)
               \/ BeginStore(t, p) \/ BeginMap(t, p)
        PROVE  GuestInv'
    BY <1>1, <2>1, FollowLinkKeeps, ExitToLinkerKeeps, LookupL1Keeps, ExitToDispatcherKeeps,
       BeginStoreKeeps, BeginMapKeeps
  <2>2. CASE \/ Leave(t) \/ BeginFork(t) \/ LookupL2(t) \/ StoreL1(t)
             \/ FindForLink(t) \/ FindForCompile(t) \/ Decode(t) \/ Recheck(t)
             \/ Register(t) \/ Protect(t) \/ Map(t) \/ Patch(t)
    BY <1>1, <2>2, LeaveKeeps, BeginForkKeeps, LookupL2Keeps, StoreL1Keeps, FindForLinkKeeps,
       FindForCompileKeeps, DecodeKeeps, RecheckKeeps, RegisterKeeps, ProtectKeeps, MapKeeps,
       PatchKeeps
  <2>3. CASE \/ Store(t) \/ Fault(t) \/ HandleSegfault(t) \/ Remap(t)
             \/ LockCreation(t) \/ LockCode(t) \/ Sever(t)
    BY <1>1, <2>3, StoreKeeps, FaultKeeps, HandleSegfaultKeeps, RemapKeeps, LockCreationKeeps,
       LockCodeKeeps, SeverKeeps
  <2>4. CASE \/ Dropped(t) \/ Unprotect(t) \/ Mapped(t) \/ CompileSingleStep(t)
             \/ TryVMA(t) \/ UnlockAfterFork(t)
    BY <1>1, <2>4, DroppedKeeps, UnprotectKeeps, MappedKeeps, CompileSingleStepKeeps,
       TryVMAKeeps, UnlockAfterForkKeeps
  <2> QED
    BY <1>1, <2>1, <2>2, <2>3, <2>4 DEF GuestStep
<1>2. GuestInv /\ [GuestNext]_vars => GuestInv'
  BY <1>1, DropKeeps, StutterGuestInv DEF GuestNext
<1> QED
  BY <1>2, InitGuestInv, PTL DEF GuestSpec

\* Every variable keeps its type; a cache never holds an entry without host code.
THEOREM GuestTypeCorrect == GuestSpec => []GuestTypeOK
BY GuestInvariant, PTL DEF GuestInv

\* No thread ever executes a translation of an older version of its page, as long as
\* L1 never shrinks.
THEOREM TranslationsAreCurrent ==
    ASSUME L1OnlyGrows PROVE GuestSpec => []ExecutesCurrentCode
<1>1. GuestInv => ExecutesCurrentCode
  BY DEF GuestInv, GuestTypeOK, WellPlaced, CodeInHand, ExecutesCurrentCode
<1> QED
  BY <1>1, GuestInvariant, PTL

\* A page is quiet when nobody invalidates it.
LEMMA QuietPages == ASSUME NEW p PROVE Invalidators(p) = {} <=> Quiet(p)
BY DEF Invalidators, Quiet

\* The caches of all threads and the patched branches agree with the block list, as
\* long as L1 never shrinks.
THEOREM CachesAgree ==
    ASSUME L1OnlyGrows PROVE GuestSpec => []CachesCoherent
<1>1. GuestInv => CachesCoherent
  BY QuietPages DEF GuestInv, LinksCoherent, EntriesCoherent, CachesCoherent
<1> QED
  BY <1>1, GuestInvariant, PTL

\* A page with translations cannot be written without a fault.
THEOREM PagesAreProtected == GuestSpec => []TrackedPagesProtected
<1>1. GuestInv => TrackedPagesProtected
  BY QuietPages DEF GuestInv, Protected, TrackedPagesProtected
<1> QED
  BY <1>1, GuestInvariant, PTL

\* In any set of threads there is one that waits for none of the set: the places of
\* the threads have an order that follows the locks.
THEOREM LocksAreOrdered == GuestSpec => []NoCircularWait
<1>1. ASSUME NEW S \in (SUBSET Threads) \ {{}} PROVE \E t \in S : Blockers(t) \cap S = {}
  <2> USE DEF Blockers, Waits, VMAShared, VMAExclusive, CreationOwner, CodeShared,
              CodeExclusive, CodeQueue
  <2>1. CASE \E t \in S : pc[t] \in Forking \cup Invalidating
    <3>1. PICK t \in S : pc[t] \in Forking \cup Invalidating
      BY <2>1
    <3> QED
      BY <3>1
  <2>2. CASE \A t \in S : pc[t] \notin Forking \cup Invalidating
    <3>1. CASE \E t \in S : pc[t] \in Compiling \cup {"fault"}
      BY <2>2, <3>1
    <3>2. CASE \A t \in S : pc[t] \notin Compiling \cup {"fault"}
      <4>1. CASE \E t \in S : pc[t] = "lockCode"
        BY <2>2, <3>2, <4>1
      <4>2. CASE \A t \in S : pc[t] # "lockCode"
        <5>1. CASE \E t \in S : pc[t] = "lockCreation"
          BY <2>2, <3>2, <4>2, <5>1
        <5>2. CASE \A t \in S : pc[t] # "lockCreation"
          <6>1. PICK t \in S : TRUE
            OBVIOUS
          <6>2. S \cap (CodeExclusive \cup CodeQueue \cup VMAShared \cup VMAExclusive) = {}
            BY <2>2, <4>2, <5>2
          <6>3. Blockers(t) \subseteq
              CodeExclusive \cup CodeQueue \cup VMAShared \cup VMAExclusive
            BY <2>2, <3>2, <4>2, <5>2
          <6> QED
            BY <6>2, <6>3
        <5> QED
          BY <5>1, <5>2
      <4> QED
        BY <4>1, <4>2
    <3> QED
      BY <3>1, <3>2
  <2> QED
    BY <2>1, <2>2
<1>2. NoCircularWait
  BY <1>1 DEF NoCircularWait
<1> QED
  BY <1>2, PTL
==============================================================================
