------------------------------ MODULE GuestCode ------------------------------
(***************************************************************************)
(* The translations FEX keeps of guest code, and how they follow the guest's *)
(* writes to that code (SMCChecks = mtrack, Linux).                        *)
(*                                                                         *)
(* The threads share the translations (GuestToHostMap, L3) and the direct  *)
(* branches between them (BlockLinks); each has two caches of its own that *)
(* it reads without a lock: L1, which grows and shrinks, and L2.  A page   *)
(* with translations is protected from writes.  A write that faults, and a *)
(* system call that remaps a page, invalidates them, for every thread,     *)
(* under CodeInvalidationMutex.                                            *)
(*                                                                         *)
(* A page is the unit: it has one block with one entry point.  Host code is *)
(* the version of the page it was decoded from.  The guest keeps to the    *)
(* rule of the processor for cross-modifying code: a page is not written   *)
(* while another thread executes it or is about to.                        *)
(***************************************************************************)
EXTENDS Integers, FiniteSets

CONSTANTS
    Threads,
    Pages,      \* guest pages with code that changes
    NoPage,     \* the guest code that never does
    Address,    \* where the block of each page begins
    L1Sizes,    \* the powers of two L1 may have as its size; one without DynamicL1Cache
    MinL1Entries,
    L1Shrinks,  \* DynamicL1CacheDecreaseCountHeuristic is not 0
    DisableL2Cache,
    MaxVersion  \* bound: how many times each page is written

ASSUME GuestAssumption ==
    /\ IsFiniteSet(Threads)
    /\ NoPage \notin Pages
    /\ MaxVersion \in [Pages -> Nat]

ASSUME L1Assumption ==
    /\ Address \in [Pages -> Nat]
    /\ L1Sizes \subseteq Nat \ {0} /\ MinL1Entries \in L1Sizes
    /\ L1Shrinks \in BOOLEAN /\ DisableL2Cache \in BOOLEAN

NoCode == -1
Versions == Nat
HostCode == Versions \cup {NoCode}

NoEntry == [page |-> NoPage, code |-> NoCode]
L1Entries == [page : Pages, code : Versions] \cup {NoEntry}
L1Slots == UNION {0..(n - 1) : n \in L1Sizes}

VARIABLES
    mem,        \* the version of each page
    writable,   \* the pages the host lets the guest write to
    blockList,  \* GuestToHostMap::BlockList
    codePages,  \* GuestToHostMap::CodePages
    link,       \* where the call site that jumps to a page was patched to
    l1,         \* the slots of L1 of each thread
    l1Size,     \* CurrentL1Entries of each thread
    l2,         \* L2 of each thread
    cached,     \* CachedCodePages of each thread
    pc,         \* where each thread is
    task,       \* what it is doing there
    at,         \* the page it executes, or is looking for
    code,       \* the host code it executes, or has found
    victim,     \* the page it writes to or maps
    todo        \* the threads whose caches are still to be invalidated

guestVars == <<mem, writable>>
mapVars == <<blockList, codePages, link>>
cacheVars == <<l1, l1Size, l2, cached>>
threadVars == <<pc, task, at, code, victim>>
vars == <<mem, writable, blockList, codePages, link, l1, l1Size, l2, cached, pc, task, at,
          code, victim, todo>>

\* Looking for a block, under a shared CodeInvalidationMutex from decode on
Compiling == {"decode", "recheck", "register", "protect", "map"}
\* Invalidating a page, or forking
Invalidating == {"sever", "drop", "unprotect"}
Forking == {"tryVMA", "forked"}

Places == {"run", "link", "dispatch", "storeL1", "compile", "patch", "store", "single",
           "fault", "remap", "lockCreation", "lockCode"}
          \cup Compiling \cup Invalidating \cup Forking
Tasks == {"none", "jump", "link", "store", "map", "fork"}

GuestInit ==
    /\ mem = [p \in Pages |-> 0]
    /\ writable = Pages
    /\ blockList = [p \in Pages |-> NoCode]
    /\ codePages = {}
    /\ link = [p \in Pages |-> NoCode]
    /\ l1 = [t \in Threads |-> [s \in L1Slots |-> NoEntry]]
    /\ l1Size = [t \in Threads |-> MinL1Entries]
    /\ l2 = [t \in Threads |-> [p \in Pages |-> NoCode]]
    /\ cached = [t \in Threads |-> {}]
    /\ pc = [t \in Threads |-> "run"]
    /\ task = [t \in Threads |-> "none"]
    /\ at = [t \in Threads |-> NoPage]
    /\ code = [t \in Threads |-> NoCode]
    /\ victim = [t \in Threads |-> NoPage]
    /\ todo = {}

Goes(t, place) == pc' = [pc EXCEPT ![t] = place]

\* The slot of L1 for page p under the present mask, and what is there
L1Slot(t, p) == Address[p] % l1Size[t]
L1At(t, p) == l1[t][L1Slot(t, p)]

-----------------------------------------------------------------------------
(* Locks: who holds them follows from where the threads are *)

\* VMATracking.Mutex: HandleSegfault keeps it shared, a fork exclusively
VMAShared == {t \in Threads : task[t] = "store"
                  /\ pc[t] \in {"lockCreation", "lockCode"} \cup Invalidating}
VMAExclusive == {t \in Threads : pc[t] = "forked"}

\* ThreadCreationMutex, which a fork does not take
CreationOwner == {t \in Threads : task[t] # "fork" /\ pc[t] \in {"lockCode"} \cup Invalidating}

\* CodeInvalidationMutex, a WritePriorityMutex
CodeShared == {t \in Threads : pc[t] \in Compiling}
CodeExclusive == {t \in Threads : pc[t] \in Invalidating \cup Forking}
CodeQueue == {t \in Threads : pc[t] = "lockCode"}

Waits(t, places, holders) == IF pc[t] \in places THEN holders ELSE {}

\* Whom thread t waits for.  A waiting writer keeps readers out of
\* CodeInvalidationMutex, but not out of VMATracking.Mutex, a pthread_rwlock with
\* the default preference.
\* Mutant: a fork waits for VMATracking.Mutex instead of trying it.
BlockersForkWaits(t) ==
    Waits(t, {"link", "compile", "patch", "single"}, CodeExclusive \cup CodeQueue)
    \cup Waits(t, {"fault", "decode", "protect"}, VMAExclusive)
    \cup Waits(t, {"remap", "tryVMA"}, VMAShared \cup VMAExclusive)
    \cup Waits(t, {"lockCreation"}, CreationOwner)
    \cup Waits(t, {"lockCode"}, CodeShared \cup CodeExclusive)

Blockers(t) ==
    Waits(t, {"link", "compile", "patch", "single"}, CodeExclusive \cup CodeQueue)
    \cup Waits(t, {"fault", "decode", "protect"}, VMAExclusive)
    \cup Waits(t, {"remap"}, VMAShared \cup VMAExclusive)
    \cup Waits(t, {"lockCreation"}, CreationOwner)
    \cup Waits(t, {"lockCode"}, CodeShared \cup CodeExclusive)

May(t) == Blockers(t) = {}

-----------------------------------------------------------------------------
(* The guest's side *)

\* The pages a thread executes or looks for, and those it changes
Uses(t) == {at[t]} \ {NoPage}
Changes(t) == {victim[t]} \ {NoPage}

\* Cross-modifying code is synchronised by the guest
MayUse(t, p) == \A u \in Threads \ {t} : p \notin Changes(u)
MayChange(t, p) == \A u \in Threads \ {t} : p \notin Uses(u) \cup Changes(u)

\* The block of page p is entered
Enter(t, p, c) ==
    /\ Goes(t, "run")
    /\ task' = [task EXCEPT ![t] = "none"]
    /\ at' = [at EXCEPT ![t] = p]
    /\ code' = [code EXCEPT ![t] = c]

Sets(t, place, what) ==
    /\ Goes(t, place)
    /\ task' = [task EXCEPT ![t] = what]

\* A call site that has been patched
FollowLink(t, p) ==
    /\ pc[t] = "run"
    /\ MayUse(t, p)
    /\ link[p] # NoCode
    /\ Enter(t, p, link[p])
    /\ UNCHANGED <<guestVars, mapVars, cacheVars, victim, todo>>

\* One that has not: ExitFunctionLink
ExitToLinker(t, p) ==
    /\ pc[t] = "run"
    /\ MayUse(t, p)
    /\ link[p] = NoCode
    /\ Sets(t, "link", "link")
    /\ at' = [at EXCEPT ![t] = p]
    /\ code' = [code EXCEPT ![t] = NoCode]
    /\ UNCHANGED <<guestVars, mapVars, cacheVars, victim, todo>>

\* A branch to an address in a register looks into L1
LookupL1(t, p) ==
    /\ pc[t] = "run"
    /\ MayUse(t, p)
    /\ L1At(t, p).page = p
    /\ Enter(t, p, L1At(t, p).code)
    /\ UNCHANGED <<guestVars, mapVars, cacheVars, victim, todo>>

ExitToDispatcher(t, p) ==
    /\ pc[t] = "run"
    /\ MayUse(t, p)
    /\ L1At(t, p).page # p
    /\ Sets(t, "dispatch", "jump")
    /\ at' = [at EXCEPT ![t] = p]
    /\ code' = [code EXCEPT ![t] = NoCode]
    /\ UNCHANGED <<guestVars, mapVars, cacheVars, victim, todo>>

\* To code that never changes
Leave(t) ==
    /\ pc[t] = "run"
    /\ at[t] # NoPage
    /\ at' = [at EXCEPT ![t] = NoPage]
    /\ code' = [code EXCEPT ![t] = NoCode]
    /\ UNCHANGED <<guestVars, mapVars, cacheVars, pc, task, victim, todo>>

\* The next instruction of the guest writes to page p, or is a system call that
\* maps it anew or changes its protection
BeginStore(t, p) ==
    /\ pc[t] = "run"
    /\ MayChange(t, p) /\ mem[p] < MaxVersion[p]
    /\ Sets(t, "store", "store")
    /\ victim' = [victim EXCEPT ![t] = p]
    /\ UNCHANGED <<guestVars, mapVars, cacheVars, at, code, todo>>

BeginMap(t, p) ==
    /\ pc[t] = "run"
    /\ MayChange(t, p) /\ at[t] # p /\ mem[p] < MaxVersion[p]
    /\ Sets(t, "remap", "map")
    /\ victim' = [victim EXCEPT ![t] = p]
    /\ UNCHANGED <<guestVars, mapVars, cacheVars, at, code, todo>>

\* LockBeforeFork
BeginFork(t) ==
    /\ pc[t] = "run"
    /\ Sets(t, "lockCode", "fork")
    /\ UNCHANGED <<guestVars, mapVars, cacheVars, at, code, victim, todo>>

-----------------------------------------------------------------------------
(* Looking up and compiling *)

\* Mutant: what it has read may be no entry.
LookupL2Unchecked(t) ==
    /\ pc[t] = "dispatch"
    /\ code' = [code EXCEPT ![t] = l2[t][at[t]]]
    /\ Goes(t, "storeL1")
    /\ UNCHANGED <<guestVars, mapVars, cacheVars, task, at, victim, todo>>

\* The dispatcher reads L2 without a lock, and puts into L1 what it has read
LookupL2(t) ==
    /\ pc[t] = "dispatch"
    /\ code' = [code EXCEPT ![t] = l2[t][at[t]]]
    /\ Goes(t, IF l2[t][at[t]] # NoCode THEN "storeL1" ELSE "compile")
    /\ UNCHANGED <<guestVars, mapVars, cacheVars, task, at, victim, todo>>

StoreL1(t) ==
    /\ pc[t] = "storeL1"
    /\ l1' = [l1 EXCEPT ![t][L1Slot(t, at[t])] = [page |-> at[t], code |-> code[t]]]
    /\ Enter(t, at[t], code[t])
    /\ UNCHANGED <<guestVars, mapVars, l1Size, l2, cached, victim, todo>>

\* LookupCache::FindBlock
Found(t, p) ==
    IF L1At(t, p).page = p THEN L1At(t, p).code
    ELSE IF l2[t][p] # NoCode THEN l2[t][p] ELSE blockList[p]

\* UpdateDynamicL1Stats: the sizes that many, few or other numbers of hits lead to
NextSizes(n) ==
    {n} \cup ({2 * n} \cap L1Sizes)
    \cup {m \in L1Sizes : L1Shrinks /\ 2 * m = n}

\* What it leaves in L1, L2 and CachedCodePages when it finds c in L2 or L3, and
\* the new size of L1, to which no entry is moved
FillCaches(t, p, c) ==
    /\ \E n \in NextSizes(l1Size[t]) :
        /\ l1Size' = [l1Size EXCEPT ![t] = n]
        /\ l1' = [l1 EXCEPT ![t] = [s \in L1Slots |->
                     IF s >= n THEN NoEntry
                     ELSE IF s = L1Slot(t, p) THEN [page |-> p, code |-> c] ELSE @[s]]]
    /\ IF l2[t][p] # NoCode
       THEN UNCHANGED <<l2, cached>>
       ELSE /\ l2' = IF DisableL2Cache THEN l2 ELSE [l2 EXCEPT ![t][p] = c]
            /\ cached' = [cached EXCEPT ![t] = @ \cup {p}]

\* What is done with host code that was found: a jump enters the block, the
\* linker goes on to patch its call site
Deliver(t, c) ==
    IF task[t] = "link"
    THEN Goes(t, "patch") /\ code' = [code EXCEPT ![t] = c] /\ UNCHANGED <<task, at>>
    ELSE Enter(t, at[t], c)

\* FindBlock under the shared mutex, at the start of ExitFunctionLink, of
\* CompileBlock, and again before the backend is asked to compile
FindIn(t, otherwise) ==
    IF Found(t, at[t]) # NoCode
    THEN /\ Deliver(t, Found(t, at[t]))
         /\ IF L1At(t, at[t]).page = at[t] THEN UNCHANGED cacheVars
            ELSE FillCaches(t, at[t], Found(t, at[t]))
    ELSE Goes(t, otherwise) /\ UNCHANGED <<cacheVars, task, at, code>>

FindForLink(t) ==
    /\ pc[t] = "link" /\ May(t)
    /\ FindIn(t, "compile")
    /\ UNCHANGED <<guestVars, mapVars, victim, todo>>

FindForCompile(t) ==
    /\ pc[t] = "compile" /\ May(t)
    /\ FindIn(t, "decode")
    /\ UNCHANGED <<guestVars, mapVars, victim, todo>>

\* GenerateIR reads the guest's code, which QueryGuestExecutableRange lets it
Decode(t) ==
    /\ pc[t] = "decode" /\ May(t)
    /\ code' = [code EXCEPT ![t] = mem[at[t]]]
    /\ Goes(t, "recheck")
    /\ UNCHANGED <<guestVars, mapVars, cacheVars, task, at, victim, todo>>

Recheck(t) ==
    /\ pc[t] = "recheck"
    /\ FindIn(t, "register")
    /\ UNCHANGED <<guestVars, mapVars, victim, todo>>

\* AddBlockExecutableRange: only the first block of a page has it protected
Register(t) ==
    /\ pc[t] = "register"
    /\ codePages' = codePages \cup {at[t]}
    /\ Goes(t, IF at[t] \in codePages THEN "map" ELSE "protect")
    /\ UNCHANGED <<guestVars, blockList, link, cacheVars, task, at, code, victim, todo>>

\* MarkGuestExecutableRange
Protect(t) ==
    /\ pc[t] = "protect" /\ May(t)
    /\ writable' = writable \ {at[t]}
    /\ Goes(t, "map")
    /\ UNCHANGED <<mem, mapVars, cacheVars, task, at, code, victim, todo>>

\* AddBlockMapping caches the block in L1 only
Map(t) ==
    /\ pc[t] = "map"
    /\ blockList' = [blockList EXCEPT ![at[t]] = code[t]]
    /\ l1' = [l1 EXCEPT ![t][L1Slot(t, at[t])] = [page |-> at[t], code |-> code[t]]]
    /\ cached' = [cached EXCEPT ![t] = @ \cup {at[t]}]
    /\ Deliver(t, code[t])
    /\ UNCHANGED <<guestVars, codePages, link, l1Size, l2, victim, todo>>

\* The rest of ExitFunctionLink takes the mutex anew
Patch(t) ==
    /\ pc[t] = "patch" /\ May(t)
    /\ link' = [link EXCEPT ![at[t]] = code[t]]
    /\ Enter(t, at[t], code[t])
    /\ UNCHANGED <<guestVars, blockList, codePages, cacheVars, victim, todo>>

-----------------------------------------------------------------------------
(* Writing to code *)

\* The write happens, or faults.  A thread that wrote to the page it executes
\* after a fault did so in a block of one instruction and looks up the next.
Store(t) ==
    /\ pc[t] = "store"
    /\ victim[t] \in writable
    /\ mem' = [mem EXCEPT ![victim[t]] = @ + 1]
    /\ victim' = [victim EXCEPT ![t] = NoPage]
    /\ IF at[t] = victim[t] /\ code[t] = NoCode THEN Sets(t, "dispatch", "jump")
       ELSE Sets(t, "run", "none")
    /\ UNCHANGED <<writable, mapVars, cacheVars, at, code, todo>>

Fault(t) ==
    /\ pc[t] = "store"
    /\ victim[t] \notin writable
    /\ Goes(t, "fault")
    /\ UNCHANGED <<guestVars, mapVars, cacheVars, task, at, code, victim, todo>>

\* HandleSegfault
HandleSegfault(t) ==
    /\ pc[t] = "fault" /\ May(t)
    /\ Goes(t, "lockCreation")
    /\ UNCHANGED <<guestVars, mapVars, cacheVars, task, at, code, victim, todo>>

\* GuestMmap, GuestMunmap, GuestMprotect and their like, under VMATracking.Mutex:
\* the host protects the page as the guest asked for
Remap(t) ==
    /\ pc[t] = "remap" /\ May(t)
    /\ mem' \in {mem, [mem EXCEPT ![victim[t]] = @ + 1]}
    /\ writable' = writable \cup {victim[t]}
    /\ Goes(t, "lockCreation")
    /\ UNCHANGED <<mapVars, cacheVars, task, at, code, victim, todo>>

\* InvalidateGuestCodeRange
LockCreation(t) ==
    /\ pc[t] = "lockCreation" /\ May(t)
    /\ Goes(t, "lockCode")
    /\ UNCHANGED <<guestVars, mapVars, cacheVars, task, at, code, victim, todo>>

LockCode(t) ==
    /\ pc[t] = "lockCode" /\ May(t)
    /\ Goes(t, IF task[t] = "fork" THEN "tryVMA" ELSE "sever")
    /\ UNCHANGED <<guestVars, mapVars, cacheVars, task, at, code, victim, todo>>

\* Mutant: the branches to the blocks stay patched.
SeverKeepsLinks(t) ==
    /\ pc[t] = "sever"
    /\ IF victim[t] \in codePages
       THEN blockList' = [blockList EXCEPT ![victim[t]] = NoCode]
       ELSE UNCHANGED blockList
    /\ codePages' = codePages \ {victim[t]}
    /\ todo' = Threads
    /\ Goes(t, "drop")
    /\ UNCHANGED <<guestVars, link, cacheVars, task, at, code, victim>>

\* Mutant: the page goes on to count as protected.
SeverKeepsCodePages(t) ==
    /\ pc[t] = "sever"
    /\ IF victim[t] \in codePages
       THEN /\ blockList' = [blockList EXCEPT ![victim[t]] = NoCode]
            /\ link' = [link EXCEPT ![victim[t]] = NoCode]
       ELSE UNCHANGED <<blockList, link>>
    /\ todo' = Threads
    /\ Goes(t, "drop")
    /\ UNCHANGED <<guestVars, codePages, cacheVars, task, at, code, victim>>

\* InvalidateRange: the blocks of a page with code, and the branches to them
Sever(t) ==
    /\ pc[t] = "sever"
    /\ IF victim[t] \in codePages
       THEN /\ blockList' = [blockList EXCEPT ![victim[t]] = NoCode]
            /\ link' = [link EXCEPT ![victim[t]] = NoCode]
       ELSE UNCHANGED <<blockList, link>>
    /\ codePages' = codePages \ {victim[t]}
    /\ todo' = Threads
    /\ Goes(t, "drop")
    /\ UNCHANGED <<guestVars, cacheVars, task, at, code, victim>>

\* Mutant: the slot of L1 is the one under the mask L1 began with.
DropUnderFirstMask(t, u) ==
    /\ pc[t] = "drop" /\ u \in todo
    /\ IF victim[t] \in cached[u]
       THEN /\ l1' = [l1 EXCEPT ![u][Address[victim[t]] % MinL1Entries] =
                        IF @.page = victim[t] THEN NoEntry ELSE @]
            /\ l2' = [l2 EXCEPT ![u][victim[t]] = NoCode]
            /\ cached' = [cached EXCEPT ![u] = @ \ {victim[t]}]
       ELSE UNCHANGED <<l1, l2, cached>>
    /\ todo' = todo \ {u}
    /\ UNCHANGED <<guestVars, mapVars, l1Size, threadVars>>

\* InvalidateCacheRange for one thread, whose caches are in use meanwhile: of L1 it
\* looks at the slot under the present mask only
Drop(t, u) ==
    /\ pc[t] = "drop" /\ u \in todo
    /\ IF victim[t] \in cached[u]
       THEN /\ l1' = [l1 EXCEPT ![u][L1Slot(u, victim[t])] =
                        IF @.page = victim[t] THEN NoEntry ELSE @]
            /\ l2' = [l2 EXCEPT ![u][victim[t]] = NoCode]
            /\ cached' = [cached EXCEPT ![u] = @ \ {victim[t]}]
       ELSE UNCHANGED <<l1, l2, cached>>
    /\ todo' = todo \ {u}
    /\ UNCHANGED <<guestVars, mapVars, l1Size, threadVars>>

\* After the last thread a fault unprotects the page; the locks are released.
\* A thread that executes the page goes on with a block of one instruction.
Dropped(t) ==
    /\ pc[t] = "drop" /\ todo = {} /\ task[t] = "store"
    /\ Goes(t, "unprotect")
    /\ UNCHANGED <<guestVars, mapVars, cacheVars, task, at, code, victim, todo>>

Unprotect(t) ==
    /\ pc[t] = "unprotect"
    /\ writable' = writable \cup {victim[t]}
    /\ Goes(t, IF at[t] = victim[t] THEN "single" ELSE "store")
    /\ UNCHANGED <<mem, mapVars, cacheVars, task, at, code, victim, todo>>

Mapped(t) ==
    /\ pc[t] = "drop" /\ todo = {} /\ task[t] = "map"
    /\ Sets(t, "run", "none")
    /\ victim' = [victim EXCEPT ![t] = NoPage]
    /\ UNCHANGED <<guestVars, mapVars, cacheVars, at, code, todo>>

\* CompileSingleStep leaves nothing in the caches
CompileSingleStep(t) ==
    /\ pc[t] = "single" /\ May(t)
    /\ code' = [code EXCEPT ![t] = NoCode]
    /\ Goes(t, "store")
    /\ UNCHANGED <<guestVars, mapVars, cacheVars, task, at, victim, todo>>

-----------------------------------------------------------------------------
(* fork, in the parent *)

\* VMATracking.Mutex is tried, as HandleSegfault takes it first; after a failure
\* CodeInvalidationMutex is released for a while
TryVMA(t) ==
    /\ pc[t] = "tryVMA"
    /\ Goes(t, IF VMAShared = {} THEN "forked" ELSE "lockCode")
    /\ UNCHANGED <<guestVars, mapVars, cacheVars, task, at, code, victim, todo>>

UnlockAfterFork(t) ==
    /\ pc[t] = "forked"
    /\ Sets(t, "run", "none")
    /\ UNCHANGED <<guestVars, mapVars, cacheVars, at, code, victim, todo>>

-----------------------------------------------------------------------------
\* Every step but those that reach into the caches of others
GuestStep(t) ==
    \/ \E p \in Pages :
        \/ FollowLink(t, p) \/ ExitToLinker(t, p)
        \/ LookupL1(t, p) \/ ExitToDispatcher(t, p)
        \/ BeginStore(t, p) \/ BeginMap(t, p)
    \/ Leave(t) \/ BeginFork(t)
    \/ LookupL2(t) \/ StoreL1(t)
    \/ FindForLink(t) \/ FindForCompile(t) \/ Decode(t) \/ Recheck(t)
    \/ Register(t) \/ Protect(t) \/ Map(t) \/ Patch(t)
    \/ Store(t) \/ Fault(t) \/ HandleSegfault(t) \/ Remap(t)
    \/ LockCreation(t) \/ LockCode(t) \/ Sever(t)
    \/ Dropped(t) \/ Unprotect(t) \/ Mapped(t) \/ CompileSingleStep(t)
    \/ TryVMA(t) \/ UnlockAfterFork(t)

GuestNext == \E t \in Threads : GuestStep(t) \/ \E u \in Threads : Drop(t, u)

GuestSpec == GuestInit /\ [][GuestNext]_vars

-----------------------------------------------------------------------------
(* Properties *)

\* The type of every variable; no cache holds an entry without host code.
GuestTypeOK ==
    /\ mem \in [Pages -> Versions]
    /\ writable \subseteq Pages /\ codePages \subseteq Pages
    /\ blockList \in [Pages -> HostCode] /\ link \in [Pages -> HostCode]
    /\ l1 \in [Threads -> [L1Slots -> L1Entries]] /\ l1Size \in [Threads -> L1Sizes]
    /\ l2 \in [Threads -> [Pages -> HostCode]]
    /\ cached \in [Threads -> SUBSET Pages]
    /\ pc \in [Threads -> Places] /\ task \in [Threads -> Tasks]
    /\ at \in [Threads -> Pages \cup {NoPage}]
    /\ victim \in [Threads -> Pages \cup {NoPage}]
    /\ code \in [Threads -> HostCode]
    /\ todo \subseteq Threads

\* The threads that are on their way to invalidate page p
Invalidators(p) ==
    {t \in Threads : victim[t] = p
                      /\ pc[t] \in {"lockCreation", "lockCode"} \cup Invalidating}

\* A thread executes the translation of the page as it is now, by whichever way
\* it came to it: a patched branch, L1, L2, L3 or the compiler, and whichever
\* thread wrote to the page in whichever way.  So it is while L1 only grows.
ExecutesCurrentCode ==
    \A t \in Threads : pc[t] = "run" /\ at[t] # NoPage => code[t] = mem[at[t]]

\* A patched branch and the entries of L1 and L2 of every thread lead to the block
\* that the shared block list has for the page, and to none when it has none: a
\* finished invalidation has found all of them, in the two maps of pages it goes by
\* and under the mask L1 has at the time.  So it is while L1 only grows.
CachesCoherent ==
    \A p \in Pages : Invalidators(p) = {} =>
        /\ link[p] # NoCode => link[p] = blockList[p]
        /\ \A t \in Threads :
            /\ L1At(t, p).page = p => L1At(t, p).code = blockList[p]
            /\ l2[t][p] # NoCode => l2[t][p] = blockList[p]

\* A page with translations is protected from writes, or is about to be
\* invalidated, or the thread that registered its first block has yet to protect
\* it: pages are protected once, however often they are compiled, unprotected by
\* a fault and compiled anew.
TrackedPagesProtected ==
    \A p \in Pages :
        /\ blockList[p] # NoCode => p \in codePages
        /\ p \in codePages /\ p \in writable =>
            \/ Invalidators(p) # {}
            \/ \E t \in Threads : pc[t] = "protect" /\ at[t] = p

\* Threads never wait for each other in a circle, although a fault, a remap, the
\* compiler and a fork take the three locks in different orders.
NoCircularWait ==
    \A S \in (SUBSET Threads) \ {{}} : \E t \in S : Blockers(t) \cap S = {}
=============================================================================
