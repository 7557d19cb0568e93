SPECIFICATION SemaSpec
CONSTANTS
    Threads = {t1, t2}
    Keys = {s1}
    Waiters = {2}
    Main = main
    ReadyDispatch = readyDispatch
    Ticker = ticker
    NoActor = noActor
    NoThread = noThread
    NoWait = noWait
    NoCall = noCall
    WakeLimits = {2}
    PumpBatch = 1
    MaxQueue = 1
    Callers = {main}
    Nesting = {}
    Watched = {t1, t2}
    Ends = FALSE
    NoOp = noOp
    Tokens = 2
    MaxCount <- MCMaxCount
    InitialCount <- MCInitialCount
    SignalCounts = {1, 2}
    CancelCounts <- MCCancelCounts
    Timeouts = {TRUE}
    MayDelete = TRUE
SYMMETRY MCThreadSymmetry
INVARIANTS
    SemaTypeOK
    CountInRange
    NoLostWakeup
    WaitingThreadsNeverOver
PROPERTIES
    ImplementsSemaphore
CHECK_DEADLOCK FALSE
