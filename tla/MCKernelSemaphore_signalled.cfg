SPECIFICATION WakerSpec
CONSTANTS
    Threads = {t1, t2}
    Keys = {s1}
    Waiters = {1}
    Main = main
    ReadyDispatch = readyDispatch
    Ticker = ticker
    NoActor = noActor
    NoThread = noThread
    NoWait = noWait
    NoCall = noCall
    WakeLimits = {2}
    PumpBatch = 1
    MaxQueue = 1
    Callers = {main, t2}
    Nesting = {}
    Watched = {t1}
    Ends = FALSE
    NoOp = noOp
    Tokens = 1
    MaxCount <- MCMaxCount
    InitialCount <- MCInitialCount
    SignalCounts = {1}
    CancelCounts = {}
    Timeouts = {TRUE}
    MayDelete = FALSE
INVARIANTS
    NoLostWakeup
    WaitingThreadsExact
PROPERTIES
    SignalledWaiterRuns
CHECK_DEADLOCK FALSE
