SPECIFICATION WakerSpec
CONSTANTS
    Threads = {t1}
    Keys = {s1}
    Waiters = {1}
    Main = main
    ReadyDispatch = readyDispatch
    Ticker = ticker
    NoActor = noActor
    NoThread = noThread
    NoWait = noWait
    NoCall = noCall
    WakeLimits = {1}
    PumpBatch = 1
    MaxQueue = 1
    Callers = {main}
    Nesting = {}
    Watched = {t1}
    Ends = FALSE
    NoOp = noOp
    Tokens = 1
    MaxCount <- MCMaxCount
    InitialCount <- MCInitialCount
    SignalCounts = {1}
    CancelCounts = {}
    Timeouts = {TRUE, FALSE}
    MayDelete = TRUE
PROPERTIES
    DeleteWakesWaiters
CHECK_DEADLOCK FALSE
