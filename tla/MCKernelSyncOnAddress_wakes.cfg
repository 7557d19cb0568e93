SPECIFICATION SyncSpec
CONSTANTS
    Threads = {t1, t2}
    Keys = {k1}
    Waiters <- MCGenerations
    Main = main
    ReadyDispatch = readyDispatch
    Ticker = ticker
    NoActor = noActor
    NoThread = noThread
    NoWait = noWait
    NoCall = noCall
    WakeLimits = {1, 2}
    PumpBatch = 1
    MaxQueue = 1
    Callers = {main, t2}
    Nesting = {}
    Watched = {t1, t2}
    Ends = FALSE
    NoOp = noOp
    Wakes = 2
    WakeCount <- MCWakeCount
    MaxGeneration <- MCMaxGeneration
INVARIANTS
    SyncTypeOK
    NoMissedWake
    NoMissedPulse
PROPERTIES
    WakeDoesItsShare
CHECK_DEADLOCK FALSE
