SPECIFICATION Spec
CONSTANTS
    Threads = {t1, t2}
    Keys = {k1}
    Waiters = {w1}
    Main = main
    ReadyDispatch = readyDispatch
    Ticker = ticker
    NoActor = noActor
    NoThread = noThread
    NoWait = noWait
    NoCall = noCall
    WakeLimits = {1}
    PumpBatch = 1
    MaxQueue = 1
    Callers = {main, t2}
    Nesting = {t1}
    Watched = {t1, t2}
    Ends = TRUE
INVARIANTS
    TypeOK
    SingleExecutor
    TokenNotLost
    NoStrandedReady
    ParkedIsWakeable
    NoGuestCodeAfterTeardown
PROPERTIES
    TerminalIsFinal
