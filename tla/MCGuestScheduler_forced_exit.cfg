SPECIFICATION ImportSpec
CONSTANTS
    Threads = {t1}
    Keys = {k1}
    Waiters = {w1}
    Main = main
    ReadyDispatch = readyDispatch
    Ticker = ticker
    NoActor = noActor
    NoThread = noThread
    NoWait = noWait
    NoCall = noCall
    WakeLimits = {1}
    PumpBatch = 1
    MaxQueue = 1
    Callers = {main, t1}
    Nesting = {}
    Watched = {t1}
    Ends = TRUE
PROPERTIES
    UnwindsAtNextImport
