SPECIFICATION HostSpec
CONSTANTS
    Threads = {t1}
    Keys = {f1}
    Waiters <- MCHostDemands
    Main = main
    ReadyDispatch = readyDispatch
    Ticker = ticker
    NoActor = noActor
    NoThread = noThread
    NoWait = noWait
    NoCall = noCall
    WakeLimits = {1}
    PumpBatch = 1
    MaxQueue = 1
    Callers = {main, t1}
    Nesting = {t1}
    Watched = {t1}
    Ends = TRUE
    NoOp = noOp
    MayDelete = TRUE
    Timeouts = {TRUE, FALSE}
    AllBits = {1, 2}
    InitialBits <- MCInitialBits
    SetPatterns <- MCSetPatterns
    ClearMasks <- MCClearMasks
    CancelPatterns <- MCCancelPatterns
INVARIANTS
    FlagTypeOK
    NoLostSet
PROPERTIES
    HostWaitEnds
    ImplementsEventFlag
    NoSpuriousWakeup
CHECK_DEADLOCK FALSE
