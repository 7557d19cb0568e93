SPECIFICATION FairMutexSpec
CONSTANTS
    Threads = {t1, t2, t3}
    WriterSlots = 4
    ReaderSlots = 4
INVARIANTS
    MutexTypeOK
    WordExact
    MutualExclusion
    NoLostWake
PROPERTIES
    ImplementsLock
    WriterGetsIn
    ReadersGetIn
