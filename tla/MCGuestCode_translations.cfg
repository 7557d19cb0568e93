SPECIFICATION GuestSpec
CONSTANTS
    Threads = {t1, t2}
    p1 = p1
    p2 = p2
    Pages = {p1, p2}
    NoPage = none
    Address <- MCAddress
    L1Sizes = {1, 2}
    MinL1Entries = 1
    L1Shrinks = FALSE
    DisableL2Cache = FALSE
    MaxVersion <- MCMaxVersion
SYMMETRY Symmetry
INVARIANTS
    GuestTypeOK
    ExecutesCurrentCode
    CachesCoherent
    TrackedPagesProtected
    NoCircularWait

