SPECIFICATION GuestSpec
CONSTANTS
    Threads = {t1, t2}
    p1 = p1
    p2 = p2
    Pages = {p1, p2}
    NoPage = none
    Address <- MCAddress
    L1Sizes = {1, 2}
    MinL1Entries = 1
    L1Shrinks = TRUE
    DisableL2Cache = TRUE
    MaxVersion <- MCMaxVersion
SYMMETRY Symmetry
INVARIANTS
    CachesCoherent
