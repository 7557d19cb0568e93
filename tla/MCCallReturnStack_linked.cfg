SPECIFICATION StackSpec
CONSTANTS
    Threads = {t1, t2}
    Pages = {p1}
    NoPage = none
    Address <- MCAddress
    L1Sizes = {1}
    MinL1Entries = 1
    L1Shrinks = FALSE
    DisableL2Cache = TRUE
    MaxVersion <- MCMaxVersion
SYMMETRY Symmetry
INVARIANT
    ShadowStackValid
