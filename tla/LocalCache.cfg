SPECIFICATION FairSpec
CONSTANTS
    Keys = {k1, k2}
    Values = {v1, v2}
    Threads = {t1, t2}
    Survivals = {1, 2}
    MaxTime = 2
    ClockMayStepBack = TRUE
    NULL = NULL
INVARIANTS
    CacheInv
PROPERTIES
    FindAllSound
    SweepIsThorough
    ExpiredIsEvicted
    SweepTerminates
