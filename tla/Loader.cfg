SPECIFICATION FairSpec
CONSTANTS
    Threads = {t1, t2, t3}
    Values = {v1, v2, v3}
    NULL = NULL
    Failed = Failed
    MaxFailures = 2
INVARIANTS
    LoaderInv
PROPERTIES
    CallReturns
    ImplementsOnce
