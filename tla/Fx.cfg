SPECIFICATION FairSpec
CONSTANTS
    Elems = {e1}
    Durations = {0, 2}
    MaxItems = 3
    MaxCalls = 5
    None = None
INVARIANTS
    FxInv
    PromiseHears
PROPERTY
    EveryItemEnds
\* The page may have no call left and nothing may run.
CHECK_DEADLOCK FALSE
