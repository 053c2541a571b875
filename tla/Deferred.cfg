SPECIFICATION ReadyFairSpec
CONSTANTS
    Deferreds = {d1, d2, r}
    Roots = {d1, r}
    Withheld = {r}
    ReadyList = r
    Fns = {f1, f2}
    Nothing = Nothing
    MaxCalls = 4
INVARIANTS
    ReadyInv
PROPERTIES
    ImplementsPromise
    WhenAnswers
\* The page may have no call left and nothing may run.
CHECK_DEADLOCK FALSE
