SPECIFICATION FairSpec
CONSTANTS
    Callers = {c1, c2}
    NoMsg = NoMsg
    MaxCalls = 2
    MaxSpurious = 1
    MaxDiscards = 1
INVARIANTS
    SequentialUseIsSound
    ClientInv
PROPERTY
    ReturnsUnlessLost
\* Every caller may have made its calls, or hang.
CHECK_DEADLOCK FALSE
