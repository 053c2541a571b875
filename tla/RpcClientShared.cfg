SPECIFICATION Spec
CONSTANTS
    Callers = {c1, c2}
    NoMsg = NoMsg
    MaxCalls = 1
    MaxSpurious = 0
    MaxDiscards = 0
INVARIANT
    ResultForRequestedId
\* Every caller may have made its calls, or hang.
CHECK_DEADLOCK FALSE
