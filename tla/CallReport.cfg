SPECIFICATION FairSpec
CONSTANTS
    Services = {s1, s2}
    Callers = {c1}
    Staleness = 1
    MaxUse = 2
    MaxRound = 1
    MaxLeaves = 1
    GONE = GONE
    BLANK = BLANK
    NONE = NONE
INVARIANT
    CallReportInv
PROPERTIES
    PickIsFastest
    FailsForCause
    RoundIsThorough
    LostReportsRaced
    OldReportsGo
