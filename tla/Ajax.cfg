SPECIFICATION FairSpec
CONSTANTS
    Requests = {r1, r2}
    Options <- MCOptions
    OldBrowser = TRUE
    MaxCalls = 4
    None = None
INVARIANTS
    AjaxInv
PROPERTIES
    JsonpOwn
    TimedRequestsEnd
\* The page may have no call left and the network may never answer.
CHECK_DEADLOCK FALSE
