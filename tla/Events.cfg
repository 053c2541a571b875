SPECIFICATION Spec
CONSTANTS
    Doc = Doc  a = a  b = b  ab = ab  Script = Script  Copy = Copy  None = None
    Elems = {a, b, Script}
    Tree <- MCTree
    Matches <- MCMatches
    Bindings <- MCBindings
    Hosts = {Doc, b}
    Targets = {b, Copy}
    Plain = {b}
    MaxCalls = 4
INVARIANTS EventsInv HandledOnce StopsForGood ScriptsOnce
\* when its calls are used up the page does nothing more
CHECK_DEADLOCK FALSE
