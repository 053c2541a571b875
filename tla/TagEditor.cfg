SPECIFICATION Spec
CONSTANTS
    x = x  y = y  None = None
    Tags = {x, y}
    Initial <- MCInitial
    Kept = {x}
    Typed <- MCTyped
    MaxCalls = 4
INVARIANTS EditorInv QuietList
PROPERTIES KeepsWords
\* when its actions are used up the user does nothing more
CHECK_DEADLOCK FALSE
