SPECIFICATION Spec
CONSTANTS
    u1 = u1  u2 = u2  u3 = u3  l1 = l1  l2 = l2  None = None
    Users = {u1, u2, u3}
    Typists = {u1}
    EventLoop <- Loops
    MaxActs = 5
INVARIANTS ChatInv EveryoneHears ShownInOrder
SYMMETRY Perms
\* when its actions are used up nothing more happens
CHECK_DEADLOCK FALSE
