SPECIFICATION Spec
CONSTANTS
    p1 = p1
    p2 = p2
    Producers = {p1, p2}
    c1 = c1
    c2 = c2
    Calls = {c1, c2}
    Capacity = 2
    MaxPushes = 3
INVARIANT StreamWhole
PROPERTY PushReturns
CHECK_DEADLOCK FALSE
