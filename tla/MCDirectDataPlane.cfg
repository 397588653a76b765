SPECIFICATION Spec
CONSTANTS
    s1 = s1
    s2 = s2
    c1 = c1
    c2 = c2
    o1 = o1
    o2 = o2
    k1 = k1
    k2 = k2
    e1 = e1
    e2 = e2
    None = None
    Sandboxes = {s1, s2}
    States = {o1, o2}
    Keys = {k1, k2}
    Entries = {e1, e2}
    Callers = {c1, c2}
    MaxSandboxStates = 1
    MaxIdleChannels = 1
    MaxRetries = 1
INVARIANTS
    PooledIsCurrent
    StatesShared
PROPERTIES
    AcquireEnds
CHECK_DEADLOCK FALSE
