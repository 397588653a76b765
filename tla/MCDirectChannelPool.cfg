SPECIFICATION Spec
CONSTANTS
    k1 = k1
    k2 = k2
    Keys = {k1, k2}
    e1 = e1
    e2 = e2
    e3 = e3
    Entries = {e1, e2, e3}
    l1 = l1
    l2 = l2
    l3 = l3
    Leases = {l1, l2, l3}
    MaxIdleChannels = 1
    None = None
INVARIANTS
    ChannelsHeld
PROPERTIES
    OldestEvicted
    ImplementsLifetime
    DiscardedEventuallyClosed
CHECK_DEADLOCK FALSE
