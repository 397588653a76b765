CONSTANTS
    MaxLineBuffer = 2
    Capacity = 2
    MaxLog = 5
    MaxEntry = 3
    ShellCapacity = 1
    ExitCodes = {0}
    MaxOutputs = 2
    MaxUnread = 2
    MaxOps = 1

SPECIFICATION MCSpec
CHECK_DEADLOCK FALSE
INVARIANTS
    LogWhole
    ShellWhole
PROPERTIES
    EndReachesReader
    CallEndSettles
