SPECIFICATION Spec
CONSTANTS
    Limit = 1
    Sizes = {2}
    LiveCapacity = 1
    ExitCodes = {0}
    MaxFrames = 1
    MaxOps = 1
INVARIANTS
    CancelEndsCall
CHECK_DEADLOCK FALSE
