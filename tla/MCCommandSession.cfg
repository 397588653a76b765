SPECIFICATION Spec
CONSTANTS
    Limit = 1
    Sizes = {0, 2}
    LiveCapacity = 1
    ExitCodes = {0, 1}
    MaxFrames = 2
    MaxOps = 2
INVARIANTS
    OneOutcome
    ResultComplete
    StdinKept
    LeaseOutlivesCall
PROPERTIES
    CallEndSettles
CHECK_DEADLOCK FALSE
