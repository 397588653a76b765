SPECIFICATION MCSpec
CONSTANTS
    None = None
    Ops = {"exec", "read", "write", "readStream", "writeStream"}
    Timeouts = {1, 5}
    Hints = {0, 1, 4}
    MaxDelay = 3
    MinAttempt = 2
    GatewayMin = 1
    MaxAttempts = 3
    LeaseBudget = 1
    MaxLate = 2
    Chunks = 2
    MaxChunks = 4
    OutCapacity = 2
    CheckMin = 2
    Workers = {w1, w2}
    Files = 3
    Sizes = {1, 2, 3, 5}
    DefaultCap = 2
    ServerCaps = {1, 2, 3}
    MaxStream = 4
INVARIANTS
    AppliedOnce
    WithinBudget
    ChunksOnce
    FilesWhole
PROPERTIES
    OperationEnds
    FailureSettles
CHECK_DEADLOCK FALSE
