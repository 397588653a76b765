CONSTANTS
    UserWaits = {w}
    UserStops = {}
    Tolerant = {}
    Inspects = {i}
    Goals = {"running", "terminal", "completed"}
    Ends = {"completed", "terminated", "failed"}
    MaxFaults = 1

SPECIFICATION Spec
CHECK_DEADLOCK TRUE
PROPERTY ResolvedWaitMeetsTarget
