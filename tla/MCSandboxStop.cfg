CONSTANTS
    UserWaits = {}
    UserStops = {s1, s2}
    Tolerant = {s1}
    Inspects = {}
    Goals = {"running"}
    Ends = {"terminated", "unspecified"}
    MaxFaults = 2

SPECIFICATION FairSpec
CHECK_DEADLOCK TRUE
INVARIANT StoppedMeansEnded
INVARIANT MissingIsReal
PROPERTY NoOrphan
PROPERTY CallsEnd
