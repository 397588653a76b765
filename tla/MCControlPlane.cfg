SPECIFICATION MCSpec
CONSTANTS
    Budgets = {0, 4}
    Timeouts = {3}
    PollBudget = 4
    RpcTimeout = 3
    MinRpc = 2
    MaxInterval = 2
    Hints = {3}
    Slack = 6
    Late = 1
    Prompt = 1
    Tokens = {a, b, c}
    MaxPages = 3
    Horizon = 4
    Updaters = {u1, u2}
    MaxVersion = 3
    Masks = {{"deny"}, {"egress"}, {"egress", "ingress"}}
    Delays = {0, 3}
    MaxDetails = 2
    Names = {"", "*", "pypi.org", "PyPI.org", "*.pypi.org"}
    Grants = {"pypi.org", "*.pypi.org"}
    Blocks = {"10.0.0.0/8", ""}
    GoodBlocks = {"10.0.0.0/8"}
    Labels = {"app"}
    MaxRules = 2
    MaxNew = 1
    Scratch = {"v1", "v2"}
    Registered = {"r1"}
    MaxGiven = 3
    Services = {s1, s2}
    Offers = {{s1}, {s2}}
    Tls = {s1}
    Overlap = 2
    MaxAssigns = 2
    MaxAnswers = 3
    Keys = {"K", "L"}
    Stores = {"s", "t"}
    MaxSecrets = 2
    VolumeNames = {"v", "w"}
    PortNumbers = {0, 80, 443}
    MaxParts = 3
    Cap = 2
    MaxSize = 3
    Providers = {k1}
    Callers = {p1, p2}
    OwnerTags = {"team"}
    RandomTags = {"x7", "q3", "m9"}
    MaxCalls = 4
    MaxSandboxes = 2
    UrlWait = 5
    UrlPoll = 3
    UrlLate = 1
INVARIANTS
    VerdictsAgree
    RequestKept
    ProviderKept
    CreatedOnce
    WithinDeadline
    PagesOnce
    EtagHonoured
PROPERTIES
    ContentsKept
    HandleShows
    CallEnds
    ForeignRulesSurvive
CHECK_DEADLOCK FALSE
