\* One node and one thread pool: what a text of the repository says without a condition.
SPECIFICATION Spec
CONSTANTS
    n1 = n1
    n2 = n2
    Node = {n1}
    Pool = {search}
    Breaker = {}
    Work = {}
    GcCount = GcCount
    GcTime = GcTime
    GcDuration = {}
    MaxLag = 1
    Epoch = 3
    Past <- SomePast
    MaxTime = 7
    MaxCount = 2
    MinSlack = 1
    SlackShare = 2
    RejectedCrit = 2
    BreakerCrit = 2
    GcPerHour = 1
    Hour = 3
    GcShareNum = 1
    GcShareDen = 2
    Indexing = index
    Tier <- OneTier
    SkewNum = 3
    SkewDen = 2
    MinWork = 0
INVARIANTS
    MissingStatsAreHistory
CHECK_DEADLOCK FALSE
