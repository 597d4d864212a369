\* One node over a long interval: a pool, a breaker, old GC, restarts at every moment.
SPECIFICATION Spec
CONSTANTS
    n1 = n1
    n2 = n2
    Node = {n1}
    Pool = {search}
    Breaker = {parent}
    Work = {}
    GcCount = GcCount
    GcTime = GcTime
    GcDuration = {1, 2}
    MaxLag = 1
    Epoch = 3
    Past <- SomePast
    MaxTime = 8
    MaxCount = 1
    MinSlack = 1
    SlackShare = 2
    RejectedCrit = 1
    BreakerCrit = 1
    GcPerHour = 1
    Hour = 3
    GcShareNum = 1
    GcShareDen = 2
    Indexing = index
    Tier <- OneTier
    SkewNum = 3
    SkewDen = 2
    MinWork = 0
CHECK_DEADLOCK FALSE
INVARIANTS
    IInv
    RestartsAreTold
    GrowthIsExact
    GcVerdictIsEarned
    TableShowsWhatHappened
