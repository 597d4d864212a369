\* Two nodes: joins, totals and skew.  One counter stands for an operation, a
\* rejection and a trip alike: each rule reads it for itself.
SPECIFICATION Spec
CONSTANTS
    n1 = n1
    n2 = n2
    Node = {n1, n2}
    Pool = {index}
    Breaker = {index}
    Work = {index}
    GcCount = GcCount
    GcTime = GcTime
    GcDuration = {}
    MaxLag = 1
    Epoch = 2
    Past <- SomePast
    MaxTime = 5
    MaxCount = 1
    MinSlack = 1
    SlackShare = 2
    RejectedCrit = 2
    BreakerCrit = 2
    GcPerHour = 1
    Hour = 3
    GcShareNum = 1
    GcShareDen = 2
    Indexing = index
    Tier <- OneTier
    SkewNum = 3
    SkewDen = 2
    MinWork = 0
SYMMETRY NodeSymmetry
CHECK_DEADLOCK FALSE
INVARIANTS
    JoinedGrowthIsRecent
    VerdictsAreEarned
    ThroughputIsReal
