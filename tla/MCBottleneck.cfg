CONSTANTS
    Node <- MCNode
    Tier <- MCTier
    Worlds <- MCWorlds
    Pasts <- MCPasts
    Others <- MCOthers
    SubIds <- MCSubIds
    RejectedCrit = 2
    GcWarn = 1
    GcCrit = 2
    Pipeline = {"logs", "metrics"}
    IngestFailedWarn = 1
    IngestPercent = 50
    MinOps = 1
    ShortHours = 2
    MaxUp = 3
    MaxEvents = 2
SPECIFICATION BSpec
CHECK_DEADLOCK FALSE
INVARIANTS
    TypeOK
    HistoryIsNoTrouble
    SilenceOnlyHides
    ReportAgrees
