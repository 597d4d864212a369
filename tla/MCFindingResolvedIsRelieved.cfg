CONSTANTS
    Node <- MCNode
    Tier <- MCTier
    Layouts <- MCLayouts
    Settings <- MCSettings
    Silent <- MCSilent
    TickHours = 336
    WarnDays = 30
    Margin = 13
    Imbalance = 15
    MaxTicks = 1
    MaxEvents = 2

SPECIFICATION Spec
CHECK_DEADLOCK FALSE

INVARIANT
    ResolvedIsRelieved
