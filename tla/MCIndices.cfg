CONSTANTS
    Series <- MCSeries
    Kind <- MCKind
    Owner <- MCOwner
    Primaries <- MCPrimaries
    Trait <- MCTrait
    Old = FALSE
    MaxGen = 3
    MaxSize = 3
    MaxEvents = 3
    SizeWarn = 2
    SizeCrit = 3
    SmallCount = 1
    SmallPercent = 20
    MinBacking = 1
    Target = 10
    ExcessWarn = 3
    ExcessPercent = 50
    ManyShards = 2
    MuchData = 3
    Rollover <- MCRollover
    Retention = {"logs"}
    Colder = TRUE
    MinGrowth = 1
    Packaged = {"logs"}
    OneDataNode = FALSE
    ManyFields = TRUE
SPECIFICATION Spec
CHECK_DEADLOCK FALSE
INVARIANTS
    TypeOK
    IndicesAreUnderstood
    AdviceFitsTheIndex
    MissingFilesAlarmNobody
    MountsAreNoChange
