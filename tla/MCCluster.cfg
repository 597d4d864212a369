CONSTANTS
    Worlds <- MCWorlds
    MaxReplicas = 2
    MaxVersion = 2
    MaxEvents = 3
    Legacy = 1
    Balancing = 2
    DedicatedFrom = 3
    MaxPerNode = 2
    CapacityWarn = 50
    CapacityCrit = 90
    PerHeapWarn = 1
    PerHeapCrit = 2
    BalanceMin = 1
    WriteSkewMin = 1
    WriteSkewWarn = 50
SPECIFICATION Spec
CHECK_DEADLOCK FALSE
INVARIANTS
    IInv
    AccountsAgree
    TopologyIsJudged
    PlacementIsExplained
