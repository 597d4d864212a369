CONSTANTS
    Rules <- FiveRules
    DeltaRules <- MCDeltaRules
    Category <- MCCategory
    Requires <- MCRequires
    CoreFiles <- MCCoreFiles
    Inputs <- MCInputs
SPECIFICATION Spec
CHECK_DEADLOCK FALSE
INVARIANTS
    TypeOK
    ChangesAreTold
    NoProblemIsLost
    BaseIsRight
    IntervalsFitTheBase
    ConclusionsAgree
