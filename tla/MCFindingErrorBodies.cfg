CONSTANTS
    Rules <- FiveRules
    DeltaRules <- MCDeltaRules
    Category <- MCCategory
    Requires <- MCRequires
    CoreFiles <- MCCoreFiles
    Inputs <- ErrorBodyInputs

SPECIFICATION Spec
CHECK_DEADLOCK FALSE

INVARIANT
    ErrorBodiesResolveNothing
