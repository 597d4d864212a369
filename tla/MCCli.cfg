CONSTANTS
    ko = "ko"
    en = "en"
    a1 = a1
    a2 = a2
    Langs <- MCLangs
    Aliases <- MCAliases
    NoAliases = NoAliases
    NoFile = NoFile
    ReportSets <- OneReport
    MaxRuns = 2
SPECIFICATION Spec
CHECK_DEADLOCK FALSE
INVARIANTS
    TypeOK
    FilesBelongTogether
    RefusalsLeaveNothing
PROPERTIES
    DeliversWhatIsAsked
    EveryRunEnds
