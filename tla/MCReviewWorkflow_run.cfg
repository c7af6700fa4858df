SPECIFICATION FairSpec
CONSTANTS
    MaxIteration = 1
    RecursionLimit = 17
    Sharing <- BothWays
INVARIANTS
    TypeOK
    ReportIsJustified
    RowTellsOutcome
PROPERTIES
    ProgressGoesBackOnRetry
    Finishes
CHECK_DEADLOCK FALSE
