CONSTANTS
    MaxAttempts = 2
    MaxRecoveries = 1
    Concurrency = 2
    MaxFaults = 2
SPECIFICATION FairSpec
INVARIANTS
    StageFollowsAttempts
    OneResult
PROPERTIES
    ImplementsPipeline
    BudgetIsUsed
    PreparationSettles
CHECK_DEADLOCK FALSE
