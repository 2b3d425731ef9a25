CONSTANTS
    MaxAttempts = 3
    Concurrency = 2
    MaxFaults = 2
SPECIFICATION FairSpec
INVARIANTS
    QueuedHasItsEvent
    OneResult
PROPERTIES
    ImplementsPipeline
    GenerationSettles
CHECK_DEADLOCK FALSE
