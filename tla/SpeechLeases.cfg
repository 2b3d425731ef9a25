CONSTANTS
    Stages <- SingleStage
    Deps <- SingleDeps
    MaxAttempts <- TwoAttempts
    MaxDeferrals = 1
    Concurrency = 2
    Relays = {r1}
    NoRelay = NoRelay
    BatchLimit = 1
    MaxFaults = 1
SPECIFICATION FairSpec
INVARIANTS
    TypeOK
    StageHasItsAttempt
    OneOutputPerStage
    OneOwnerPerStage
    RetryFollowsFailure
PROPERTIES
    JobFinishes
CHECK_DEADLOCK FALSE
