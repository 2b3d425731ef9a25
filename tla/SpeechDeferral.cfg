CONSTANTS
    Stages <- SingleStage
    Deps <- SingleDeps
    MaxAttempts <- TwoAttempts
    MaxDeferrals = 1
    Concurrency = 1
    Relays = {r1}
    NoRelay = NoRelay
    BatchLimit = 1
    MaxFaults = 0
SPECIFICATION Spec
PROPERTIES
    DeferralReturnsAttempt
CHECK_DEADLOCK FALSE
