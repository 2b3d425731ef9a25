CONSTANTS
    Stages <- SpeechStages
    Deps <- SpeechDeps
    MaxAttempts <- OneAttempt
    MaxDeferrals = 0
    Concurrency = 2
    Relays = {r1}
    NoRelay = NoRelay
    BatchLimit = 1
    MaxFaults = 0
SPECIFICATION Spec
INVARIANTS
    DependenciesFirst
    VerdictMatchesStages
PROPERTIES
    TerminalIsFinal
    ImplementsPipeline
CHECK_DEADLOCK FALSE
