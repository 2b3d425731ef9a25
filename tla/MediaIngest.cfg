CONSTANTS
    Requests = {q1, q2}
    Manifests = {m1, m2, short}
    WrongSize = {short}
    None = None
    MaxTries = 2
    MaxRecoveries = 1
    Concurrency = 2
    MaxFaults = 2
SPECIFICATION Spec
INVARIANTS
    ObjectMatchesManifest
    CompletedIsStored
    VerdictIsFromScan
PROPERTIES
    ImplementsQuarantine
CHECK_DEADLOCK FALSE
