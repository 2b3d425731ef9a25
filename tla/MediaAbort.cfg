CONSTANTS
    Requests = {q1, q2}
    Manifests = {m1, m2, short}
    WrongSize = {short}
    None = None
    MaxTries = 1
    MaxRecoveries = 1
    Concurrency = 1
    MaxFaults = 0
SPECIFICATION Spec
PROPERTIES
    CompletionIsNotAborted
CHECK_DEADLOCK FALSE
