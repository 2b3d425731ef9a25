CONSTANTS
    MaxTries = 2
    MaxRecoveries = 1
    Concurrency = 2
    MaxFaults = 2
SPECIFICATION FairSpec
INVARIANTS
    VideoFollowsScan
    OneScanOwner
PROPERTIES
    ScanIsFinal
    ScanSettles
CHECK_DEADLOCK FALSE
