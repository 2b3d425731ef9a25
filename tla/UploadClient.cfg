CONSTANTS
    Runs = {r1, r2}
    Projects = {1, 2, 3, 4, 5}
    PartCount = 4
    BatchSize = 3
    Concurrency = 2
    None = None
    MaxFaults = 3
SPECIFICATION FairSpec
INVARIANTS
    CheckpointIsTrue
    ProjectsAreAccounted
PROPERTIES
    UploadFinishes
CHECK_DEADLOCK FALSE
