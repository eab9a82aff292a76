SPECIFICATION PipelineSpec
CHECK_DEADLOCK FALSE
CONSTANTS
    RateLimit = 1
    MaxPolls = 2
    MaxExtra = 0
    MaxReports = 1
    Retries = 1
INVARIANTS
    FinalSnapshotArrives
PROPERTIES
    ServerAdvances
    ShutdownCompletes
