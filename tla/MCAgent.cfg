SPECIFICATION PollingSpec
CONSTANTS
    RateLimit = 2
    MaxPolls = 2
    MaxExtra = 1
    MaxReports = 3
INVARIANTS
    SnapshotConsistent
    NoBatchLost
    ShutdownOrder
    DrainedAtStop
    FinalFlushIsFresh
PROPERTIES
    ImplementsDelivery
    PollingContinues
