SPECIFICATION FairSpec
CONSTANTS
    r1 = r1
    r2 = r2
    Requests <- Two
    NonFinite <- One
    Restore = TRUE
    MaxErrors = 1
    MaxRestarts = 2
INVARIANTS
    SyncAckedOnDisk
    CleanExitComplete
PROPERTIES
    SavesNeverRegress
    RequestsAnswered
    EventuallySaved
    ShutdownExits
    ImplementsDurableStore
