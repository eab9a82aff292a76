SPECIFICATION FairSpec
CONSTANTS
    Delays = 3
    MaxCalls = 2
INVARIANTS
    OkMeansApplied
    DuplicatesNeedTimeouts
PROPERTIES
    StaleOnlyIfAbandoned
    CallsReturn
