SPECIFICATION FairSpec
CONSTANTS
    h1 = h1
    h2 = h2
    h3 = h3
    a = a
    b = b
    Free = Free
    Handlers <- HandlersDef
    Rows <- RowsDef
    Batch <- BatchDef
    Singles <- SinglesDef
    MaxOpenConns = 2
    Delays = 3
    MaxFaults = 4
INVARIANTS
    BatchAtomic
    OkMeansCommitted
    DuplicatesNeedAmbiguity
    ReadsOwnWrite
PROPERTIES
    RequestsAnswered
CHECK_DEADLOCK FALSE
