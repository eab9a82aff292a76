SPECIFICATION HandlersSpec
CONSTANTS
    h1 = h1
    h2 = h2
    g1 = g1
    HTTPRequests <- HTTP
    GRPCRequests <- GRPC
    Observers <- Both
    MaxFailures = 1
    Scenarios <- Bodies
    Half = 8
    None = None
INVARIANTS
    StoreMatchesLog
    AnswerIncludesUpdate
    LoadRestores
PROPERTIES
    EveryObserverTried
    ResponseNotBlocked
