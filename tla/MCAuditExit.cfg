SPECIFICATION Spec
CONSTANTS
    h1 = h1
    h2 = h2
    g1 = g1
    HTTPRequests <- HTTP
    GRPCRequests <- GRPC
    Observers <- Both
    MaxFailures = 0
INVARIANTS
    AuditedAtExit
