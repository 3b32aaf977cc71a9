SPECIFICATION Spec
CONSTANTS
    Endpoints <- MCEndpoints
    Concurrency = 3
    ServiceLimit = 2
    ActiveLimit = 2
    Failures = {"refused"}
    Selected = {"services", "http", "tls"}
INVARIANTS LimitsAreKept PassedIsWhole
PROPERTY ImplementsContract
CHECK_DEADLOCK FALSE
