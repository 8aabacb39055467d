SPECIFICATION Spec
CONSTANTS
    Environments = {"production", "development"}
    RedisClients = {main, publisher}
    MaxRequests = 3
    Sockets = {s1}
    Served <- SomeRoutes
    Callers <- SomeCallers
    MaxOf <- Few
    MaxWindow <- Windows
CHECK_DEADLOCK FALSE
INVARIANTS
    TypeOK
    HandledOnlyIfReady
    LimiterBounds
PROPERTIES
    Settles
