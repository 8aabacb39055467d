SPECIFICATION Spec
CONSTANTS
    Requests = {r1, r2, r3}
    Roles = {"user", "moderator"}
    BaseLimit = 1
    Window = 2
    SkipSuccessful = TRUE
    MaxTime = 4
SYMMETRY Interchangeable
CHECK_DEADLOCK FALSE
INVARIANTS
    TypeOK
    AtMostLimit
    CounterExpires
PROPERTIES
    WindowFixed
