SPECIFICATION Spec
CONSTANTS
    Requests = {r1, r2, r3, r4}
    MaxTime = 4
    AccessLife = 2
    RefreshLife = 3
    BlacklistTtl = 2
    KeyTtl = 3
SYMMETRY Interchangeable
CHECK_DEADLOCK FALSE
INVARIANTS
    TypeOK
    LoggedOutRefused
    KeyOutlivesToken
    SignedOffHoldsNoKey
