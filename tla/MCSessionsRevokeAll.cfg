SPECIFICATION Spec
CONSTANTS
    Requests = {r1, r2, r3}
    MaxTime = 3
    AccessLife = 2
    RefreshLife = 3
    BlacklistTtl = 2
    KeyTtl = 3
SYMMETRY Interchangeable
CHECK_DEADLOCK FALSE
INVARIANT AllTokensRevoked
