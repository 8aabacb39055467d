SPECIFICATION Spec
CONSTANTS
    a1 = a1
    a2 = a2
    e1 = e1
    e2 = e2
    n1 = n1
    n2 = n2
    p1 = p1
    p2 = p2
    r1 = r1
    r2 = r2
    r3 = r3
    Rows = {a1}
    Seeded = {a1}
    SeedEmail <- SeedEmails
    SeedName <- SeedNames
    SeedPassword = p1
    Emails = {e1}
    Names = {n1}
    Passwords = {p1, p2}
    Requests = {r1, r2}
    MaxAttempts = 2
    LockTime = 1
    ResetTtl = 1
    VerifyTtl = 1
    MaxTime = 1
    Bodies <- Removals
    Nobody = Nobody
CHECK_DEADLOCK FALSE
INVARIANT NewPasswordOpens
