SPECIFICATION FairSpec
CONSTANTS
    u1 = u1
    u2 = u2
    s1 = s1
    s2 = s2
    m1 = m1
    m2 = m2
    d1 = d1
    d2 = d2
    stranger = stranger
    Users = {u1, u2}
    Channels = {c1, c2}
    Messages = {m1}
    Deletes = {d1}
    Sockets = {s1}
    Owner <- Owner1
    Texts <- MentionTexts
    Nobody = Nobody
CHECK_DEADLOCK FALSE
INVARIANTS
    OnlyEntitledPost
PROPERTIES
    EveryRequestEnds
