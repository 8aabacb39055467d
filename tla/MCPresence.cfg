SPECIFICATION FairSpec
CONSTANTS
    u1 = u1
    u2 = u2
    s1 = s1
    s2 = s2
    Users = {u1}
    Channels = {c1, c2}
    Sockets = {s1, s2}
    Owner <- TwoTabs
    Sessions = TRUE
CHECK_DEADLOCK FALSE
INVARIANTS
    TypeOK
    RoomsMatchRoster
    ClosedHoldsNoRoom
    PresenceFollowsSocket
PROPERTIES
    ConnectSettles
