SPECIFICATION Spec
CONSTANTS
    u1 = u1
    u2 = u2
    s1 = s1
    s2 = s2
    m1 = m1
    m2 = m2
    d1 = d1
    d2 = d2
    stranger = stranger
    Users = {u1, u2}
    Channels = {c1}
    Messages = {m1, m2}
    Deletes = {d1, d2}
    Sockets = {s1}
    Owner <- Owner1
    Texts <- RepeatText
    Nobody = Nobody
SYMMETRY Symmetry
CHECK_DEADLOCK FALSE
INVARIANTS
    TypeOK
    AnnouncedIsComplete
    CountBounded
    ViewConverges
