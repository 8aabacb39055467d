SPECIFICATION Spec
CONSTANTS
    Users = {u1, u2}
    Channels = {c1, c2}
    Kinds = {"public", "private"}
    Nobody = Nobody
    Requests = {r1, r2, r3}
    Nowhere = Nowhere
SYMMETRY Interchangeable
INVARIANTS
    TypeOK
    CountLedger
    FeedMatchesRoster
    PrivateOnlyCreator
PROPERTIES
    AbandonedStaysEmpty
    ImplementsRoster
