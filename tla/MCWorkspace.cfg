SPECIFICATION Spec
CONSTANTS
    Users = {u1, u2}
    NoOne = NoOne
    Emojis = {like}
    MaxJobs = 3
    Readers = {c1}
    Backlog = 3
    PageSize = 2
    Limits = {1, 2, 3}
    Members = {u1, u2}
    Nobody = Nobody
    Statuses = {"todo", "done"}
    Bodies <- SomeRows
    MaxOrders = 3
SYMMETRY Symmetry
CHECK_DEADLOCK FALSE
INVARIANTS
    TypeOK
    UpdatesStand
    PagesCover
    TasksAgree
