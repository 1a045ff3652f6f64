SPECIFICATION Spec
CONSTANTS
    Users = {u1, u2}
    Tokens = {t1}
    Clients = {c1, c2}
    Procs = {p1}
    MaxDevices = 3
    MaxNotes = 1
    None = None
SYMMETRY Symmetry
INVARIANTS TypeOK TokenActiveOnce PushesFollowTokens CompletedTriedAll
CHECK_DEADLOCK FALSE
