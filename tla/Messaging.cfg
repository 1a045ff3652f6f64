SPECIFICATION Spec
CONSTANTS
    Users = {u1, u2}
    MessageIds = {m1}
    Calls = {c1, c2, c3, c4}
    Threshold = 2
    None = None
    MaxRequests = 3
    MaxCalls = 4
SYMMETRY Symmetry
INVARIANTS TypeOK OneRowPerParticipant NothingEscapesTheQueue
PROPERTY ChangesAreAllowed
CHECK_DEADLOCK FALSE
