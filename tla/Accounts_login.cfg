SPECIFICATION Spec
CONSTANTS
    Accounts = {a1}
    Requests = {r1, r2, r3}
    None = None
SYMMETRY Symmetry
INVARIANT CorrectCredentialsLogIn
CHECK_DEADLOCK FALSE
