SPECIFICATION Spec
CONSTANTS
    Accounts = {a1}
    Requests = {r1, r2, r3}
    None = None
SYMMETRY Symmetry
INVARIANTS TypeOK LinkIsMailed
PROPERTIES OldPasswordNeverReturns SaveIsExact UploadIsStored
CHECK_DEADLOCK FALSE
