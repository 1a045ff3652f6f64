SPECIFICATION Spec
CONSTANTS
    Ids = {t1}
    Editors = {e1, e2}
    PatchStatuses = {RECEIVED, REJECTED}
SYMMETRY Symmetry
INVARIANTS TypeOK ColumnsAgree ToldIsStored
PROPERTY OnlySyncConfirmsFailed
CHECK_DEADLOCK FALSE
