SPECIFICATION Spec
CONSTANTS
    Hooks = {h1}
    Events = {created}
    Procs = {p1, p2}
    MaxJobs = 2
    FailureLimit = 2
SYMMETRY Symmetry
INVARIANT DisabledOnlyAfterFailures
CHECK_DEADLOCK FALSE
