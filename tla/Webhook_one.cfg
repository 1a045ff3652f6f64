SPECIFICATION FairSpec
CONSTANTS
    Hooks = {h1, h2}
    Events = {created}
    Procs = {p1}
    MaxJobs = 2
    FailureLimit = 2
INVARIANTS TypeOK OneInstanceIsExact
PROPERTY EveryJobEnds
CHECK_DEADLOCK FALSE
