CONSTANTS
    Procs = {worker, main}
    Planner = worker
    Free = free
    NoRuntime = none
    MaxGeneration = 3
    MaxMutations = 2
    MaxPosted = 1
SPECIFICATION Spec
PROPERTY
    ReusedScanIsCurrent
CHECK_DEADLOCK FALSE
