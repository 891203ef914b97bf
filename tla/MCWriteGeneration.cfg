CONSTANTS
    Procs = {worker, main}
    Planner = worker
    Free = free
    NoRuntime = none
    MaxGeneration = 3
    MaxMutations = 2
    MaxPosted = 1
SPECIFICATION Spec
INVARIANTS
    TypeOK
    GenerationsAreUnique
    NoMutationUnreserved
PROPERTIES
    AcceptedScanMissesOnlyTheWriterInFlight
    BatchMissesNothing
CHECK_DEADLOCK FALSE
