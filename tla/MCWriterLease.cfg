SPECIFICATION FairSpec
CONSTANTS
    p1 = p1
    p2 = p2
    p3 = p3
    p4 = p4
    Procs = {p1, p2, p3}
    Operators = {p3}
    MaxRounds = 1
    MaxBeats = 1
    NoDir = NoDir
    NoClaim = NoClaim
CHECK_DEADLOCK FALSE
INVARIANTS TypeOK KeptUnlessBreached
PROPERTIES MutexUnlessBreached OnlyDeadQuarantined DeadOwnerRecovered
