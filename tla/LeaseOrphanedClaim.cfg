SPECIFICATION StaleSpec
CONSTANTS
    p1 = p1
    p2 = p2
    p3 = p3
    p4 = p4
    Procs = {p1, p2, p3, p4}
    Operators = {}
    MaxRounds = 1
    MaxBeats = 0
    NoDir = NoDir
    NoClaim = NoClaim
SYMMETRY StaleSymmetry
CHECK_DEADLOCK FALSE
INVARIANT HoldersKeepDirectory
