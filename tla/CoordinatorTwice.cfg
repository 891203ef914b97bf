\* A session that is identified while its file runs.
SPECIFICATION Spec
CONSTANTS
    s1 = s1
    s2 = s2
    Sessions = {s1, s2}
    concurrency = 2
    maxEntries = 1
    MaxEvents = 3
    MaxFlushes = 1
    NoEntry = NoEntry
INVARIANT SessionRunsOnce
SYMMETRY MCSymmetry
CHECK_DEADLOCK FALSE
