\* Two sessions, so four keys, one run at a time, one key per flush.
SPECIFICATION FairSpec
CONSTANTS
    s1 = s1
    s2 = s2
    Sessions = {s1, s2}
    concurrency = 1
    maxEntries = 1
    MaxEvents = 3
    MaxFlushes = 2
    NoEntry = NoEntry
INVARIANTS
    TypeOK
    OnePlace
    TargetsAreForced
    RoundRobin
PROPERTY NoEventDropped EventsSynchronized FlushesResolve
CHECK_DEADLOCK FALSE
