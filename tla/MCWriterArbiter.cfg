SPECIFICATION FairSpec
CONSTANTS
    m1 = m1
    m2 = m2
    w1 = w1
    MainContexts = {m1, m2}
    Workers = {w1}
    Control = control
    Slots = {1, 2}
    MaxGeneration = 3
    MaxEpoch = 1
    NoId = NoId
INVARIANTS TypeOK HolderOwnsWord
PROPERTIES GrantsAreCurrent ImplementsMutex ShutdownEndsWaiting DeadOwnerReclaimed
