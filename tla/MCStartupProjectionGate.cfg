\* One request at a time of an input that changes, one switch of the root.
SPECIFICATION Spec
CONSTANTS
    q1 = q1
    q2 = q2
    c1 = c1
    c2 = c2
    Requests = {q1}
    Contents = {c1, c2}
    MaxEpoch = 1
    None = None
SYMMETRY MCSymmetry
INVARIANTS TypeOK EveryWaiterHasOnePlace QuietIsCurrent
