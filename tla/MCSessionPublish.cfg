\* Two sessions of one title, two names, two package ids, two processes that may die.
SPECIFICATION Spec
CONSTANTS
    s1 = s1
    s2 = s2
    p1 = p1
    p2 = p2
    Sessions = {s1, s2}
    Processes = {p1, p2}
    MaxName = 2
    MaxPackage = 2
    None = None
    Torn = Torn
    Dead = Dead
SYMMETRY MCSymmetry
INVARIANTS TypeOK UnmarkedIsCommitted
PROPERTIES ContentIsKept RefusedOnlyFor
