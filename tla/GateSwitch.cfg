\* A root switch while an initialization is in flight.
SPECIFICATION Spec
CONSTANTS
    q1 = q1
    q2 = q2
    c1 = c1
    c2 = c2
    Requests = {q1}
    Contents = {c1}
    MaxEpoch = 1
    None = None
PROPERTY SwitchMigratesProjections
CHECK_DEADLOCK FALSE
