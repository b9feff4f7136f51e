SPECIFICATION Spec
CONSTANTS
    p1 = p1
    p2 = p2
    Idle = Idle
    Publishers = {p1, p2}
    MaxVersions = 2
CHECK_DEADLOCK FALSE
INVARIANTS AtMostOneActive
