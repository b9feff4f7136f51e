SPECIFICATION Spec
CONSTANTS
    good = good
    bad = bad
    a1 = a1
    None = None
    Idle = Idle
    Admins = {a1}
    Bodies <- MCMalformedBodies
    Values = {good, bad}
    MaxPuts = 1
    Malformed = {bad}
    BatchSize = 2
    MaxAttempts = 2
    MaxMessages = 2
    MaxFaults = 2
    MaxCrashes = 1
    MaxRaises = 2
CHECK_DEADLOCK FALSE
INVARIANTS SidebarNeverRepeatsTurn
