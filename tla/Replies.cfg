SPECIFICATION FairSpec
CONSTANTS
    good = good
    bad = bad
    a1 = a1
    None = None
    Idle = Idle
    Admins = {a1}
    Bodies <- MCBodies
    Values = {good, bad}
    MaxPuts = 2
    Malformed = {bad}
    BatchSize = 2
    MaxAttempts = 2
    MaxMessages = 2
    MaxFaults = 2
    MaxCrashes = 1
    MaxRaises = 1
CHECK_DEADLOCK FALSE
INVARIANTS TypeOK RepetitionsAreAccounted NothingIsSkipped OvertakenOnlyAfterTrouble MemoryIsWhatWasSaid
PROPERTIES KeepsContract AnsweredWhileServiceable
