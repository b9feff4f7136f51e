SPECIFICATION FairSpec
CONSTANTS
    l1 = l1
    l2 = l2
    p1 = p1
    p2 = p2
    w1 = w1
    Idle = Idle
    NoStage = NoStage
    Leads = {l1}
    Stages <- MCStages
    BadStages <- MCBadStages
    Qualified = "Qualified"
    Pollers = {p1}
    Workers = {w1}
    MaxEdits = 2
    MaxFaults = 0
CHECK_DEADLOCK FALSE
PROPERTIES MirrorConverges
