SPECIFICATION FairSpec
CONSTANTS
    c1 = c1
    m1 = m1
    m2 = m2
    l1 = l1
    l2 = l2
    w1 = w1
    r1 = r1
    r2 = r2
    d1 = d1
    Idle = Idle
    NoLead = NoLead
    Convs = {c1}
    Messages = {m1, m2}
    ConvOf <- OneConv
    Bypass = {m2}
    Leads = {l1, l2}
    Buyers = {}
    ConvContact <- MCConvContact
    LeadContact <- MCLeadContact
    Workers = {w1}
    Requests = {r1, r2}
    Decayers = {d1}
    Threshold = 0
    MaxClock = 0
    MaxDeliveries <- FirstTwice
    MaxFaults = 1
CHECK_DEADLOCK FALSE
INVARIANTS OneTurnPerMessage
PROPERTIES  MessagesAnswered
