SPECIFICATION FairSpec
CONSTANTS
    e1 = e1
    e2 = e2
    e3 = e3
    w1 = w1
    w2 = w2
    NoRow = NoRow
    Events = {e1, e2, e3}
    Workers = {w1, w2}
    EventTypes <- MCEventTypes
    Consumers <- MCConsumers
    Handlers <- MCHandlers
    EventType <- MCEventType
    OccurredAt <- MCOccurredAt
    Poison <- PoisonedTurn
    BatchSize = 2
    MaxAttempts = 1
    MaxCrashes = 1
    MaxDeaths = 1
    MaxLateRaises = 1
CHECK_DEADLOCK FALSE
INVARIANTS TypeOK ProcessedWasHandled RepeatsNeedIncidents RegistrationOrder
PROPERTIES ImplementsContract HealthyEventsProcessed
