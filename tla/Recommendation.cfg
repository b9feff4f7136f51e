SPECIFICATION FairSpec
CONSTANTS
    l1 = l1
    t1 = t1
    h1 = h1
    h2 = h2
    h3 = h3
    None = None
    Idle = Idle
    Leads = {l1}
    Turns = {t1}
    Patches <- MCPatches
    Threshold = 90
    MaxCaptures = 3
    Properties = {h1, h2, h3}
    Catalogues <- MCCatalogues
    TopN = 3
    TopK = 2
    MaxRetries = 2
    MaxFaults = 1
CHECK_DEADLOCK FALSE
INVARIANTS TypeOK CompletionToldOnce PhrasedReasonsHold RecommendsTheBest NobodyIsRefused LateInsightsWereMissed
PROPERTIES AnswersKept EveryCompletionAnswered RetriesEnd
