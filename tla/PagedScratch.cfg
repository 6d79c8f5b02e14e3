SPECIFICATION FairSpec
CONSTANTS
    Requests = {r1, r2}
    NumPages = 3
    PageSize = 2
    PromptLens = {1, 2}
    MaxNews = {2, 4}
    MaxRunning = 2
    PrefillBudget = 0
    RecomputeRecovery = FALSE
    ScratchPages = 1
    MaxFailures = 0
PROPERTY
    EveryRequestFinishes
