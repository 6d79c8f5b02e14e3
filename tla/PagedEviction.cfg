SPECIFICATION Spec
CONSTANTS
    Requests = {r1, r2}
    NumPages = 3
    PageSize = 2
    PromptLens = {1}
    MaxNews = {3}
    MaxRunning = 2
    PrefillBudget = 0
    RecomputeRecovery = TRUE
    ScratchPages = 0
    MaxFailures = 0
PROPERTY
    EvictionRetriesHead
