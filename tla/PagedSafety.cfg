SPECIFICATION Spec
CONSTANTS
    Requests = {r1, r2, r3}
    NumPages = 5
    PageSize = 2
    PromptLens = {1, 4}
    MaxNews = {2, 3, 7}
    MaxRunning = 3
    PrefillBudget = 5
    RecomputeRecovery = TRUE
    ScratchPages = 1
    MaxFailures = 1
SYMMETRY Symmetry
INVARIANTS
    TypeOK
    PagesExclusive
    NoPageLeaked
    PageTableCoversDecode
    StreamExact
    OnePlace
    NoRequestLost
    FirstComeFirstServed
    EvictedComesBackFirst
    BatchWithinLimits
PROPERTY
    ImplementsLifecycle
