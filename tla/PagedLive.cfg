SPECIFICATION FairSpec
CONSTANTS
    Requests = {r1, r2, r3}
    NumPages = 4
    PageSize = 2
    PrefillBudget = 3
PROPERTY
    EveryRequestFinishes
