SPECIFICATION FairSpec
CONSTANTS
    Requests = {r1, r2, r3}
    PromptLens = {1, 2}
    MaxNews = {3}
    MaxRunning = 2
    Modes = {"batched", "baseline"}
    MaxFailures = 1
    FailingAfter = {0}
INVARIANTS
    TypeOK
    AttendsOwnSequence
    NoRequestLost
    FirstComeFirstServed
    BatchWithinLimits
PROPERTIES
    AdvanceTogether
    ImplementsLifecycle
    EveryRequestFinishes
