SPECIFICATION Spec
CONSTANTS
    Requests = {r1, r2}
    PromptLens = {1, 2}
    MaxNews = {3}
    MaxRunning = 2
    Modes = {"batched"}
    MaxFailures = 1
    FailingAfter = {0, 1, 2}
INVARIANTS
    CacheFollowsTokens
