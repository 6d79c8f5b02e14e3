SPECIFICATION LoadFairSpec
CONSTANTS
    Requests = {r1, r2, r3}
    PromptLens = {1}
    MaxNews = {1}
    Streamed = {r1, r2}
    Threads = {t1, t2}
    MaxLost = 1
    None = None
    Concurrencies = {1}
    Silent = {r1}
CHECK_DEADLOCK FALSE
INVARIANTS
    DeliveredInOrder
    OneGetPerRequest
    EachReportedOnce
    CountsWhatWasStreamed
PROPERTIES
    EveryClientServed
    ThreadsComeBack
    BenchmarkEnds
