SPECIFICATION Spec
CONSTANTS
    Requests = {r1, r2, r3}
    NumPages = 7
    PageSize = 3
    PromptLens = {1, 2, 4}
    MaxNews = {3}
    MaxRunning = 3
    Kernels = {"flash_attn", "cuda_graph", "flashinfer"}
    Reorders = {TRUE, FALSE}
    BatchSizes = {1, 3}
    MaxPagesPerSeq = 3
    RopeCacheCap = 4
    MaxFailures = 1
CHECK_DEADLOCK FALSE
INVARIANTS
    PagesHoldSequence
    SampledFromOwnSequence
    DummyRowsAreSafe
PROPERTY
    WritesStayInBatch
