SPECIFICATION SetupSpec
CONSTANTS
    MinBs = {1, 2, 4}
    MaxBs = {1, 4, 7, 9, 10, 11, 12}
    Wastes = {0, 10, 20, 25, 34, 50, 75}
    RopeCaps = {0, 3, 5, 8}
    ModelLimits = {4, 9}
    RunnerCap = 5
    FirstTable = 2
    MaxPosition = 10
    MaxReplays = 2
CHECK_DEADLOCK FALSE
INVARIANT
    ZeroKeepsGrowth
