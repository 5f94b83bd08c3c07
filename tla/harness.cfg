SPECIFICATION Spec
CONSTANTS
    N = 3
    Values = {0, 1, 256}
    Expected = 1
    MaxArgs = 3
INVARIANTS
    ZeroIsSuccess
    RunnerCounts
    BatteryCounts
PROPERTY Reports
