SPECIFICATION Spec
CONSTANTS
    N = 2
    Values = {0, 1}
    Expected = 1
    MaxArgs = 0
INVARIANT PassedAsExpected
