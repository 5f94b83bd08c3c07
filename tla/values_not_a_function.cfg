SPECIFICATION Spec
CONSTANTS
    Names = {"x"}
    Functions = {}
    Sig <- MCSig
    Casts = {}
    PreOps = {}
    BinOps = {"Assign"}
    ArgCounts = {1}
    MaxNodes = 6
    MaxNest = 3
INVARIANTS
    NotAFunctionCaught
