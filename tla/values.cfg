SPECIFICATION MCSpec
CONSTANTS
    Names = {"x", "p", "f", "g"}
    Functions = {"f", "g"}
    Sig <- MCSig
    Casts = {"int", "bool", "int*", "bool*"}
    PreOps = {"BitAnd", "Star", "Not", "Minus", "Plus", "Other"}
    BinOps = {"Arith", "Compare", "Logic", "Assign", "Other"}
    ArgCounts = {0, 1, 2}
    MaxNodes = 13
    MaxNest = 3
    MaxShort = 6
    Locale <- MCLocale
INVARIANTS
    TagsTrue
    PointersAreSet
    TypesHold
