SPECIFICATION Spec
CONSTANTS
    Tokens = {"name", "(", ")", "[", "]", ",", "@", "Dot", "Star", "Minus", "Assign", "PlusPlus"}
    MaxTokens = 7
INVARIANTS
    TextsTile
    Precedence
    SplitsAtWeakest
PROPERTIES
    Progress
    ImplementsExtent
