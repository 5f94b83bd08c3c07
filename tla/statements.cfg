SPECIFICATION Spec
CONSTANTS
    Pieces <- MCPieces
    MaxPieces = 8
INVARIANTS
    StatementsTile
    ElseNearest
    BodyStartsFresh
    WordsSplitAtStarts
    PrintedOnce
    ReadsGrammar
PROPERTY Stops
