SPECIFICATION Spec
CONSTANT MaxLines = 6
INVARIANTS
    LinesAccounted
    ParsedOnce
    ParsedTogether
