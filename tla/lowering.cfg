SPECIFICATION Spec
CONSTANTS
    Names = {x, y}
    NoName = NoName
    MaxSteps = 6
    MaxDepth = 3
INVARIANTS
    TypeOK
    ClosedBlocks
    FunctionsReturn
    OneExecution
    BindingsDominate
PROPERTY SourceRefinement
