SPECIFICATION Spec
CONSTANTS
    Names = {"main", "f", "putchar"}
    Host = {"putchar"}
    Values = {0, 1}
    MaxGlobals = 3
INVARIANTS
    AcceptedRuns
    FirstMainRuns
    NamesMeanTheLatest
    DefinedBeforeUse
PROPERTY ImplementsOutcome
