SPECIFICATION Spec
CONSTANT MaxLines = 4
INVARIANT BlankCommitsAndParses
