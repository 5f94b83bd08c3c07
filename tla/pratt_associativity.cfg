SPECIFICATION Spec
CONSTANTS
    Tokens = {"name", "Minus", "Assign"}
    MaxTokens = 9
INVARIANT AssociatesAsCommented
