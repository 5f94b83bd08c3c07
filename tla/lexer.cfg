SPECIFICATION Spec
CONSTANTS
    Alphabet <- MCAlphabet
    Keywords <- MCKeywords
    Punctuation <- MCPunctuation
    MaxLength = 5
    Limit = 16
INVARIANTS
    TokensTile
    FailureKeepsPlace
    ReadsTheLongest
    ErrorsPoint
    NumbersAreExact
