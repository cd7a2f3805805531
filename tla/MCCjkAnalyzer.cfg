CONSTANT MaxLen = 5
SPECIFICATION Tokenize
INVARIANTS
    TokensAreExact
PROPERTIES
    Returns
\* tokenize has returned.
CHECK_DEADLOCK FALSE
