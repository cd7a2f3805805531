\* Refuted: a word swallows the CJK characters that follow it.
CONSTANT MaxLen = 4
SPECIFICATION Tokenize
INVARIANT EveryCjkIsATerm
CHECK_DEADLOCK FALSE
