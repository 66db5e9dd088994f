\* Every list text of up to six characters over two names, '>', one digit and both separators.
SPECIFICATION MCSpec
CONSTANTS
    Alphabet <- MCAlphabet
    MaxLen = 6
INVARIANT
    FailedElementKept
CHECK_DEADLOCK FALSE
