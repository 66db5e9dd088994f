CONSTANTS
    Alphabet <- MCAlphabet
    MaxLen = 5
SPECIFICATION Spec
INVARIANTS
    ConflictKept
