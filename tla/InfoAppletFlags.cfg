\* Two options and two arguments of every kind.
CONSTANTS
    MaxOpts = 2
    MaxArgs = 2
    ArgKinds = {"malformed", "missing", "available", "installed", "unsatisfied"}
SPECIFICATION Spec
CHECK_DEADLOCK FALSE
INVARIANT FlagSelectsField
