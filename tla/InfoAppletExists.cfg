\* Two options and two arguments of every kind, so -e meets a malformed argument.
CONSTANTS
    MaxOpts = 2
    MaxArgs = 2
    ArgKinds = {"malformed", "missing", "available", "installed", "unsatisfied"}
SPECIFICATION Spec
CHECK_DEADLOCK FALSE
INVARIANT ExistsCountsAll
