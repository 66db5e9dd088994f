\* Two options, so an action option can be followed by a field option.
CONSTANTS
    MaxOpts = 2
    MaxArgs = 2
    ArgKinds = {"malformed", "missing", "available", "installed", "unsatisfied"}
SPECIFICATION Spec
CHECK_DEADLOCK FALSE
INVARIANT ActionOptionHonoured
