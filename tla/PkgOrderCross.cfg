\* Two databases with two packages each, whose build-times may need the int32 pool.
CONSTANTS
    Dbs = {1, 2}
    Names <- MCCrossNames
    Versions <- MCCrossVersions
    Csums <- MCCrossCsums
    IntVals <- MCCrossIntVals
    MaxPkgs = 2
SPECIFICATION Spec
INVARIANTS
    CompareAcrossDbs
CHECK_DEADLOCK FALSE
