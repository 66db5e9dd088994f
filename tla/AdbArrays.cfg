\* A behaviour stops once its array or its second object is committed, or at the package bound.
SPECIFICATION MCSpec
CONSTANTS
    Alphabet <- MCAlphabet
    MaxLen = 6
INVARIANTS
    TypeOK
    NamesKept
    PkgOrderTypeOK
    SortedByCascade
    ManifestTypeOK
    DepParseTypeOK
    RoundTrip
    FieldIndexMatchesSpec
    TextSetsHonoured
PROPERTIES
    ImplementsAdbObject
CHECK_DEADLOCK FALSE
