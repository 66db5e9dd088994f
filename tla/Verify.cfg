\* Callbacks may succeed, cancel or fail; zis may fail; input may be corrupt;
\* inflateInit2 may run out of memory between members.  Two files for verify_main.
CONSTANTS
    Layouts <- MCLayouts
    MaxChunk = 3
    ReadSizes = {1, 2, 3}
    HasCb = TRUE
    CbResults <- MCCbResults
    DataCbResults <- MCDataCbAny
    ZisMayFail = TRUE
    CorruptInput = TRUE
    InitMayFail = TRUE
    MaxEvents = 12
    NFiles = 2
    Tamperings <- MCTamperings
SPECIFICATION MCSpec
INVARIANTS
    TypeOK
    SectionsMatchMembers
    StopIsFinal
    EndAtEof
    VerifyTypeOK
    NoFalseReject
PROPERTIES
    BoundaryAfterReturn
    StreamTerminates
    VerifyTerminates
\* verify_main returns after the last file.
CHECK_DEADLOCK FALSE
