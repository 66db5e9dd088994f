\* apk_istream_gunzip: the stream opened without a multipart callback.
CONSTANTS
    Layouts <- MCLayouts
    MaxChunk = 2
    ReadSizes = {1, 2}
    HasCb = FALSE
    CbResults <- MCCbResults
    DataCbResults <- MCDataCbOk
    ZisMayFail = FALSE
    CorruptInput = FALSE
    InitMayFail = FALSE
    MaxEvents = 12
SPECIFICATION Spec
INVARIANTS
    NoNullCallback
CHECK_DEADLOCK FALSE
