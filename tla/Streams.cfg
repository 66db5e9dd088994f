\* Every URL kind, every failure point of every constructor, two files.
CONSTANTS
    Urls <- MCUrls
    FetchCodes <- MCFetchCodes
    NFiles = 2
    MaxCalls = 2
SPECIFICATION MCSpec
INVARIANTS
    TypeOK
    Owned
    NoMisuse
    OpenResultValid
    RoutedByScheme
    LossReported
    InfoTypeOK
    RepositoryListsHolders
    RinstallIfExact
\* verify_main returns, the other callers have closed their streams, info_main returns.
CHECK_DEADLOCK FALSE
