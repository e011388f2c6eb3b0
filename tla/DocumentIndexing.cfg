SPECIFICATION Spec

CONSTANTS
    MinNativeCharacters = 2
    Files <- MCFiles
    Windows <- MCWindows
    MaxExecutions = 2
    MaxRawLength = 4

INVARIANTS
    TypeOK
    VisibleTextIsIndexed
    ChunksQuoteTheirPage
    ChunksInReadingOrder
    VectorsBelongToChunks
    FailureHasReason
