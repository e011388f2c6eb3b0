SPECIFICATION FairSpec

CONSTANTS
    r1 = r1  r2 = r2
    w1 = w1  w2 = w2
    None = None
    Documents = {1, 2}
    Attempts = {1, 2}
    Requests = {r1, r2}
    Asks <- MCAsks
    Insurance <- MCInsurance
    Chunks <- MCChunks
    WorkspaceOf <- MCWorkspaceOf
    DefaultTopK = 2
    MaxTopK = 4
    PoolSize = 2
    MaxVersion = 1
    MaxAttempt <- MCMaxAttempt
    Bands <- MCBands
    PolicyCount = 8
    CarrierCount = 2
    DuplicatedIndices = {2, 6}
    MissingCount = 2
    Unseeded <- CrossedRows
    SeededWorkspace = w2

INVARIANTS
    TypeOK
    AnswersKeepTheWorkspace
    CompleteUnlessLimited
    CitationsShareOneResult
    SeededCasesAreFound

PROPERTY EveryRequestEnds
