SPECIFICATION FairSpec

CONSTANTS
    Documents = {d1}
    NoDocument = NoDocument
    Requests = {q1, q2}
    Workers = {w1, w2}
    MaxAttempts = 1
    MaxRedeliveries = 2
    MaxDbErrors = 1

INVARIANTS
    MissingFileIsExplained
    OrphanFileIsExplained

PROPERTIES
    EveryAttemptEnds
