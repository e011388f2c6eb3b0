SPECIFICATION Spec

CONSTANTS
    Documents = {d1}
    NoDocument = NoDocument
    Requests = {q1, q2, q3}
    Workers = {w1, w2}
    MaxAttempts = 2
    MaxRedeliveries = 1
    MaxDbErrors = 0

SYMMETRY Interchangeable

INVARIANTS
    TypeOK
    NoAttemptCollision
    CompletedRunHasPages
    StatusBackedByRuns
    NothingOutlivesDocument
    ActiveRunIsNotLost
    RemovedForGood

PROPERTIES
    CompletedRunIsStable
    ImplementsPublication
