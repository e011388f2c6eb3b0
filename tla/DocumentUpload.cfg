SPECIFICATION Spec

CONSTANTS
    Documents = {d1}
    NoDocument = NoDocument
    Requests = {q1, q2}
    Workers = {w1}
    MaxAttempts = 1
    MaxRedeliveries = 0
    MaxDbErrors = 1

SYMMETRY Interchangeable

INVARIANT FailedUploadSavesNothing
