SPECIFICATION Spec

CONSTANTS
    Documents = {d1}
    NoDocument = NoDocument
    Requests = {q1, q2, q3}
    Workers = {w1}
    MaxAttempts = 1
    MaxRedeliveries = 0
    MaxDbErrors = 0

SYMMETRY Interchangeable

PROPERTY NoDeletionWhileActive
