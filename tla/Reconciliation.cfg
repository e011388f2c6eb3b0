SPECIFICATION Spec

CONSTANTS
    Documents = {d1}
    NoDocument = NoDocument
    Requests = {q1, q2}
    Attempts <- MCAttempts
    Evidences <- MCEvidences
    MaxVersion = 2
    MaxDbErrors = 1

SYMMETRY Interchangeable

INVARIANTS
    TypeOK
    SavedRunIsWhole
    AnswerMatchesRun
    SavedRunHasSource
    LinkedPagesAreCurrent

PROPERTY SavedRunIsFinal
