SPECIFICATION ReportSpec

CONSTANTS
    q1 = q1  q2 = q2
    u1 = u1  u2 = u2  outsider = outsider
    n1 = n1  n2 = n2  v1 = v1
    Blank = Blank
    Null = Null
    NoTask = NoTask
    Requests = {q1, q2}
    Users = {u1, u2, outsider}
    Assignable = {u1, u2}
    UserOf <- MCUserOf
    Notes = {n1, n2}
    Values = {v1}
    Patches <- MCPatches
    Missing = Missing
    MinimumConfidence = 75
    Documents <- MCDocuments
    Policy <- MCPolicy
    ExcludeCancelled = TRUE

INVARIANTS
    TypeOK
    ResolutionIsExplained
    ReportIsConsistent
    FindingsAreTraceable

PROPERTIES
    UnnamedColumnsStay
    ResolvedMovesOnlyByRace
