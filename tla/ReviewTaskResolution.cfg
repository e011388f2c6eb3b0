SPECIFICATION Spec

CONSTANTS
    q1 = q1  q2 = q2  q3 = q3
    u1 = u1  u2 = u2  outsider = outsider
    n1 = n1  n2 = n2  v1 = v1
    Blank = Blank
    Null = Null
    NoTask = NoTask
    Requests = {q1, q2, q3}
    Users = {u1, u2, outsider}
    Assignable = {u1, u2}
    UserOf <- MCUserOf
    Notes = {n1, n2}
    Values = {v1}
    Patches <- MCPatches

PROPERTY ResolvedStatusIsFinal
