SPECIFICATION Spec

CONSTANTS
    Alice = Alice  Bob = Bob
    c1 = c1  c2 = c2
    Users = {Alice, Bob}
    Nobody = Nobody
    Calls = {c1, c2}
    Me = Me
    MaxLogins = 2
    MaxStale = 2
    MaxFaults = 0
    MaxReloads = 0

INVARIANTS
    TypeOK
    SessionsDoNotMix

PROPERTIES
    SessionLostForAReason
SYMMETRY Symmetry
