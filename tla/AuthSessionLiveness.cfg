SPECIFICATION FairSpec

CONSTANTS
    Alice = Alice  Bob = Bob
    c1 = c1  c2 = c2
    Users = {Alice}
    Nobody = Nobody
    Calls = {c1, c2}
    Me = Me
    MaxLogins = 1
    MaxStale = 1
    MaxFaults = 1
    MaxReloads = 1

PROPERTIES
    EveryCallSettles

\* Deadlock is checked by AuthSession.cfg; here the page may be left alone, and a
\* call that hangs is for the property to find.
CHECK_DEADLOCK FALSE
