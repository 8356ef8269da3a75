CONSTANTS
    Procs = {p1, p2, p3}
    NoPid = NoPid
    p1 = p1
    p2 = p2
    p3 = p3
    MaxDeaths = 2
    Ages = TRUE
SPECIFICATION FairSpec
INVARIANTS
    Exclusive
PROPERTIES
    Settles
CHECK_DEADLOCK FALSE
