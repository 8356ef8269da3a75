SPECIFICATION Spec
CONSTANTS
    Sessions = {s1, s2}
    Jobs = {j1}
    Runs = {g1}
    MaxEnds = 1
    MaxActs = 1
    MaxFaults = 1
    Proposals = {p1}
    Deciders = {d1, d2}
    K = 1
    MaxWeek = 2
    Roots = {r1, r2}
    New = {r2}
    MaxTouches = 2
    MaxTries = 2
    MaxMishaps = 1
INVARIANTS
    NoFindingForgotten
    DecidedOnce
    ApplyAllOrNothing
PROPERTY PutOffIsRetried
CHECK_DEADLOCK FALSE
