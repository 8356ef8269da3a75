SPECIFICATION ExecutorSpec
CONSTANTS
    Calls = {c1, c2}
    Verbs = {v1, v2}
    Ids = {i1, i2}
    MaxItems = 2
    MaxRuns = 3
    MaxFaults = 2
    None = None
INVARIANTS
    TwiceOnlyAfterFailure
PROPERTIES
    ExecutedIsFinal
SYMMETRY Symmetry
CHECK_DEADLOCK FALSE
