SPECIFICATION Spec
CONSTANTS
    a1 = a1
    Trees = {1, 2}
    StartDetached = {2}
    Protected = {2}
    Agents = {a1}
    MaxRemovals = 1
    MaxWork = 2
    MaxActs = 3
    MaxFaults = 2
INVARIANTS NothingIsLost GuardedStays
PROPERTIES LeftoversGo
CHECK_DEADLOCK FALSE
