CONSTANTS
    w1 = w1
    w2 = w2
    Workers = {w1, w2}
    SlotIds = {s1, s2, s3, s4}
    NoSlot = NoSlot
    CapOf <- MCCapOf
    Cap = 2
    MaxRestarts = 1
SPECIFICATION Spec
SYMMETRY Symmetry
INVARIANTS
    CapKept
PROPERTIES
    BlockedByUsers
    ImplementsSemaphore
CHECK_DEADLOCK FALSE
