CONSTANTS
    Processing = 2
    RateLimit = 1
    Question = 1
    OrphanGrace = 1
    Repage = 1
    NudgeRepeat = 2
    IdleThreshold = 1
    BusyDeadline = 2
    Cadence = 2
    Retry = 1
    MaxHold = 2
    LaneGap = 1
    LaneBase = 1
    LaneCap = 2
    None = None
    MaxTime = 4
    MaxEvents = 3
    MaxMishaps = 1
SPECIFICATION WatchSpec
INVARIANTS
    OwedIsSaid
PROPERTIES
    NudgedOncePerRung
    NoFalseSilence
CHECK_DEADLOCK FALSE
