CONSTANTS
    MaxTime = 4
    MaxTurns = 3
    MaxEvents = 1
    MaxFailures = 1
    TurnEndGrace = 1
    EpisodeGrace = 1
    Lookback = 2
    RetaskGrace = 0
    LadderBase = 1
    LadderCap = 2
    LadderTTL = 2
    LimitedTTL = 0
SPECIFICATION FairSpec
INVARIANTS
    PagedOnce
PROPERTIES
    PagesBackOff
    QuietFinishIsPaged
CHECK_DEADLOCK FALSE
