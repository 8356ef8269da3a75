SPECIFICATION FairRetask
CONSTANTS
    NTasks = 2
    MaxTime = 2
    Grace = 1
INVARIANTS
    BusyWaitIsFresh
    EpisodeIsCurrent
PROPERTIES
    WaitComesBack
CHECK_DEADLOCK FALSE
