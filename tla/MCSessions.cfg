CONSTANTS
    MaxSids = 2
    MaxProcs = 3
    MaxCalls = 2
    MaxMishaps = 3
    Codex = TRUE
    None = None
SPECIFICATION Spec
INVARIANTS
    WorkerIsSomewhere
    OneProcessPerSession
    SpawnReportsANewSession
    BriefIsInOnePlace
    RunningIsRegistered
CHECK_DEADLOCK FALSE
