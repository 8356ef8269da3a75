SPECIFICATION Spec
CONSTANTS
    max = max  work = work  mgr1 = mgr1  mgr2 = mgr2  wrk = wrk  None = None
    Accounts <- TwoAccounts
    Default = max
    Managers = {mgr1, mgr2}
    WorkersOf <- WorkerOfM2
    Busy = {mgr1, wrk}
    MaxReset = 3  Cooldown = 2  EpisodeGap = 1  AuthWindow = 1  TakeoverGuard = 0
    MaxMishaps = 2
INVARIANTS
    LaunchesBounded
    BricksAreEarned
PROPERTIES
    FlipsAreSane
