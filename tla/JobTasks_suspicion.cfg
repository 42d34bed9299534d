\* A live worker whose keepalive comes too late, on one task that another worker
\* may then take, with modules that may fail.
SPECIFICATION Spec
CONSTANTS
    Workers = {w1, w2}
    Controllers = {c1}
    Scheduler = s1
    Clients = {}
    NoProc = NoProc
    NumJobs = 1
    NumTasks = 1
    MaxTasks = 1
    Requests = {}
    MaxPatches = 0
    CrashProne = {}
    MaxCrashes = 0
    MaxFaults = 0
    MaySuspect = {w1}
    ModulesFail = TRUE
    Patient = FALSE
INVARIANTS
    StageHasOutputs
CHECK_DEADLOCK FALSE
