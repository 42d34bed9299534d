\* Failing modules, two failing database calls, a crash and a request.
SPECIFICATION Spec
CONSTANTS
    Workers = {w1}
    Controllers = {c1, c2}
    Scheduler = s1
    Clients = {u1}
    NoProc = NoProc
    NumJobs = 1
    NumTasks = 1
    MaxTasks = 1
    Requests = {"pausing", "terminating"}
    MaxPatches = 1
    CrashProne = {s1, w1}
    MaxCrashes = 1
    MaxFaults = 2
    MaySuspect = {}
    ModulesFail = TRUE
    Patient = FALSE
INVARIANTS
    NoForgottenLock
CHECK_DEADLOCK FALSE
