\* One process crashes, and one controller stays up; a user asks again only when
\* the job has settled.
SPECIFICATION FairSpec
CONSTANTS
    Workers = {w1}
    Controllers = {c1, c2}
    Scheduler = s1
    Clients = {u1}
    NoProc = NoProc
    NumJobs = 1
    NumTasks = 1
    MaxTasks = 1
    Requests = {"pausing", "resuming"}
    MaxPatches = 2
    CrashProne = {w1, c2}
    MaxCrashes = 1
    MaxFaults = 0
    MaySuspect = {}
    ModulesFail = FALSE
    Patient = TRUE
PROPERTIES
    JobsSettle
    DeadLocksReleased
CHECK_DEADLOCK FALSE
