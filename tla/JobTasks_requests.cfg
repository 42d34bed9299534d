\* Three requests at any time: a task is paused, resumed and taken over by the
\* other worker, or by a maintainer of one of two controllers, and its job ends.
SPECIFICATION Spec
CONSTANTS
    Workers = {w1, w2}
    Controllers = {c1, c2}
    Scheduler = s1
    Clients = {u1}
    NoProc = NoProc
    NumJobs = 1
    NumTasks = 1
    MaxTasks = 1
    Requests = {"pausing", "resuming", "terminating"}
    MaxPatches = 3
    CrashProne = {}
    MaxCrashes = 0
    MaxFaults = 0
    MaySuspect = {}
    ModulesFail = TRUE
    Patient = FALSE
SYMMETRY WorkerSymmetry
INVARIANTS
    TypeOK
    CompletedJobIsDone
    HandlerHoldsLock
    CompletedTaskIsDone
PROPERTIES
    EndedTasksStay
    TasksLiveOnce
CHECK_DEADLOCK FALSE
