\* One job and nobody who interferes: two workers, the scheduler and the
\* controller, with room for more tasks than the job needs.
SPECIFICATION FairSpec
CONSTANTS
    Workers = {w1, w2}
    Controllers = {c1}
    Scheduler = s1
    Clients = {}
    NoProc = NoProc
    NumJobs = 1
    NumTasks = 3
    MaxTasks = 2
    Requests = {}
    MaxPatches = 0
    CrashProne = {}
    MaxCrashes = 0
    MaxFaults = 0
    MaySuspect = {}
    ModulesFail = FALSE
    Patient = FALSE
INVARIANTS
    ScheduleIsBounded
    CompletedJobIsDone
PROPERTIES
    EveryJobCompletes
CHECK_DEADLOCK FALSE
