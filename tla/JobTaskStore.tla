---------------------------- MODULE JobTaskStore -----------------------------
(***************************************************************************)
(* The part of the database that the processes of ease.ml share when they  *)
(* run jobs: the collections jobs, tasks and processes, with the           *)
(* operations of the data model that are one atomic database call.         *)
(* UpdateTask and UpdateJob are not among them: they read and validate a   *)
(* document first and write it later, with an update that does not repeat  *)
(* the check, so their callers take them in two steps.                     *)
(***************************************************************************)
EXTENDS Lifecycle, Integers, FiniteSets

CONSTANTS
    Workers,       \* worker processes
    Controllers,   \* controller processes
    Scheduler,     \* the scheduler process
    NoProc,        \* the null of a process field
    NumJobs,       \* bound: jobs ever created
    NumTasks,      \* bound: tasks ever created
    ModulesFail    \* may the container of a module, or docker, fail?

Jobs  == 1 .. NumJobs
Tasks == 1 .. NumTasks
Procs == Workers \cup Controllers \cup {Scheduler}
NoJob  == 0
NoTask == 0

ASSUME ProcsAssumption ==
    /\ Workers \cap Controllers = {}
    /\ Scheduler \notin Workers \cup Controllers
    /\ NoProc \notin Procs
    /\ IsFiniteSet(Workers)

ASSUME StoreAssumption ==
    /\ NumJobs \in Nat
    /\ NumTasks \in Nat
    /\ ModulesFail \in BOOLEAN

VARIABLES
    jobStatus,   \* collection jobs: status ("none": not created yet)
    jobLock,     \* collection jobs: process
    taskJob,     \* collection tasks: job (NoJob: not created yet)
    taskStatus,  \* collection tasks: status
    taskStage,   \* collection tasks: stage
    taskLock,    \* collection tasks: process
    outputs,     \* what the stages of a task have produced so far
    procStatus,  \* collection processes: status
    alive        \* is the operating system process running?

jobVars   == <<jobStatus, jobLock>>
taskVars  == <<taskJob, taskStatus, taskStage, taskLock, outputs>>
procVars  == <<procStatus, alive>>
storeVars == <<jobVars, taskVars, procVars>>

\* A training or a prediction that failed leaves only its log behind.
FailureLog == {"trainFailure", "predictFailure"}

Output == {"parameters", "predictions", "evaluations", "quality"} \cup FailureLog

\* What the runs of a task have left: the stage was run, and gave the output it
\* is run for unless its module failed.
Trained(left)   == "parameters" \in left \/ (ModulesFail /\ "trainFailure" \in left)
Predicted(left) == "predictions" \in left \/ (ModulesFail /\ "predictFailure" \in left)
Evaluated(left) == {"evaluations", "quality"} \subseteq left

StoreTypeOK ==
    /\ jobStatus \in [Jobs -> JobStatus \cup {"none"}]
    /\ jobLock \in [Jobs -> Procs \cup {NoProc}]
    /\ taskJob \in [Tasks -> Jobs \cup {NoJob}]
    /\ taskStatus \in [Tasks -> TaskStatus]
    /\ taskStage \in [Tasks -> TaskStage]
    /\ taskLock \in [Tasks -> Procs \cup {NoProc}]
    /\ outputs \in [Tasks -> SUBSET Output]
    /\ procStatus \in [Procs -> {"idle", "working", "terminated"}]
    /\ alive \in [Procs -> BOOLEAN]

StoreInit ==
    /\ jobStatus = [j \in Jobs |-> "none"]
    /\ jobLock = [j \in Jobs |-> NoProc]
    /\ taskJob = [t \in Tasks |-> NoJob]
    /\ taskStatus = [t \in Tasks |-> "scheduled"]
    /\ taskStage = [t \in Tasks |-> "begin"]
    /\ taskLock = [t \in Tasks |-> NoProc]
    /\ outputs = [t \in Tasks |-> {}]
    /\ procStatus = [p \in Procs |-> "idle"]
    /\ alive = [p \in Procs |-> TRUE]

------------------------------------------------------------------------------
(* Database operations on the task and job collections.                    *)

\* Write one field of one task.
SetTaskStatus(t, s) == taskStatus' = [taskStatus EXCEPT ![t] = s]

\* The tasks a bulk update selects.
TasksOf(j, statuses) == {t \in Tasks : taskJob[t] = j /\ taskStatus[t] \in statuses}

\* UpdateAll: one atomic write per call, whoever holds the locks.
BulkUpdate(selected, s) ==
    taskStatus' = [t \in Tasks |-> IF t \in selected THEN s ELSE taskStatus[t]]

\* Mutant of PauseRunningTasks: the selector has lost its status filter.
PauseAllTasks(j) == BulkUpdate(TasksOf(j, TaskStatus), "pausing")

PauseRunningTasks(j) ==
    BulkUpdate(TasksOf(j, {"scheduled", "running"}), "pausing")

ResumePausedTasks(j) ==
    BulkUpdate(TasksOf(j, {"pausing", "paused"}), "scheduled")

\* Mutant of TerminateRunningTasks: completed tasks are not spared.
TerminateAllTasks(j) == BulkUpdate(TasksOf(j, TaskStatus \ {"error"}), "terminating")

TerminateRunningTasks(j) ==
    BulkUpdate(TasksOf(j, {"scheduled", "running", "pausing", "paused"}), "terminating")

\* Mutant of TaskLockable: the filter on the process field is lost, as it is
\* in the branch of LockTask for users other than root.
TaskLockableByAnyone(t, status) == taskJob[t] # NoJob /\ taskStatus[t] = status

\* LockTask and LockJob: find-and-modify of the newest unlocked document with
\* the given status (they are called with no sort field and no order).
TaskLockable(t, status) ==
    /\ taskJob[t] # NoJob
    /\ taskStatus[t] = status
    /\ taskLock[t] = NoProc

LockTask(p, t, status) ==
    /\ TaskLockable(t, status)
    /\ \A u \in Tasks : TaskLockable(u, status) => u <= t
    /\ taskLock' = [taskLock EXCEPT ![t] = p]

JobLockable(j, status) == jobStatus[j] = status /\ jobLock[j] = NoProc

LockJob(p, j, status) ==
    /\ JobLockable(j, status)
    /\ \A i \in Jobs : JobLockable(i, status) => i <= j
    /\ jobLock' = [jobLock EXCEPT ![j] = p]

\* Mutant of UnlockTask: the lock is not released.
UnlockTaskForgotten(p, t) == taskLock[t] = p /\ UNCHANGED taskLock

\* UnlockTask and UnlockJob match on the holder; a miss is ErrNotFound.
UnlockTask(p, t) ==
    /\ taskLock[t] = p
    /\ taskLock' = [taskLock EXCEPT ![t] = NoProc]

UnlockJob(p, j) ==
    /\ jobLock[j] = p
    /\ jobLock' = [jobLock EXCEPT ![j] = NoProc]

\* Mutant of ReleaseTaskLockByProcess: only running tasks are released.
ReleaseRunningTasksOnly(p) ==
    taskLock' = [t \in Tasks |-> IF taskLock[t] = p /\ taskStatus[t] = "running"
                                 THEN NoProc ELSE taskLock[t]]

\* ReleaseTaskLockByProcess and ReleaseJobLockByProcess: documents in the
\* error state stay locked, and the status of the others is left as it is.
ReleaseTaskLockByProcess(p) ==
    taskLock' = [t \in Tasks |-> IF taskLock[t] = p /\ taskStatus[t] # "error"
                                 THEN NoProc ELSE taskLock[t]]

ReleaseJobLockByProcess(p) ==
    jobLock' = [j \in Jobs |-> IF jobLock[j] = p /\ jobStatus[j] # "error"
                               THEN NoProc ELSE jobLock[j]]

ScheduledTasks == {t \in Tasks : taskJob[t] # NoJob /\ taskStatus[t] = "scheduled"}

CompletedTasks(j) == TasksOf(j, {"completed"})
==============================================================================
