------------------------------ MODULE JobTasks -------------------------------
(***************************************************************************)
(* Jobs, their tasks, and all the processes that work on them: the         *)
(* composition of the worker, the controller's maintainers and reaper, the *)
(* scheduler and the users of the API over one database, with crashes and  *)
(* failing database calls.                                                 *)
(***************************************************************************)
EXTENDS TaskRunner, StatusMaintainers, Reaper, OptimizerRunner, JobsApi

CONSTANTS
    CrashProne,    \* processes that may crash
    MaxCrashes,    \* bound: crashes
    MaxFaults      \* bound: failed database calls

ASSUME EnvironmentAssumption ==
    /\ CrashProne \subseteq Procs
    /\ MaxCrashes \in Nat
    /\ MaxFaults \in Nat

VARIABLES crashes, faults   \* how much of each bound is used

envVars == <<crashes, faults>>
vars == <<storeVars, workerVars, maintVars, reaping, schedVars, clientVars, envVars>>

TypeOK ==
    /\ StoreTypeOK /\ WorkerTypeOK /\ MaintainerTypeOK /\ ReaperTypeOK
    /\ SchedulerTypeOK /\ ClientTypeOK
    /\ crashes \in 0 .. MaxCrashes
    /\ faults \in 0 .. MaxFaults

Init ==
    /\ StoreInit /\ WorkerInit /\ MaintainerInit /\ ReaperInit
    /\ SchedulerInit /\ ClientInit
    /\ crashes = 0 /\ faults = 0

------------------------------------------------------------------------------
(* A step of one component leaves the local state of the others alone.     *)

WorkerAct(w) ==
    WorkerStep(w) /\ UNCHANGED <<maintVars, reaping, schedVars, clientVars, envVars>>

MaintainerFrame == UNCHANGED <<workerVars, reaping, schedVars, clientVars, envVars>>

MaintainerAct(c) == MaintainerStep(c) /\ MaintainerFrame

ReaperAct(c) ==
    ReaperStep(c) /\ UNCHANGED <<workerVars, maintVars, schedVars, clientVars, envVars>>

SchedulerAct ==
    SchedulerStep /\ UNCHANGED <<workerVars, maintVars, reaping, clientVars, envVars>>

ClientFrame == UNCHANGED <<workerVars, maintVars, reaping, schedVars, envVars>>

ClientAct == ClientStep /\ ClientFrame

------------------------------------------------------------------------------
(* The environment: crashes and failed database calls.                     *)

CrashWorker(w) ==
    /\ w \in CrashProne /\ crashes < MaxCrashes
    /\ WorkerCrash(w)
    /\ crashes' = crashes + 1
    /\ UNCHANGED <<maintVars, reaping, schedVars, clientVars, faults>>

CrashController(c) ==
    /\ c \in CrashProne /\ crashes < MaxCrashes
    /\ alive[c]
    /\ alive' = [alive EXCEPT ![c] = FALSE]
    /\ StopMaintainers(c)
    /\ reaping' = [reaping EXCEPT ![c] = NotReaping]
    /\ crashes' = crashes + 1
    /\ UNCHANGED <<jobVars, taskVars, procStatus, workerVars, schedVars, clientVars, faults>>

CrashScheduler ==
    /\ Scheduler \in CrashProne /\ crashes < MaxCrashes
    /\ SchedulerCrash
    /\ crashes' = crashes + 1
    /\ UNCHANGED <<workerVars, maintVars, reaping, clientVars, faults>>

Crash ==
    \/ \E w \in Workers : CrashWorker(w)
    \/ \E c \in Controllers : CrashController(c)
    \/ CrashScheduler

WorkerFault(w) ==
    /\ WorkerCallFails(w) \/ WorkerLockFails(w)
    /\ UNCHANGED <<maintVars, reaping, schedVars>>

MaintainerFault(c) ==
    /\ \/ \E j \in Jobs : JobCallFails(c, j)
       \/ \E t \in Tasks : TaskCallFails(c, t)
    /\ UNCHANGED <<workerVars, reaping, schedVars>>

ReaperFault(c) == ReleaseFails(c) /\ UNCHANGED <<workerVars, maintVars, schedVars>>

SchedulerFault == SchedulerCallFails /\ UNCHANGED <<workerVars, maintVars, reaping>>

Fault ==
    /\ faults < MaxFaults
    /\ faults' = faults + 1
    /\ \/ \E w \in Workers : WorkerFault(w)
       \/ \E c \in Controllers : MaintainerFault(c) \/ ReaperFault(c)
       \/ SchedulerFault
    /\ UNCHANGED <<clientVars, crashes>>

------------------------------------------------------------------------------
Next ==
    \/ \E w \in Workers : WorkerAct(w)
    \/ \E c \in Controllers : MaintainerAct(c) \/ ReaperAct(c)
    \/ SchedulerAct
    \/ ClientAct
    \/ Crash
    \/ Fault

Spec == Init /\ [][Next]_vars

(***************************************************************************)
(* Every process that runs keeps running: its loops poll for ever and no   *)
(* call waits for another process.  A request that was validated is also   *)
(* written.  Users, crashes and faults are under no obligation.            *)
(***************************************************************************)
Fairness ==
    /\ \A w \in Workers : WF_vars(WorkerAct(w))
    /\ WF_vars(SchedulerAct)
    /\ \A c \in Controllers :
          /\ \A kind \in JobTransient :
                WF_vars(\E j \in Jobs : MaintainJob(c, j, kind) /\ MaintainerFrame)
          /\ \A kind \in {"pausing", "terminating"} :
                WF_vars(\E t \in Tasks : MaintainTask(c, t, kind) /\ MaintainerFrame)
          /\ \A j \in Jobs : WF_vars(JobMaintainerStep(c, j) /\ MaintainerFrame)
          /\ \A t \in Tasks : WF_vars(TaskMaintainerStep(c, t) /\ MaintainerFrame)
          /\ WF_vars(ReaperAct(c))
    /\ \A u \in Clients : WF_vars(PatchWrite(u) /\ ClientFrame)

FairSpec == Spec /\ Fairness

------------------------------------------------------------------------------
(* Properties.                                                             *)

\* A task is handled by the process named in its process field and by no
\* other: a live worker inside TaskRunWorker, and a maintainer goroutine of a
\* live controller, hold the lock of the task they work on.  This is what
\* keeps two processes from training the same task.
HandlerHoldsLock ==
    /\ \A w \in Workers : cur[w] # NoTask => taskLock[cur[w]] = w
    /\ \A c \in Controllers, t \in Tasks : tm[c][t] # NoGoroutine => taskLock[t] = c
    /\ \A c \in Controllers, j \in Jobs : jm[c][j] # NoGoroutine => jobLock[j] = c

\* A lock held by a live process is held for work in progress, or marks a
\* failed task: no return path of a worker or a maintainer forgets a lock.
NoForgottenLock ==
    \A p \in Procs : alive[p] =>
       /\ \A t \in Tasks : taskLock[t] = p =>
             \/ taskStatus[t] = "error"
             \/ p \in Workers /\ cur[p] = t
             \/ p \in Controllers /\ tm[p][t] # NoGoroutine
       /\ \A j \in Jobs : jobLock[j] = p => p \in Controllers /\ jm[p][j] # NoGoroutine

\* The stage recorded in the database never runs ahead of the work: a task that
\* is picked up again after a pause was run through every stage that is skipped,
\* and has the outputs of these stages unless the container of one failed.  The
\* worker is not told when a training or a prediction fails, so then the stage
\* advances although the output is missing, and all there is is a log.  What
\* evaluation gives is never missing.
StageHasOutputs ==
    \A t \in Tasks :
       /\ StageIndex(taskStage[t]) > 1 => Trained(outputs[t])
       /\ StageIndex(taskStage[t]) > 2 => Predicted(outputs[t])
       /\ StageIndex(taskStage[t]) > 3 => Evaluated(outputs[t])

\* A completed task went through every stage, however often it was paused,
\* resumed or handed from one worker to the next.  It has an evaluation and a
\* quality, and unless modules fail also the parameters and the predictions.
CompletedTaskIsDone ==
    \A t \in Tasks : taskStatus[t] = "completed" =>
       /\ taskStage[t] = "end"
       /\ Trained(outputs[t]) /\ Predicted(outputs[t]) /\ Evaluated(outputs[t])

\* Unless users ask for it, a job is completed only when it has max-tasks
\* completed tasks, and it never falls below that afterwards.
CompletedJobIsDone ==
    "completed" \notin Requests =>
       \A j \in Jobs : jobStatus[j] = "completed" =>
          Cardinality({t \in Tasks : taskJob[t] = j /\ taskStatus[t] = "completed"}) >= MaxTasks

\* The scheduler keeps the backlog bounded: numNewTasks aims at two scheduled
\* tasks per worker, and a worker is counted at most twice.  This includes the
\* tasks it is about to create.  Resumed tasks come on top, so this is for
\* systems without pauses.
ScheduleIsBounded ==
    Cardinality(ScheduledTasks) + quota <= 4 * Cardinality(Workers)

\* A task that has ended keeps the status it ended with: no stale write of a
\* worker or of a maintainer revives it.
EndedTasksStay ==
    [][\A t \in Tasks : taskStatus[t] \in TaskTerminal => taskStatus'[t] = taskStatus[t]]_vars

Life == INSTANCE TaskLife WITH job <- taskJob, holder <- taskLock, status <- taskStatus,
                              stage <- taskStage, outputs <- outputs

\* Workers, maintainers, reaper and scheduler together treat every task as
\* TaskLife says: only who has locked a task works on it, the stages come one by
\* one after the runs they follow, a task is terminated only when it was told
\* to, and nothing happens to one that has ended but that it is released.
TasksLiveOnce == Life!Spec

\* With nobody interfering a job gets its max-tasks completed tasks.
EveryJobCompletes ==
    \A j \in Jobs : jobStatus[j] = "running" ~> jobStatus[j] = "completed"

\* JobStatusMaintainerListener handles every job whose status has changed to
\* pausing, resuming or terminating.
JobsSettle ==
    \A j \in Jobs : jobStatus[j] \in JobTransient ~> jobStatus[j] \notin JobTransient

\* TerminateDeadProcesses releases the locks a dead process held.
DeadLocksReleased ==
    \A p \in Procs :
       /\ \A t \in Tasks : (~alive[p] /\ taskLock[t] = p) ~>
                              (taskLock[t] # p \/ taskStatus[t] = "error")
       /\ \A j \in Jobs : (~alive[p] /\ jobLock[j] = p) ~>
                              (jobLock[j] # p \/ jobStatus[j] = "error")
==============================================================================
