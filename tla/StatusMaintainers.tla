-------------------------- MODULE StatusMaintainers --------------------------
(***************************************************************************)
(* The controller's JobStatusMaintainerListener and                        *)
(* TaskStatusMaintainerListener.  Each starts a goroutine for a document   *)
(* it has locked; the goroutine carries the job or task out of its         *)
(* transient status and unlocks it.                                        *)
(***************************************************************************)
EXTENDS JobTaskStore

VARIABLES
    jm,   \* the goroutine of each job: its next step and what it was started for
    tm    \* the goroutine of each task, likewise

maintVars == <<jm, tm>>

------------------------------------------------------------------------------
\* Mutant of TargetOf: JobResumingWorker is a copy of JobPausingWorker.
TargetOfCopied(kind) == IF kind = "terminating" THEN "terminated" ELSE "paused"

\* Where a goroutine started for a transient status takes its document.
TargetOf(kind) ==
    CASE kind = "pausing"     -> "paused"
      [] kind = "resuming"    -> "running"
      [] kind = "terminating" -> "terminated"

\* A maintainer goroutine: started for a status, at a step.
JobGoroutine  == [step : {"bulk", "read", "write", "unlock", "stuck"}, kind : JobTransient]
TaskGoroutine == [step : {"read", "write", "unlock", "stuck"}, kind : {"pausing", "terminating"}]
NoGoroutine == [step |-> "none", kind |-> "none"]

MaintainerTypeOK ==
    /\ jm \in [Controllers -> [Jobs -> JobGoroutine \cup {NoGoroutine}]]
    /\ tm \in [Controllers -> [Tasks -> TaskGoroutine \cup {NoGoroutine}]]

MaintainerInit ==
    /\ jm = [c \in Controllers |-> [j \in Jobs |-> NoGoroutine]]
    /\ tm = [c \in Controllers |-> [t \in Tasks |-> NoGoroutine]]

------------------------------------------------------------------------------
(* The controller: job and task status maintainers.  The listeners start   *)
(* one goroutine per document they lock.                                   *)

JobGoto(c, j, step) == jm' = [jm EXCEPT ![c][j].step = step]

JobAt(c, j, step) == alive[c] /\ jm[c][j].step = step

MaintainJob(c, j, kind) ==
    /\ JobAt(c, j, "none")
    /\ LockJob(c, j, kind)
    /\ jm' = [jm EXCEPT ![c][j] = [step |-> "bulk", kind |-> kind]]
    /\ UNCHANGED <<jobStatus, taskVars, procVars, tm>>

\* Mark all tasks as pausing, scheduled or terminating.
JobBulk(c, j) ==
    /\ JobAt(c, j, "bulk")
    /\ \/ jm[c][j].kind = "pausing" /\ PauseRunningTasks(j)
       \/ jm[c][j].kind = "resuming" /\ ResumePausedTasks(j)
       \/ jm[c][j].kind = "terminating" /\ TerminateRunningTasks(j)
    /\ JobGoto(c, j, "read")
    /\ UNCHANGED <<jobVars, taskJob, taskStage, taskLock, outputs, procVars,
                   tm>>

\* UpdateJob, first half.
JobRead(c, j) ==
    LET target == TargetOf(jm[c][j].kind)
    IN /\ JobAt(c, j, "read")
       /\ \/ jobStatus[j] = target /\ JobGoto(c, j, "unlock")
          \/ jobStatus[j] \in JobStatusFrom(target) /\ JobGoto(c, j, "write")
          \/ jobStatus[j] \notin JobStatusFrom(target) \cup {target} /\ JobGoto(c, j, "stuck")
       /\ UNCHANGED <<storeVars, tm>>

\* UpdateJob, second half.
JobWrite(c, j) ==
    /\ JobAt(c, j, "write")
    /\ jobStatus' = [jobStatus EXCEPT ![j] = TargetOf(jm[c][j].kind)]
    /\ JobGoto(c, j, "unlock")
    /\ UNCHANGED <<jobLock, taskVars, procVars, tm>>

\* The goroutine ends with its unlock.
JobUnlock(c, j) ==
    /\ JobAt(c, j, "unlock")
    /\ UnlockJob(c, j)
    /\ jm' = [jm EXCEPT ![c][j] = NoGoroutine]
    /\ UNCHANGED <<jobStatus, taskVars, procVars, tm>>

JobMaintainerStep(c, j) == JobBulk(c, j) \/ JobRead(c, j) \/ JobWrite(c, j) \/ JobUnlock(c, j)

TaskGoto(c, t, step) == tm' = [tm EXCEPT ![c][t].step = step]

TaskAt(c, t, step) == alive[c] /\ tm[c][t].step = step

MaintainTask(c, t, kind) ==
    /\ TaskAt(c, t, "none")
    /\ LockTask(c, t, kind)
    /\ tm' = [tm EXCEPT ![c][t] = [step |-> "read", kind |-> kind]]
    /\ UNCHANGED <<jobVars, taskJob, taskStatus, taskStage, outputs, procVars,
                   jm>>

TaskRead(c, t) ==
    /\ TaskAt(c, t, "read")
    /\ TaskGoto(c, t, IF taskStatus[t] \in TaskStatusFrom(TargetOf(tm[c][t].kind))
                      THEN "write" ELSE "stuck")
    /\ UNCHANGED <<storeVars, jm>>

TaskWrite(c, t) ==
    /\ TaskAt(c, t, "write")
    /\ SetTaskStatus(t, TargetOf(tm[c][t].kind))
    /\ TaskGoto(c, t, "unlock")
    /\ UNCHANGED <<jobVars, taskJob, taskStage, taskLock, outputs, procVars,
                   jm>>

TaskUnlock(c, t) ==
    /\ TaskAt(c, t, "unlock")
    /\ UnlockTask(c, t)
    /\ tm' = [tm EXCEPT ![c][t] = NoGoroutine]
    /\ UNCHANGED <<jobVars, taskJob, taskStatus, taskStage, outputs, procVars,
                   jm>>

TaskMaintainerStep(c, t) == TaskRead(c, t) \/ TaskWrite(c, t) \/ TaskUnlock(c, t)

\* A failed database call: repeatUntilSuccess never repeats it.
JobCallFails(c, j) ==
    /\ alive[c] /\ jm[c][j].step \in {"bulk", "read", "write", "unlock"}
    /\ JobGoto(c, j, "stuck")
    /\ UNCHANGED <<storeVars, tm>>

TaskCallFails(c, t) ==
    /\ alive[c] /\ tm[c][t].step \in {"read", "write", "unlock"}
    /\ TaskGoto(c, t, "stuck")
    /\ UNCHANGED <<storeVars, jm>>

\* The goroutines of a controller that has crashed are gone.
StopMaintainers(c) ==
    /\ jm' = [jm EXCEPT ![c] = [j \in Jobs |-> NoGoroutine]]
    /\ tm' = [tm EXCEPT ![c] = [t \in Tasks |-> NoGoroutine]]

MaintainerStep(c) ==
    \/ \E j \in Jobs, kind \in JobTransient : MaintainJob(c, j, kind)
    \/ \E t \in Tasks, kind \in {"pausing", "terminating"} : MaintainTask(c, t, kind)
    \/ \E j \in Jobs : JobMaintainerStep(c, j)
    \/ \E t \in Tasks : TaskMaintainerStep(c, t)
==============================================================================
