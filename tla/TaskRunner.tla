----------------------------- MODULE TaskRunner ------------------------------
(***************************************************************************)
(* The worker process: TaskRunListener locks a scheduled task and          *)
(* TaskRunWorker takes it through its stages.  Every database call is a    *)
(* step of its own, made under repeatUntilSuccess; that function panics on *)
(* ErrNotFound and on any other error sleeps for ever without calling      *)
(* again, which leaves the worker "stuck".                                 *)
(***************************************************************************)
EXTENDS JobTaskStore

CONSTANT MaxTasks   \* the max-tasks field of every job (0: no limit)

ASSUME MaxTasksAssumption == MaxTasks \in Nat

VARIABLES
    wpc,         \* the call the worker makes next
    validated,   \* has the read half of that update succeeded?
    cur,         \* the task TaskRunWorker was called with
    lstage       \* task.Stage, the local copy

workerVars == <<wpc, validated, cur, lstage>>

------------------------------------------------------------------------------
(* What the calls of a worker ask for.                                     *)

\* UpdateTaskStatus: the status written at each such call of TaskRunWorker.
StatusPC == {"setRunning", "setCompleted", "setTerminated", "setPaused"}

StatusOf(pc) ==
    CASE pc = "setRunning"    -> "running"
      [] pc = "setCompleted"  -> "completed"
      [] pc = "setTerminated" -> "terminated"
      [] pc = "setPaused"     -> "paused"

\* Mutant of AfterStatus: the completed task does not look at its job.
AfterStatusNoCheck(pc) == IF pc = "setRunning" THEN "loadModel" ELSE "unlock"

AfterStatus(pc) ==
    CASE pc = "setRunning"   -> "loadModel"
      [] pc = "setCompleted" -> "checkJob"
      [] OTHER               -> "unlock"

\* UpdateTaskStage: the stage written at each such call of TaskRunWorker.
\* The end stage is written twice.
StagePC == {"setTraining", "setPredicting", "setEvaluating", "setEnd", "setEndAgain"}

StageOf(pc) ==
    CASE pc = "setTraining"   -> "training"
      [] pc = "setPredicting" -> "predicting"
      [] pc = "setEvaluating" -> "evaluating"
      [] OTHER                -> "end"

\* Mutant of AfterStage: the prediction stage follows without a training.
AfterStageNoTraining(pc) ==
    CASE pc = "setTraining"   -> "setPredicting"
      [] pc = "setPredicting" -> "chkPredicting"
      [] pc = "setEvaluating" -> "chkEvaluating"
      [] pc = "setEnd"        -> "setEndAgain"
      [] OTHER                -> "chkEnd"

AfterStage(pc) ==
    CASE pc = "setTraining"   -> "chkTraining"
      [] pc = "setPredicting" -> "chkPredicting"
      [] pc = "setEvaluating" -> "chkEvaluating"
      [] pc = "setEnd"        -> "setEndAgain"
      [] OTHER                -> "chkEnd"

\* getTaskStatus is called before every stage and before completion.
CheckPC == {"chkTraining", "chkPredicting", "chkEvaluating", "chkEnd"}

ContainerPC == {"train", "predict", "evaluate"}

\* Every call made under repeatUntilSuccess.
CallPC == StatusPC \cup StagePC \cup CheckPC \cup
          {"markWorking", "markIdle", "setQuality", "setError", "checkJob",
           "completeJob", "terminateRest", "unlock"}

\* The worker is inside TaskRunWorker and not stuck.
HandlingPC == (CallPC \ {"markIdle"}) \cup ContainerPC \cup {"loadModel"}

WorkerPC == CallPC \cup ContainerPC \cup {"idle", "loadModel", "stuck", "crashed"}

WorkerTypeOK ==
    /\ wpc \in [Workers -> WorkerPC]
    /\ validated \in [Workers -> BOOLEAN]
    /\ cur \in [Workers -> Tasks \cup {NoTask}]
    /\ lstage \in [Workers -> TaskStage]

WorkerInit ==
    /\ wpc = [w \in Workers |-> "idle"]
    /\ validated = [w \in Workers |-> FALSE]
    /\ cur = [w \in Workers |-> NoTask]
    /\ lstage = [w \in Workers |-> "begin"]

------------------------------------------------------------------------------
(* The worker: TaskRunListener and TaskRunWorker.                          *)

Goto(w, pc) == wpc' = [wpc EXCEPT ![w] = pc]

\* A worker at a given call.
At(w, pcs) == alive[w] /\ wpc[w] \in pcs

\* TaskRunListener: lock the newest scheduled task.
WorkerLock(w, t) ==
    /\ At(w, {"idle"})
    /\ LockTask(w, t, "scheduled")
    /\ cur' = [cur EXCEPT ![w] = t]
    /\ lstage' = [lstage EXCEPT ![w] = taskStage[t]]
    /\ Goto(w, "markWorking")
    /\ UNCHANGED <<jobVars, taskJob, taskStatus, taskStage, outputs, procVars,
                   validated>>

\* SetProcessStatus writes unconditionally, a terminated process included.
MarkWorking(w) ==
    /\ At(w, {"markWorking"})
    /\ procStatus' = [procStatus EXCEPT ![w] = "working"]
    /\ Goto(w, "setRunning")
    /\ UNCHANGED <<jobVars, taskVars, alive, validated, cur, lstage>>

MarkIdle(w) ==
    /\ At(w, {"markIdle"})
    /\ procStatus' = [procStatus EXCEPT ![w] = "idle"]
    /\ Goto(w, "idle")
    /\ UNCHANGED <<jobVars, taskVars, alive, validated, cur, lstage>>

\* Does the document the worker reads allow the update it is about to make?
UpdateAllowed(w) ==
    IF wpc[w] \in StatusPC
    THEN taskStatus[cur[w]] \in TaskStatusFrom(StatusOf(wpc[w]))
    ELSE taskStage[cur[w]] \in TaskStageFrom(StageOf(wpc[w]))

\* UpdateTask, first half: read and validate.  A refusal is ErrBadInput.
ReadTask(w) ==
    /\ At(w, StatusPC \cup StagePC)
    /\ ~validated[w]
    /\ IF UpdateAllowed(w)
       THEN validated' = [validated EXCEPT ![w] = TRUE] /\ UNCHANGED wpc
       ELSE Goto(w, "stuck") /\ UNCHANGED validated
    /\ UNCHANGED <<storeVars, cur, lstage>>

\* UpdateTask, second half: write, whatever the document holds by now.
WriteStatus(w) ==
    /\ At(w, StatusPC)
    /\ validated[w]
    /\ SetTaskStatus(cur[w], StatusOf(wpc[w]))
    /\ validated' = [validated EXCEPT ![w] = FALSE]
    /\ Goto(w, AfterStatus(wpc[w]))
    /\ UNCHANGED <<jobVars, taskJob, taskStage, taskLock, outputs, procVars,
                   cur, lstage>>

WriteStage(w) ==
    /\ At(w, StagePC)
    /\ validated[w]
    /\ taskStage' = [taskStage EXCEPT ![cur[w]] = StageOf(wpc[w])]
    /\ lstage' = [lstage EXCEPT ![w] = StageOf(wpc[w])]
    /\ validated' = [validated EXCEPT ![w] = FALSE]
    /\ Goto(w, AfterStage(wpc[w]))
    /\ UNCHANGED <<jobVars, taskJob, taskStatus, taskLock, outputs, procVars,
                   cur>>

\* The model image is needed unless the task has reached evaluation.
LoadModel(w) ==
    /\ At(w, {"loadModel"})
    /\ \/ Goto(w, IF lstage[w] = "begin" THEN "setTraining" ELSE "chkTraining")
       \/ ModulesFail /\ lstage[w] # "evaluating" /\ Goto(w, "setError")
    /\ UNCHANGED <<storeVars, validated, cur, lstage>>

\* After the last check a task that was interrupted is handed over.
Conclude(status) ==
    CASE status = "terminating" -> "setTerminated"
      [] status = "pausing"     -> "setPaused"
      [] OTHER                  -> "unlock"

\* Where a check leads when the task was read with the given status.
AfterCheck(pc, status, stage) ==
    LET go == status = "running"
    IN CASE pc = "chkTraining"   -> IF go /\ stage = "training" THEN "train" ELSE "chkPredicting"
         [] pc = "chkPredicting" -> IF go /\ stage = "predicting" THEN "predict" ELSE "chkEvaluating"
         [] pc = "chkEvaluating" -> IF go /\ stage = "evaluating" THEN "evaluate" ELSE "chkEnd"
         [] OTHER                -> IF go /\ stage = "end" THEN "setCompleted" ELSE Conclude(status)

\* getTaskStatus, and the branch taken on it; the answer is not used again
\* after the next check.
GetTaskStatus(w) ==
    /\ At(w, CheckPC)
    /\ Goto(w, AfterCheck(wpc[w], taskStatus[cur[w]], lstage[w]))
    /\ UNCHANGED <<storeVars, validated, cur, lstage>>

\* Mutant of OutputOf: the evaluation goes where nobody looks for it.
OutputOfMisfiled(pc) ==
    CASE pc = "train"   -> "parameters"
      [] pc = "predict" -> "predictions"
      [] OTHER          -> "logs"

\* What the container runs of a stage are for, and what a failed one leaves.
OutputOf(pc) ==
    CASE pc = "train"   -> "parameters"
      [] pc = "predict" -> "predictions"
      [] OTHER          -> "evaluations"

FailureOf(pc) == IF pc = "train" THEN "trainFailure" ELSE "predictFailure"

\* Mutant of AfterRun: the quality is computed but never written.
AfterRunNoQuality(pc) ==
    CASE pc = "train"   -> "setPredicting"
      [] pc = "predict" -> "setEvaluating"
      [] OTHER          -> "setEnd"

AfterRun(pc) ==
    CASE pc = "train"   -> "setPredicting"
      [] pc = "predict" -> "setEvaluating"
      [] OTHER          -> "setQuality"

Leave(t, left) == outputs' = [outputs EXCEPT ![t] = @ \cup left]

\* What the runs of a stage can leave when the stage is given up: the image may
\* not load, an evaluation is written before its last line is parsed.
Leftovers(pc) == IF pc \in ContainerPC THEN {{}, {OutputOf(pc)}} ELSE {{}}

\* RunContainerAndCollectOutput drops the exit status: training and prediction
\* go on to the next stage without the output when the container has failed.
\* Only what the worker itself fails to read or to parse is reported.
RunStage(w) ==
    /\ At(w, ContainerPC)
    /\ \/ Goto(w, AfterRun(wpc[w])) /\ Leave(cur[w], {OutputOf(wpc[w])})
       \/ /\ ModulesFail /\ wpc[w] # "evaluate"
          /\ Goto(w, AfterRun(wpc[w])) /\ Leave(cur[w], {FailureOf(wpc[w])})
       \/ /\ ModulesFail
          /\ Goto(w, "setError")
          /\ \E left \in Leftovers(wpc[w]) : Leave(cur[w], left)
    /\ UNCHANGED <<jobVars, taskJob, taskStatus, taskStage, taskLock, procVars,
                   validated, cur, lstage>>

\* UpdateTask of the two qualities: nothing to validate.
WriteQuality(w) ==
    /\ At(w, {"setQuality"})
    /\ outputs' = [outputs EXCEPT ![cur[w]] = @ \cup {"quality"}]
    /\ Goto(w, "setEnd")
    /\ UNCHANGED <<jobVars, taskJob, taskStatus, taskStage, taskLock, procVars,
                   validated, cur, lstage>>

\* UpdateTaskStatus(error) is allowed from everywhere; TaskRunWorker then
\* returns without unlocking the task.
FailTask(w) ==
    /\ At(w, {"setError"})
    /\ SetTaskStatus(cur[w], "error")
    /\ cur' = [cur EXCEPT ![w] = NoTask]
    /\ lstage' = [lstage EXCEPT ![w] = "begin"]
    /\ Goto(w, "markIdle")
    /\ UNCHANGED <<jobVars, taskJob, taskStage, taskLock, outputs, procVars,
                   validated>>

\* Task completion could trigger job completion.
JobIsDone(j) == MaxTasks > 0 /\ Cardinality(CompletedTasks(j)) >= MaxTasks

CheckJob(w) ==
    /\ At(w, {"checkJob"})
    /\ Goto(w, IF JobIsDone(taskJob[cur[w]]) THEN "completeJob" ELSE "unlock")
    /\ UNCHANGED <<storeVars, validated, cur, lstage>>

\* UpdateJob(completed), first half.  A completed job needs no write.
ReadJob(w) ==
    LET status == jobStatus[taskJob[cur[w]]]
    IN /\ At(w, {"completeJob"})
       /\ ~validated[w]
       /\ \/ /\ status = "completed"
             /\ Goto(w, "terminateRest")
             /\ UNCHANGED validated
          \/ /\ status \in JobStatusFrom("completed")
             /\ validated' = [validated EXCEPT ![w] = TRUE]
             /\ UNCHANGED wpc
          \/ /\ status \notin JobStatusFrom("completed") \cup {"completed"}
             /\ Goto(w, "stuck")
             /\ UNCHANGED validated
       /\ UNCHANGED <<storeVars, cur, lstage>>

\* UpdateJob(completed), second half.
WriteJobCompleted(w) ==
    /\ At(w, {"completeJob"})
    /\ validated[w]
    /\ jobStatus' = [jobStatus EXCEPT ![taskJob[cur[w]]] = "completed"]
    /\ validated' = [validated EXCEPT ![w] = FALSE]
    /\ Goto(w, "terminateRest")
    /\ UNCHANGED <<jobLock, taskVars, procVars, cur, lstage>>

TerminateRest(w) ==
    /\ At(w, {"terminateRest"})
    /\ TerminateRunningTasks(taskJob[cur[w]])
    /\ Goto(w, "unlock")
    /\ UNCHANGED <<jobVars, taskJob, taskStage, taskLock, outputs, procVars,
                   validated, cur, lstage>>

\* The operating system process ends; the database is as it left it.
StopWorker(w) ==
    /\ alive' = [alive EXCEPT ![w] = FALSE]
    /\ wpc' = [wpc EXCEPT ![w] = "crashed"]
    /\ validated' = [validated EXCEPT ![w] = FALSE]
    /\ cur' = [cur EXCEPT ![w] = NoTask]
    /\ lstage' = [lstage EXCEPT ![w] = "begin"]

WorkerUnlock(w) ==
    /\ At(w, {"unlock"})
    /\ UnlockTask(w, cur[w])
    /\ cur' = [cur EXCEPT ![w] = NoTask]
    /\ lstage' = [lstage EXCEPT ![w] = "begin"]
    /\ Goto(w, "markIdle")
    /\ UNCHANGED <<jobVars, taskJob, taskStatus, taskStage, outputs, procVars,
                   validated>>

\* Docker is used: to load an image or to run a container.
UsesDocker(w) ==
    \/ At(w, {"loadModel"}) /\ lstage[w] # "evaluating"
    \/ At(w, ContainerPC)

\* The worker panics when the lock is no longer its own (ErrNotFound in
\* repeatUntilSuccess), when docker refuses what it is asked, and when an
\* evaluation prints nothing.  The deferred SetProcessStatus of Start still
\* runs, and hides the process from TerminateDeadProcesses.
WorkerPanic(w) ==
    /\ \/ At(w, {"unlock"}) /\ taskLock[cur[w]] # w /\ UNCHANGED outputs
       \/ /\ ModulesFail /\ UsesDocker(w)
          /\ \E left \in Leftovers(wpc[w]) : Leave(cur[w], left)
    /\ StopWorker(w)
    /\ procStatus' = [procStatus EXCEPT ![w] = "terminated"]
    /\ UNCHANGED <<jobVars, taskJob, taskStatus, taskStage, taskLock>>

\* A failed database call: repeatUntilSuccess never repeats it.
WorkerCallFails(w) ==
    /\ At(w, CallPC)
    /\ validated' = [validated EXCEPT ![w] = FALSE]
    /\ Goto(w, "stuck")
    /\ UNCHANGED <<storeVars, cur, lstage>>

\* TaskRunListener panics when LockTask fails.
WorkerLockFails(w) ==
    /\ At(w, {"idle"})
    /\ StopWorker(w)
    /\ procStatus' = [procStatus EXCEPT ![w] = "terminated"]
    /\ UNCHANGED <<jobVars, taskVars>>

\* An operating system crash runs nothing that was deferred.
WorkerCrash(w) ==
    /\ alive[w]
    /\ StopWorker(w)
    /\ UNCHANGED <<jobVars, taskVars, procStatus>>

WorkerStep(w) ==
    \/ \E t \in Tasks : WorkerLock(w, t)
    \/ MarkWorking(w) \/ MarkIdle(w)
    \/ ReadTask(w) \/ WriteStatus(w) \/ WriteStage(w)
    \/ LoadModel(w) \/ GetTaskStatus(w) \/ RunStage(w)
    \/ WriteQuality(w) \/ FailTask(w)
    \/ CheckJob(w) \/ ReadJob(w) \/ WriteJobCompleted(w) \/ TerminateRest(w)
    \/ WorkerUnlock(w) \/ WorkerPanic(w)
==============================================================================
