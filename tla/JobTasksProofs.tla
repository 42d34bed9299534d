--------------------------- MODULE JobTasksProofs ----------------------------
(***************************************************************************)
(* Theorems about JobTasks, for every number of workers, controllers,      *)
(* jobs, tasks, requests, crashes and faults: types, locks, the outputs    *)
(* behind a stage, tasks that have ended, completed tasks and jobs, the    *)
(* locks that are left, that JobTasks implements TaskLife, and the bound   *)
(* on the tasks that are scheduled.                                        *)
(***************************************************************************)
EXTENDS JobTasks, FiniteSetTheorems, TLAPS

------------------------------------------------------------------------------
(* Lemmas about the operators.                                             *)

\* The number of tasks in a given condition is a natural number.
LEMMA TaskSetsFinite ==
    ASSUME NEW S \in SUBSET Tasks
    PROVE  IsFiniteSet(S) /\ Cardinality(S) \in Nat
<1>1. IsFiniteSet(Tasks)
  BY FS_Interval, StoreAssumption DEF Tasks
<1>2. QED
  BY <1>1, FS_Subset, FS_CardinalityType

\* So is the number of workers with a given status.
LEMMA WorkerSetsFinite ==
    ASSUME NEW status
    PROVE  Cardinality(WorkersIn(status)) \in Nat
BY ProcsAssumption, FS_Subset, FS_CardinalityType DEF WorkersIn

\* The scheduler never asks for a negative number of tasks.
LEMMA QuotaIsNatural == counted \in Nat /\ NeedTasks => NumNewTasks \in Nat
<1>1. ScheduledTasks \in SUBSET Tasks
  BY DEF ScheduledTasks
<1>2. QED
  BY <1>1, TaskSetsFinite DEF NeedTasks, NumNewTasks

\* What a worker writes and where it goes next.
LEMMA WorkerTables ==
    /\ \A pc \in StatusPC : StatusOf(pc) \in TaskStatus /\ AfterStatus(pc) \in HandlingPC
    /\ \A pc \in StagePC : StageOf(pc) \in TaskStage /\ AfterStage(pc) \in HandlingPC
    /\ \A pc \in CheckPC, status \in TaskStatus, stage \in TaskStage :
          AfterCheck(pc, status, stage) \in HandlingPC
    /\ \A pc \in ContainerPC :
          /\ {OutputOf(pc), FailureOf(pc)} \subseteq Output
          /\ AfterRun(pc) \in HandlingPC
    /\ HandlingPC \subseteq WorkerPC
BY DEF StatusPC, StatusOf, AfterStatus, StagePC, StageOf, AfterStage, CheckPC,
       AfterCheck, Conclude, ContainerPC, OutputOf, FailureOf, FailureLog, Output, AfterRun,
       HandlingPC, CallPC, WorkerPC, TaskStatus, TaskStage

\* What a run may add to the outputs of its task.
RunsOf(pc) == {o \in {OutputOf(pc), FailureOf(pc)} :
                  o = OutputOf(pc) \/ (ModulesFail /\ pc # "evaluate")}

\* A run, finished or given up, adds at most one output.
LEMMA RunsLeaveOneOutput ==
    ASSUME NEW w \in Workers, outputs \in [Tasks -> SUBSET Output],
           RunStage(w) \/ WorkerPanic(w)
    PROVE  \/ UNCHANGED outputs
           \/ /\ wpc[w] \in ContainerPC
              /\ \E o \in RunsOf(wpc[w]) : outputs' = [outputs EXCEPT ![cur[w]] = @ \cup {o}]
<1>1. ASSUME NEW left \in Leftovers(wpc[w]), Leave(cur[w], left)
      PROVE  \/ UNCHANGED outputs
             \/ /\ wpc[w] \in ContainerPC
                /\ outputs' = [outputs EXCEPT ![cur[w]] = @ \cup {OutputOf(wpc[w])}]
  <2>1. CASE left = {}
    BY <1>1, <2>1 DEF Leave
  <2>2. CASE left # {}
    BY <1>1, <2>2 DEF Leave, Leftovers
  <2>3. QED
    BY <2>1, <2>2
<1>2. OutputOf(wpc[w]) \in RunsOf(wpc[w])
  BY DEF RunsOf
<1>3. CASE RunStage(w)
  <2>1. wpc[w] \in ContainerPC
    BY <1>3 DEF RunStage, At
  <2>2. \/ Leave(cur[w], {OutputOf(wpc[w])})
        \/ ModulesFail /\ wpc[w] # "evaluate" /\ Leave(cur[w], {FailureOf(wpc[w])})
        \/ \E left \in Leftovers(wpc[w]) : Leave(cur[w], left)
    BY <1>3 DEF RunStage
  <2>3. CASE Leave(cur[w], {OutputOf(wpc[w])})
    BY <1>2, <2>1, <2>3 DEF Leave
  <2>4. CASE ModulesFail /\ wpc[w] # "evaluate" /\ Leave(cur[w], {FailureOf(wpc[w])})
    BY <2>1, <2>4 DEF Leave, RunsOf
  <2>5. QED
    BY <1>1, <1>2, <2>2, <2>3, <2>4
<1>4. CASE WorkerPanic(w)
  BY <1>1, <1>2, <1>4 DEF WorkerPanic
<1>5. QED
  BY <1>3, <1>4

\* A maintainer drives its job to a job status and its task to a task status.
LEMMA Targets ==
    /\ \A kind \in JobTransient : TargetOf(kind) \in JobStatus
    /\ \A kind \in {"pausing", "terminating"} : TargetOf(kind) \in TaskStatus
BY DEF JobTransient, TargetOf, JobStatus, TaskStatus

------------------------------------------------------------------------------
(* Type correctness.                                                       *)

\* The strengthening: a worker inside TaskRunWorker has a task.
HasTask == \A w \in Workers : wpc[w] \in HandlingPC => cur[w] \in Tasks

TypeInv == TypeOK /\ HasTask

LEMMA InitTypes == Init => TypeInv
<1> SUFFICES ASSUME Init PROVE TypeInv
  OBVIOUS
<1> USE DEF Init
<1>1. StoreTypeOK
  BY DEF StoreInit, StoreTypeOK, JobStatus, TaskStatus, TaskStage
<1>2. WorkerTypeOK /\ HasTask
  BY DEF WorkerInit, WorkerTypeOK, HasTask, WorkerPC, HandlingPC, CallPC, StatusPC,
         StagePC, CheckPC, ContainerPC, TaskStage
<1>3. MaintainerTypeOK /\ ReaperTypeOK
  BY DEF MaintainerInit, MaintainerTypeOK, ReaperInit, ReaperTypeOK, NotReaping
<1>4. SchedulerTypeOK /\ ClientTypeOK
  BY ClientAssumption DEF SchedulerInit, SchedulerTypeOK, ClientInit, ClientTypeOK
<1>5. QED
  BY <1>1, <1>2, <1>3, <1>4, EnvironmentAssumption DEF TypeInv, TypeOK

\* What the steps of one worker do to the database and to its own state.
LEMMA WorkerTypes ==
    ASSUME TypeInv, NEW w \in Workers, WorkerStep(w)
    PROVE  StoreTypeOK' /\ WorkerTypeOK' /\ HasTask'
<1> DEFINE Good == StoreTypeOK' /\ WorkerTypeOK' /\ HasTask'
<1> SUFFICES Good
  OBVIOUS
<1> USE DEF TypeInv, TypeOK, StoreTypeOK, WorkerTypeOK, HasTask, Goto, At
<1>p. w \in Procs
  BY DEF Procs
<1>c. /\ "idle" \in WorkerPC /\ "idle" \notin HandlingPC
      /\ "stuck" \in WorkerPC /\ "stuck" \notin HandlingPC
      /\ "crashed" \in WorkerPC /\ "crashed" \notin HandlingPC
      /\ "markIdle" \in WorkerPC /\ "markIdle" \notin HandlingPC
      /\ {"markWorking", "setRunning", "setTraining", "chkTraining", "setError",
          "setEnd", "unlock", "completeJob", "terminateRest"} \subseteq HandlingPC
      /\ StatusPC \cup StagePC \cup CheckPC \cup ContainerPC \subseteq HandlingPC
      /\ {"loadModel", "setQuality", "checkJob"} \subseteq HandlingPC
  BY DEF WorkerPC, HandlingPC, CallPC, StatusPC, StagePC, CheckPC, ContainerPC
<1>s. {"running", "scheduled", "error", "terminating"} \subseteq TaskStatus /\ "begin" \in TaskStage
  BY DEF TaskStatus, TaskStage
<1> HIDE DEF Good
<1>1. ASSUME NEW t \in Tasks, WorkerLock(w, t) PROVE Good
  BY <1>1, <1>p, <1>c, WorkerTables DEF Good, WorkerLock, LockTask, jobVars, procVars
<1>2. CASE MarkWorking(w) \/ MarkIdle(w)
  BY <1>2, <1>p, <1>c, WorkerTables DEF Good, MarkWorking, MarkIdle, jobVars, taskVars
<1>3. CASE ReadTask(w)
  <2>1. UNCHANGED <<storeVars, cur, lstage>>
    BY <1>3 DEF ReadTask
  <2>2. \/ validated' = [validated EXCEPT ![w] = TRUE] /\ UNCHANGED wpc
        \/ wpc' = [wpc EXCEPT ![w] = "stuck"] /\ UNCHANGED validated
    BY <1>3 DEF ReadTask
  <2>3. QED
    BY <2>1, <2>2, <1>c DEF Good, storeVars, jobVars, taskVars, procVars
<1>4. CASE WriteStatus(w)
  BY <1>4, <1>c, WorkerTables DEF Good, WriteStatus, SetTaskStatus, jobVars, procVars
<1>5. CASE WriteStage(w)
  BY <1>5, <1>c, WorkerTables DEF Good, WriteStage, jobVars, procVars
<1>6. CASE LoadModel(w)
  BY <1>6, <1>c, WorkerTables DEF Good, LoadModel, storeVars, jobVars, taskVars, procVars
<1>7. CASE GetTaskStatus(w)
  BY <1>7, <1>c, WorkerTables DEF Good, GetTaskStatus, storeVars, jobVars, taskVars, procVars
<1>8. CASE RunStage(w)
  <2>1. /\ UNCHANGED <<jobVars, taskJob, taskStatus, taskStage, taskLock, procVars, validated,
                        cur, lstage>>
        /\ wpc[w] \in ContainerPC
        /\ \E pc \in {AfterRun(wpc[w]), "setError"} : wpc' = [wpc EXCEPT ![w] = pc]
    BY <1>8 DEF RunStage
  <2>2. AfterRun(wpc[w]) \in HandlingPC /\ RunsOf(wpc[w]) \subseteq Output
    BY <2>1, WorkerTables DEF RunsOf
  <2>3. \E pc \in HandlingPC : wpc' = [wpc EXCEPT ![w] = pc]
    BY <2>1, <2>2, <1>c
  <2>4. outputs' \in [Tasks -> SUBSET Output]
    BY <1>8, <2>2, RunsLeaveOneOutput
  <2>5. HandlingPC \subseteq WorkerPC /\ cur[w] \in Tasks
    BY <1>c, <2>1, WorkerTables
  <2>6. QED
    BY <2>1, <2>3, <2>4, <2>5 DEF Good, jobVars, procVars
<1>9. CASE WriteQuality(w)
  BY <1>9, <1>c, WorkerTables DEF Good, WriteQuality, jobVars, procVars, Output, FailureLog
<1>10. CASE FailTask(w)
  BY <1>10, <1>c, <1>s DEF Good, FailTask, SetTaskStatus, jobVars, procVars
<1>11. CASE CheckJob(w)
  <2> DEFINE dest == IF JobIsDone(taskJob[cur[w]]) THEN "completeJob" ELSE "unlock"
  <2>1. dest \in HandlingPC /\ dest \in WorkerPC
    BY <1>c, WorkerTables
  <2>2. wpc' = [wpc EXCEPT ![w] = dest] /\ wpc[w] \in HandlingPC
    BY <1>11, <1>c DEF CheckJob
  <2> HIDE DEF dest
  <2>3. QED
    BY <1>11, <2>1, <2>2 DEF Good, CheckJob, storeVars, jobVars, taskVars, procVars
<1>11a. CASE ReadJob(w)
  <2>1. UNCHANGED <<storeVars, cur, lstage>> /\ wpc[w] \in HandlingPC
    BY <1>11a, <1>c DEF ReadJob
  <2>2. \/ validated' = [validated EXCEPT ![w] = TRUE] /\ UNCHANGED wpc
        \/ wpc' = [wpc EXCEPT ![w] = "stuck"] /\ UNCHANGED validated
        \/ wpc' = [wpc EXCEPT ![w] = "terminateRest"] /\ UNCHANGED validated
    BY <1>11a DEF ReadJob
  <2>3. QED
    BY <2>1, <2>2, <1>c, WorkerTables DEF Good, storeVars, jobVars, taskVars, procVars
<1>12. CASE WriteJobCompleted(w)
  BY <1>12, <1>c, WorkerTables DEF Good, WriteJobCompleted, jobVars, taskVars, procVars, JobStatus
<1>13. CASE TerminateRest(w)
  BY <1>13, <1>c, <1>s, WorkerTables DEF Good, TerminateRest, TerminateRunningTasks, BulkUpdate, jobVars, procVars
<1>14. CASE WorkerUnlock(w)
  BY <1>14, <1>c, <1>s DEF Good, WorkerUnlock, UnlockTask, jobVars, procVars
<1>15. CASE WorkerPanic(w)
  <2>1. outputs' \in [Tasks -> SUBSET Output]
    <3>1. wpc[w] \in ContainerPC => RunsOf(wpc[w]) \subseteq Output
      BY WorkerTables DEF RunsOf
    <3>2. QED
      BY <1>15, <3>1, RunsLeaveOneOutput
  <2>2. /\ StopWorker(w) /\ procStatus' = [procStatus EXCEPT ![w] = "terminated"]
        /\ UNCHANGED <<jobVars, taskJob, taskStatus, taskStage, taskLock>>
    BY <1>15 DEF WorkerPanic
  <2>3. QED
    BY <2>1, <2>2, <1>c, <1>s, <1>p DEF Good, StopWorker, jobVars
<1> HIDE DEF TypeInv, TypeOK, StoreTypeOK, WorkerTypeOK, HasTask, Goto, At
<1>16. QED
  BY <1>11a, <1>1, <1>2, <1>3, <1>4, <1>5, <1>6, <1>7, <1>8, <1>9, <1>10, <1>11, <1>12,
     <1>13, <1>14, <1>15 DEF WorkerStep

\* A goroutine that moves on stays a goroutine of its kind.
LEMMA JobGotoTypes ==
    ASSUME MaintainerTypeOK, NEW c \in Controllers, NEW j \in Jobs,
           NEW step \in {"bulk", "read", "write", "unlock", "stuck"},
           jm[c][j].step # "none", JobGoto(c, j, step)
    PROVE  /\ jm' \in [Controllers -> [Jobs -> JobGoroutine \cup {NoGoroutine}]]
           /\ jm[c][j].kind \in JobTransient
<1>1. jm[c][j] \in JobGoroutine
  BY DEF MaintainerTypeOK, NoGoroutine
<1>2. [jm[c][j] EXCEPT !.step = step] \in JobGoroutine /\ jm[c][j].kind \in JobTransient
  BY <1>1 DEF JobGoroutine
<1>3. jm' = [jm EXCEPT ![c] = [jm[c] EXCEPT ![j] = [jm[c][j] EXCEPT !.step = step]]]
  BY DEF JobGoto
<1>4. QED
  BY <1>2, <1>3 DEF MaintainerTypeOK

LEMMA TaskGotoTypes ==
    ASSUME MaintainerTypeOK, NEW c \in Controllers, NEW t \in Tasks,
           NEW step \in {"read", "write", "unlock", "stuck"},
           tm[c][t].step # "none", TaskGoto(c, t, step)
    PROVE  /\ tm' \in [Controllers -> [Tasks -> TaskGoroutine \cup {NoGoroutine}]]
           /\ tm[c][t].kind \in {"pausing", "terminating"}
<1>1. tm[c][t] \in TaskGoroutine
  BY DEF MaintainerTypeOK, NoGoroutine
<1>2. /\ [tm[c][t] EXCEPT !.step = step] \in TaskGoroutine
      /\ tm[c][t].kind \in {"pausing", "terminating"}
  BY <1>1 DEF TaskGoroutine
<1>3. tm' = [tm EXCEPT ![c] = [tm[c] EXCEPT ![t] = [tm[c][t] EXCEPT !.step = step]]]
  BY DEF TaskGoto
<1>4. QED
  BY <1>2, <1>3 DEF MaintainerTypeOK

\* What the steps of a maintainer do to the database and to the goroutines.
LEMMA MaintainerTypes ==
    ASSUME TypeInv, NEW c \in Controllers, MaintainerStep(c)
    PROVE  StoreTypeOK' /\ MaintainerTypeOK'
<1> DEFINE Good == StoreTypeOK' /\ MaintainerTypeOK'
<1> SUFFICES Good
  OBVIOUS
<1> USE DEF TypeInv, TypeOK, StoreTypeOK, MaintainerTypeOK, JobAt, TaskAt
<1>p. c \in Procs
  BY DEF Procs
<1>s. {"pausing", "scheduled", "terminating"} \subseteq TaskStatus
  BY DEF TaskStatus
<1> HIDE DEF Good
<1>1. ASSUME NEW j \in Jobs, NEW kind \in JobTransient, MaintainJob(c, j, kind) PROVE Good
  <2>1. [step |-> "bulk", kind |-> kind] \in JobGoroutine
    BY DEF JobGoroutine
  <2>2. QED
    BY <1>1, <1>p, <2>1 DEF Good, MaintainJob, LockJob, taskVars, procVars
<1>2. ASSUME NEW t \in Tasks, NEW kind \in {"pausing", "terminating"}, MaintainTask(c, t, kind)
      PROVE  Good
  <2>1. [step |-> "read", kind |-> kind] \in TaskGoroutine
    BY DEF TaskGoroutine
  <2>2. QED
    BY <1>2, <1>p, <2>1 DEF Good, MaintainTask, LockTask, jobVars, procVars
<1>3. ASSUME NEW j \in Jobs, JobBulk(c, j) PROVE Good
  <2>1. MaintainerTypeOK' /\ jm[c][j].kind \in JobTransient
    BY <1>3, JobGotoTypes DEF JobBulk
  <2>2. taskStatus' \in [Tasks -> TaskStatus]
    BY <1>3, <1>s, <2>1 DEF JobBulk, JobTransient, PauseRunningTasks, ResumePausedTasks,
                            TerminateRunningTasks, BulkUpdate
  <2>3. QED
    BY <1>3, <2>1, <2>2 DEF Good, JobBulk, jobVars, procVars
<1>4. ASSUME NEW j \in Jobs, JobRead(c, j) PROVE Good
  <2>1. PICK step \in {"unlock", "write", "stuck"} : JobGoto(c, j, step)
    BY <1>4 DEF JobRead
  <2>2. MaintainerTypeOK'
    BY <1>4, JobGotoTypes, <2>1 DEF JobRead
  <2>3. QED
    BY <1>4, <2>2 DEF Good, JobRead, storeVars, jobVars, taskVars, procVars
<1>5. ASSUME NEW j \in Jobs, JobWrite(c, j) PROVE Good
  <2>1. MaintainerTypeOK' /\ TargetOf(jm[c][j].kind) \in JobStatus
    BY <1>5, JobGotoTypes, Targets DEF JobWrite
  <2>2. QED
    BY <1>5, <2>1 DEF Good, JobWrite, taskVars, procVars
<1>6. ASSUME NEW j \in Jobs, JobUnlock(c, j) PROVE Good
  BY <1>6 DEF Good, JobUnlock, UnlockJob, taskVars, procVars
<1>7. ASSUME NEW t \in Tasks, TaskRead(c, t) PROVE Good
  <2>1. PICK step \in {"write", "stuck"} : TaskGoto(c, t, step)
    BY <1>7 DEF TaskRead
  <2>2. MaintainerTypeOK'
    BY <1>7, TaskGotoTypes, <2>1 DEF TaskRead
  <2>3. QED
    BY <1>7, <2>2 DEF Good, TaskRead, storeVars, jobVars, taskVars, procVars
<1>8. ASSUME NEW t \in Tasks, TaskWrite(c, t) PROVE Good
  <2>1. MaintainerTypeOK' /\ TargetOf(tm[c][t].kind) \in TaskStatus
    BY <1>8, TaskGotoTypes, Targets DEF TaskWrite
  <2>2. QED
    BY <1>8, <2>1 DEF Good, TaskWrite, SetTaskStatus, jobVars, procVars
<1>9. ASSUME NEW t \in Tasks, TaskUnlock(c, t) PROVE Good
  BY <1>9 DEF Good, TaskUnlock, UnlockTask, jobVars, procVars
<1> HIDE DEF TypeInv, TypeOK, StoreTypeOK, MaintainerTypeOK, JobAt, TaskAt
<1>10. QED
  BY <1>1, <1>2, <1>3, <1>4, <1>5, <1>6, <1>7, <1>8, <1>9
     DEF MaintainerStep, JobMaintainerStep, TaskMaintainerStep

LEMMA ReaperTypes ==
    ASSUME TypeInv, NEW c \in Controllers, ReaperStep(c) \/ ReleaseFails(c)
    PROVE  StoreTypeOK' /\ ReaperTypeOK'
<1> USE DEF TypeInv, TypeOK, StoreTypeOK, ReaperTypeOK, Reaping, NotReaping
<1>1. ASSUME NEW p \in Procs, DeclareDead(c, p) PROVE StoreTypeOK' /\ ReaperTypeOK'
  BY <1>1 DEF DeclareDead, jobVars, taskVars
<1>2. CASE ReleaseJobs(c)
  BY <1>2 DEF ReleaseJobs, ReleaseJobLockByProcess, taskVars, procVars
<1>3. CASE ReleaseTasks(c)
  BY <1>3 DEF ReleaseTasks, ReleaseTaskLockByProcess, jobVars, procVars
<1>4. CASE ReleaseFails(c)
  BY <1>4 DEF ReleaseFails, storeVars, jobVars, taskVars, procVars
<1>5. QED
  BY <1>1, <1>2, <1>3, <1>4 DEF ReaperStep

LEMMA SchedulerTypes ==
    ASSUME TypeInv, SchedulerStep \/ SchedulerCallFails \/ SchedulerCrash
    PROVE  StoreTypeOK' /\ SchedulerTypeOK'
<1> DEFINE Good == StoreTypeOK' /\ SchedulerTypeOK'
<1> SUFFICES Good
  OBVIOUS
<1> USE DEF TypeInv, TypeOK, StoreTypeOK, SchedulerTypeOK, SchedulerAt
<1>p. Scheduler \in Procs
  BY DEF Procs
<1>s. "scheduled" \in TaskStatus /\ "begin" \in TaskStage
  BY DEF TaskStatus, TaskStage
<1> HIDE DEF Good
<1>1. CASE CountIdle
  BY <1>1, WorkerSetsFinite DEF Good, CountIdle, storeVars, jobVars, taskVars, procVars
<1>2. CASE CountWorking
  BY <1>2, WorkerSetsFinite DEF Good, CountWorking, storeVars, jobVars, taskVars, procVars
<1>3. CASE DecideToRun
  BY <1>3, <1>p, QuotaIsNatural DEF Good, DecideToRun, jobVars, taskVars
<1>4. CASE DecideToWait
  BY <1>4 DEF Good, DecideToWait, storeVars, jobVars, taskVars, procVars
<1>5. CASE Suggest
  BY <1>5 DEF Good, Suggest, RunningJobs, storeVars, jobVars, taskVars, procVars
<1>6. CASE EndOfSuggestions
  BY <1>6, <1>p DEF Good, EndOfSuggestions, jobVars, taskVars
<1>7. ASSUME NEW j \in Jobs, NEW t \in Tasks, CreateTask(j, t) PROVE Good
  BY <1>7, <1>s DEF Good, CreateTask, jobVars, procVars
<1>8. CASE SchedulerPanic
  BY <1>8, <1>p DEF Good, SchedulerPanic, StopScheduler, jobVars, taskVars
<1>9. CASE SchedulerCrash
  BY <1>9, <1>p DEF Good, SchedulerCrash, StopScheduler, jobVars, taskVars
<1> HIDE DEF TypeInv, TypeOK, StoreTypeOK, SchedulerTypeOK, SchedulerAt
<1>10. QED
  BY <1>1, <1>2, <1>3, <1>4, <1>5, <1>6, <1>7, <1>8, <1>9
     DEF SchedulerStep, BadSuggestion, SchedulerCallFails

LEMMA ClientTypes ==
    ASSUME TypeInv, ClientStep
    PROVE  StoreTypeOK' /\ ClientTypeOK'
<1> USE ClientAssumption DEF TypeInv, TypeOK, StoreTypeOK, ClientTypeOK
<1>1. ASSUME NEW j \in Jobs, CreateJob(j) PROVE StoreTypeOK' /\ ClientTypeOK'
  BY <1>1 DEF CreateJob, clientVars, taskVars, procVars, JobStatus
<1>2. ASSUME NEW u \in Clients, NEW j \in Jobs, NEW s \in Requests, PatchRead(u, j, s)
      PROVE  StoreTypeOK' /\ ClientTypeOK'
  BY <1>2 DEF PatchRead, storeVars, jobVars, taskVars, procVars
<1>3. ASSUME NEW u \in Clients, PatchWrite(u) PROVE StoreTypeOK' /\ ClientTypeOK'
  <2>1. patch[u] \in Jobs \X JobStatus
    BY <1>3 DEF PatchWrite
  <2>2. jobStatus' \in [Jobs -> JobStatus \cup {"none"}]
    BY <1>3, <2>1 DEF PatchWrite
  <2>3. QED
    BY <1>3, <2>2 DEF PatchWrite, taskVars, procVars
<1>4. QED
  BY <1>1, <1>2, <1>3 DEF ClientStep

\* A crash or a failed call of a worker keeps its types too.
LEMMA WorkerFailureTypes ==
    ASSUME TypeInv, NEW w \in Workers,
           WorkerCrash(w) \/ WorkerCallFails(w) \/ WorkerLockFails(w)
    PROVE  StoreTypeOK' /\ WorkerTypeOK' /\ HasTask'
<1> USE DEF TypeInv, TypeOK, StoreTypeOK, WorkerTypeOK, HasTask, Goto, At
<1>1. w \in Procs
  BY DEF Procs
<1>2. /\ "stuck" \in WorkerPC /\ "stuck" \notin HandlingPC
      /\ "crashed" \in WorkerPC /\ "crashed" \notin HandlingPC
      /\ "begin" \in TaskStage
  BY DEF WorkerPC, HandlingPC, CallPC, StatusPC, StagePC, CheckPC, ContainerPC, TaskStage
<1>3. CASE WorkerCrash(w) \/ WorkerLockFails(w)
  <2>1. StopWorker(w) /\ UNCHANGED <<jobVars, taskVars>>
    BY <1>3 DEF WorkerCrash, WorkerLockFails
  <2>2. procStatus' \in [Procs -> {"idle", "working", "terminated"}]
    BY <1>1, <1>3 DEF WorkerCrash, WorkerLockFails
  <2>3. QED
    BY <1>1, <1>2, <2>1, <2>2 DEF StopWorker, jobVars, taskVars
<1>4. CASE WorkerCallFails(w)
  BY <1>2, <1>4 DEF WorkerCallFails, storeVars, jobVars, taskVars, procVars
<1>5. QED
  BY <1>3, <1>4

LEMMA MaintainerFailureTypes ==
    ASSUME TypeInv, NEW c \in Controllers,
           \/ \E j \in Jobs : JobCallFails(c, j)
           \/ \E t \in Tasks : TaskCallFails(c, t)
    PROVE  StoreTypeOK' /\ MaintainerTypeOK'
<1> USE DEF TypeInv, TypeOK, StoreTypeOK, storeVars, jobVars, taskVars, procVars
<1>1. ASSUME NEW j \in Jobs, JobCallFails(c, j) PROVE StoreTypeOK' /\ MaintainerTypeOK'
  <2>1. jm' \in [Controllers -> [Jobs -> JobGoroutine \cup {NoGoroutine}]]
    BY <1>1, JobGotoTypes DEF JobCallFails
  <2>2. QED
    BY <1>1, <2>1 DEF JobCallFails, MaintainerTypeOK
<1>2. ASSUME NEW t \in Tasks, TaskCallFails(c, t) PROVE StoreTypeOK' /\ MaintainerTypeOK'
  <2>1. tm' \in [Controllers -> [Tasks -> TaskGoroutine \cup {NoGoroutine}]]
    BY <1>2, TaskGotoTypes DEF TaskCallFails
  <2>2. QED
    BY <1>2, <2>1 DEF TaskCallFails, MaintainerTypeOK
<1>3. QED
  BY <1>1, <1>2

\* Every step keeps the types of every component.
LEMMA NextTypes == TypeInv /\ [Next]_vars => TypeInv'
<1> SUFFICES ASSUME TypeInv, [Next]_vars PROVE TypeInv'
  OBVIOUS
<1>w. ASSUME UNCHANGED workerVars PROVE WorkerTypeOK' /\ HasTask'
  BY <1>w DEF TypeInv, TypeOK, workerVars, WorkerTypeOK, HasTask
<1>m. ASSUME UNCHANGED maintVars PROVE MaintainerTypeOK'
  BY <1>m DEF TypeInv, TypeOK, maintVars, MaintainerTypeOK
<1>r. ASSUME UNCHANGED reaping PROVE ReaperTypeOK'
  BY <1>r DEF TypeInv, TypeOK, ReaperTypeOK
<1>s. ASSUME UNCHANGED schedVars PROVE SchedulerTypeOK'
  BY <1>s DEF TypeInv, TypeOK, schedVars, SchedulerTypeOK
<1>c. ASSUME UNCHANGED clientVars PROVE ClientTypeOK'
  BY <1>c DEF TypeInv, TypeOK, clientVars, ClientTypeOK
<1>e. crashes \in 0 .. MaxCrashes /\ faults \in 0 .. MaxFaults
  BY DEF TypeInv, TypeOK
<1> USE DEF envVars
<1>1. ASSUME NEW w \in Workers, WorkerAct(w) PROVE TypeInv'
  BY <1>1, <1>m, <1>r, <1>s, <1>c, <1>e, WorkerTypes DEF WorkerAct, TypeInv, TypeOK
<1>2. ASSUME NEW p \in Controllers, MaintainerAct(p) PROVE TypeInv'
  BY <1>2, <1>w, <1>r, <1>s, <1>c, <1>e, MaintainerTypes
     DEF MaintainerAct, MaintainerFrame, TypeInv, TypeOK
<1>3. ASSUME NEW p \in Controllers, ReaperAct(p) PROVE TypeInv'
  BY <1>3, <1>w, <1>m, <1>s, <1>c, <1>e, ReaperTypes DEF ReaperAct, TypeInv, TypeOK
<1>4. CASE SchedulerAct
  BY <1>4, <1>w, <1>m, <1>r, <1>c, <1>e, SchedulerTypes DEF SchedulerAct, TypeInv, TypeOK
<1>5. CASE ClientAct
  BY <1>5, <1>w, <1>m, <1>r, <1>s, <1>e, ClientTypes DEF ClientAct, ClientFrame, TypeInv, TypeOK
<1>6. CASE Crash
  <2>1. ASSUME NEW w \in Workers, CrashWorker(w) PROVE TypeInv'
    BY <2>1, <1>m, <1>r, <1>s, <1>c, <1>e, WorkerFailureTypes, EnvironmentAssumption
       DEF CrashWorker, TypeInv, TypeOK
  <2>2. ASSUME NEW p \in Controllers, CrashController(p) PROVE TypeInv'
    <3>1. StoreTypeOK' /\ MaintainerTypeOK' /\ ReaperTypeOK'
      BY <2>2 DEF CrashController, StopMaintainers, NotReaping, TypeInv, TypeOK, StoreTypeOK,
                  MaintainerTypeOK, ReaperTypeOK, jobVars, taskVars, Procs
    <3>2. QED
      BY <2>2, <3>1, <1>w, <1>s, <1>c, <1>e, EnvironmentAssumption
         DEF CrashController, TypeInv, TypeOK
  <2>3. CASE CrashScheduler
    BY <2>3, <1>w, <1>m, <1>r, <1>c, <1>e, SchedulerTypes, EnvironmentAssumption
       DEF CrashScheduler, TypeInv, TypeOK
  <2>4. QED
    BY <1>6, <2>1, <2>2, <2>3 DEF Crash
<1>7. CASE Fault
  <2>0. UNCHANGED <<clientVars, crashes>> /\ faults' \in 0 .. MaxFaults
    BY <1>7, <1>e, EnvironmentAssumption DEF Fault
  <2>1. ASSUME NEW w \in Workers, WorkerFault(w) PROVE TypeInv'
    BY <2>0, <2>1, <1>m, <1>r, <1>s, <1>c, <1>e, WorkerFailureTypes
       DEF WorkerFault, TypeInv, TypeOK
  <2>2. ASSUME NEW p \in Controllers, MaintainerFault(p) PROVE TypeInv'
    BY <2>0, <2>2, <1>w, <1>r, <1>s, <1>c, <1>e, MaintainerFailureTypes
       DEF MaintainerFault, TypeInv, TypeOK
  <2>3. ASSUME NEW p \in Controllers, ReaperFault(p) PROVE TypeInv'
    BY <2>0, <2>3, <1>w, <1>m, <1>s, <1>c, <1>e, ReaperTypes DEF ReaperFault, TypeInv, TypeOK
  <2>4. CASE SchedulerFault
    BY <2>0, <2>4, <1>w, <1>m, <1>r, <1>c, <1>e, SchedulerTypes
       DEF SchedulerFault, TypeInv, TypeOK
  <2>5. QED
    BY <1>7, <2>1, <2>2, <2>3, <2>4 DEF Fault
<1>8. CASE UNCHANGED vars
  <2>1. StoreTypeOK'
    BY <1>8 DEF vars, storeVars, jobVars, taskVars, procVars, TypeInv, TypeOK, StoreTypeOK
  <2>2. QED
    BY <1>8, <2>1, <1>w, <1>m, <1>r, <1>s, <1>c, <1>e DEF vars, TypeInv, TypeOK
<1>9. QED
  BY <1>1, <1>2, <1>3, <1>4, <1>5, <1>6, <1>7, <1>8 DEF Next

\* The inductive invariant holds in every reachable state.
THEOREM TypesHold == Spec => []TypeInv
<1>1. QED
  BY InitTypes, NextTypes, PTL DEF Spec

\* Every document keeps a status, a stage and a process field of the right kind
\* and every process a program point of its own, for every number of workers,
\* controllers, jobs and tasks, every crash and every failed database call.
THEOREM TypeCorrect == Spec => []TypeOK
<1>1. TypeInv => TypeOK
  BY DEF TypeInv
<1>2. QED
  BY <1>1, TypesHold, PTL

------------------------------------------------------------------------------
(* Mutual exclusion.  A lock can be taken away from its holder only by the *)
(* reaper, and a process that is not suspected wrongly is dead by then and *)
(* handles nothing any more.                                               *)

DeadAreIdle ==
    /\ \A w \in Workers : ~alive[w] => cur[w] = NoTask
    /\ \A c \in Controllers : ~alive[c] =>
          /\ \A j \in Jobs : jm[c][j] = NoGoroutine
          /\ \A t \in Tasks : tm[c][t] = NoGoroutine

ReapedAreDead ==
    \A c \in Controllers : reaping[c].proc # NoProc => ~alive[reaping[c].proc]

LockInv == HandlerHoldsLock /\ DeadAreIdle /\ ReapedAreDead

LEMMA InitLocks == Init => LockInv
BY DEF Init, WorkerInit, MaintainerInit, ReaperInit, NotReaping, StoreInit, LockInv,
       HandlerHoldsLock, DeadAreIdle, ReapedAreDead, Procs

\* Most steps of a worker touch no lock.
LEMMA WorkerKeepsLocks ==
    ASSUME NEW w \in Workers,
           \/ MarkWorking(w) \/ MarkIdle(w) \/ ReadTask(w) \/ WriteStatus(w) \/ WriteStage(w)
           \/ LoadModel(w) \/ GetTaskStatus(w) \/ RunStage(w) \/ WriteQuality(w)
           \/ CheckJob(w) \/ ReadJob(w) \/ WriteJobCompleted(w) \/ TerminateRest(w)
           \/ WorkerCallFails(w)
    PROVE  UNCHANGED <<cur, taskLock, jobLock, alive>>
<1> USE DEF storeVars, jobVars, taskVars, procVars
<1>1. CASE MarkWorking(w) \/ MarkIdle(w)
  BY <1>1 DEF MarkWorking, MarkIdle
<1>2. CASE ReadTask(w)
  BY <1>2 DEF ReadTask
<1>3. CASE WriteStatus(w)
  BY <1>3 DEF WriteStatus
<1>4. CASE WriteStage(w)
  BY <1>4 DEF WriteStage
<1>5. CASE LoadModel(w)
  BY <1>5 DEF LoadModel
<1>6. CASE GetTaskStatus(w)
  BY <1>6 DEF GetTaskStatus
<1>7. CASE RunStage(w)
  BY <1>7 DEF RunStage
<1>8. CASE WriteQuality(w)
  BY <1>8 DEF WriteQuality
<1>9. CASE CheckJob(w)
  BY <1>9 DEF CheckJob
<1>10. CASE ReadJob(w)
  BY <1>10 DEF ReadJob
<1>11. CASE WriteJobCompleted(w)
  BY <1>11 DEF WriteJobCompleted
<1>12. CASE TerminateRest(w)
  BY <1>12 DEF TerminateRest
<1>13. CASE WorkerCallFails(w)
  BY <1>13 DEF WorkerCallFails
<1>14. QED
  BY <1>1, <1>2, <1>3, <1>4, <1>5, <1>6, <1>7, <1>8, <1>9, <1>10, <1>11, <1>12, <1>13

LEMMA WorkerLocks ==
    ASSUME TypeInv, LockInv, NEW w \in Workers,
           WorkerStep(w) \/ WorkerCrash(w) \/ WorkerCallFails(w) \/ WorkerLockFails(w),
           UNCHANGED <<maintVars, reaping>>
    PROVE  LockInv'
<1> USE DEF LockInv, maintVars
<1>t. /\ cur \in [Workers -> Tasks \cup {NoTask}]
      /\ taskLock \in [Tasks -> Procs \cup {NoProc}]
      /\ alive \in [Procs -> BOOLEAN]
      /\ reaping \in [Controllers -> [proc : Procs \cup {NoProc}, step : {"jobs", "tasks"}]]
  BY DEF TypeInv, TypeOK, StoreTypeOK, WorkerTypeOK, ReaperTypeOK
<1>p. w \in Procs /\ w \notin Controllers /\ NoProc \notin Procs /\ Controllers \subseteq Procs
      /\ Workers \subseteq Procs
  BY ProcsAssumption DEF Procs
<1>1. CASE UNCHANGED <<cur, taskLock, jobLock, alive>>
  BY <1>1 DEF HandlerHoldsLock, DeadAreIdle, ReapedAreDead
<1>2. ASSUME NEW t \in Tasks, WorkerLock(w, t) PROVE LockInv'
  <2>1. /\ taskLock[t] = NoProc /\ alive[w]
        /\ taskLock' = [taskLock EXCEPT ![t] = w]
        /\ cur' = [cur EXCEPT ![w] = t]
        /\ UNCHANGED <<jobLock, alive>>
    BY <1>2 DEF WorkerLock, At, LockTask, TaskLockable, jobVars, procVars
  <2>2. HandlerHoldsLock'
    BY <1>t, <1>p, <2>1 DEF HandlerHoldsLock
  <2>3. DeadAreIdle' /\ ReapedAreDead'
    BY <1>t, <1>p, <2>1 DEF DeadAreIdle, ReapedAreDead
  <2>4. QED
    BY <2>2, <2>3
<1>3. CASE WorkerUnlock(w)
  <2>1. /\ taskLock[cur[w]] = w
        /\ taskLock' = [taskLock EXCEPT ![cur[w]] = NoProc]
        /\ cur' = [cur EXCEPT ![w] = NoTask]
        /\ UNCHANGED <<jobLock, alive>>
    BY <1>3 DEF WorkerUnlock, UnlockTask, jobVars, procVars
  <2>2. HandlerHoldsLock'
    BY <1>t, <1>p, <2>1 DEF HandlerHoldsLock
  <2>3. DeadAreIdle' /\ ReapedAreDead'
    BY <1>t, <1>p, <2>1 DEF DeadAreIdle, ReapedAreDead
  <2>4. QED
    BY <2>2, <2>3
<1>4. CASE FailTask(w)
  <2>1. cur' = [cur EXCEPT ![w] = NoTask] /\ UNCHANGED <<taskLock, jobLock, alive>>
    BY <1>4 DEF FailTask, jobVars, procVars
  <2>2. QED
    BY <1>t, <1>p, <2>1 DEF HandlerHoldsLock, DeadAreIdle, ReapedAreDead
<1>5. CASE StopWorker(w) /\ UNCHANGED <<jobVars, taskLock>>
  <2>1. /\ cur' = [cur EXCEPT ![w] = NoTask]
        /\ alive' = [alive EXCEPT ![w] = FALSE]
        /\ UNCHANGED <<taskLock, jobLock>>
    BY <1>5 DEF StopWorker, jobVars
  <2>2. HandlerHoldsLock'
    BY <1>t, <1>p, <2>1 DEF HandlerHoldsLock
  <2>3. DeadAreIdle' /\ ReapedAreDead'
    BY <1>t, <1>p, <2>1 DEF DeadAreIdle, ReapedAreDead
  <2>4. QED
    BY <2>2, <2>3
<1> HIDE DEF LockInv, maintVars
<1>6. QED
  BY <1>1, <1>2, <1>3, <1>4, <1>5, WorkerKeepsLocks
     DEF WorkerStep, WorkerPanic, WorkerCrash, WorkerLockFails, taskVars

LEMMA MaintainerLocks ==
    ASSUME TypeInv, LockInv, NEW c \in Controllers,
           \/ MaintainerStep(c)
           \/ \E j \in Jobs : JobCallFails(c, j)
           \/ \E t \in Tasks : TaskCallFails(c, t),
           UNCHANGED <<cur, reaping>>
    PROVE  LockInv'
<1> DEFINE Good == LockInv'
<1> SUFFICES Good
  OBVIOUS
<1>t. /\ cur \in [Workers -> Tasks \cup {NoTask}]
      /\ taskLock \in [Tasks -> Procs \cup {NoProc}]
      /\ jobLock \in [Jobs -> Procs \cup {NoProc}]
      /\ jm \in [Controllers -> [Jobs -> JobGoroutine \cup {NoGoroutine}]]
      /\ tm \in [Controllers -> [Tasks -> TaskGoroutine \cup {NoGoroutine}]]
  BY DEF TypeInv, TypeOK, StoreTypeOK, WorkerTypeOK, MaintainerTypeOK
<1>p. c \notin Workers /\ NoProc \notin Workers \cup Controllers
  BY ProcsAssumption DEF Procs
<1>n. NoGoroutine.step = "none"
  BY DEF NoGoroutine
<1> USE DEF LockInv
\* A goroutine that only moves on holds the lock it held.
<1>1. ASSUME NEW j \in Jobs, NEW step, alive[c], jm[c][j].step # "none", JobGoto(c, j, step),
             UNCHANGED <<jobLock, taskLock, tm, alive>>
      PROVE  Good
  <2>1. \A d \in Controllers, i \in Jobs : d # c \/ i # j => jm'[d][i] = jm[d][i]
    BY <1>1, <1>t DEF JobGoto
  <2>2. jm[c][j] # NoGoroutine
    BY <1>1, <1>n
  <2>3. QED
    BY <1>1, <2>1, <2>2 DEF HandlerHoldsLock, DeadAreIdle, ReapedAreDead
<1>2. ASSUME NEW t \in Tasks, NEW step, alive[c], tm[c][t].step # "none", TaskGoto(c, t, step),
             UNCHANGED <<jobLock, taskLock, jm, alive>>
      PROVE  Good
  <2>1. \A d \in Controllers, u \in Tasks : d # c \/ u # t => tm'[d][u] = tm[d][u]
    BY <1>2, <1>t DEF TaskGoto
  <2>2. tm[c][t] # NoGoroutine
    BY <1>2, <1>n
  <2>3. QED
    BY <1>2, <2>1, <2>2 DEF HandlerHoldsLock, DeadAreIdle, ReapedAreDead
<1>3. ASSUME NEW j \in Jobs, NEW kind \in JobTransient, MaintainJob(c, j, kind) PROVE Good
  <2>1. /\ alive[c] /\ jobLock[j] = NoProc
        /\ jobLock' = [jobLock EXCEPT ![j] = c]
        /\ UNCHANGED <<taskLock, tm, alive>>
    BY <1>3 DEF MaintainJob, JobAt, LockJob, JobLockable, taskVars, procVars
  <2>2. \A d \in Controllers, i \in Jobs : d # c \/ i # j => jm'[d][i] = jm[d][i]
    BY <1>3, <1>t DEF MaintainJob
  <2>3. HandlerHoldsLock'
    BY <1>p, <1>t, <2>1, <2>2 DEF HandlerHoldsLock
  <2>4. DeadAreIdle' /\ ReapedAreDead'
    BY <1>p, <1>t, <2>1, <2>2 DEF DeadAreIdle, ReapedAreDead
  <2>5. QED
    BY <2>3, <2>4
<1>4. ASSUME NEW t \in Tasks, NEW kind \in {"pausing", "terminating"}, MaintainTask(c, t, kind)
      PROVE  Good
  <2>1. /\ alive[c] /\ taskLock[t] = NoProc
        /\ taskLock' = [taskLock EXCEPT ![t] = c]
        /\ UNCHANGED <<jobLock, jm, alive>>
    BY <1>4 DEF MaintainTask, TaskAt, LockTask, TaskLockable, jobVars, procVars
  <2>2. \A d \in Controllers, u \in Tasks : d # c \/ u # t => tm'[d][u] = tm[d][u]
    BY <1>4, <1>t DEF MaintainTask
  <2>3. HandlerHoldsLock'
    BY <1>p, <1>t, <2>1, <2>2 DEF HandlerHoldsLock
  <2>4. DeadAreIdle' /\ ReapedAreDead'
    BY <1>p, <1>t, <2>1, <2>2 DEF DeadAreIdle, ReapedAreDead
  <2>5. QED
    BY <2>3, <2>4
<1>5. ASSUME NEW j \in Jobs, JobUnlock(c, j) PROVE Good
  <2>1. /\ jobLock[j] = c /\ jobLock' = [jobLock EXCEPT ![j] = NoProc]
        /\ UNCHANGED <<taskLock, tm, alive>>
    BY <1>5 DEF JobUnlock, UnlockJob, taskVars, procVars
  <2>2. /\ \A d \in Controllers, i \in Jobs : d # c \/ i # j => jm'[d][i] = jm[d][i]
        /\ jm'[c][j] = NoGoroutine
    BY <1>5, <1>t DEF JobUnlock
  <2>3. HandlerHoldsLock'
    BY <1>t, <2>1, <2>2 DEF HandlerHoldsLock
  <2>4. DeadAreIdle' /\ ReapedAreDead'
    BY <1>t, <2>1, <2>2 DEF DeadAreIdle, ReapedAreDead
  <2>5. QED
    BY <2>3, <2>4
<1>6. ASSUME NEW t \in Tasks, TaskUnlock(c, t) PROVE Good
  <2>1. /\ taskLock[t] = c /\ taskLock' = [taskLock EXCEPT ![t] = NoProc]
        /\ UNCHANGED <<jobLock, jm, alive>>
    BY <1>6 DEF TaskUnlock, UnlockTask, jobVars, procVars
  <2>2. /\ \A d \in Controllers, u \in Tasks : d # c \/ u # t => tm'[d][u] = tm[d][u]
        /\ tm'[c][t] = NoGoroutine
    BY <1>6, <1>t DEF TaskUnlock
  <2>3. HandlerHoldsLock'
    BY <1>p, <1>t, <2>1, <2>2 DEF HandlerHoldsLock
  <2>4. DeadAreIdle' /\ ReapedAreDead'
    BY <1>p, <1>t, <2>1, <2>2 DEF DeadAreIdle, ReapedAreDead
  <2>5. QED
    BY <2>3, <2>4
<1> HIDE DEF Good, LockInv
<1>7. ASSUME NEW j \in Jobs, JobBulk(c, j) \/ JobRead(c, j) \/ JobWrite(c, j) \/ JobCallFails(c, j)
      PROVE  Good
  <2>1. alive[c] /\ jm[c][j].step # "none" /\ \E step : JobGoto(c, j, step)
    BY <1>7 DEF JobBulk, JobRead, JobWrite, JobCallFails, JobAt
  <2>2. UNCHANGED <<jobLock, taskLock, tm, alive>>
    BY <1>7 DEF JobBulk, JobRead, JobWrite, JobCallFails, storeVars, jobVars, taskVars, procVars
  <2>3. QED
    BY <1>1, <2>1, <2>2
<1>8. ASSUME NEW t \in Tasks, TaskRead(c, t) \/ TaskWrite(c, t) \/ TaskCallFails(c, t)
      PROVE  Good
  <2>1. alive[c] /\ tm[c][t].step # "none" /\ \E step : TaskGoto(c, t, step)
    BY <1>8 DEF TaskRead, TaskWrite, TaskCallFails, TaskAt
  <2>2. UNCHANGED <<jobLock, taskLock, jm, alive>>
    BY <1>8 DEF TaskRead, TaskWrite, TaskCallFails, storeVars, jobVars, taskVars, procVars
  <2>3. QED
    BY <1>2, <2>1, <2>2
<1>9. QED
  BY <1>3, <1>4, <1>5, <1>6, <1>7, <1>8
     DEF MaintainerStep, JobMaintainerStep, TaskMaintainerStep

\* The reaper takes locks only from the dead.
LEMMA ReaperLocks ==
    ASSUME MaySuspect = {}, TypeInv, LockInv, NEW c \in Controllers,
           ReaperStep(c) \/ ReleaseFails(c),
           UNCHANGED <<cur, maintVars>>
    PROVE  LockInv'
<1> USE DEF LockInv, maintVars
<1>t. /\ cur \in [Workers -> Tasks \cup {NoTask}]
      /\ taskLock \in [Tasks -> Procs \cup {NoProc}]
      /\ jobLock \in [Jobs -> Procs \cup {NoProc}]
      /\ reaping \in [Controllers -> [proc : Procs \cup {NoProc}, step : {"jobs", "tasks"}]]
  BY DEF TypeInv, TypeOK, StoreTypeOK, WorkerTypeOK, ReaperTypeOK
<1>1. ASSUME NEW p \in Procs, DeclareDead(c, p) PROVE LockInv'
  <2>1. ~alive[p] /\ UNCHANGED <<taskLock, jobLock, alive>>
        /\ reaping' = [reaping EXCEPT ![c].proc = p]
    BY <1>1 DEF DeclareDead, jobVars, taskVars
  <2>2. ReapedAreDead'
    BY <1>t, <2>1 DEF ReapedAreDead
  <2>3. QED
    BY <2>1, <2>2 DEF HandlerHoldsLock, DeadAreIdle
<1>2. CASE ReleaseJobs(c)
  <2>1. /\ ~alive[reaping[c].proc]
        /\ jobLock' = [j \in Jobs |-> IF jobLock[j] = reaping[c].proc /\ jobStatus[j] # "error"
                                      THEN NoProc ELSE jobLock[j]]
        /\ reaping' = [reaping EXCEPT ![c].step = "tasks"]
        /\ UNCHANGED <<taskLock, alive>>
    BY <1>2 DEF ReleaseJobs, Reaping, ReleaseJobLockByProcess, ReapedAreDead, taskVars, procVars
  <2>2. HandlerHoldsLock'
    BY <2>1 DEF HandlerHoldsLock, DeadAreIdle
  <2>3. ReapedAreDead'
    BY <1>t, <2>1 DEF ReapedAreDead
  <2>4. QED
    BY <2>1, <2>2, <2>3 DEF DeadAreIdle
<1>3. CASE ReleaseTasks(c)
  <2>1. /\ ~alive[reaping[c].proc]
        /\ taskLock' = [t \in Tasks |-> IF taskLock[t] = reaping[c].proc /\ taskStatus[t] # "error"
                                        THEN NoProc ELSE taskLock[t]]
        /\ reaping' = [reaping EXCEPT ![c] = NotReaping]
        /\ UNCHANGED <<jobLock, alive>>
    BY <1>3 DEF ReleaseTasks, Reaping, ReleaseTaskLockByProcess, ReapedAreDead, jobVars, procVars
  <2>2. HandlerHoldsLock'
    BY <1>t, <2>1 DEF HandlerHoldsLock, DeadAreIdle
  <2>3. ReapedAreDead'
    BY <1>t, <2>1 DEF ReapedAreDead, NotReaping
  <2>4. QED
    BY <2>1, <2>2, <2>3 DEF DeadAreIdle
<1>4. CASE ReleaseFails(c)
  <2>1. UNCHANGED <<taskLock, jobLock, alive>>
    BY <1>4 DEF ReleaseFails, storeVars, jobVars, taskVars, procVars
  <2>2. \/ reaping' = [reaping EXCEPT ![c].step = "tasks"]
        \/ reaping' = [reaping EXCEPT ![c] = NotReaping]
    BY <1>4 DEF ReleaseFails
  <2>3. ReapedAreDead'
    BY <1>t, <2>1, <2>2 DEF ReapedAreDead, NotReaping
  <2>4. QED
    BY <2>1, <2>3 DEF HandlerHoldsLock, DeadAreIdle
<1> HIDE DEF LockInv, maintVars
<1>5. QED
  BY <1>1, <1>2, <1>3, <1>4 DEF ReaperStep

LEMMA NextLocks ==
    ASSUME MaySuspect = {}
    PROVE  TypeInv /\ LockInv /\ [Next]_vars => LockInv'
<1> SUFFICES ASSUME TypeInv, LockInv, [Next]_vars PROVE LockInv'
  OBVIOUS
<1>a. alive \in [Procs -> BOOLEAN]
      /\ reaping \in [Controllers -> [proc : Procs \cup {NoProc}, step : {"jobs", "tasks"}]]
  BY DEF TypeInv, TypeOK, StoreTypeOK, ReaperTypeOK
<1>p. /\ Workers \cup Controllers \subseteq Procs
      /\ Scheduler \in Procs \ (Workers \cup Controllers)
      /\ Workers \cap Controllers = {}
  BY ProcsAssumption DEF Procs
<1> USE DEF workerVars, maintVars
<1>1. ASSUME NEW w \in Workers, WorkerAct(w) PROVE LockInv'
  BY <1>1, WorkerLocks DEF WorkerAct
<1>2. ASSUME NEW c \in Controllers, MaintainerAct(c) PROVE LockInv'
  BY <1>2, MaintainerLocks DEF MaintainerAct, MaintainerFrame
<1>3. ASSUME NEW c \in Controllers, ReaperAct(c) PROVE LockInv'
  BY <1>3, ReaperLocks DEF ReaperAct
\* The scheduler and the users touch no lock; a scheduler that stops handled none.
<1>4. CASE /\ UNCHANGED <<cur, taskLock, jobLock, maintVars, reaping>>
           /\ alive' = alive \/ alive' = [alive EXCEPT ![Scheduler] = FALSE]
  <2>1. HandlerHoldsLock'
    BY <1>4 DEF LockInv, HandlerHoldsLock
  <2>2. \A p \in Workers \cup Controllers : alive'[p] = alive[p]
    BY <1>4, <1>a, <1>p
  <2>3. DeadAreIdle'
    BY <1>4, <2>2 DEF LockInv, DeadAreIdle
  <2>4. ReapedAreDead'
    BY <1>4, <1>a DEF LockInv, ReapedAreDead
  <2>5. QED
    BY <2>1, <2>3, <2>4 DEF LockInv
<1>5. ASSUME SchedulerStep \/ SchedulerCallFails \/ SchedulerCrash
      PROVE  /\ UNCHANGED <<taskLock, jobLock>>
             /\ alive' = alive \/ alive' = [alive EXCEPT ![Scheduler] = FALSE]
  <2> USE DEF storeVars, jobVars, taskVars, procVars
  <2>1. CASE CountIdle \/ CountWorking \/ DecideToRun \/ DecideToWait
    BY <2>1 DEF CountIdle, CountWorking, DecideToRun, DecideToWait
  <2>2. CASE Suggest \/ EndOfSuggestions
    BY <2>2 DEF Suggest, EndOfSuggestions
  <2>3. CASE BadSuggestion \/ SchedulerCallFails \/ SchedulerCrash
    BY <2>3 DEF BadSuggestion, SchedulerCallFails, SchedulerCrash, SchedulerPanic, StopScheduler
  <2>4. ASSUME NEW j \in Jobs, NEW t \in Tasks, CreateTask(j, t)
        PROVE  UNCHANGED <<taskLock, jobLock, alive>>
    BY <2>4 DEF CreateTask
  <2>5. QED
    BY <1>5, <2>1, <2>2, <2>3, <2>4 DEF SchedulerStep
<1>6. CASE SchedulerAct
  BY <1>4, <1>5, <1>6 DEF SchedulerAct
<1>7. CASE ClientAct
  <2>1. UNCHANGED <<taskLock, jobLock, alive>>
    BY <1>7 DEF ClientAct, ClientStep, CreateJob, PatchRead, PatchWrite, storeVars, jobVars,
                taskVars, procVars
  <2>2. QED
    BY <1>4, <1>7, <2>1 DEF ClientAct, ClientFrame
<1>8. ASSUME NEW c \in Controllers, CrashController(c) PROVE LockInv'
  <2>1. /\ alive' = [alive EXCEPT ![c] = FALSE]
        /\ jm' = [jm EXCEPT ![c] = [j \in Jobs |-> NoGoroutine]]
        /\ tm' = [tm EXCEPT ![c] = [t \in Tasks |-> NoGoroutine]]
        /\ reaping' = [reaping EXCEPT ![c] = NotReaping]
        /\ UNCHANGED <<cur, taskLock, jobLock>>
    BY <1>8 DEF CrashController, StopMaintainers, jobVars, taskVars
  <2>2. MaintainerTypeOK
    BY DEF TypeInv, TypeOK
  <2>3. HandlerHoldsLock'
    BY <2>1, <2>2 DEF LockInv, HandlerHoldsLock, MaintainerTypeOK
  <2>4. DeadAreIdle'
    BY <1>a, <1>p, <2>1, <2>2 DEF LockInv, DeadAreIdle, MaintainerTypeOK
  <2>5. ReapedAreDead'
    BY <1>a, <2>1 DEF LockInv, ReapedAreDead, NotReaping
  <2>6. QED
    BY <2>3, <2>4, <2>5 DEF LockInv
<1>9. CASE Crash
  BY <1>4, <1>5, <1>8, <1>9, WorkerLocks DEF Crash, CrashWorker, CrashScheduler
<1>10. CASE Fault
  BY <1>4, <1>5, <1>10, WorkerLocks, MaintainerLocks, ReaperLocks
     DEF Fault, WorkerFault, MaintainerFault, ReaperFault, SchedulerFault
<1>11. CASE UNCHANGED vars
  BY <1>4, <1>11 DEF vars, storeVars, jobVars, taskVars, procVars
<1>12. QED
  BY <1>1, <1>2, <1>3, <1>6, <1>7, <1>9, <1>10, <1>11 DEF Next

\* As long as no live process misses its keepalive, a task or a job is worked on
\* only by the process named in its process field: LockTask and LockJob exclude
\* two workers, two maintainers, and a worker and a maintainer, whatever crashes
\* and whichever calls fail, and TerminateDeadProcesses takes locks only from
\* processes that handle nothing any more.
THEOREM LockSafety == MaySuspect = {} => (Spec => []HandlerHoldsLock)
<1> SUFFICES ASSUME MaySuspect = {} PROVE Spec => []HandlerHoldsLock
  OBVIOUS
<1>1. TypeInv /\ LockInv /\ [Next]_vars => LockInv'
  BY NextLocks
<1>2. LockInv => HandlerHoldsLock
  BY DEF LockInv
<1>3. QED
  BY <1>1, <1>2, InitLocks, TypesHold, PTL DEF Spec

------------------------------------------------------------------------------
(* Every step is the step of one actor, which leaves the local state of    *)
(* the others alone.                                                       *)

WorkerMoves(w) ==
    /\ WorkerStep(w) \/ WorkerCrash(w) \/ WorkerCallFails(w) \/ WorkerLockFails(w)
    /\ UNCHANGED <<maintVars, reaping, schedVars, clientVars>>

MaintainerMoves(c) ==
    /\ \/ MaintainerStep(c)
       \/ \E j \in Jobs : JobCallFails(c, j)
       \/ \E t \in Tasks : TaskCallFails(c, t)
    /\ UNCHANGED <<workerVars, reaping, schedVars, clientVars>>

ReaperMoves(c) ==
    /\ ReaperStep(c) \/ ReleaseFails(c)
    /\ UNCHANGED <<workerVars, maintVars, schedVars, clientVars>>

ControllerStops(c) ==
    /\ alive' = [alive EXCEPT ![c] = FALSE]
    /\ StopMaintainers(c)
    /\ UNCHANGED <<jobVars, taskVars, procStatus, workerVars, schedVars, clientVars>>

SchedulerMoves ==
    /\ SchedulerStep \/ SchedulerCallFails \/ SchedulerCrash
    /\ UNCHANGED <<workerVars, maintVars, reaping, clientVars>>

ClientMoves ==
    /\ ClientStep
    /\ UNCHANGED <<workerVars, maintVars, reaping, schedVars>>

NobodyMoves == UNCHANGED <<storeVars, workerVars, maintVars, schedVars, clientVars>>

\* Crashes and failed calls are steps of the process they happen to.
LEMMA StepsByActor ==
    ASSUME [Next]_vars
    PROVE  \/ \E w \in Workers : WorkerMoves(w)
           \/ \E c \in Controllers : MaintainerMoves(c) \/ ReaperMoves(c) \/ ControllerStops(c)
           \/ SchedulerMoves \/ ClientMoves \/ NobodyMoves
<1>1. ASSUME NEW w \in Workers, WorkerAct(w) \/ CrashWorker(w)
      PROVE  WorkerMoves(w)
  BY <1>1 DEF WorkerMoves, WorkerAct, CrashWorker
<1>2. ASSUME NEW c \in Controllers, MaintainerAct(c) \/ ReaperAct(c) \/ CrashController(c)
      PROVE  MaintainerMoves(c) \/ ReaperMoves(c) \/ ControllerStops(c)
  BY <1>2 DEF MaintainerMoves, ReaperMoves, ControllerStops, MaintainerAct, MaintainerFrame,
              ReaperAct, CrashController
<1>3. CASE SchedulerAct \/ CrashScheduler
  BY <1>3 DEF SchedulerMoves, SchedulerAct, CrashScheduler
<1>4. CASE ClientAct
  BY <1>4 DEF ClientMoves, ClientAct, ClientFrame
<1>5. CASE Fault
  <2>1. UNCHANGED clientVars
    BY <1>5 DEF Fault
  <2>2. ASSUME NEW w \in Workers, WorkerFault(w) PROVE WorkerMoves(w)
    BY <2>1, <2>2 DEF WorkerMoves, WorkerFault
  <2>3. ASSUME NEW c \in Controllers, MaintainerFault(c) \/ ReaperFault(c)
        PROVE  MaintainerMoves(c) \/ ReaperMoves(c)
    BY <2>1, <2>3 DEF MaintainerMoves, ReaperMoves, MaintainerFault, ReaperFault
  <2>4. CASE SchedulerFault
    BY <2>1, <2>4 DEF SchedulerMoves, SchedulerFault
  <2>5. QED
    BY <1>5, <2>2, <2>3, <2>4 DEF Fault
<1>6. CASE UNCHANGED vars
  BY <1>6 DEF NobodyMoves, vars
<1>7. QED
  BY <1>1, <1>2, <1>3, <1>4, <1>5, <1>6 DEF Next, Crash

------------------------------------------------------------------------------
(* Stages and the runs they come after.  The stage in the document is      *)
(* backed by runs because the stage in the memory of every worker is, and  *)
(* because a worker asks for the next stage only after the run of the one  *)
(* before, which has left its output or, when the container failed, its    *)
(* log.  Nothing is ever removed, so this needs no lock: it holds also     *)
(* when a live worker loses its task to another one.                       *)

Backed(stage, out) ==
    /\ StageIndex(stage) > 1 => Trained(out)
    /\ StageIndex(stage) > 2 => Predicted(out)
    /\ StageIndex(stage) > 3 => Evaluated(out)

\* What has been run for a worker that is about to record a stage.
PromisingPC == {"setPredicting", "setEvaluating", "setQuality", "setEnd", "setEndAgain"}

Promised(pc, out) ==
    /\ Trained(out)
    /\ pc # "setPredicting" => Predicted(out)
    /\ pc = "setQuality" => "evaluations" \in out
    /\ pc \in {"setEnd", "setEndAgain"} => Evaluated(out)

\* The stage during which a container runs.
StageAt(pc) ==
    CASE pc = "train"    -> "training"
      [] pc = "predict"  -> "predicting"
      [] pc = "evaluate" -> "evaluating"

WorkerIsBacked(w) ==
    cur[w] \in Tasks =>
       /\ Backed(lstage[w], outputs[cur[w]])
       /\ wpc[w] \in PromisingPC => Promised(wpc[w], outputs[cur[w]])
       /\ wpc[w] \in ContainerPC => lstage[w] = StageAt(wpc[w])

OutputsInv == StageHasOutputs /\ \A w \in Workers : WorkerIsBacked(w)

\* What each stage comes after.
LEMMA BackedStages ==
    /\ \A out : Backed("begin", out) /\ Backed("training", out)
    /\ \A out : Backed("predicting", out) <=> Trained(out)
    /\ \A out : Backed("evaluating", out) <=> Trained(out) /\ Predicted(out)
    /\ \A out : Backed("end", out) <=> Trained(out) /\ Predicted(out) /\ Evaluated(out)
BY DEF Backed, StageIndex

\* What was run stays run.
LEMMA BackedGrows ==
    ASSUME NEW out, NEW more, out \subseteq more
    PROVE  /\ Trained(out) => Trained(more)
           /\ Predicted(out) => Predicted(more)
           /\ Evaluated(out) => Evaluated(more)
           /\ \A stage : Backed(stage, out) => Backed(stage, more)
           /\ \A pc : Promised(pc, out) => Promised(pc, more)
<1>1. /\ Trained(out) => Trained(more)
      /\ Predicted(out) => Predicted(more)
      /\ Evaluated(out) => Evaluated(more)
  BY DEF Trained, Predicted, Evaluated
<1>2. QED
  BY <1>1 DEF Backed, Promised

\* A run is what its stage was for.
LEMMA RunsCount ==
    ASSUME NEW pc \in ContainerPC, NEW o \in RunsOf(pc), NEW out
    PROVE  /\ pc = "train" => Trained(out \cup {o})
           /\ pc = "predict" => Predicted(out \cup {o})
           /\ pc = "evaluate" => "evaluations" \in out \cup {o}
BY DEF ContainerPC, RunsOf, OutputOf, FailureOf, Trained, Predicted

\* The worker records the stages it may record and runs the containers it may run.
LEMMA StageTables ==
    /\ \A pc \in StagePC \ {"setTraining"} : pc \in PromisingPC /\
          \A out : Promised(pc, out) => Backed(StageOf(pc), out)
    /\ \A pc \in StagePC : AfterStage(pc) \in PromisingPC => pc = "setEnd" /\ AfterStage(pc) = "setEndAgain"
    /\ \A pc \in StagePC : AfterStage(pc) \notin ContainerPC
    /\ \A pc \in ContainerPC : \A o \in RunsOf(pc) : \A out :
          Backed(StageAt(pc), out) => Promised(AfterRun(pc), out \cup {o})
    /\ \A pc \in ContainerPC : AfterRun(pc) \in PromisingPC /\ AfterRun(pc) \notin ContainerPC
<1> USE DEF StagePC, PromisingPC, ContainerPC
<1>1. \A pc \in StagePC \ {"setTraining"} : pc \in PromisingPC /\
          \A out : Promised(pc, out) => Backed(StageOf(pc), out)
  BY BackedStages DEF Promised, StageOf
<1>2. \A pc \in StagePC :
         /\ AfterStage(pc) \in PromisingPC => pc = "setEnd" /\ AfterStage(pc) = "setEndAgain"
         /\ AfterStage(pc) \notin ContainerPC
  BY DEF AfterStage
<1>3. ASSUME NEW pc \in ContainerPC, NEW o \in RunsOf(pc), NEW out, Backed(StageAt(pc), out)
      PROVE  Promised(AfterRun(pc), out \cup {o})
  <2>1. /\ Trained(out) => Trained(out \cup {o})
        /\ Predicted(out) => Predicted(out \cup {o})
    BY BackedGrows
  <2>2. CASE pc = "train"
    BY <2>2, RunsCount DEF AfterRun, Promised
  <2>3. CASE pc = "predict"
    BY <1>3, <2>1, <2>3, RunsCount, BackedStages DEF StageAt, AfterRun, Promised
  <2>4. CASE pc = "evaluate"
    BY <1>3, <2>1, <2>4, RunsCount, BackedStages DEF StageAt, AfterRun, Promised
  <2>5. QED
    BY <2>2, <2>3, <2>4
<1>4. \A pc \in ContainerPC : AfterRun(pc) \in PromisingPC /\ AfterRun(pc) \notin ContainerPC
  BY DEF AfterRun
<1>5. QED
  BY <1>1, <1>2, <1>3, <1>4

\* A step of one worker that removes no output keeps what the others rely on.
LEMMA OthersStayBacked ==
    ASSUME OutputsInv, NEW w \in Workers,
           \A v \in Workers \ {w} : wpc'[v] = wpc[v] /\ cur'[v] = cur[v] /\ lstage'[v] = lstage[v],
           \A t \in Tasks : outputs[t] \subseteq outputs'[t],
           \A t \in Tasks : Backed(taskStage'[t], outputs'[t]),
           WorkerIsBacked(w)'
    PROVE  OutputsInv'
<1>1. StageHasOutputs'
  BY DEF StageHasOutputs, Backed
<1>2. ASSUME NEW v \in Workers \ {w} PROVE WorkerIsBacked(v)'
  <2>1. WorkerIsBacked(v)
    BY DEF OutputsInv
  <2>2. QED
    BY <2>1, BackedGrows DEF WorkerIsBacked
<1>3. QED
  BY <1>1, <1>2 DEF OutputsInv

\* The documents as the invariant sees them.
LEMMA DocumentsAreBacked ==
    ASSUME OutputsInv, NEW t \in Tasks
    PROVE  Backed(taskStage[t], outputs[t])
BY DEF OutputsInv, StageHasOutputs, Backed

\* A worker that moves to a call that promises nothing.
LEMMA PlainMoveStaysBacked ==
    ASSUME TypeInv, OutputsInv, NEW w \in Workers, NEW pc,
           pc = wpc[w] \/ pc \notin PromisingPC \cup ContainerPC,
           wpc' = [wpc EXCEPT ![w] = pc],
           UNCHANGED <<cur, lstage, outputs, taskStage>>
    PROVE  OutputsInv'
<1>t. wpc \in [Workers -> WorkerPC]
  BY DEF TypeInv, TypeOK, WorkerTypeOK
<1>1. WorkerIsBacked(w)
  BY DEF OutputsInv
<1>2. WorkerIsBacked(w)'
  BY <1>1, <1>t DEF WorkerIsBacked
<1>3. QED
  BY <1>t, <1>2, OthersStayBacked, DocumentsAreBacked

\* A worker that lets go of its task relies on nothing.
LEMMA LettingGoStaysBacked ==
    ASSUME TypeInv, OutputsInv, NEW w \in Workers, NEW pc,
           wpc' = [wpc EXCEPT ![w] = pc],
           cur' = [cur EXCEPT ![w] = NoTask],
           lstage' = [lstage EXCEPT ![w] = "begin"],
           \A t \in Tasks : outputs[t] \subseteq outputs'[t],
           UNCHANGED taskStage
    PROVE  OutputsInv'
<1>t. wpc \in [Workers -> WorkerPC] /\ cur \in [Workers -> Tasks \cup {NoTask}]
      /\ lstage \in [Workers -> TaskStage]
  BY DEF TypeInv, TypeOK, WorkerTypeOK
<1>1. NoTask \notin Tasks
  BY StoreAssumption DEF NoTask, Tasks
<1>2. WorkerIsBacked(w)'
  BY <1>1, <1>t DEF WorkerIsBacked
<1>3. \A t \in Tasks : Backed(taskStage'[t], outputs'[t])
  BY DocumentsAreBacked, BackedGrows
<1>4. QED
  BY <1>t, <1>2, <1>3, OthersStayBacked

LEMMA WorkerStaysBacked ==
    ASSUME TypeInv, OutputsInv, NEW w \in Workers, WorkerMoves(w)
    PROVE  OutputsInv'
<1>t. /\ wpc \in [Workers -> WorkerPC] /\ cur \in [Workers -> Tasks \cup {NoTask}]
      /\ lstage \in [Workers -> TaskStage]
      /\ taskStage \in [Tasks -> TaskStage] /\ outputs \in [Tasks -> SUBSET Output]
      /\ taskStatus \in [Tasks -> TaskStatus]
  BY DEF TypeInv, TypeOK, WorkerTypeOK, StoreTypeOK
<1>h. wpc[w] \in HandlingPC => cur[w] \in Tasks
  BY DEF TypeInv, HasTask
<1>w. WorkerIsBacked(w)
  BY DEF OutputsInv
<1>v. ASSUME NEW pc, wpc' = [wpc EXCEPT ![w] = pc]
      PROVE  wpc'[w] = pc /\ \A v \in Workers \ {w} : wpc'[v] = wpc[v]
  BY <1>t, <1>v
<1> USE DEF storeVars, jobVars, taskVars, procVars, Goto, At
<1>1. ASSUME NEW t \in Tasks, WorkerLock(w, t) PROVE OutputsInv'
  <2>1. /\ wpc' = [wpc EXCEPT ![w] = "markWorking"]
        /\ cur' = [cur EXCEPT ![w] = t] /\ lstage' = [lstage EXCEPT ![w] = taskStage[t]]
        /\ UNCHANGED <<outputs, taskStage>>
    BY <1>1 DEF WorkerLock
  <2>2. WorkerIsBacked(w)'
    BY <1>t, <2>1, DocumentsAreBacked DEF WorkerIsBacked, PromisingPC, ContainerPC
  <2>3. QED
    BY <1>t, <2>1, <2>2, OthersStayBacked, DocumentsAreBacked
<1>2. CASE MarkWorking(w) \/ MarkIdle(w)
  <2>1. \E pc \in {"setRunning", "idle"} : wpc' = [wpc EXCEPT ![w] = pc]
    BY <1>2 DEF MarkWorking, MarkIdle
  <2>2. UNCHANGED <<cur, lstage, outputs, taskStage>>
    BY <1>2 DEF MarkWorking, MarkIdle
  <2>3. QED
    BY <2>1, <2>2, PlainMoveStaysBacked DEF PromisingPC, ContainerPC
<1>3. CASE ReadTask(w) \/ WorkerCallFails(w) \/ ReadJob(w) \/ CheckJob(w)
  <2>1. UNCHANGED <<cur, lstage, outputs, taskStage>>
    BY <1>3 DEF ReadTask, WorkerCallFails, ReadJob, CheckJob
  <2>2. \E pc \in {wpc[w], "stuck", "terminateRest", "completeJob", "unlock"} :
           wpc' = [wpc EXCEPT ![w] = pc]
    BY <1>3, <1>t DEF ReadTask, WorkerCallFails, ReadJob, CheckJob
  <2>3. QED
    BY <2>1, <2>2, PlainMoveStaysBacked DEF PromisingPC, ContainerPC
<1>4. CASE WriteStatus(w)
  <2>1. AfterStatus(wpc[w]) \notin PromisingPC \cup ContainerPC
    BY <1>4 DEF WriteStatus, StatusPC, AfterStatus, PromisingPC, ContainerPC
  <2>2. QED
    BY <1>4, <2>1, PlainMoveStaysBacked DEF WriteStatus
<1>5. CASE WriteStage(w)
  <2> DEFINE pc == wpc[w]
             s == StageOf(wpc[w])
             out == outputs[cur[w]]
  <2>1. /\ pc \in StagePC
        /\ taskStage' = [taskStage EXCEPT ![cur[w]] = s]
        /\ lstage' = [lstage EXCEPT ![w] = s]
        /\ wpc' = [wpc EXCEPT ![w] = AfterStage(pc)]
        /\ UNCHANGED <<outputs, cur>>
    BY <1>5 DEF WriteStage
  <2>2. cur[w] \in Tasks
    BY <2>1, <1>h DEF HandlingPC, CallPC, StagePC
  <2>3. Backed(s, out)
    <3>1. CASE pc = "setTraining"
      BY <3>1, BackedStages DEF StageOf
    <3>2. CASE pc # "setTraining"
      BY <3>2, <2>1, <2>2, <1>w, StageTables DEF WorkerIsBacked
    <3>3. QED
      BY <3>1, <3>2
  <2>4. AfterStage(pc) \in PromisingPC => Promised(AfterStage(pc), out)
    <3>1. AfterStage(pc) \in PromisingPC => pc = "setEnd" /\ AfterStage(pc) = "setEndAgain"
      BY <2>1, StageTables
    <3>2. Promised("setEnd", out) => Promised("setEndAgain", out)
      BY DEF Promised
    <3>3. pc = "setEnd" => Promised("setEnd", out)
      BY <1>w, <2>2 DEF WorkerIsBacked, PromisingPC
    <3>4. QED
      BY <3>1, <3>2, <3>3
  <2>5. AfterStage(pc) \notin ContainerPC
    BY <2>1, StageTables
  <2>6. WorkerIsBacked(w)'
    BY <1>t, <2>1, <2>3, <2>4, <2>5 DEF WorkerIsBacked
  <2>7. \A t \in Tasks : Backed(taskStage'[t], outputs'[t])
    BY <1>t, <2>1, <2>2, <2>3, DocumentsAreBacked
  <2> HIDE DEF pc, s, out
  <2>8. QED
    BY <1>t, <2>1, <2>6, <2>7, OthersStayBacked
<1>6. CASE LoadModel(w)
  <2>1. \E pc \in {"setTraining", "chkTraining", "setError"} : wpc' = [wpc EXCEPT ![w] = pc]
    BY <1>6 DEF LoadModel
  <2>2. UNCHANGED <<cur, lstage, outputs, taskStage>>
    BY <1>6 DEF LoadModel
  <2>3. QED
    BY <2>1, <2>2, PlainMoveStaysBacked DEF PromisingPC, ContainerPC
<1>7. CASE GetTaskStatus(w)
  <2> DEFINE pc == AfterCheck(wpc[w], taskStatus[cur[w]], lstage[w])
  <2>1. /\ wpc' = [wpc EXCEPT ![w] = pc]
        /\ UNCHANGED <<cur, lstage, outputs, taskStage>>
    BY <1>7 DEF GetTaskStatus
  <2>2. pc \notin PromisingPC /\ (pc \in ContainerPC => lstage[w] = StageAt(pc))
    BY <1>7 DEF GetTaskStatus, CheckPC, AfterCheck, Conclude, PromisingPC, ContainerPC, StageAt
  <2> HIDE DEF pc
  <2>3. WorkerIsBacked(w)'
    BY <1>t, <1>w, <2>1, <2>2 DEF WorkerIsBacked
  <2>4. QED
    BY <1>t, <2>1, <2>3, OthersStayBacked, DocumentsAreBacked
<1>8. CASE RunStage(w)
  <2>1. cur[w] \in Tasks /\ wpc[w] \in ContainerPC
    BY <1>8, <1>h DEF RunStage, HandlingPC
  <2>2. ASSUME NEW o \in RunsOf(wpc[w]), outputs' = [outputs EXCEPT ![cur[w]] = @ \cup {o}]
        PROVE  OutputsInv'
    <3>1. /\ UNCHANGED <<cur, lstage, taskStage>>
          /\ \E pc \in {AfterRun(wpc[w]), "setError"} : wpc' = [wpc EXCEPT ![w] = pc]
      BY <1>8 DEF RunStage
    <3>2. \A t \in Tasks : outputs[t] \subseteq outputs'[t]
      BY <1>t, <2>1, <2>2
    <3>3. outputs'[cur[w]] = outputs[cur[w]] \cup {o} /\ wpc'[w] \in {AfterRun(wpc[w]), "setError"}
      BY <1>t, <2>1, <2>2, <3>1
    <3>4. Backed(lstage[w], outputs[cur[w]]) /\ lstage[w] = StageAt(wpc[w])
      BY <1>w, <2>1 DEF WorkerIsBacked
    <3>5. Promised(AfterRun(wpc[w]), outputs'[cur[w]]) /\ AfterRun(wpc[w]) \notin ContainerPC
      BY <2>1, <3>3, <3>4, StageTables
    <3>6. Backed(lstage[w], outputs'[cur[w]])
      BY <2>1, <3>2, <3>4, BackedGrows
    <3>7. WorkerIsBacked(w)'
      BY <3>1, <3>3, <3>5, <3>6 DEF WorkerIsBacked, PromisingPC, ContainerPC
    <3>8. \A t \in Tasks : Backed(taskStage'[t], outputs'[t])
      BY <3>1, <3>2, DocumentsAreBacked, BackedGrows
    <3>9. QED
      BY <1>v, <3>1, <3>2, <3>7, <3>8, OthersStayBacked
  <2>3. CASE UNCHANGED outputs
    <3>1. CASE wpc' = [wpc EXCEPT ![w] = "setError"]
      BY <1>8, <2>3, <3>1, PlainMoveStaysBacked DEF RunStage, PromisingPC, ContainerPC
    <3>2. CASE wpc' # [wpc EXCEPT ![w] = "setError"]
      <4>1. Leave(cur[w], {OutputOf(wpc[w])})
            \/ (ModulesFail /\ wpc[w] # "evaluate" /\ Leave(cur[w], {FailureOf(wpc[w])}))
        BY <1>8, <3>2 DEF RunStage
      <4>2. QED
        BY <2>2, <4>1 DEF Leave, RunsOf
    <3>3. QED
      BY <3>1, <3>2
  <2>4. QED
    BY <1>t, <1>8, <2>2, <2>3, RunsLeaveOneOutput
<1>9. CASE WriteQuality(w)
  <2>1. /\ wpc[w] = "setQuality" /\ wpc' = [wpc EXCEPT ![w] = "setEnd"]
        /\ outputs' = [outputs EXCEPT ![cur[w]] = @ \cup {"quality"}]
        /\ UNCHANGED <<cur, lstage, taskStage>>
    BY <1>9 DEF WriteQuality
  <2>2. cur[w] \in Tasks
    BY <2>1, <1>h DEF HandlingPC, CallPC
  <2>3. \A t \in Tasks : outputs[t] \subseteq outputs'[t]
    BY <1>t, <2>1, <2>2
  <2>4. Trained(outputs[cur[w]]) /\ Predicted(outputs[cur[w]]) /\ "evaluations" \in outputs[cur[w]]
    BY <1>w, <2>1, <2>2 DEF WorkerIsBacked, PromisingPC, Promised
  <2>5. Promised("setEnd", outputs'[cur[w]])
    <3>1. Trained(outputs'[cur[w]]) /\ Predicted(outputs'[cur[w]])
      BY <2>2, <2>3, <2>4, BackedGrows
    <3>2. {"evaluations", "quality"} \subseteq outputs'[cur[w]]
      BY <1>t, <2>1, <2>2, <2>4
    <3>3. QED
      BY <3>1, <3>2 DEF Promised, Evaluated
  <2>6. Backed(lstage[w], outputs'[cur[w]])
    BY <1>w, <2>2, <2>3, BackedGrows DEF WorkerIsBacked
  <2>7. WorkerIsBacked(w)'
    BY <1>t, <2>1, <2>5, <2>6 DEF WorkerIsBacked, ContainerPC
  <2>8. \A t \in Tasks : Backed(taskStage'[t], outputs'[t])
    BY <2>1, <2>3, DocumentsAreBacked, BackedGrows
  <2>9. QED
    BY <1>v, <2>1, <2>3, <2>7, <2>8, OthersStayBacked
<1>10. CASE FailTask(w)
  BY <1>10, LettingGoStaysBacked DEF FailTask
<1>11. CASE WriteJobCompleted(w) \/ TerminateRest(w)
  <2>1. \E pc \in {"terminateRest", "unlock"} : wpc' = [wpc EXCEPT ![w] = pc]
    BY <1>11 DEF WriteJobCompleted, TerminateRest
  <2>2. UNCHANGED <<cur, lstage, outputs, taskStage>>
    BY <1>11 DEF WriteJobCompleted, TerminateRest
  <2>3. QED
    BY <2>1, <2>2, PlainMoveStaysBacked DEF PromisingPC, ContainerPC
<1>12. CASE WorkerUnlock(w)
  BY <1>12, LettingGoStaysBacked DEF WorkerUnlock
<1>13. CASE WorkerPanic(w) \/ WorkerCrash(w) \/ WorkerLockFails(w)
  <2>1. StopWorker(w) /\ UNCHANGED taskStage
    BY <1>13 DEF WorkerPanic, WorkerCrash, WorkerLockFails
  <2>2. \A t \in Tasks : outputs[t] \subseteq outputs'[t]
    BY <1>13, <1>t, RunsLeaveOneOutput DEF WorkerCrash, WorkerLockFails
  <2>3. QED
    BY <2>1, <2>2, LettingGoStaysBacked DEF StopWorker
<1>14. QED
  BY <1>1, <1>2, <1>3, <1>4, <1>5, <1>6, <1>7, <1>8, <1>9, <1>10, <1>11, <1>12, <1>13
     DEF WorkerMoves, WorkerStep

\* Only the creation of a task touches a stage outside a worker, and nothing outside
\* a worker touches an output.
LEMMA StagesOutsideWorkers ==
    ASSUME \/ \E c \in Controllers : MaintainerMoves(c) \/ ReaperMoves(c) \/ ControllerStops(c)
           \/ SchedulerMoves \/ ClientMoves \/ NobodyMoves
    PROVE  /\ UNCHANGED <<workerVars, outputs>>
           /\ \/ UNCHANGED <<taskJob, taskStage>>
              \/ \E j \in Jobs, t \in Tasks : CreateTask(j, t)
<1> USE DEF storeVars, jobVars, taskVars, procVars
<1>1. ASSUME NEW c \in Controllers, MaintainerMoves(c)
      PROVE  UNCHANGED <<workerVars, outputs, taskJob, taskStage>>
  <2>1. CASE MaintainerStep(c)
    BY <1>1, <2>1
       DEF MaintainerMoves, MaintainerStep, JobMaintainerStep, TaskMaintainerStep, MaintainJob,
           MaintainTask, JobBulk, JobRead, JobWrite, JobUnlock, TaskRead, TaskWrite, TaskUnlock
  <2>2. QED
    BY <1>1, <2>1 DEF MaintainerMoves, JobCallFails, TaskCallFails
<1>2. ASSUME NEW c \in Controllers, ReaperMoves(c) \/ ControllerStops(c)
      PROVE  UNCHANGED <<workerVars, outputs, taskJob, taskStage>>
  BY <1>2 DEF ReaperMoves, ReaperStep, DeclareDead, ReleaseJobs, ReleaseTasks, ReleaseFails,
              ControllerStops
<1>3. CASE SchedulerMoves
  <2>1. CASE SchedulerCallFails \/ SchedulerCrash
    BY <1>3, <2>1 DEF SchedulerMoves, SchedulerCallFails, SchedulerCrash, SchedulerPanic,
                      StopScheduler
  <2>2. CASE CountIdle \/ CountWorking \/ DecideToRun \/ DecideToWait \/ Suggest
             \/ EndOfSuggestions \/ BadSuggestion
    BY <1>3, <2>2 DEF SchedulerMoves, CountIdle, CountWorking, DecideToRun, DecideToWait,
                      Suggest, EndOfSuggestions, BadSuggestion, SchedulerPanic, StopScheduler
  <2>3. ASSUME NEW j \in Jobs, NEW t \in Tasks, CreateTask(j, t)
        PROVE  UNCHANGED <<workerVars, outputs>>
    BY <1>3, <2>3 DEF SchedulerMoves, CreateTask
  <2>4. QED
    BY <1>3, <2>1, <2>2, <2>3 DEF SchedulerMoves, SchedulerStep
<1>4. CASE ClientMoves
  BY <1>4 DEF ClientMoves, ClientStep, CreateJob, PatchRead, PatchWrite
<1>5. CASE NobodyMoves
  BY <1>5 DEF NobodyMoves
<1>6. QED
  BY <1>1, <1>2, <1>3, <1>4, <1>5

LEMMA NextStaysBacked == TypeInv /\ OutputsInv /\ [Next]_vars => OutputsInv'
<1> SUFFICES ASSUME TypeInv, OutputsInv, [Next]_vars PROVE OutputsInv'
  OBVIOUS
<1>t. taskStage \in [Tasks -> TaskStage]
  BY DEF TypeInv, TypeOK, StoreTypeOK
<1>1. ASSUME UNCHANGED <<workerVars, outputs>>, \A t \in Tasks : taskStage'[t] \in {taskStage[t], "begin"}
      PROVE  OutputsInv'
  <2>1. \A t \in Tasks : Backed(taskStage'[t], outputs'[t])
    BY <1>1, BackedStages, DocumentsAreBacked
  <2>2. StageHasOutputs'
    BY <2>1 DEF StageHasOutputs, Backed
  <2>3. \A w \in Workers : WorkerIsBacked(w)'
    BY <1>1 DEF OutputsInv, WorkerIsBacked, workerVars
  <2>4. QED
    BY <2>2, <2>3 DEF OutputsInv
<1>2. ASSUME NEW j \in Jobs, NEW t \in Tasks, CreateTask(j, t)
      PROVE  \A u \in Tasks : taskStage'[u] \in {taskStage[u], "begin"}
  BY <1>2, <1>t DEF CreateTask
<1>3. QED
  BY <1>1, <1>2, WorkerStaysBacked, StepsByActor, StagesOutsideWorkers

LEMMA InitIsBacked == Init => OutputsInv
<1> SUFFICES ASSUME Init PROVE OutputsInv
  OBVIOUS
<1>1. \A t \in Tasks : taskStage[t] = "begin"
  BY DEF Init, StoreInit
<1>2. StageHasOutputs
  BY <1>1, BackedStages DEF StageHasOutputs, Backed
<1>3. NoTask \notin Tasks
  BY StoreAssumption DEF NoTask, Tasks
<1>4. QED
  BY <1>2, <1>3 DEF Init, WorkerInit, OutputsInv, WorkerIsBacked

\* The stage in the database never runs ahead of the work: a task picked up again was
\* run through every stage that UpdateTaskStage has recorded as past, and it has the
\* outputs of these stages, all of them when modules do not fail, and else all but
\* those of a training or a prediction whose container failed.  This holds whatever
\* is paused, resumed, crashes or fails, and also when live workers lose their tasks
\* to a reaper.
THEOREM StagesAreBacked == Spec => []StageHasOutputs
<1>1. OutputsInv => StageHasOutputs
  BY DEF OutputsInv
<1>2. QED
  BY <1>1, InitIsBacked, NextStaysBacked, TypesHold, PTL DEF Spec

------------------------------------------------------------------------------
(* What becomes of tasks.  UpdateTask validates a document and writes it   *)
(* later; nothing comes in between because the process that holds the lock *)
(* is the only one that ends a task or moves its stage, and bulk updates   *)
(* leave tasks alone that have ended.                                      *)

\* The calls a worker makes after the last write to its task.
EndingPC == {"checkJob", "completeJob", "terminateRest", "unlock"}

UpdatePC == StatusPC \cup StagePC \cup {"completeJob"}

\* What a worker knows of its task and of its job.
WorkerIsRight(w) ==
    /\ wpc[w] \in {"idle", "markIdle", "crashed"} => cur[w] = NoTask
    /\ validated[w] => wpc[w] \in UpdatePC
    /\ cur[w] \in Tasks =>
          /\ taskJob[cur[w]] # NoJob
          /\ lstage[w] = taskStage[cur[w]]
          /\ wpc[w] \in HandlingPC \ EndingPC => taskStatus[cur[w]] \notin TaskTerminal
          /\ wpc[w] \in StagePC /\ validated[w] =>
                taskStage[cur[w]] \in TaskStageFrom(StageOf(wpc[w]))
          /\ wpc[w] = "setCompleted" => lstage[w] = "end"
          /\ wpc[w] = "setTerminated" => taskStatus[cur[w]] = "terminating"
          /\ wpc[w] = "completeJob" =>
                Cardinality(CompletedTasks(taskJob[cur[w]])) >= MaxTasks

\* What the goroutine of a task knows of it.
GoroutineIsRight(c, t) ==
    tm[c][t] # NoGoroutine =>
       /\ taskJob[t] # NoJob
       /\ tm[c][t].step \in {"read", "write"} =>
             /\ taskStatus[t] \notin TaskTerminal
             /\ tm[c][t].kind = "terminating" => taskStatus[t] = "terminating"

\* A task that has not been created yet.
FreshIsRight(t) ==
    taskJob[t] = NoJob => taskStatus[t] = "scheduled" /\ taskStage[t] = "begin"

OutcomeInv ==
    /\ \A w \in Workers : WorkerIsRight(w)
    /\ \A c \in Controllers, t \in Tasks : GoroutineIsRight(c, t)
    /\ \A t \in Tasks : FreshIsRight(t)

\* What a step may never do to a task that has ended, or to the job of a task.
EndedKept == \A t \in Tasks : taskStatus[t] \in TaskTerminal => taskStatus'[t] = taskStatus[t]

JobsKept == \A t \in Tasks : taskJob[t] # NoJob => taskJob'[t] = taskJob[t]

\* What a step does to a task that somebody else works on.
Spares(t) ==
    /\ taskStage'[t] = taskStage[t]
    /\ taskJob'[t] = taskJob[t]
    /\ taskStatus[t] \notin TaskTerminal => taskStatus'[t] \notin TaskTerminal
    /\ taskStatus[t] = "terminating" => taskStatus'[t] = "terminating"

\* The completed tasks of a job become more.
LEMMA CompletedGrow ==
    ASSUME NEW j \in Jobs, EndedKept, JobsKept
    PROVE  /\ Cardinality(CompletedTasks(j)) \in Nat
           /\ Cardinality(CompletedTasks(j))' \in Nat
           /\ Cardinality(CompletedTasks(j)) <= Cardinality(CompletedTasks(j))'
<1>1. CompletedTasks(j) \subseteq CompletedTasks(j)'
  BY DEF CompletedTasks, TasksOf, EndedKept, JobsKept, TaskTerminal, NoJob, Jobs
<1>2. CompletedTasks(j) \in SUBSET Tasks /\ CompletedTasks(j)' \in SUBSET Tasks
  BY DEF CompletedTasks, TasksOf
<1>3. IsFiniteSet(CompletedTasks(j)') /\ Cardinality(CompletedTasks(j)') \in Nat
  BY <1>2, TaskSetsFinite
<1>4. Cardinality(CompletedTasks(j)) \in Nat
  BY <1>2, TaskSetsFinite
<1>5. Cardinality(CompletedTasks(j)) <= Cardinality(CompletedTasks(j)')
  BY <1>1, <1>3, FS_Subset
<1>6. QED
  BY <1>3, <1>4, <1>5

\* A bulk update spares the tasks that have ended and ends none, and one that is
\* terminating goes on to do so.
LEMMA BulkSpares ==
    ASSUME NEW j,
           taskStatus \in [Tasks -> TaskStatus],
           PauseRunningTasks(j) \/ ResumePausedTasks(j) \/ TerminateRunningTasks(j)
    PROVE  \A t \in Tasks : \/ taskStatus'[t] = taskStatus[t]
                            \/ /\ taskStatus[t] \notin TaskTerminal /\ taskStatus'[t] \notin TaskTerminal
                               /\ taskStatus[t] # "terminating"
BY DEF PauseRunningTasks, ResumePausedTasks, TerminateRunningTasks, BulkUpdate, TasksOf, TaskTerminal

\* What a step of a worker writes, and for which task.
LEMMA WorkerWrites ==
    ASSUME TypeInv, NEW w \in Workers, WorkerMoves(w)
    PROVE  /\ UNCHANGED <<taskJob, maintVars, clientVars>>
           /\ \A v \in Workers \ {w} : /\ wpc'[v] = wpc[v] /\ validated'[v] = validated[v]
                                       /\ cur'[v] = cur[v] /\ lstage'[v] = lstage[v]
           /\ \/ UNCHANGED taskStatus
              \/ WriteStatus(w) \/ FailTask(w) \/ TerminateRest(w)
           /\ UNCHANGED taskStage \/ WriteStage(w)
           /\ UNCHANGED jobStatus \/ WriteJobCompleted(w)
           /\ outputs' = outputs \/ RunStage(w) \/ WriteQuality(w) \/ WorkerPanic(w)
<1>t. /\ wpc \in [Workers -> WorkerPC] /\ cur \in [Workers -> Tasks \cup {NoTask}]
      /\ lstage \in [Workers -> TaskStage] /\ validated \in [Workers -> BOOLEAN]
  BY DEF TypeInv, TypeOK, WorkerTypeOK
<1> DEFINE Others ==
      \A v \in Workers \ {w} : /\ wpc'[v] = wpc[v] /\ validated'[v] = validated[v]
                               /\ cur'[v] = cur[v] /\ lstage'[v] = lstage[v]
<1>c. UNCHANGED <<maintVars, clientVars>>
  BY DEF WorkerMoves
<1> USE DEF storeVars, jobVars, taskVars, procVars, Goto
<1>1. ASSUME NEW t \in Tasks, WorkerLock(w, t)
      PROVE  UNCHANGED <<taskJob, taskStatus, taskStage, jobStatus, outputs>> /\ Others
  BY <1>1, <1>t DEF WorkerLock
<1>2. ASSUME MarkWorking(w) \/ MarkIdle(w)
      PROVE  UNCHANGED <<taskJob, taskStatus, taskStage, jobStatus, outputs>> /\ Others
  BY <1>2, <1>t DEF MarkWorking, MarkIdle
<1>3. ASSUME ReadTask(w) \/ WorkerCallFails(w)
      PROVE  UNCHANGED <<taskJob, taskStatus, taskStage, jobStatus, outputs>> /\ Others
  BY <1>3, <1>t DEF ReadTask, WorkerCallFails
<1>4. ASSUME CheckJob(w) \/ ReadJob(w)
      PROVE  UNCHANGED <<taskJob, taskStatus, taskStage, jobStatus, outputs>> /\ Others
  BY <1>4, <1>t DEF CheckJob, ReadJob
<1>5. ASSUME LoadModel(w) \/ GetTaskStatus(w)
      PROVE  UNCHANGED <<taskJob, taskStatus, taskStage, jobStatus, outputs>> /\ Others
  BY <1>5, <1>t DEF LoadModel, GetTaskStatus
<1>6. ASSUME RunStage(w) \/ WriteQuality(w)
      PROVE  UNCHANGED <<taskJob, taskStatus, taskStage, jobStatus>> /\ Others
  BY <1>6, <1>t DEF RunStage, WriteQuality
<1>7. ASSUME WriteStatus(w) \/ FailTask(w)
      PROVE  UNCHANGED <<taskJob, taskStage, jobStatus, outputs>> /\ Others
  BY <1>7, <1>t DEF WriteStatus, FailTask
<1>8. ASSUME WriteStage(w)
      PROVE  UNCHANGED <<taskJob, taskStatus, jobStatus, outputs>> /\ Others
  BY <1>8, <1>t DEF WriteStage
<1>9. ASSUME WriteJobCompleted(w)
      PROVE  UNCHANGED <<taskJob, taskStatus, taskStage, outputs>> /\ Others
  BY <1>9, <1>t DEF WriteJobCompleted
<1>10. ASSUME TerminateRest(w)
       PROVE  UNCHANGED <<taskJob, taskStage, jobStatus, outputs>> /\ Others
  BY <1>10, <1>t DEF TerminateRest
<1>11. ASSUME WorkerUnlock(w)
       PROVE  UNCHANGED <<taskJob, taskStatus, taskStage, jobStatus, outputs>> /\ Others
  BY <1>11, <1>t DEF WorkerUnlock
<1>12. ASSUME StopWorker(w), UNCHANGED <<jobVars, taskJob, taskStatus, taskStage>>
       PROVE  UNCHANGED <<taskJob, taskStatus, taskStage, jobStatus>> /\ Others
  BY <1>12, <1>t DEF StopWorker
<1> HIDE DEF Others
<1>13. Others /\ UNCHANGED taskJob
       /\ (\/ UNCHANGED taskStatus
           \/ WriteStatus(w) \/ FailTask(w) \/ TerminateRest(w))
       /\ (UNCHANGED taskStage \/ WriteStage(w))
       /\ (UNCHANGED jobStatus \/ WriteJobCompleted(w))
       /\ (outputs' = outputs \/ RunStage(w) \/ WriteQuality(w) \/ WorkerPanic(w))
  BY <1>1, <1>2, <1>3, <1>4, <1>5, <1>6, <1>7, <1>8, <1>9, <1>10, <1>11, <1>12
     DEF WorkerMoves, WorkerStep, WorkerPanic, WorkerCrash, WorkerLockFails
<1>14. QED
  BY <1>c, <1>13 DEF Others

\* A worker ends only its own task, and only once.
LEMMA WorkerSpares ==
    ASSUME TypeInv, NEW w \in Workers, WorkerIsRight(w), WorkerMoves(w)
    PROVE  EndedKept /\ \A t \in Tasks : t # cur[w] => Spares(t)
<1>t. /\ taskStatus \in [Tasks -> TaskStatus] /\ taskStage \in [Tasks -> TaskStage]
  BY DEF TypeInv, TypeOK, StoreTypeOK
<1>h. wpc[w] \in HandlingPC => cur[w] \in Tasks
  BY DEF TypeInv, HasTask
<1>1. UNCHANGED taskJob
  BY WorkerWrites
<1>2. \A t \in Tasks : t # cur[w] => taskStage'[t] = taskStage[t]
  BY <1>t, WorkerWrites DEF WriteStage
<1>3. ASSUME WriteStatus(w) \/ FailTask(w)
      PROVE  /\ cur[w] \in Tasks /\ taskStatus[cur[w]] \notin TaskTerminal
             /\ \A t \in Tasks : t # cur[w] => taskStatus'[t] = taskStatus[t]
  <2>1. wpc[w] \in StatusPC \cup {"setError"}
    BY <1>3 DEF WriteStatus, FailTask, At
  <2>2. wpc[w] \in HandlingPC \ EndingPC
    BY <2>1 DEF HandlingPC, EndingPC, CallPC, StatusPC
  <2>3. cur[w] \in Tasks /\ taskStatus[cur[w]] \notin TaskTerminal
    BY <2>2, <1>h DEF WorkerIsRight
  <2>4. QED
    BY <1>3, <1>t, <2>3 DEF WriteStatus, FailTask, SetTaskStatus
<1>4. \A t \in Tasks : \/ taskStatus'[t] = taskStatus[t]
                       \/ t = cur[w] /\ taskStatus[t] \notin TaskTerminal
                       \/ /\ taskStatus[t] \notin TaskTerminal /\ taskStatus'[t] \notin TaskTerminal
                          /\ taskStatus[t] # "terminating"
  BY <1>3, <1>t, WorkerWrites, BulkSpares DEF TerminateRest
<1>5. QED
  BY <1>1, <1>2, <1>4 DEF EndedKept, Spares

\* A worker that makes another call, with the documents of its task as they were.
LEMMA MoveIsRight ==
    ASSUME TypeInv, NEW w \in Workers, WorkerIsRight(w), NEW pc,
           wpc' = [wpc EXCEPT ![w] = pc],
           UNCHANGED <<cur, lstage, taskJob, taskStatus, taskStage>>,
           pc \in {"idle", "markIdle", "crashed"} => wpc[w] \in {"idle", "markIdle", "crashed"},
           validated'[w] => pc \in UpdatePC,
           pc \in HandlingPC \ EndingPC => wpc[w] \in HandlingPC \ EndingPC,
           pc \in StagePC /\ validated'[w] =>
              taskStage[cur[w]] \in TaskStageFrom(StageOf(pc)),
           pc = "setCompleted" => wpc[w] = "setCompleted" \/ lstage[w] = "end",
           pc = "setTerminated" => wpc[w] = "setTerminated" \/ taskStatus[cur[w]] = "terminating",
           pc = "completeJob" =>
              wpc[w] = "completeJob" \/ Cardinality(CompletedTasks(taskJob[cur[w]])) >= MaxTasks
    PROVE  WorkerIsRight(w)'
<1>1. wpc'[w] = pc
  BY DEF TypeInv, TypeOK, WorkerTypeOK
<1>2. \A j : CompletedTasks(j)' = CompletedTasks(j)
  BY DEF CompletedTasks, TasksOf
<1>3. QED
  BY <1>1, <1>2 DEF WorkerIsRight

\* A worker that lets go of its task.
LEMMA LettingGoIsRight ==
    ASSUME TypeInv, NEW w \in Workers, NEW pc \in {"markIdle", "crashed"},
           wpc' = [wpc EXCEPT ![w] = pc], cur' = [cur EXCEPT ![w] = NoTask],
           ~validated'[w]
    PROVE  WorkerIsRight(w)'
<1>1. wpc'[w] = pc /\ cur'[w] = NoTask
  BY DEF TypeInv, TypeOK, WorkerTypeOK
<1>2. NoTask \notin Tasks /\ pc # "setCompleted" /\ pc # "completeJob"
  BY StoreAssumption DEF NoTask, Tasks
<1>3. QED
  BY <1>1, <1>2 DEF WorkerIsRight

\* The sets of calls are told apart.
LEMMA CallTables ==
    /\ UpdatePC \cap {"idle", "markIdle", "crashed", "stuck"} = {}
    /\ StatusPC \cup StagePC \cup CheckPC \cup ContainerPC \subseteq HandlingPC \ EndingPC
    /\ {"markWorking", "loadModel", "setQuality", "setError"} \subseteq HandlingPC \ EndingPC
    /\ EndingPC \subseteq HandlingPC
    /\ {"idle", "markIdle", "stuck", "crashed"} \cap HandlingPC = {}
    /\ (CheckPC \cup ContainerPC \cup EndingPC \cup {"stuck", "markWorking", "loadModel",
          "setQuality", "setError"}) \cap (StatusPC \cup StagePC) = {}
    /\ (CheckPC \cup ContainerPC \cup {"checkJob", "terminateRest", "unlock", "stuck",
          "markWorking", "loadModel", "setQuality", "setError"}) \cap UpdatePC = {}
    /\ StatusPC \cap StagePC = {}
    /\ \A pc \in StatusPC : AfterStatus(pc) \in {"loadModel", "checkJob", "unlock"}
    /\ \A pc \in StatusPC : AfterStatus(pc) = "loadModel" => StatusOf(pc) \notin TaskTerminal
    /\ \A pc \in StagePC : AfterStage(pc) \in {"setEndAgain"} \cup CheckPC
    /\ \A pc \in ContainerPC : AfterRun(pc) \in {"setPredicting", "setEvaluating", "setQuality"}
    /\ \A pc \in CheckPC : \A status, stage :
          /\ AfterCheck(pc, status, stage) \in
                ContainerPC \cup CheckPC \cup {"setCompleted", "setTerminated", "setPaused", "unlock"}
          /\ AfterCheck(pc, status, stage) = "setCompleted" => stage = "end"
          /\ AfterCheck(pc, status, stage) = "setTerminated" => status = "terminating"
<1> USE DEF StatusPC, StagePC, CheckPC, ContainerPC, EndingPC
<1>1. \A pc \in StatusPC : AfterStatus(pc) \in {"loadModel", "checkJob", "unlock"}
                           /\ (AfterStatus(pc) = "loadModel" => StatusOf(pc) \notin TaskTerminal)
  BY DEF AfterStatus, StatusOf, TaskTerminal
<1>2. \A pc \in StagePC : AfterStage(pc) \in {"setEndAgain"} \cup CheckPC
  BY DEF AfterStage
<1>3. \A pc \in ContainerPC : AfterRun(pc) \in {"setPredicting", "setEvaluating", "setQuality"}
  BY DEF AfterRun
<1>4. \A pc \in CheckPC : \A status, stage :
          /\ AfterCheck(pc, status, stage) \in
                ContainerPC \cup CheckPC \cup {"setCompleted", "setTerminated", "setPaused", "unlock"}
          /\ AfterCheck(pc, status, stage) = "setCompleted" => stage = "end"
          /\ AfterCheck(pc, status, stage) = "setTerminated" => status = "terminating"
  BY DEF AfterCheck, Conclude
<1>5. QED
  BY <1>1, <1>2, <1>3, <1>4 DEF UpdatePC, HandlingPC, CallPC

LEMMA WorkerStaysRight ==
    ASSUME TypeInv, NEW w \in Workers, WorkerIsRight(w), WorkerMoves(w)
    PROVE  WorkerIsRight(w)'
<1>t. /\ wpc \in [Workers -> WorkerPC] /\ cur \in [Workers -> Tasks \cup {NoTask}]
      /\ lstage \in [Workers -> TaskStage] /\ validated \in [Workers -> BOOLEAN]
      /\ taskStatus \in [Tasks -> TaskStatus] /\ taskStage \in [Tasks -> TaskStage]
  BY DEF TypeInv, TypeOK, WorkerTypeOK, StoreTypeOK
<1>h. wpc[w] \in HandlingPC => cur[w] \in Tasks
  BY DEF TypeInv, HasTask
<1>v. wpc[w] \notin UpdatePC => ~validated[w]
  BY DEF WorkerIsRight
<1> USE DEF storeVars, jobVars, taskVars, procVars, Goto, At
<1>1. ASSUME NEW t \in Tasks, WorkerLock(w, t) PROVE WorkerIsRight(w)'
  <2>1. /\ wpc'[w] = "markWorking" /\ cur'[w] = t /\ lstage'[w] = taskStage[t]
        /\ validated'[w] = validated[w] /\ wpc[w] = "idle"
        /\ UNCHANGED <<taskJob, taskStatus, taskStage>>
        /\ taskJob[t] # NoJob /\ taskStatus[t] = "scheduled"
    BY <1>1, <1>t DEF WorkerLock, LockTask, TaskLockable
  <2>2. ~validated'[w]
    BY <2>1, <1>v, CallTables
  <2>3. QED
    BY <2>1, <2>2 DEF WorkerIsRight, TaskTerminal
<1>2. CASE MarkWorking(w)
  <2>1. ~validated'[w]
    BY <1>2, <1>v, CallTables DEF MarkWorking
  <2>2. QED
    BY <1>2, <2>1, MoveIsRight, CallTables DEF MarkWorking, StatusPC
<1>3. CASE MarkIdle(w)
  <2>1. ~validated'[w]
    BY <1>3, <1>v, CallTables DEF MarkIdle
  <2>2. QED
    BY <1>3, <2>1, MoveIsRight, CallTables DEF MarkIdle
<1>4. CASE ReadTask(w)
  <2>0. wpc[w] \in StatusPC \cup StagePC
    BY <1>4 DEF ReadTask
  <2>1. CASE UpdateAllowed(w)
    <3>1. /\ wpc' = [wpc EXCEPT ![w] = wpc[w]] /\ validated'[w]
          /\ UNCHANGED <<cur, lstage, taskJob, taskStatus, taskStage>>
      BY <1>4, <1>t, <2>1 DEF ReadTask
    <3>2. wpc[w] \in StagePC => taskStage[cur[w]] \in TaskStageFrom(StageOf(wpc[w]))
      BY <2>1, CallTables DEF UpdateAllowed
    <3>3. QED
      BY <2>0, <3>1, <3>2, MoveIsRight DEF UpdatePC
  <2>2. CASE ~UpdateAllowed(w)
    <3>1. /\ wpc' = [wpc EXCEPT ![w] = "stuck"] /\ ~validated'[w]
          /\ UNCHANGED <<cur, lstage, taskJob, taskStatus, taskStage>>
      BY <1>4, <2>2 DEF ReadTask
    <3>2. QED
      BY <3>1, MoveIsRight, CallTables
  <2>3. QED
    BY <2>1, <2>2
<1>5. CASE WorkerCallFails(w)
  <2>1. /\ wpc' = [wpc EXCEPT ![w] = "stuck"] /\ ~validated'[w]
        /\ UNCHANGED <<cur, lstage, taskJob, taskStatus, taskStage>>
    BY <1>5, <1>t DEF WorkerCallFails
  <2>2. QED
    BY <2>1, MoveIsRight, CallTables
<1>6. CASE WriteStatus(w)
  <2>1. /\ wpc[w] \in StatusPC /\ wpc'[w] = AfterStatus(wpc[w]) /\ ~validated'[w]
        /\ UNCHANGED <<cur, lstage, taskJob, taskStage>>
        /\ taskStatus' = [taskStatus EXCEPT ![cur[w]] = StatusOf(wpc[w])]
    BY <1>6, <1>t DEF WriteStatus, SetTaskStatus
  <2>2. cur[w] \in Tasks
    BY <2>1, <1>h, CallTables
  <2>3. wpc'[w] \in {"loadModel", "checkJob", "unlock"}
    BY <2>1, CallTables
  <2>4. wpc'[w] \in HandlingPC \ EndingPC => taskStatus'[cur[w]] \notin TaskTerminal
    <3>1. wpc'[w] \in HandlingPC \ EndingPC => wpc'[w] = "loadModel"
      BY <2>3 DEF EndingPC
    <3>2. QED
      BY <1>t, <2>1, <2>2, <3>1, CallTables
  <2>5. QED
    BY <2>1, <2>2, <2>3, <2>4 DEF WorkerIsRight
<1>7. CASE WriteStage(w)
  <2>1. /\ wpc[w] \in StagePC /\ wpc'[w] = AfterStage(wpc[w]) /\ ~validated'[w]
        /\ lstage'[w] = StageOf(wpc[w])
        /\ UNCHANGED <<cur, taskJob, taskStatus>>
        /\ taskStage' = [taskStage EXCEPT ![cur[w]] = StageOf(wpc[w])]
    BY <1>7, <1>t DEF WriteStage
  <2>2. cur[w] \in Tasks /\ wpc[w] \in HandlingPC \ EndingPC
    BY <2>1, <1>h, CallTables
  <2>3. lstage'[w] = taskStage'[cur[w]]
    BY <1>t, <2>1, <2>2
  <2>4. wpc'[w] \in {"setEndAgain"} \cup CheckPC
    BY <2>1, CallTables
  <2>5. wpc'[w] \notin {"idle", "markIdle", "crashed", "setCompleted", "setTerminated", "completeJob"}
    BY <2>4 DEF CheckPC
  <2>6. QED
    BY <2>1, <2>2, <2>3, <2>5 DEF WorkerIsRight
<1>8. CASE LoadModel(w)
  <2>1. PICK pc \in {"setTraining", "chkTraining", "setError"} : wpc' = [wpc EXCEPT ![w] = pc]
    BY <1>8 DEF LoadModel
  <2>2. ~validated'[w] /\ wpc[w] = "loadModel" /\ UNCHANGED <<cur, lstage, taskJob, taskStatus, taskStage>>
    BY <1>8, <1>v, CallTables DEF LoadModel
  <2>3. QED
    BY <2>1, <2>2, MoveIsRight, CallTables
<1>9. CASE GetTaskStatus(w)
  <2> DEFINE pc == AfterCheck(wpc[w], taskStatus[cur[w]], lstage[w])
  <2>1. /\ wpc' = [wpc EXCEPT ![w] = pc] /\ wpc[w] \in CheckPC
        /\ UNCHANGED <<cur, lstage, taskJob, taskStatus, taskStage>>
    BY <1>9 DEF GetTaskStatus
  <2>2. ~validated'[w]
    BY <1>9, <1>v, CallTables DEF GetTaskStatus
  <2>3. /\ pc \in ContainerPC \cup CheckPC \cup {"setCompleted", "setTerminated", "setPaused", "unlock"}
        /\ pc = "setCompleted" => lstage[w] = "end"
        /\ pc = "setTerminated" => taskStatus[cur[w]] = "terminating"
    BY <2>1, CallTables
  <2>4. pc \notin {"idle", "markIdle", "crashed", "completeJob"}
    BY <2>3 DEF ContainerPC, CheckPC
  <2> HIDE DEF pc
  <2>5. QED
    BY <2>1, <2>2, <2>3, <2>4, MoveIsRight, CallTables
<1>10. CASE RunStage(w)
  <2>1. PICK pc \in {"setPredicting", "setEvaluating", "setQuality", "setError"} :
           wpc' = [wpc EXCEPT ![w] = pc]
    BY <1>10, CallTables DEF RunStage
  <2>2. ~validated'[w] /\ wpc[w] \in ContainerPC /\ UNCHANGED <<cur, lstage, taskJob, taskStatus, taskStage>>
    BY <1>10, <1>v, CallTables DEF RunStage
  <2>3. QED
    BY <2>1, <2>2, MoveIsRight, CallTables
<1>11. CASE WriteQuality(w)
  <2>1. wpc' = [wpc EXCEPT ![w] = "setEnd"] /\ wpc[w] = "setQuality"
    BY <1>11 DEF WriteQuality
  <2>2. ~validated'[w] /\ UNCHANGED <<cur, lstage, taskJob, taskStatus, taskStage>>
    BY <1>11, <1>v, CallTables DEF WriteQuality
  <2>3. QED
    BY <2>1, <2>2, MoveIsRight, CallTables
<1>12. CASE FailTask(w)
  BY <1>12, <1>v, LettingGoIsRight, CallTables DEF FailTask
<1>13. CASE CheckJob(w)
  <2>1. wpc[w] = "checkJob" /\ ~validated'[w] /\ UNCHANGED <<cur, lstage, taskJob, taskStatus, taskStage>>
    BY <1>13, <1>v, CallTables DEF CheckJob
  <2>2. \/ wpc' = [wpc EXCEPT ![w] = "unlock"]
        \/ wpc' = [wpc EXCEPT ![w] = "completeJob"] /\ JobIsDone(taskJob[cur[w]])
    BY <1>13 DEF CheckJob
  <2>3. CASE wpc' = [wpc EXCEPT ![w] = "unlock"]
    BY <2>1, <2>3, MoveIsRight DEF EndingPC
  <2>4. CASE wpc' = [wpc EXCEPT ![w] = "completeJob"] /\ JobIsDone(taskJob[cur[w]])
    BY <2>1, <2>4, MoveIsRight DEF EndingPC, JobIsDone
  <2>5. QED
    BY <2>2, <2>3, <2>4
<1>14. CASE ReadJob(w)
  <2>1. wpc[w] = "completeJob" /\ UNCHANGED <<cur, lstage, taskJob, taskStatus, taskStage>>
    BY <1>14 DEF ReadJob
  <2>2. \/ wpc' = [wpc EXCEPT ![w] = "completeJob"]
        \/ wpc' = [wpc EXCEPT ![w] = "stuck"] /\ ~validated'[w]
        \/ wpc' = [wpc EXCEPT ![w] = "terminateRest"] /\ ~validated'[w]
    BY <1>14, <1>t DEF ReadJob
  <2>3. CASE wpc' = [wpc EXCEPT ![w] = "completeJob"]
    BY <2>1, <2>3, MoveIsRight, CallTables DEF EndingPC, UpdatePC
  <2>4. CASE wpc' = [wpc EXCEPT ![w] = "stuck"] /\ ~validated'[w]
    BY <2>1, <2>4, MoveIsRight, CallTables
  <2>5. CASE wpc' = [wpc EXCEPT ![w] = "terminateRest"] /\ ~validated'[w]
    BY <2>1, <2>5, MoveIsRight DEF EndingPC
  <2>6. QED
    BY <2>2, <2>3, <2>4, <2>5
<1>15. CASE WriteJobCompleted(w)
  <2>1. /\ wpc' = [wpc EXCEPT ![w] = "terminateRest"] /\ ~validated'[w]
        /\ UNCHANGED <<cur, lstage, taskJob, taskStatus, taskStage>>
    BY <1>15, <1>t DEF WriteJobCompleted
  <2>2. QED
    BY <2>1, MoveIsRight DEF EndingPC
<1>16. CASE TerminateRest(w)
  <2>1. /\ wpc'[w] = "unlock" /\ wpc[w] = "terminateRest" /\ validated'[w] = validated[w]
        /\ UNCHANGED <<cur, lstage, taskJob, taskStage>>
    BY <1>16, <1>t DEF TerminateRest
  <2>2. ~validated'[w]
    BY <2>1, <1>v, CallTables
  <2>3. QED
    BY <2>1, <2>2 DEF WorkerIsRight, EndingPC
<1>17. CASE WorkerUnlock(w)
  BY <1>17, <1>v, LettingGoIsRight, CallTables DEF WorkerUnlock
<1>18. CASE StopWorker(w)
  BY <1>18, <1>t, LettingGoIsRight DEF StopWorker
<1>19. QED
  BY <1>1, <1>2, <1>3, <1>4, <1>5, <1>6, <1>7, <1>8, <1>9, <1>10, <1>11, <1>12, <1>13, <1>14,
     <1>15, <1>16, <1>17, <1>18
     DEF WorkerMoves, WorkerStep, WorkerPanic, WorkerCrash, WorkerLockFails

\* A worker that makes no step keeps what it knows while its task is spared.
LEMMA BystanderIsRight ==
    ASSUME TypeInv, NEW v \in Workers, WorkerIsRight(v),
           wpc'[v] = wpc[v], validated'[v] = validated[v], cur'[v] = cur[v], lstage'[v] = lstage[v],
           cur[v] \in Tasks => Spares(cur[v]),
           EndedKept, JobsKept
    PROVE  WorkerIsRight(v)'
<1>1. ASSUME NEW j \in Jobs, Cardinality(CompletedTasks(j)) >= MaxTasks
      PROVE  (Cardinality(CompletedTasks(j)) >= MaxTasks)'
  BY <1>1, CompletedGrow, MaxTasksAssumption
<1>2. ASSUME cur[v] \in Tasks, wpc[v] = "completeJob"
      PROVE  (Cardinality(CompletedTasks(taskJob[cur[v]])) >= MaxTasks)'
  <2>1. taskJob[cur[v]] \in Jobs
    BY <1>2 DEF TypeInv, TypeOK, StoreTypeOK, WorkerIsRight
  <2>2. PICK j \in Jobs : j = taskJob[cur[v]]
    BY <2>1
  <2>3. (Cardinality(CompletedTasks(j)) >= MaxTasks)'
    BY <1>1, <1>2, <2>2 DEF WorkerIsRight
  <2>4. taskJob[cur[v]]' = j
    BY <1>2, <2>2 DEF Spares
  <2>5. CompletedTasks(taskJob[cur[v]])' = CompletedTasks(j)'
    BY <2>4 DEF CompletedTasks, TasksOf
  <2>6. QED
    BY <2>3, <2>5
<1>3. QED
  BY <1>2 DEF WorkerIsRight, Spares

\* So does the goroutine of a task.
LEMMA GoroutineBystander ==
    ASSUME NEW c \in Controllers, NEW t \in Tasks, GoroutineIsRight(c, t),
           tm'[c][t] = tm[c][t], tm[c][t] # NoGoroutine => Spares(t)
    PROVE  GoroutineIsRight(c, t)'
BY DEF GoroutineIsRight, Spares

\* What a step of a controller's maintainers writes to tasks: a bulk update, or the
\* target of one goroutine that has validated its write.
LEMMA MaintainerWrites ==
    ASSUME TypeInv, NEW c \in Controllers, MaintainerMoves(c)
    PROVE  \/ UNCHANGED taskStatus
           \/ /\ UNCHANGED tm
              /\ \E j \in Jobs :
                    PauseRunningTasks(j) \/ ResumePausedTasks(j) \/ TerminateRunningTasks(j)
           \/ \E t \in Tasks : TaskWrite(c, t)
<1> USE DEF storeVars, jobVars, taskVars, procVars
<1>1. ASSUME NEW j \in Jobs, JobBulk(c, j)
      PROVE  /\ PauseRunningTasks(j) \/ ResumePausedTasks(j) \/ TerminateRunningTasks(j)
             /\ UNCHANGED tm
  BY <1>1 DEF JobBulk
<1>2. ASSUME NEW j \in Jobs, JobRead(c, j) \/ JobWrite(c, j) \/ JobUnlock(c, j) \/ JobCallFails(c, j)
      PROVE  UNCHANGED taskStatus
  BY <1>2 DEF JobRead, JobWrite, JobUnlock, JobCallFails
<1>3. ASSUME NEW t \in Tasks, TaskRead(c, t) \/ TaskUnlock(c, t) \/ TaskCallFails(c, t)
      PROVE  UNCHANGED taskStatus
  BY <1>3 DEF TaskRead, TaskUnlock, TaskCallFails
<1>4. ASSUME NEW j \in Jobs, NEW kind, MaintainJob(c, j, kind)
      PROVE  UNCHANGED taskStatus
  BY <1>4 DEF MaintainJob
<1>5. ASSUME NEW t \in Tasks, NEW kind, MaintainTask(c, t, kind)
      PROVE  UNCHANGED taskStatus
  BY <1>5 DEF MaintainTask
<1>6. QED
  BY <1>1, <1>2, <1>3, <1>4, <1>5
     DEF MaintainerMoves, MaintainerStep, JobMaintainerStep, TaskMaintainerStep

\* A maintainer ends only a task that it has locked, and only once; it spares the
\* tasks that others have locked.
LEMMA MaintainerSpares ==
    ASSUME TypeInv, LockInv, NEW c \in Controllers, MaintainerMoves(c),
           \A t \in Tasks : GoroutineIsRight(c, t)
    PROVE  EndedKept /\ \A t \in Tasks : taskLock[t] # c => Spares(t)
<1>t. taskStatus \in [Tasks -> TaskStatus]
  BY DEF TypeInv, TypeOK, StoreTypeOK
<1>1. UNCHANGED <<taskJob, taskStage>>
  <2>1. UNCHANGED <<taskJob, taskStage>> \/ \E j \in Jobs, t \in Tasks : CreateTask(j, t)
    BY StagesOutsideWorkers
  <2>2. spc' = spc /\ quota' = quota
    BY DEF MaintainerMoves, schedVars
  <2>3. ASSUME NEW j \in Jobs, NEW t \in Tasks, CreateTask(j, t) PROVE FALSE
    <3>1. quota \in Nat
      BY DEF TypeInv, TypeOK, SchedulerTypeOK
    <3>2. QED
      BY <2>2, <2>3, <3>1 DEF CreateTask
  <2>4. QED
    BY <2>1, <2>3
<1>2. ASSUME NEW t \in Tasks, TaskWrite(c, t)
      PROVE  /\ taskLock[t] = c /\ taskStatus[t] \notin TaskTerminal
             /\ \A u \in Tasks : u # t => taskStatus'[u] = taskStatus[u]
  <2>1. tm[c][t].step = "write" /\ taskStatus' = [taskStatus EXCEPT ![t] = TargetOf(tm[c][t].kind)]
    BY <1>2 DEF TaskWrite, TaskAt, SetTaskStatus
  <2>2. tm[c][t] # NoGoroutine
    BY <2>1 DEF NoGoroutine
  <2>3. taskLock[t] = c
    BY <2>2 DEF LockInv, HandlerHoldsLock
  <2>4. QED
    BY <1>t, <2>1, <2>2, <2>3 DEF GoroutineIsRight
<1>3. \A t \in Tasks : \/ taskStatus'[t] = taskStatus[t]
                       \/ taskLock[t] = c /\ taskStatus[t] \notin TaskTerminal
                       \/ /\ taskStatus[t] \notin TaskTerminal /\ taskStatus'[t] \notin TaskTerminal
                          /\ taskStatus[t] # "terminating"
  BY <1>2, <1>t, MaintainerWrites, BulkSpares
<1>4. QED
  BY <1>1, <1>3 DEF EndedKept, Spares

\* A goroutine of the controller that makes a step.
LEMMA GoroutineStaysRight ==
    ASSUME TypeInv, LockInv, NEW c \in Controllers, MaintainerMoves(c), NEW t \in Tasks,
           GoroutineIsRight(c, t), Spares(t) \/ TaskWrite(c, t)
    PROVE  GoroutineIsRight(c, t)'
<1>t. /\ tm \in [Controllers -> [Tasks -> TaskGoroutine \cup {NoGoroutine}]]
  BY DEF TypeInv, TypeOK, MaintainerTypeOK
<1> USE DEF storeVars, jobVars, taskVars, procVars
<1>1. CASE TaskWrite(c, t)
  <2>1. /\ tm'[c][t].step = "unlock" /\ tm[c][t].step = "write" /\ UNCHANGED taskJob
    BY <1>1, <1>t DEF TaskWrite, TaskGoto, TaskAt
  <2>2. tm[c][t] # NoGoroutine
    BY <2>1 DEF NoGoroutine
  <2>3. QED
    BY <2>1, <2>2 DEF GoroutineIsRight
<1>2. ASSUME NEW kind \in {"pausing", "terminating"}, MaintainTask(c, t, kind)
      PROVE  GoroutineIsRight(c, t)'
  BY <1>2, <1>t DEF MaintainTask, LockTask, TaskLockable, GoroutineIsRight, TaskTerminal
<1>3. CASE TaskRead(c, t) \/ TaskCallFails(c, t)
  <2>1. tm[c][t].step \in {"read", "write", "unlock"} /\ UNCHANGED <<taskJob, taskStatus>>
    BY <1>3 DEF TaskRead, TaskCallFails, TaskAt
  <2>2. tm[c][t] # NoGoroutine /\ tm[c][t] \in TaskGoroutine
    BY <1>t, <2>1 DEF NoGoroutine
  <2>3. /\ tm[c][t].step = "read" \/ tm'[c][t].step = "stuck"
        /\ tm'[c][t].kind = tm[c][t].kind
    BY <1>3, <1>t, <2>2 DEF TaskRead, TaskCallFails, TaskGoto, TaskAt, TaskGoroutine
  <2>4. QED
    BY <2>1, <2>2, <2>3 DEF GoroutineIsRight
<1>4. CASE TaskUnlock(c, t)
  BY <1>4, <1>t DEF TaskUnlock, GoroutineIsRight
<1>5. CASE tm'[c][t] = tm[c][t] /\ Spares(t)
  BY <1>5, GoroutineBystander
<1>6. ASSUME NEW u \in Tasks \ {t}, NEW step, TaskGoto(c, u, step) PROVE tm'[c][t] = tm[c][t]
  BY <1>6, <1>t DEF TaskGoto
<1>7. ASSUME NEW u \in Tasks \ {t},
             \/ TaskRead(c, u) \/ TaskWrite(c, u) \/ TaskUnlock(c, u) \/ TaskCallFails(c, u)
             \/ \E kind : MaintainTask(c, u, kind)
      PROVE  tm'[c][t] = tm[c][t]
  BY <1>6, <1>7, <1>t DEF TaskRead, TaskWrite, TaskUnlock, TaskCallFails, MaintainTask
<1>8. ASSUME NEW j \in Jobs,
             \/ JobBulk(c, j) \/ JobRead(c, j) \/ JobWrite(c, j) \/ JobUnlock(c, j)
             \/ JobCallFails(c, j) \/ \E kind : MaintainJob(c, j, kind)
      PROVE  UNCHANGED tm
  BY <1>8 DEF JobBulk, JobRead, JobWrite, JobUnlock, JobCallFails, MaintainJob
<1>9. QED
  BY <1>1, <1>2, <1>3, <1>4, <1>5, <1>7, <1>8
     DEF MaintainerMoves, MaintainerStep, JobMaintainerStep, TaskMaintainerStep

\* The other processes change no status of a task that exists, and stop goroutines at
\* most.
LEMMA OthersWrite ==
    ASSUME TypeInv, OutcomeInv,
           \/ \E c \in Controllers : ReaperMoves(c) \/ ControllerStops(c)
           \/ SchedulerMoves \/ ClientMoves \/ NobodyMoves
    PROVE  /\ UNCHANGED workerVars
           /\ \A c \in Controllers, t \in Tasks : tm'[c][t] \in {tm[c][t], NoGoroutine}
           /\ \A t \in Tasks : taskStatus'[t] = taskStatus[t] /\ taskStage'[t] = taskStage[t]
           /\ JobsKept
<1>t. /\ taskStatus \in [Tasks -> TaskStatus] /\ taskStage \in [Tasks -> TaskStage]
      /\ taskJob \in [Tasks -> Jobs \cup {NoJob}]
      /\ tm \in [Controllers -> [Tasks -> TaskGoroutine \cup {NoGoroutine}]]
  BY DEF TypeInv, TypeOK, StoreTypeOK, MaintainerTypeOK
<1>1. ASSUME NEW j \in Jobs, NEW t \in Tasks, CreateTask(j, t)
      PROVE  /\ \A u \in Tasks : taskStatus'[u] = taskStatus[u] /\ taskStage'[u] = taskStage[u]
             /\ JobsKept
  BY <1>1, <1>t DEF CreateTask, NewTask, OutcomeInv, FreshIsRight, JobsKept
<1> USE DEF storeVars, jobVars, taskVars, procVars, maintVars
<1>2. ASSUME NEW c \in Controllers, ReaperMoves(c) \/ ControllerStops(c)
      PROVE  /\ UNCHANGED <<taskStatus, taskStage, taskJob>>
             /\ \A d \in Controllers, t \in Tasks : tm'[d][t] \in {tm[d][t], NoGoroutine}
  BY <1>2, <1>t DEF ReaperMoves, ReaperStep, DeclareDead, ReleaseJobs, ReleaseTasks, ReleaseFails,
                    ControllerStops, StopMaintainers
<1>3. CASE SchedulerMoves
  <2>1. UNCHANGED tm
    BY <1>3 DEF SchedulerMoves
  <2>2. CASE SchedulerCallFails \/ SchedulerCrash
    BY <1>3, <2>1, <2>2, StagesOutsideWorkers DEF SchedulerCallFails, SchedulerCrash, SchedulerPanic,
                      StopScheduler, JobsKept
  <2>3. CASE CountIdle \/ CountWorking \/ DecideToRun \/ DecideToWait \/ Suggest
             \/ EndOfSuggestions \/ BadSuggestion
    BY <1>3, <2>1, <2>3, StagesOutsideWorkers DEF CountIdle, CountWorking, DecideToRun, DecideToWait,
                      Suggest, EndOfSuggestions, BadSuggestion, SchedulerPanic, StopScheduler, JobsKept
  <2>4. ASSUME NEW j \in Jobs, NEW t \in Tasks, CreateTask(j, t)
        PROVE  /\ \A u \in Tasks : taskStatus'[u] = taskStatus[u] /\ taskStage'[u] = taskStage[u]
               /\ JobsKept
    BY <1>1, <2>4
  <2>5. QED
    BY <1>3, <2>1, <2>2, <2>3, <2>4, StagesOutsideWorkers DEF SchedulerMoves, SchedulerStep
<1>4. CASE ClientMoves
  BY <1>4 DEF ClientMoves, ClientStep, CreateJob, PatchRead, PatchWrite, JobsKept
<1>5. CASE NobodyMoves
  BY <1>5 DEF NobodyMoves, JobsKept
<1>6. QED
  BY <1>2, <1>3, <1>4, <1>5, StagesOutsideWorkers DEF JobsKept

\* A task gets its job when it is created and keeps it.
LEMMA FreshStaysRight ==
    ASSUME TypeInv, OutcomeInv, NEW t \in Tasks, taskJob'[t] = NoJob, JobsKept,
           taskJob[t] = NoJob =>
              taskStatus'[t] = taskStatus[t] /\ taskStage'[t] = taskStage[t]
    PROVE  FreshIsRight(t)'
BY DEF OutcomeInv, FreshIsRight, JobsKept

\* A maintainer creates no task.
LEMMA MaintainerKeepsJobs ==
    ASSUME TypeInv, NEW c \in Controllers, MaintainerMoves(c)
    PROVE  UNCHANGED <<workerVars, taskJob, taskStage>>
<1>1. /\ UNCHANGED workerVars
      /\ UNCHANGED <<taskJob, taskStage>> \/ \E j \in Jobs, t \in Tasks : CreateTask(j, t)
  BY StagesOutsideWorkers
<1>2. ASSUME NEW j \in Jobs, NEW t \in Tasks, CreateTask(j, t) PROVE FALSE
  <2>1. quota' = quota /\ quota \in Nat
    BY DEF MaintainerMoves, schedVars, TypeInv, TypeOK, SchedulerTypeOK
  <2>2. QED
    BY <1>2, <2>1 DEF CreateTask
<1>3. QED
  BY <1>1, <1>2

\* A step of the maintainers spares a task unless it is the write of its goroutine.
LEMMA MaintainerWritesOne ==
    ASSUME TypeInv, NEW c \in Controllers, MaintainerMoves(c), NEW t \in Tasks
    PROVE  Spares(t) \/ TaskWrite(c, t)
<1>t. taskStatus \in [Tasks -> TaskStatus]
  BY DEF TypeInv, TypeOK, StoreTypeOK
<1>1. UNCHANGED <<taskJob, taskStage>>
  BY MaintainerKeepsJobs
<1>2. \/ TaskWrite(c, t)
      \/ taskStatus'[t] = taskStatus[t]
      \/ /\ taskStatus[t] \notin TaskTerminal /\ taskStatus'[t] \notin TaskTerminal
         /\ taskStatus[t] # "terminating"
  BY <1>t, MaintainerWrites, BulkSpares DEF TaskWrite, SetTaskStatus
<1>3. QED
  BY <1>1, <1>2 DEF Spares

\* The goroutines of the other controllers do not move.
LEMMA OtherGoroutines ==
    ASSUME TypeInv, NEW c \in Controllers, MaintainerMoves(c), NEW d \in Controllers \ {c}
    PROVE  tm'[d] = tm[d]
<1>t. tm \in [Controllers -> [Tasks -> TaskGoroutine \cup {NoGoroutine}]]
  BY DEF TypeInv, TypeOK, MaintainerTypeOK
<1>1. ASSUME NEW t \in Tasks, NEW step, TaskGoto(c, t, step) PROVE tm'[d] = tm[d]
  BY <1>1, <1>t DEF TaskGoto
<1>2. ASSUME NEW t \in Tasks,
             \/ TaskRead(c, t) \/ TaskWrite(c, t) \/ TaskUnlock(c, t) \/ TaskCallFails(c, t)
             \/ \E kind : MaintainTask(c, t, kind)
      PROVE  tm'[d] = tm[d]
  BY <1>1, <1>2, <1>t DEF TaskRead, TaskWrite, TaskUnlock, TaskCallFails, MaintainTask
<1>3. ASSUME NEW j \in Jobs,
             \/ JobBulk(c, j) \/ JobRead(c, j) \/ JobWrite(c, j) \/ JobUnlock(c, j)
             \/ JobCallFails(c, j) \/ \E kind : MaintainJob(c, j, kind)
      PROVE  tm'[d] = tm[d]
  BY <1>3 DEF JobBulk, JobRead, JobWrite, JobUnlock, JobCallFails, MaintainJob
<1>4. QED
  BY <1>2, <1>3 DEF MaintainerMoves, MaintainerStep, JobMaintainerStep, TaskMaintainerStep

\* A maintainer changes no task that does not exist yet.
LEMMA FreshOutsideBulk ==
    ASSUME TypeInv, NEW c \in Controllers, MaintainerMoves(c), NEW t \in Tasks,
           GoroutineIsRight(c, t), taskJob[t] = NoJob
    PROVE  taskStatus'[t] = taskStatus[t]
<1>t. taskStatus \in [Tasks -> TaskStatus] /\ NoJob \notin Jobs
  BY StoreAssumption DEF TypeInv, TypeOK, StoreTypeOK, NoJob, Jobs
<1>1. ~TaskWrite(c, t)
  BY DEF GoroutineIsRight, TaskWrite, TaskAt, NoGoroutine
<1>2. ASSUME NEW u \in Tasks \ {t}, TaskWrite(c, u) PROVE taskStatus'[t] = taskStatus[t]
  BY <1>2, <1>t DEF TaskWrite, SetTaskStatus
<1>3. ASSUME NEW j \in Jobs,
             PauseRunningTasks(j) \/ ResumePausedTasks(j) \/ TerminateRunningTasks(j)
      PROVE  taskStatus'[t] = taskStatus[t]
  BY <1>3, <1>t DEF PauseRunningTasks, ResumePausedTasks, TerminateRunningTasks, BulkUpdate, TasksOf
<1>4. QED
  BY <1>1, <1>2, <1>3, MaintainerWrites

\* No step revives a task that has ended, and what workers and goroutines know of
\* their tasks stays true.
LEMMA NextKeepsOutcomes ==
    ASSUME TypeInv, LockInv, OutcomeInv, [Next]_vars
    PROVE  EndedKept /\ JobsKept /\ OutcomeInv'
<1>h. /\ \A w \in Workers : cur[w] \in Tasks => taskLock[cur[w]] = w
      /\ \A c \in Controllers, t \in Tasks : tm[c][t] # NoGoroutine => taskLock[t] = c
      /\ Workers \cap Controllers = {}
  BY ProcsAssumption, StoreAssumption DEF LockInv, HandlerHoldsLock, NoTask, Tasks
<1>o. /\ \A w \in Workers : WorkerIsRight(w)
      /\ \A c \in Controllers, t \in Tasks : GoroutineIsRight(c, t)
      /\ \A t \in Tasks : FreshIsRight(t)
  BY DEF OutcomeInv
<1>1. ASSUME NEW w \in Workers, WorkerMoves(w)
      PROVE  EndedKept /\ JobsKept /\ OutcomeInv'
  <2>1. EndedKept /\ \A t \in Tasks : t # cur[w] => Spares(t)
    BY <1>1, <1>o, WorkerSpares
  <2>2. UNCHANGED <<taskJob, maintVars>> /\ JobsKept
    BY <1>1, WorkerWrites DEF JobsKept
  <2>3. \A v \in Workers : WorkerIsRight(v)'
    <3>1. ASSUME NEW v \in Workers \ {w} PROVE WorkerIsRight(v)'
      <4>1. cur[v] \in Tasks => Spares(cur[v])
        BY <1>h, <2>1
      <4>2. QED
        BY <1>1, <1>o, <2>1, <2>2, <4>1, WorkerWrites, BystanderIsRight
    <3>2. WorkerIsRight(w)'
      BY <1>1, <1>o, WorkerStaysRight
    <3>3. QED
      BY <3>1, <3>2
  <2>4. ASSUME NEW c \in Controllers, NEW t \in Tasks PROVE GoroutineIsRight(c, t)'
    <3>1. tm[c][t] # NoGoroutine => t # cur[w]
      BY <1>h
    <3>2. QED
      BY <1>o, <2>1, <2>2, <3>1, GoroutineBystander DEF maintVars
  <2>5. ASSUME NEW t \in Tasks PROVE FreshIsRight(t)'
    <3>1. taskJob[t] = NoJob => t # cur[w]
      BY <1>o DEF WorkerIsRight
    <3>2. taskJob[t] = NoJob => taskStatus'[t] = taskStatus[t] /\ taskStage'[t] = taskStage[t]
      <4>1. SUFFICES ASSUME taskJob[t] = NoJob
                     PROVE  taskStatus'[t] = taskStatus[t] /\ taskStage'[t] = taskStage[t]
        OBVIOUS
      <4>2. taskStage'[t] = taskStage[t]
        BY <2>1, <3>1, <4>1 DEF Spares
      <4>3. taskStatus \in [Tasks -> TaskStatus]
        BY DEF TypeInv, TypeOK, StoreTypeOK
      <4>4. ASSUME TerminateRest(w) PROVE taskStatus'[t] = taskStatus[t]
        <5>1. wpc[w] \in HandlingPC
          BY <4>4, CallTables DEF TerminateRest, At, EndingPC
        <5>2. taskJob[cur[w]] # NoJob
          BY <1>o, <5>1 DEF TypeInv, HasTask, WorkerIsRight
        <5>3. QED
          BY <4>1, <4>3, <4>4, <5>2 DEF TerminateRest, TerminateRunningTasks, BulkUpdate, TasksOf
      <4>5. ASSUME WriteStatus(w) \/ FailTask(w) PROVE taskStatus'[t] = taskStatus[t]
        BY <3>1, <4>1, <4>3, <4>5 DEF WriteStatus, FailTask, SetTaskStatus
      <4>6. UNCHANGED taskStatus \/ WriteStatus(w) \/ FailTask(w) \/ TerminateRest(w)
        BY <1>1, WorkerWrites
      <4>7. QED
        BY <4>2, <4>4, <4>5, <4>6
    <3>3. QED
      BY <2>2, <3>2, FreshStaysRight DEF FreshIsRight
  <2>6. QED
    BY <2>1, <2>2, <2>3, <2>4, <2>5 DEF OutcomeInv
<1>2. ASSUME NEW c \in Controllers, MaintainerMoves(c)
      PROVE  EndedKept /\ JobsKept /\ OutcomeInv'
  <2>1. EndedKept /\ \A t \in Tasks : taskLock[t] # c => Spares(t)
    BY <1>2, <1>o, MaintainerSpares
  <2>2. UNCHANGED <<workerVars, taskJob, taskStage>> /\ JobsKept
    BY <1>2, MaintainerKeepsJobs DEF JobsKept
  <2>3. ASSUME NEW v \in Workers PROVE WorkerIsRight(v)'
    <3>1. cur[v] \in Tasks => Spares(cur[v])
      BY <1>h, <2>1
    <3>2. QED
      BY <1>o, <2>1, <2>2, <3>1, BystanderIsRight DEF workerVars
  <2>4. ASSUME NEW d \in Controllers, NEW t \in Tasks PROVE GoroutineIsRight(d, t)'
    <3>1. CASE d = c
      <4>1. Spares(t) \/ TaskWrite(c, t)
        BY <1>2, <2>2, MaintainerWritesOne
      <4>2. QED
        BY <1>2, <1>o, <3>1, <4>1, GoroutineStaysRight
    <3>2. CASE d # c
      <4>1. tm'[d][t] = tm[d][t]
        BY <1>2, <3>2, OtherGoroutines
      <4>2. tm[d][t] # NoGoroutine => Spares(t)
        BY <1>h, <2>1, <3>2
      <4>3. QED
        BY <1>o, <4>1, <4>2, GoroutineBystander
    <3>3. QED
      BY <3>1, <3>2
  <2>5. ASSUME NEW t \in Tasks PROVE FreshIsRight(t)'
    <3>1. taskJob[t] = NoJob => taskStatus'[t] = taskStatus[t]
      BY <1>2, <1>o, FreshOutsideBulk
    <3>2. QED
      BY <2>2, <3>1, FreshStaysRight DEF FreshIsRight
  <2>6. QED
    BY <2>1, <2>2, <2>3, <2>4, <2>5 DEF OutcomeInv
<1>3. ASSUME \/ \E c \in Controllers : ReaperMoves(c) \/ ControllerStops(c)
             \/ SchedulerMoves \/ ClientMoves \/ NobodyMoves
      PROVE  EndedKept /\ JobsKept /\ OutcomeInv'
  <2>1. /\ UNCHANGED workerVars /\ JobsKept
        /\ \A c \in Controllers, t \in Tasks : tm'[c][t] \in {tm[c][t], NoGoroutine}
        /\ \A t \in Tasks : taskStatus'[t] = taskStatus[t] /\ taskStage'[t] = taskStage[t]
    BY <1>3, OthersWrite
  <2>2. EndedKept
    BY <2>1 DEF EndedKept
  <2>3. ASSUME NEW t \in Tasks, taskJob[t] # NoJob PROVE Spares(t)
    BY <2>1, <2>3 DEF Spares, JobsKept
  <2>4. ASSUME NEW v \in Workers PROVE WorkerIsRight(v)'
    <3>1. cur[v] \in Tasks => Spares(cur[v])
      BY <1>o, <2>3 DEF WorkerIsRight
    <3>2. QED
      BY <1>o, <2>1, <2>2, <3>1, BystanderIsRight DEF workerVars
  <2>5. ASSUME NEW c \in Controllers, NEW t \in Tasks PROVE GoroutineIsRight(c, t)'
    <3>1. CASE tm'[c][t] = NoGoroutine
      BY <3>1 DEF GoroutineIsRight
    <3>2. CASE tm'[c][t] = tm[c][t]
      <4>1. tm[c][t] # NoGoroutine => Spares(t)
        BY <1>o, <2>3 DEF GoroutineIsRight
      <4>2. QED
        BY <1>o, <3>2, <4>1, GoroutineBystander
    <3>3. QED
      BY <2>1, <3>1, <3>2
  <2>6. ASSUME NEW t \in Tasks PROVE FreshIsRight(t)'
    BY <2>1, FreshStaysRight DEF FreshIsRight
  <2>7. QED
    BY <2>1, <2>2, <2>4, <2>5, <2>6 DEF OutcomeInv
<1>4. QED
  BY <1>1, <1>2, <1>3, StepsByActor

LEMMA InitOutcomes == Init => OutcomeInv
<1> SUFFICES ASSUME Init PROVE OutcomeInv
  OBVIOUS
<1>1. NoTask \notin Tasks
  BY StoreAssumption DEF NoTask, Tasks
<1>2. \A w \in Workers : WorkerIsRight(w)
  BY <1>1 DEF Init, WorkerInit, WorkerIsRight
<1>3. \A c \in Controllers, t \in Tasks : GoroutineIsRight(c, t)
  BY DEF Init, MaintainerInit, GoroutineIsRight
<1>4. \A t \in Tasks : FreshIsRight(t)
  BY DEF Init, StoreInit, FreshIsRight
<1>5. QED
  BY <1>2, <1>3, <1>4 DEF OutcomeInv

\* Types, locks and outcomes together.
LEMMA OutcomesHold ==
    ASSUME MaySuspect = {}
    PROVE  Spec => [](TypeInv /\ LockInv /\ OutcomeInv)
<1>1. TypeInv /\ LockInv /\ [Next]_vars => LockInv'
  BY NextLocks
<1>2. TypeInv /\ LockInv /\ OutcomeInv /\ [Next]_vars => OutcomeInv'
  BY NextKeepsOutcomes
<1>3. QED
  BY <1>1, <1>2, InitLocks, InitOutcomes, TypesHold, PTL DEF Spec

\* A task that has completed, terminated or failed keeps that status: the writes that
\* UpdateTask has validated against an earlier read never revive it, and neither do
\* the bulk updates of a paused, resumed or terminated job.
THEOREM EndedTasksStayEnded == MaySuspect = {} => (Spec => EndedTasksStay)
<1> SUFFICES ASSUME MaySuspect = {} PROVE Spec => EndedTasksStay
  OBVIOUS
<1>1. TypeInv /\ LockInv /\ OutcomeInv /\ [Next]_vars =>
         [\A t \in Tasks : taskStatus[t] \in TaskTerminal => taskStatus'[t] = taskStatus[t]]_vars
  BY NextKeepsOutcomes DEF EndedKept
<1>2. Spec => [](TypeInv /\ LockInv /\ OutcomeInv)
  BY OutcomesHold
<1>3. QED
  BY <1>1, <1>2, PTL DEF Spec, EndedTasksStay

------------------------------------------------------------------------------
(* Completed tasks and completed jobs.                                     *)

\* A task becomes completed by one write of TaskRunWorker and by nothing else.
LEMMA CompletedByWorker ==
    ASSUME TypeInv, OutcomeInv, [Next]_vars, NEW t \in Tasks,
           taskStatus[t] # "completed", taskStatus'[t] = "completed"
    PROVE  \E w \in Workers : wpc[w] = "setCompleted" /\ cur[w] = t /\ WorkerMoves(w)
                              /\ UNCHANGED <<taskStage, outputs>>
<1>t. /\ taskStatus \in [Tasks -> TaskStatus] /\ cur \in [Workers -> Tasks \cup {NoTask}]
      /\ tm \in [Controllers -> [Tasks -> TaskGoroutine \cup {NoGoroutine}]]
  BY DEF TypeInv, TypeOK, StoreTypeOK, WorkerTypeOK, MaintainerTypeOK
<1>1. ASSUME NEW w \in Workers, WorkerMoves(w)
      PROVE  wpc[w] = "setCompleted" /\ cur[w] = t /\ UNCHANGED <<taskStage, outputs>>
  <2>1. ~TerminateRest(w)
    BY <1>t, BulkSpares DEF TerminateRest, TaskTerminal
  <2>2. ~FailTask(w)
    BY <1>t DEF FailTask, SetTaskStatus
  <2>3. WriteStatus(w)
    BY <1>1, <2>1, <2>2, WorkerWrites
  <2>4. cur[w] = t /\ StatusOf(wpc[w]) = "completed" /\ wpc[w] \in StatusPC
    BY <1>t, <2>3 DEF WriteStatus, SetTaskStatus, At
  <2>5. wpc[w] = "setCompleted"
    BY <2>4 DEF StatusPC, StatusOf
  <2>6. QED
    BY <2>3, <2>4, <2>5 DEF WriteStatus
<1>2. ASSUME NEW c \in Controllers, MaintainerMoves(c) PROVE FALSE
  <2>1. ASSUME NEW u \in Tasks, TaskWrite(c, u) PROVE FALSE
    <3>1. tm[c][u].step = "write" /\ taskStatus' = [taskStatus EXCEPT ![u] = TargetOf(tm[c][u].kind)]
      BY <2>1 DEF TaskWrite, TaskAt, SetTaskStatus
    <3>2. tm[c][u].kind \in {"pausing", "terminating"}
      BY <1>t, <3>1 DEF TaskGoroutine, NoGoroutine
    <3>3. TargetOf(tm[c][u].kind) \in {"paused", "terminated"}
      BY <3>2 DEF TargetOf
    <3>4. QED
      BY <1>t, <3>1, <3>3
  <2>2. ASSUME NEW j \in Jobs,
               PauseRunningTasks(j) \/ ResumePausedTasks(j) \/ TerminateRunningTasks(j)
        PROVE  FALSE
    BY <1>t, <2>2, BulkSpares DEF TaskTerminal
  <2>3. QED
    BY <1>2, <2>1, <2>2, MaintainerWrites
<1>3. QED
  BY <1>1, <1>2, StepsByActor, OthersWrite

\* Nobody touches the stage and the outputs of a task that has ended.
LEMMA EndedDocumentsStay ==
    ASSUME TypeInv, OutcomeInv, [Next]_vars, NEW t \in Tasks, taskStatus[t] \in TaskTerminal
    PROVE  taskStage'[t] = taskStage[t] /\ outputs'[t] = outputs[t]
<1>t. taskStage \in [Tasks -> TaskStage] /\ outputs \in [Tasks -> SUBSET Output]
  BY DEF TypeInv, TypeOK, StoreTypeOK
<1>1. ASSUME NEW w \in Workers, WorkerMoves(w)
      PROVE  taskStage'[t] = taskStage[t] /\ outputs'[t] = outputs[t]
  <2>1. wpc[w] \in HandlingPC \ EndingPC => t # cur[w]
    BY DEF OutcomeInv, WorkerIsRight
  <2>2. ASSUME WriteStage(w) PROVE taskStage'[t] = taskStage[t]
    <3>1. wpc[w] \in HandlingPC \ EndingPC
      BY <2>2, CallTables DEF WriteStage, At
    <3>2. QED
      BY <1>t, <2>1, <2>2, <3>1 DEF WriteStage
  <2>3. ASSUME RunStage(w) \/ WriteQuality(w) \/ WorkerPanic(w) PROVE outputs'[t] = outputs[t]
    <3>1. CASE WriteQuality(w)
      BY <1>t, <2>1, <3>1, CallTables DEF WriteQuality, At
    <3>2. CASE RunStage(w) \/ WorkerPanic(w)
      <4>1. wpc[w] \in ContainerPC => t # cur[w]
        BY <2>1, CallTables
      <4>2. QED
        BY <1>t, <3>2, <4>1, RunsLeaveOneOutput
    <3>3. QED
      BY <2>3, <3>1, <3>2
  <2>4. QED
    BY <1>1, <2>2, <2>3, WorkerWrites
<1>2. ASSUME NEW c \in Controllers, MaintainerMoves(c)
      PROVE  taskStage'[t] = taskStage[t] /\ outputs'[t] = outputs[t]
  BY <1>2, MaintainerKeepsJobs, StagesOutsideWorkers
<1>3. QED
  BY <1>1, <1>2, StepsByActor, OthersWrite, StagesOutsideWorkers

LEMMA NextCompletesTasks ==
    ASSUME TypeInv, OutcomeInv, OutputsInv, CompletedTaskIsDone, [Next]_vars
    PROVE  CompletedTaskIsDone'
<1> SUFFICES ASSUME NEW t \in Tasks, taskStatus'[t] = "completed"
             PROVE  /\ taskStage'[t] = "end"
                    /\ Trained(outputs'[t]) /\ Predicted(outputs'[t]) /\ Evaluated(outputs'[t])
  BY DEF CompletedTaskIsDone
<1>1. CASE taskStatus[t] = "completed"
  BY <1>1, EndedDocumentsStay DEF CompletedTaskIsDone, TaskTerminal
<1>2. CASE taskStatus[t] # "completed"
  <2>1. PICK w \in Workers : /\ wpc[w] = "setCompleted" /\ cur[w] = t
                             /\ UNCHANGED <<taskStage, outputs>>
    BY <1>2, CompletedByWorker
  <2>2. taskStage[t] = "end"
    BY <2>1 DEF OutcomeInv, WorkerIsRight
  <2>3. Trained(outputs[t]) /\ Predicted(outputs[t]) /\ Evaluated(outputs[t])
    BY <2>2, DocumentsAreBacked, BackedStages
  <2>4. QED
    BY <2>1, <2>2, <2>3
<1>3. QED
  BY <1>1, <1>2

\* A task that TaskRunWorker reports as completed has reached the end stage, was
\* trained, predicted and evaluated, and has a quality, through all pauses and changes
\* of worker, and nothing takes these away later.  When modules do not fail it has its
\* parameters and its predictions; when they do, it may be completed without them.
THEOREM CompletedTasksAreDone == MaySuspect = {} => (Spec => []CompletedTaskIsDone)
<1> SUFFICES ASSUME MaySuspect = {} PROVE Spec => []CompletedTaskIsDone
  OBVIOUS
<1>1. Init => CompletedTaskIsDone
  BY DEF Init, StoreInit, CompletedTaskIsDone
<1>2. TypeInv /\ OutcomeInv /\ OutputsInv /\ CompletedTaskIsDone /\ [Next]_vars => CompletedTaskIsDone'
  BY NextCompletesTasks
<1>3. Spec => [](TypeInv /\ LockInv /\ OutcomeInv)
  BY OutcomesHold
<1>4. QED
  BY <1>1, <1>2, <1>3, InitIsBacked, NextStaysBacked, PTL DEF Spec

\* What a PATCH request is about to write is what its user asked for.
PatchesAreRequests == \A u \in Clients : patch[u] # NoPatch => patch[u][2] \in Requests

LEMMA NextKeepsPatches ==
    ASSUME TypeInv, PatchesAreRequests, [Next]_vars
    PROVE  PatchesAreRequests'
<1>t. patch \in [Clients -> (Jobs \X JobStatus) \cup {NoPatch}]
  BY DEF TypeInv, TypeOK, ClientTypeOK
<1>1. CASE UNCHANGED clientVars
  BY <1>1 DEF PatchesAreRequests, clientVars
<1>2. CASE ClientStep
  <2>1. ASSUME NEW u \in Clients, NEW j \in Jobs, NEW s \in Requests, PatchRead(u, j, s)
        PROVE  PatchesAreRequests'
    BY <1>t, <2>1 DEF PatchRead, PatchesAreRequests
  <2>2. ASSUME NEW u \in Clients, PatchWrite(u) PROVE PatchesAreRequests'
    BY <1>t, <2>2 DEF PatchWrite, PatchesAreRequests
  <2>3. ASSUME NEW j \in Jobs, CreateJob(j) PROVE PatchesAreRequests'
    BY <1>1, <2>3 DEF CreateJob
  <2>4. QED
    BY <1>2, <2>1, <2>2, <2>3 DEF ClientStep
<1>3. UNCHANGED clientVars \/ ClientStep
  BY StepsByActor DEF WorkerMoves, MaintainerMoves, ReaperMoves, ControllerStops, SchedulerMoves,
                      ClientMoves, NobodyMoves
<1>4. QED
  BY <1>1, <1>2, <1>3

\* Who writes which status to a job: TaskRunWorker completes it, a maintainer takes it
\* to its target, and users write what they have asked for.
LEMMA JobStatusWrites ==
    ASSUME TypeInv, PatchesAreRequests, [Next]_vars, NEW j \in Jobs,
           jobStatus'[j] # jobStatus[j]
    PROVE  \/ /\ jobStatus'[j] = "completed"
              /\ \E w \in Workers : wpc[w] = "completeJob" /\ cur[w] \in Tasks /\ taskJob[cur[w]] = j
           \/ jobStatus'[j] \in {"running", "paused", "terminated"} \cup Requests
<1>t. /\ jobStatus \in [Jobs -> JobStatus \cup {"none"}]
      /\ jm \in [Controllers -> [Jobs -> JobGoroutine \cup {NoGoroutine}]]
      /\ patch \in [Clients -> (Jobs \X JobStatus) \cup {NoPatch}]
  BY DEF TypeInv, TypeOK, StoreTypeOK, MaintainerTypeOK, ClientTypeOK
<1> USE DEF storeVars, jobVars, taskVars, procVars
<1>1. ASSUME NEW w \in Workers, WorkerMoves(w)
      PROVE  /\ jobStatus'[j] = "completed"
             /\ wpc[w] = "completeJob" /\ cur[w] \in Tasks /\ taskJob[cur[w]] = j
  <2>1. WriteJobCompleted(w)
    BY <1>1, WorkerWrites
  <2>2. wpc[w] = "completeJob" /\ cur[w] \in Tasks
    BY <2>1, CallTables DEF WriteJobCompleted, At, TypeInv, HasTask, EndingPC
  <2>3. QED
    BY <1>t, <2>1, <2>2 DEF WriteJobCompleted
<1>2. ASSUME NEW c \in Controllers, MaintainerMoves(c)
      PROVE  jobStatus'[j] \in {"running", "paused", "terminated"}
  <2>1. ASSUME NEW i \in Jobs, JobWrite(c, i)
        PROVE  jobStatus'[j] \in {"running", "paused", "terminated"}
    <3>1. jm[c][i].step = "write" /\ jobStatus' = [jobStatus EXCEPT ![i] = TargetOf(jm[c][i].kind)]
      BY <2>1 DEF JobWrite, JobAt
    <3>2. jm[c][i].kind \in JobTransient
      BY <1>t, <3>1 DEF JobGoroutine, NoGoroutine
    <3>3. TargetOf(jm[c][i].kind) \in {"running", "paused", "terminated"}
      BY <3>2 DEF TargetOf, JobTransient
    <3>4. QED
      BY <1>t, <3>1, <3>3
  <2>2. ASSUME NEW i \in Jobs,
               \/ JobBulk(c, i) \/ JobRead(c, i) \/ JobUnlock(c, i) \/ JobCallFails(c, i)
               \/ \E kind : MaintainJob(c, i, kind)
        PROVE  FALSE
    BY <2>2 DEF JobBulk, JobRead, JobUnlock, JobCallFails, MaintainJob
  <2>3. ASSUME NEW t \in Tasks,
               \/ TaskRead(c, t) \/ TaskWrite(c, t) \/ TaskUnlock(c, t) \/ TaskCallFails(c, t)
               \/ \E kind : MaintainTask(c, t, kind)
        PROVE  FALSE
    BY <2>3 DEF TaskRead, TaskWrite, TaskUnlock, TaskCallFails, MaintainTask
  <2>4. QED
    BY <1>2, <2>1, <2>2, <2>3 DEF MaintainerMoves, MaintainerStep, JobMaintainerStep, TaskMaintainerStep
<1>3. ASSUME NEW c \in Controllers, ReaperMoves(c) \/ ControllerStops(c) PROVE FALSE
  BY <1>3 DEF ReaperMoves, ReaperStep, DeclareDead, ReleaseJobs, ReleaseTasks, ReleaseFails,
              ControllerStops
<1>4. ASSUME SchedulerMoves PROVE FALSE
  BY <1>4 DEF SchedulerMoves, SchedulerStep, CountIdle, CountWorking, DecideToRun, DecideToWait,
              Suggest, EndOfSuggestions, BadSuggestion, CreateTask, SchedulerCallFails,
              SchedulerCrash, SchedulerPanic, StopScheduler
<1>5. ASSUME ClientMoves PROVE jobStatus'[j] \in {"running"} \cup Requests
  <2>1. ASSUME NEW u \in Clients, PatchWrite(u) PROVE jobStatus'[j] \in Requests
    <3>1. patch[u] # NoPatch /\ jobStatus' = [jobStatus EXCEPT ![patch[u][1]] = patch[u][2]]
      BY <2>1 DEF PatchWrite
    <3>2. patch[u][2] \in Requests
      BY <3>1 DEF PatchesAreRequests
    <3>3. QED
      BY <1>t, <3>1, <3>2
  <2>2. ASSUME NEW i \in Jobs, CreateJob(i) PROVE jobStatus'[j] = "running"
    BY <1>t, <2>2 DEF CreateJob
  <2>3. QED
    BY <1>5, <2>1, <2>2 DEF ClientMoves, ClientStep, PatchRead
<1>6. ~NobodyMoves
  BY DEF NobodyMoves
<1>7. QED
  BY <1>1, <1>2, <1>3, <1>4, <1>5, <1>6, StepsByActor

LEMMA NextCompletesJobs ==
    ASSUME TypeInv, LockInv, OutcomeInv, PatchesAreRequests, CompletedJobIsDone, [Next]_vars
    PROVE  CompletedJobIsDone'
<1> SUFFICES ASSUME "completed" \notin Requests, NEW j \in Jobs, jobStatus'[j] = "completed"
             PROVE  (Cardinality(CompletedTasks(j)) >= MaxTasks)'
  BY DEF CompletedJobIsDone, CompletedTasks, TasksOf
<1>1. Cardinality(CompletedTasks(j)) >= MaxTasks
  <2>1. CASE jobStatus[j] = "completed"
    BY <2>1 DEF CompletedJobIsDone, CompletedTasks, TasksOf
  <2>2. CASE jobStatus[j] # "completed"
    <3>1. PICK w \in Workers : wpc[w] = "completeJob" /\ cur[w] \in Tasks /\ taskJob[cur[w]] = j
      BY <2>2, JobStatusWrites
    <3>2. QED
      BY <3>1 DEF OutcomeInv, WorkerIsRight
  <2>3. QED
    BY <2>1, <2>2
<1>2. EndedKept /\ JobsKept
  BY NextKeepsOutcomes
<1>3. QED
  BY <1>1, <1>2, CompletedGrow, MaxTasksAssumption

\* A job is completed only when max-tasks of its tasks are, unless a user sets that
\* status with a PATCH: the count that TaskRunWorker has read before UpdateJob still
\* holds when the status is written, and ever after.
THEOREM CompletedJobsAreDone == MaySuspect = {} => (Spec => []CompletedJobIsDone)
<1> SUFFICES ASSUME MaySuspect = {} PROVE Spec => []CompletedJobIsDone
  OBVIOUS
<1>1. Init => CompletedJobIsDone /\ PatchesAreRequests
  BY DEF Init, StoreInit, ClientInit, CompletedJobIsDone, PatchesAreRequests
<1>2. TypeInv /\ PatchesAreRequests /\ [Next]_vars => PatchesAreRequests'
  BY NextKeepsPatches
<1>3. TypeInv /\ LockInv /\ OutcomeInv /\ PatchesAreRequests /\ CompletedJobIsDone /\ [Next]_vars
         => CompletedJobIsDone'
  BY NextCompletesJobs
<1>4. Spec => [](TypeInv /\ LockInv /\ OutcomeInv)
  BY OutcomesHold
<1>5. QED
  BY <1>1, <1>2, <1>3, <1>4, PTL DEF Spec

------------------------------------------------------------------------------
(* Locks that are left.  The invariant is inductive once ended tasks stay  *)
(* ended and an idle worker has no task.                                   *)

\* Why a process may hold the lock of a task or of a job.
TaskHeldFor(p, t) ==
    \/ taskStatus[t] = "error"
    \/ p \in Workers /\ cur[p] = t
    \/ p \in Controllers /\ tm[p][t] # NoGoroutine

JobHeldFor(p, j) == p \in Controllers /\ jm[p][j] # NoGoroutine

\* It is enough to look at one lock of each kind.
LEMMA LocksOneByOne ==
    ASSUME \A p \in Procs, t \in Tasks :
              alive'[p] /\ taskLock'[t] = p => TaskHeldFor(p, t)',
           \A p \in Procs, j \in Jobs : alive'[p] /\ jobLock'[j] = p => JobHeldFor(p, j)'
    PROVE  NoForgottenLock'
BY DEF NoForgottenLock, TaskHeldFor, JobHeldFor

LEMMA LocksAreHeldFor ==
    ASSUME NoForgottenLock, NEW p \in Procs, alive[p]
    PROVE  /\ \A t \in Tasks : taskLock[t] = p => TaskHeldFor(p, t)
           /\ \A j \in Jobs : jobLock[j] = p => JobHeldFor(p, j)
BY DEF NoForgottenLock, TaskHeldFor, JobHeldFor

\* A step that gives no lock away and takes no task from its handler.
LEMMA HeldAsBefore ==
    ASSUME NoForgottenLock, EndedKept,
           \A p \in Procs : alive'[p] => alive[p],
           \A t \in Tasks : taskLock'[t] \in {taskLock[t], NoProc},
           \A j \in Jobs : jobLock'[j] \in {jobLock[j], NoProc},
           \A w \in Workers : alive'[w] => cur'[w] = cur[w],
           \A c \in Controllers : alive'[c] => jm'[c] = jm[c] /\ tm'[c] = tm[c]
    PROVE  NoForgottenLock'
<1>n. NoProc \notin Procs
  BY ProcsAssumption
<1>1. ASSUME NEW p \in Procs, NEW t \in Tasks, alive'[p], taskLock'[t] = p
      PROVE  TaskHeldFor(p, t)'
  <2>1. TaskHeldFor(p, t)
    BY <1>1, <1>n, LocksAreHeldFor
  <2>2. QED
    BY <1>1, <2>1 DEF TaskHeldFor, EndedKept, TaskTerminal
<1>2. ASSUME NEW p \in Procs, NEW j \in Jobs, alive'[p], jobLock'[j] = p
      PROVE  JobHeldFor(p, j)'
  <2>1. JobHeldFor(p, j)
    BY <1>2, <1>n, LocksAreHeldFor
  <2>2. QED
    BY <1>2, <2>1 DEF JobHeldFor
<1>3. QED
  BY <1>1, <1>2, LocksOneByOne

LEMMA WorkerForgetsNoLock ==
    ASSUME TypeInv, OutcomeInv, NoForgottenLock, EndedKept, NEW w \in Workers, WorkerMoves(w)
    PROVE  NoForgottenLock'
<1>t. /\ taskLock \in [Tasks -> Procs \cup {NoProc}] /\ alive \in [Procs -> BOOLEAN]
      /\ cur \in [Workers -> Tasks \cup {NoTask}] /\ taskStatus \in [Tasks -> TaskStatus]
  BY DEF TypeInv, TypeOK, StoreTypeOK, WorkerTypeOK
<1>p. NoProc \notin Procs /\ w \in Procs /\ w \notin Controllers /\ NoTask \notin Tasks
      /\ Workers \cup Controllers \subseteq Procs
  BY ProcsAssumption, StoreAssumption DEF Procs, NoTask, Tasks
<1>m. UNCHANGED <<jm, tm>>
  BY DEF WorkerMoves, maintVars
<1> USE DEF storeVars, jobVars, taskVars, procVars
<1>1. CASE UNCHANGED <<cur, taskLock, jobLock, alive>>
  BY <1>1, <1>m, HeldAsBefore
\* The task a worker has just locked is its task; it had none before.
<1>2. ASSUME NEW u \in Tasks, WorkerLock(w, u) PROVE NoForgottenLock'
  <2>1. /\ taskLock' = [taskLock EXCEPT ![u] = w] /\ cur' = [cur EXCEPT ![w] = u]
        /\ wpc[w] = "idle" /\ UNCHANGED <<jobLock, jobStatus, taskStatus, alive>>
    BY <1>2 DEF WorkerLock, LockTask, At
  <2>2. cur[w] = NoTask
    BY <2>1 DEF OutcomeInv, WorkerIsRight
  <2>3. ASSUME NEW p \in Procs, NEW t \in Tasks, alive'[p], taskLock'[t] = p
        PROVE  TaskHeldFor(p, t)'
    <3>1. CASE t = u
      BY <1>t, <2>1, <2>3, <3>1 DEF TaskHeldFor
    <3>2. CASE t # u
      <4>1. TaskHeldFor(p, t)
        BY <1>t, <2>1, <2>3, <3>2, LocksAreHeldFor
      <4>2. QED
        BY <1>t, <1>p, <1>m, <2>1, <2>2, <4>1 DEF TaskHeldFor
    <3>3. QED
      BY <3>1, <3>2
  <2>4. ASSUME NEW p \in Procs, NEW j \in Jobs, alive'[p], jobLock'[j] = p
        PROVE  JobHeldFor(p, j)'
    BY <1>m, <2>1, <2>4, LocksAreHeldFor DEF JobHeldFor
  <2>5. QED
    BY <2>3, <2>4, LocksOneByOne
\* Letting go: unlocked, or in error with the lock in place.
<1>3. CASE WorkerUnlock(w) \/ FailTask(w)
  <2>1. /\ cur' = [cur EXCEPT ![w] = NoTask] /\ UNCHANGED <<jobLock, alive>>
        /\ taskLock' \in {taskLock, [taskLock EXCEPT ![cur[w]] = NoProc]}
    BY <1>3 DEF WorkerUnlock, FailTask, UnlockTask
  <2>2. cur[w] \in Tasks
    BY <1>3, CallTables DEF WorkerUnlock, FailTask, At, TypeInv, HasTask, EndingPC
  <2>3. taskLock'[cur[w]] = NoProc \/ taskStatus'[cur[w]] = "error"
    BY <1>3, <1>t, <2>2 DEF WorkerUnlock, FailTask, UnlockTask, SetTaskStatus
  <2>4. ASSUME NEW p \in Procs, NEW t \in Tasks, alive'[p], taskLock'[t] = p
        PROVE  TaskHeldFor(p, t)'
    <3>1. CASE t = cur[w]
      BY <1>p, <2>3, <2>4, <3>1 DEF TaskHeldFor
    <3>2. CASE t # cur[w]
      <4>1. TaskHeldFor(p, t)
        BY <1>t, <2>1, <2>4, <3>2, LocksAreHeldFor
      <4>2. taskStatus[t] = "error" => taskStatus'[t] = "error"
        BY DEF EndedKept, TaskTerminal
      <4>3. p \in Workers /\ cur[p] = t => cur'[p] = t
        BY <1>t, <2>1, <3>2
      <4>4. QED
        BY <1>m, <4>1, <4>2, <4>3 DEF TaskHeldFor
    <3>3. QED
      BY <3>1, <3>2
  <2>5. ASSUME NEW p \in Procs, NEW j \in Jobs, alive'[p], jobLock'[j] = p
        PROVE  JobHeldFor(p, j)'
    BY <1>m, <2>1, <2>5, LocksAreHeldFor DEF JobHeldFor
  <2>6. QED
    BY <2>4, <2>5, LocksOneByOne
<1>4. CASE StopWorker(w) /\ UNCHANGED <<jobVars, taskStatus, taskLock>>
  <2>1. /\ cur' = [cur EXCEPT ![w] = NoTask] /\ alive' = [alive EXCEPT ![w] = FALSE]
        /\ UNCHANGED <<taskLock, jobLock>>
    BY <1>4 DEF StopWorker
  <2>2. \A v \in Workers : alive'[v] => cur'[v] = cur[v]
    BY <1>t, <1>p, <2>1
  <2>3. \A p \in Procs : alive'[p] => alive[p]
    BY <1>t, <1>p, <2>1
  <2>4. QED
    BY <1>m, <2>1, <2>2, <2>3, HeldAsBefore
<1>5. QED
  BY <1>1, <1>2, <1>3, <1>4, WorkerKeepsLocks
     DEF WorkerMoves, WorkerStep, WorkerPanic, WorkerCrash, WorkerLockFails

LEMMA MaintainerForgetsNoLock ==
    ASSUME TypeInv, NoForgottenLock, EndedKept, NEW c \in Controllers, MaintainerMoves(c)
    PROVE  NoForgottenLock'
<1>t. /\ taskLock \in [Tasks -> Procs \cup {NoProc}] /\ jobLock \in [Jobs -> Procs \cup {NoProc}]
      /\ jm \in [Controllers -> [Jobs -> JobGoroutine \cup {NoGoroutine}]]
      /\ tm \in [Controllers -> [Tasks -> TaskGoroutine \cup {NoGoroutine}]]
  BY DEF TypeInv, TypeOK, StoreTypeOK, MaintainerTypeOK
<1>p. NoProc \notin Procs /\ c \in Procs
  BY ProcsAssumption DEF Procs
<1>c. UNCHANGED <<cur, alive>>
  <2>1. UNCHANGED cur
    BY DEF MaintainerMoves, workerVars
  <2>2. UNCHANGED alive
    <3> USE DEF storeVars, jobVars, taskVars, procVars
    <3>1. CASE MaintainerStep(c)
      BY <3>1 DEF MaintainerStep, JobMaintainerStep, TaskMaintainerStep, MaintainJob,
             MaintainTask, JobBulk, JobRead, JobWrite, JobUnlock, TaskRead, TaskWrite, TaskUnlock
    <3>2. QED
      BY <3>1 DEF MaintainerMoves, JobCallFails, TaskCallFails
  <2>3. QED
    BY <2>1, <2>2
<1>e. \A t \in Tasks : taskStatus[t] = "error" => taskStatus'[t] = "error"
  BY DEF EndedKept, TaskTerminal
\* A step that leaves the goroutines of all tasks but one alone, and locks or unlocks
\* no other.
<1>1. ASSUME NEW u \in Tasks, NEW lock, NEW g,
             taskLock' = [taskLock EXCEPT ![u] = lock],
             tm' = [tm EXCEPT ![c] = [tm[c] EXCEPT ![u] = g]],
             UNCHANGED <<jobLock, jm>>,
             \/ g # NoGoroutine /\ lock \in {c, taskLock[u]}
             \/ lock = NoProc /\ taskLock[u] = c
      PROVE  NoForgottenLock'
  <2>1. ASSUME NEW p \in Procs, NEW t \in Tasks, alive'[p], taskLock'[t] = p
        PROVE  TaskHeldFor(p, t)'
    <3>1. CASE t = u /\ p = c
      BY <1>1, <1>t, <1>p, <2>1, <3>1 DEF TaskHeldFor
    <3>2. CASE t # u \/ p # c
      <4>1. taskLock[t] = p
        BY <1>1, <1>t, <1>p, <2>1, <3>2
      <4>2. TaskHeldFor(p, t)
        BY <1>c, <2>1, <4>1, LocksAreHeldFor
      <4>3. p \in Controllers => tm'[p][t] = tm[p][t]
        BY <1>1, <1>t, <3>2
      <4>4. QED
        BY <1>c, <1>e, <4>2, <4>3 DEF TaskHeldFor
    <3>3. QED
      BY <3>1, <3>2
  <2>2. ASSUME NEW p \in Procs, NEW j \in Jobs, alive'[p], jobLock'[j] = p
        PROVE  JobHeldFor(p, j)'
    BY <1>1, <1>c, <2>2, LocksAreHeldFor DEF JobHeldFor
  <2>3. QED
    BY <2>1, <2>2, LocksOneByOne
\* The same for jobs.
<1>2. ASSUME NEW i \in Jobs, NEW lock, NEW g,
             jobLock' = [jobLock EXCEPT ![i] = lock],
             jm' = [jm EXCEPT ![c] = [jm[c] EXCEPT ![i] = g]],
             UNCHANGED <<taskLock, tm>>,
             \/ g # NoGoroutine /\ lock \in {c, jobLock[i]}
             \/ lock = NoProc /\ jobLock[i] = c
      PROVE  NoForgottenLock'
  <2>1. ASSUME NEW p \in Procs, NEW j \in Jobs, alive'[p], jobLock'[j] = p
        PROVE  JobHeldFor(p, j)'
    <3>1. CASE j = i /\ p = c
      BY <1>2, <1>t, <1>p, <2>1, <3>1 DEF JobHeldFor
    <3>2. CASE j # i \/ p # c
      <4>1. jobLock[j] = p
        BY <1>2, <1>t, <1>p, <2>1, <3>2
      <4>2. JobHeldFor(p, j)
        BY <1>c, <2>1, <4>1, LocksAreHeldFor
      <4>3. p \in Controllers => jm'[p][j] = jm[p][j]
        BY <1>2, <1>t, <3>2
      <4>4. QED
        BY <4>2, <4>3 DEF JobHeldFor
    <3>3. QED
      BY <3>1, <3>2
  <2>2. ASSUME NEW p \in Procs, NEW t \in Tasks, alive'[p], taskLock'[t] = p
        PROVE  TaskHeldFor(p, t)'
    BY <1>2, <1>c, <1>e, <2>2, LocksAreHeldFor DEF TaskHeldFor
  <2>3. QED
    BY <2>1, <2>2, LocksOneByOne
<1> USE DEF storeVars, jobVars, taskVars, procVars
<1>3. ASSUME NEW t \in Tasks, TaskRead(c, t) \/ TaskWrite(c, t) \/ TaskCallFails(c, t)
      PROVE  NoForgottenLock'
  <2>1. PICK step : TaskGoto(c, t, step) /\ step # "none"
    BY <1>3 DEF TaskRead, TaskWrite, TaskCallFails
  <2>2. tm[c][t].step # "none" /\ UNCHANGED <<taskLock, jobLock, jm>>
    BY <1>3 DEF TaskRead, TaskWrite, TaskCallFails, TaskAt
  <2> DEFINE g == [tm[c][t] EXCEPT !.step = step]
  <2>3. tm[c][t] \in TaskGoroutine
    BY <1>t, <2>2 DEF NoGoroutine
  <2>4. g.step = step
    BY <2>3 DEF TaskGoroutine
  <2>5. g # NoGoroutine
    BY <2>1, <2>4 DEF NoGoroutine
  <2>6. tm' = [tm EXCEPT ![c] = [tm[c] EXCEPT ![t] = g]]
    BY <2>1 DEF TaskGoto
  <2>7. taskLock' = [taskLock EXCEPT ![t] = taskLock[t]]
    BY <1>t, <2>2
  <2> HIDE DEF g
  <2>8. QED
    BY <1>1, <2>2, <2>5, <2>6, <2>7
<1>4. ASSUME NEW j \in Jobs, JobBulk(c, j) \/ JobRead(c, j) \/ JobWrite(c, j) \/ JobCallFails(c, j)
      PROVE  NoForgottenLock'
  <2>1. PICK step : JobGoto(c, j, step) /\ step # "none"
    BY <1>4 DEF JobBulk, JobRead, JobWrite, JobCallFails
  <2>2. jm[c][j].step # "none" /\ UNCHANGED <<taskLock, jobLock, tm>>
    BY <1>4 DEF JobBulk, JobRead, JobWrite, JobCallFails, JobAt
  <2> DEFINE g == [jm[c][j] EXCEPT !.step = step]
  <2>3. jm[c][j] \in JobGoroutine
    BY <1>t, <2>2 DEF NoGoroutine
  <2>4. g.step = step
    BY <2>3 DEF JobGoroutine
  <2>5. g # NoGoroutine
    BY <2>1, <2>4 DEF NoGoroutine
  <2>6. jm' = [jm EXCEPT ![c] = [jm[c] EXCEPT ![j] = g]]
    BY <2>1 DEF JobGoto
  <2>7. jobLock' = [jobLock EXCEPT ![j] = jobLock[j]]
    BY <1>t, <2>2
  <2> HIDE DEF g
  <2>8. QED
    BY <1>2, <2>2, <2>5, <2>6, <2>7
<1>5. ASSUME NEW t \in Tasks, NEW kind, MaintainTask(c, t, kind) PROVE NoForgottenLock'
  <2>1. /\ taskLock' = [taskLock EXCEPT ![t] = c]
        /\ tm' = [tm EXCEPT ![c] = [tm[c] EXCEPT ![t] = [step |-> "read", kind |-> kind]]]
        /\ UNCHANGED <<jobLock, jm>>
    BY <1>5 DEF MaintainTask, LockTask
  <2>2. [step |-> "read", kind |-> kind] # NoGoroutine
    BY DEF NoGoroutine
  <2>3. QED
    BY <1>1, <2>1, <2>2
<1>6. ASSUME NEW j \in Jobs, NEW kind, MaintainJob(c, j, kind) PROVE NoForgottenLock'
  <2>1. /\ jobLock' = [jobLock EXCEPT ![j] = c]
        /\ jm' = [jm EXCEPT ![c] = [jm[c] EXCEPT ![j] = [step |-> "bulk", kind |-> kind]]]
        /\ UNCHANGED <<taskLock, tm>>
    BY <1>6 DEF MaintainJob, LockJob
  <2>2. [step |-> "bulk", kind |-> kind] # NoGoroutine
    BY DEF NoGoroutine
  <2>3. QED
    BY <1>2, <2>1, <2>2
<1>7. ASSUME NEW t \in Tasks, TaskUnlock(c, t) PROVE NoForgottenLock'
  BY <1>1, <1>7 DEF TaskUnlock, UnlockTask
<1>8. ASSUME NEW j \in Jobs, JobUnlock(c, j) PROVE NoForgottenLock'
  BY <1>2, <1>8 DEF JobUnlock, UnlockJob
<1>9. QED
  BY <1>3, <1>4, <1>5, <1>6, <1>7, <1>8
     DEF MaintainerMoves, MaintainerStep, JobMaintainerStep, TaskMaintainerStep

LEMMA OthersForgetNoLock ==
    ASSUME TypeInv, NoForgottenLock, EndedKept,
           \/ \E c \in Controllers : ReaperMoves(c) \/ ControllerStops(c)
           \/ SchedulerMoves \/ ClientMoves \/ NobodyMoves
    PROVE  NoForgottenLock'
<1>t. /\ taskLock \in [Tasks -> Procs \cup {NoProc}] /\ jobLock \in [Jobs -> Procs \cup {NoProc}]
      /\ alive \in [Procs -> BOOLEAN]
      /\ jm \in [Controllers -> [Jobs -> JobGoroutine \cup {NoGoroutine}]]
      /\ tm \in [Controllers -> [Tasks -> TaskGoroutine \cup {NoGoroutine}]]
  BY DEF TypeInv, TypeOK, StoreTypeOK, MaintainerTypeOK
<1>p. Controllers \subseteq Procs /\ Scheduler \in Procs
  BY DEF Procs
<1> USE DEF storeVars, jobVars, taskVars, procVars, workerVars, maintVars
<1>1. ASSUME NEW c \in Controllers, ReaperMoves(c) PROVE NoForgottenLock'
  <2>1. UNCHANGED <<cur, jm, tm, alive>>
    BY <1>1 DEF ReaperMoves, ReaperStep, DeclareDead, ReleaseJobs, ReleaseTasks, ReleaseFails
  <2>2. \A t \in Tasks : taskLock'[t] \in {taskLock[t], NoProc}
    BY <1>1 DEF ReaperMoves, ReaperStep, DeclareDead, ReleaseJobs, ReleaseTasks, ReleaseFails,
                ReleaseTaskLockByProcess
  <2>3. \A j \in Jobs : jobLock'[j] \in {jobLock[j], NoProc}
    BY <1>1 DEF ReaperMoves, ReaperStep, DeclareDead, ReleaseJobs, ReleaseTasks, ReleaseFails,
                ReleaseJobLockByProcess
  <2>4. QED
    BY <2>1, <2>2, <2>3, HeldAsBefore
<1>2. ASSUME NEW c \in Controllers, ControllerStops(c) PROVE NoForgottenLock'
  <2>1. UNCHANGED <<cur, taskLock, jobLock>> /\ alive' = [alive EXCEPT ![c] = FALSE]
    BY <1>2 DEF ControllerStops
  <2>2. \A d \in Controllers : alive'[d] => jm'[d] = jm[d] /\ tm'[d] = tm[d]
    BY <1>2, <1>t, <1>p DEF ControllerStops, StopMaintainers
  <2>3. \A p \in Procs : alive'[p] => alive[p]
    BY <1>t, <2>1
  <2>4. QED
    BY <2>1, <2>2, <2>3, HeldAsBefore
<1>3. CASE SchedulerMoves
  <2>1. UNCHANGED <<cur, jm, tm>>
    BY <1>3 DEF SchedulerMoves
  <2>2. /\ UNCHANGED <<taskLock, jobLock>>
        /\ UNCHANGED alive \/ alive' = [alive EXCEPT ![Scheduler] = FALSE]
    BY <1>3 DEF SchedulerMoves, SchedulerStep, CountIdle, CountWorking, DecideToRun, DecideToWait,
                Suggest, EndOfSuggestions, BadSuggestion, CreateTask, SchedulerCallFails,
                SchedulerCrash, SchedulerPanic, StopScheduler
  <2>3. \A p \in Procs : alive'[p] => alive[p]
    BY <1>t, <2>2
  <2>4. QED
    BY <2>1, <2>2, <2>3, HeldAsBefore
<1>4. CASE ClientMoves \/ NobodyMoves
  <2>1. UNCHANGED <<cur, jm, tm, taskLock, jobLock, alive>>
    BY <1>4 DEF ClientMoves, NobodyMoves, ClientStep, CreateJob, PatchRead, PatchWrite
  <2>2. QED
    BY <2>1, HeldAsBefore
<1>5. QED
  BY <1>1, <1>2, <1>3, <1>4

\* Every lock in the process field of a task or a job that a live process holds is
\* held for work in progress or marks a failed task: no path out of TaskRunWorker or
\* of a maintainer goroutine forgets one, also when calls fail and processes crash.
THEOREM NoLockIsForgotten == MaySuspect = {} => (Spec => []NoForgottenLock)
<1> SUFFICES ASSUME MaySuspect = {} PROVE Spec => []NoForgottenLock
  OBVIOUS
<1>1. Init => NoForgottenLock
  BY ProcsAssumption DEF Init, StoreInit, NoForgottenLock
<1>2. TypeInv /\ LockInv /\ OutcomeInv /\ NoForgottenLock /\ [Next]_vars => NoForgottenLock'
  BY NextKeepsOutcomes, StepsByActor, WorkerForgetsNoLock, MaintainerForgetsNoLock,
     OthersForgetNoLock
<1>3. Spec => [](TypeInv /\ LockInv /\ OutcomeInv)
  BY OutcomesHold
<1>4. QED
  BY <1>1, <1>2, <1>3, PTL DEF Spec

------------------------------------------------------------------------------
(* The refinement: what all processes together do to a task is a step of   *)
(* TaskLife.  The invariants above say for each write what is needed: the  *)
(* writer holds the lock, the task has not ended, and the stage and the    *)
(* outputs are those that the writer remembers.                            *)

\* The documents of the tasks are functions on Tasks.
LEMMA TaskDocuments ==
    ASSUME TypeInv
    PROVE  /\ taskJob \in [Tasks -> Jobs \cup {NoJob}]
           /\ taskStatus \in [Tasks -> TaskStatus]
           /\ taskStage \in [Tasks -> TaskStage]
           /\ taskLock \in [Tasks -> Procs \cup {NoProc}]
           /\ outputs \in [Tasks -> SUBSET Output]
BY DEF TypeInv, TypeOK, StoreTypeOK

\* A worker before its last write is at work in the sense of TaskLife.
LEMMA WorkerIsAtWork ==
    ASSUME TypeInv, LockInv, OutcomeInv, NEW w \in Workers, wpc[w] \in HandlingPC \ EndingPC
    PROVE  cur[w] \in Tasks /\ Life!AtWork(cur[w])
<1>1. cur[w] \in Tasks /\ cur[w] # NoTask
  BY StoreAssumption DEF TypeInv, HasTask, NoTask, Tasks
<1>2. taskLock[cur[w]] # NoProc
  BY <1>1, ProcsAssumption DEF LockInv, HandlerHoldsLock, Procs
<1>3. taskJob[cur[w]] # NoJob /\ taskStatus[cur[w]] \notin TaskTerminal
  BY <1>1 DEF OutcomeInv, WorkerIsRight
<1>4. QED
  BY <1>1, <1>2, <1>3 DEF Life!AtWork, Life!Open, Life!Ended, TaskTerminal

\* A goroutine that has not written yet is at work, too.
LEMMA GoroutineIsAtWork ==
    ASSUME LockInv, OutcomeInv, NEW c \in Controllers, NEW t \in Tasks,
           tm[c][t].step \in {"read", "write"}
    PROVE  Life!AtWork(t)
<1>1. tm[c][t] # NoGoroutine
  BY DEF NoGoroutine
<1>2. taskLock[t] # NoProc
  BY <1>1, ProcsAssumption DEF LockInv, HandlerHoldsLock, Procs
<1>3. taskJob[t] # NoJob /\ taskStatus[t] \notin TaskTerminal
  BY <1>1 DEF OutcomeInv, GoroutineIsRight
<1>4. QED
  BY <1>2, <1>3 DEF Life!AtWork, Life!Open, Life!Ended, TaskTerminal

\* Writing one status, or the same status to the tasks that a bulk update selects.
LEMMA RedirectOne ==
    ASSUME TypeInv, NEW t \in Tasks, Life!AtWork(t),
           NEW s \in {"scheduled", "running", "pausing", "paused", "terminating"},
           taskStatus' = [taskStatus EXCEPT ![t] = s],
           UNCHANGED <<taskJob, taskLock, taskStage, outputs>>
    PROVE  Life!Next
<1>1. taskStatus' = [u \in Tasks |-> IF u \in {t} THEN s ELSE taskStatus[u]]
  BY TaskDocuments
<1>2. Life!Redirect({t}, s)
  BY <1>1 DEF Life!Redirect, Life!AtWork, Life!Ended
<1>3. QED
  BY <1>2 DEF Life!Next, Life!TasksStep

LEMMA RedirectMany ==
    ASSUME TypeInv, NEW j \in Jobs,
           PauseRunningTasks(j) \/ ResumePausedTasks(j) \/ TerminateRunningTasks(j),
           UNCHANGED <<taskJob, taskLock, taskStage, outputs>>
    PROVE  Life!Next
<1>0. NoJob # j
  BY StoreAssumption DEF NoJob, Jobs
<1>1. ASSUME NEW from \in SUBSET {"scheduled", "running", "pausing", "paused"},
             NEW s \in {"scheduled", "pausing", "terminating"},
             BulkUpdate(TasksOf(j, from), s)
      PROVE  Life!Next
  <2>1. TasksOf(j, from) \in SUBSET Tasks /\ \A t \in TasksOf(j, from) : Life!Open(t)
    BY <1>0 DEF TasksOf, Life!Open, Life!Ended
  <2>2. Life!Redirect(TasksOf(j, from), s)
    BY <1>1, <2>1 DEF BulkUpdate, Life!Redirect, Life!Ended
  <2>3. QED
    BY <2>1, <2>2 DEF Life!Next, Life!TasksStep
<1>2. QED
  BY <1>1 DEF PauseRunningTasks, ResumePausedTasks, TerminateRunningTasks

\* A process that locks a task, or lets go of it.
LEMMA LockIsTake ==
    ASSUME TypeInv, NEW t \in Tasks, NEW p \in Procs,
           NEW status \in {"scheduled", "pausing", "terminating"}, LockTask(p, t, status),
           UNCHANGED <<taskJob, taskStatus, taskStage, outputs>>
    PROVE  Life!Next
<1>1. Life!Take(t, p)
  BY DEF LockTask, TaskLockable, Life!Take, Life!Open, Life!Ended
<1>2. QED
  BY <1>1 DEF Life!Next, Life!TaskStep

LEMMA UnlockIsRelease ==
    ASSUME TypeInv, NEW t \in Tasks, NEW p, UnlockTask(p, t),
           UNCHANGED <<taskJob, taskStatus, taskStage, outputs>>
    PROVE  Life!Next
<1>1. taskLock' = [u \in Tasks |-> IF u \in {t} THEN NoProc ELSE taskLock[u]]
  BY TaskDocuments DEF UnlockTask
<1>2. Life!Release({t})
  BY <1>1 DEF Life!Release
<1>3. QED
  BY <1>2 DEF Life!Next, Life!TasksStep

\* TaskLife counts the same runs.
LEMMA LifeRuns ==
    /\ Life!Output = Output
    /\ \A out : /\ Life!Trained(out) <=> Trained(out)
                /\ Life!Predicted(out) <=> Predicted(out)
                /\ Life!Evaluated(out) <=> Evaluated(out)
    /\ \A out : Life!Passed("training", out)
    /\ \A out : Life!Passed("predicting", out) <=> Trained(out)
    /\ \A out : Life!Passed("evaluating", out) <=> Trained(out) /\ Predicted(out)
    /\ \A out : Life!Passed("end", out) <=> Trained(out) /\ Predicted(out) /\ Evaluated(out)
<1>1. Life!Output = Output
  BY DEF Life!Output, Output, FailureLog
<1>2. \A out : /\ Life!Trained(out) <=> Trained(out)
               /\ Life!Predicted(out) <=> Predicted(out)
               /\ Life!Evaluated(out) <=> Evaluated(out)
  BY DEF Life!Trained, Life!Predicted, Life!Evaluated, Trained, Predicted, Evaluated
<1>3. QED
  BY <1>1, <1>2 DEF Life!Passed

\* A worker that writes the status of its task starts, pauses or ends it.
LEMMA StatusWriteLives ==
    ASSUME TypeInv, LockInv, OutcomeInv, OutputsInv, NEW w \in Workers,
           WriteStatus(w) \/ FailTask(w)
    PROVE  Life!Next
<1>1. wpc[w] \in StatusPC \cup {"setError"}
  BY DEF WriteStatus, FailTask, At
<1>2. cur[w] \in Tasks /\ Life!AtWork(cur[w])
  BY <1>1, CallTables, WorkerIsAtWork
<1> DEFINE s == IF FailTask(w) THEN "error" ELSE StatusOf(wpc[w])
<1>3. /\ taskStatus' = [taskStatus EXCEPT ![cur[w]] = s]
      /\ UNCHANGED <<taskJob, taskLock, taskStage, outputs>>
  BY DEF WriteStatus, FailTask, SetTaskStatus
<1>4. \/ s \in {"running", "paused", "error"}
      \/ s = "completed" /\ wpc[w] = "setCompleted"
      \/ s = "terminated" /\ wpc[w] = "setTerminated"
  BY DEF WriteStatus, At, StatusPC, StatusOf
<1>5. wpc[w] = "setCompleted" => taskStage[cur[w]] = "end"
  BY <1>2 DEF OutcomeInv, WorkerIsRight
<1>6. wpc[w] = "setTerminated" => taskStatus[cur[w]] = "terminating"
  BY <1>2 DEF OutcomeInv, WorkerIsRight
<1> HIDE DEF s
<1>7. CASE s \in {"running", "paused"}
  BY <1>2, <1>3, <1>7, RedirectOne
<1>8. CASE s \in {"completed", "terminated", "error"}
  <2>1. s = "completed" => taskStage[cur[w]] = "end" /\ Life!Passed("end", outputs[cur[w]])
    BY <1>2, <1>4, <1>5, DocumentsAreBacked, BackedStages, LifeRuns
  <2>2. s = "terminated" => taskStatus[cur[w]] = "terminating"
    BY <1>4, <1>6
  <2>3. Life!End(cur[w], s)
    BY <1>2, <1>3, <1>8, <2>1, <2>2 DEF Life!End, Life!Ended
  <2>4. QED
    BY <1>2, <1>8, <2>3 DEF Life!Next, Life!TaskStep, Life!Ended
<1>9. QED
  BY <1>4, <1>7, <1>8

\* A worker that records a stage goes to the following one, or records one again.
LEMMA StageWriteLives ==
    ASSUME TypeInv, LockInv, OutcomeInv, OutputsInv, NEW w \in Workers, WriteStage(w)
    PROVE  Life!Next \/ UNCHANGED taskVars
<1>1. /\ wpc[w] \in StagePC /\ validated[w]
      /\ taskStage' = [taskStage EXCEPT ![cur[w]] = StageOf(wpc[w])]
      /\ UNCHANGED <<taskJob, taskStatus, taskLock, outputs>>
  BY DEF WriteStage, At
<1>2. cur[w] \in Tasks /\ Life!AtWork(cur[w])
  BY <1>1, CallTables, WorkerIsAtWork
<1>3. taskStage[cur[w]] \in TaskStageFrom(StageOf(wpc[w]))
  BY <1>1, <1>2 DEF OutcomeInv, WorkerIsRight
<1>4. Life!Passed(StageOf(wpc[w]), outputs[cur[w]])
  <2>1. wpc[w] # "setTraining" => Promised(wpc[w], outputs[cur[w]])
    BY <1>1, <1>2, StageTables DEF OutputsInv, WorkerIsBacked
  <2>2. QED
    BY <1>1, <2>1, LifeRuns DEF StagePC, StageOf, Promised
<1>5. CASE taskStage[cur[w]] = StageOf(wpc[w])
  BY <1>1, <1>2, <1>5, TaskDocuments DEF taskVars
<1>6. CASE taskStage[cur[w]] # StageOf(wpc[w])
  <2>1. taskStage[cur[w]] # "end" /\ Life!Following(taskStage[cur[w]]) = StageOf(wpc[w])
    BY <1>1, <1>3, <1>6 DEF StagePC, StageOf, TaskStageFrom, Life!Following
  <2>2. Life!Advance(cur[w])
    BY <1>1, <1>2, <1>4, <2>1 DEF Life!Advance
  <2>3. QED
    BY <1>2, <2>2 DEF Life!Next, Life!TaskStep
<1>7. QED
  BY <1>5, <1>6

\* A stage, finished or given up, or the quality adds an output that comes from the
\* runs before it.
LEMMA OutputLives ==
    ASSUME TypeInv, LockInv, OutcomeInv, OutputsInv, NEW w \in Workers,
           RunStage(w) \/ WriteQuality(w) \/ WorkerPanic(w)
    PROVE  Life!Next \/ UNCHANGED taskVars
<1>1. UNCHANGED <<taskJob, taskStatus, taskLock, taskStage>>
  BY DEF RunStage, WriteQuality, WorkerPanic
<1>2. ASSUME wpc[w] \in ContainerPC \cup {"setQuality"}
      PROVE  cur[w] \in Tasks /\ Life!AtWork(cur[w])
  BY <1>2, CallTables, WorkerIsAtWork
<1>3. WorkerIsBacked(w)
  BY DEF OutputsInv
<1>4. ASSUME NEW o \in Output, wpc[w] \in ContainerPC \cup {"setQuality"},
             Life!Ready(o, outputs[cur[w]]), outputs' = [outputs EXCEPT ![cur[w]] = @ \cup {o}]
      PROVE  Life!Next
  <2>1. Life!Produce(cur[w], o)
    BY <1>1, <1>2, <1>4 DEF Life!Produce
  <2>2. cur[w] \in Tasks /\ o \in Life!Output
    BY <1>2, <1>4, LifeRuns
  <2>3. Life!TaskStep(cur[w])
    BY <2>1, <2>2 DEF Life!TaskStep
  <2>4. QED
    BY <2>2, <2>3 DEF Life!Next
<1>5. CASE WriteQuality(w)
  <2>1. wpc[w] = "setQuality" /\ outputs' = [outputs EXCEPT ![cur[w]] = @ \cup {"quality"}]
    BY <1>5 DEF WriteQuality, At
  <2>2. "evaluations" \in outputs[cur[w]]
    BY <1>2, <1>3, <2>1 DEF WorkerIsBacked, PromisingPC, Promised
  <2>3. Life!Ready("quality", outputs[cur[w]])
    BY <2>2 DEF Life!Ready
  <2>4. "quality" \in Output
    BY DEF Output
  <2>5. QED
    BY <1>4, <2>1, <2>3, <2>4
<1>6. ASSUME wpc[w] \in ContainerPC, NEW o \in RunsOf(wpc[w]),
             outputs' = [outputs EXCEPT ![cur[w]] = @ \cup {o}]
      PROVE  Life!Next
  <2>1. Backed(StageAt(wpc[w]), outputs[cur[w]])
    BY <1>2, <1>3, <1>6 DEF WorkerIsBacked
  <2>2. o \in Output
    BY <1>6, WorkerTables DEF RunsOf
  <2>3. CASE wpc[w] = "train"
    <3>1. o \in {"parameters", "trainFailure"}
      BY <1>6, <2>3 DEF RunsOf, OutputOf, FailureOf
    <3>2. QED
      BY <1>4, <1>6, <2>2, <3>1 DEF Life!Ready
  <2>4. CASE wpc[w] = "predict"
    <3>1. Life!Trained(outputs[cur[w]])
      BY <2>1, <2>4, BackedStages, LifeRuns DEF StageAt
    <3>2. o \in {"predictions", "predictFailure"}
      BY <1>6, <2>4 DEF RunsOf, OutputOf, FailureOf
    <3>3. QED
      BY <1>4, <1>6, <2>2, <3>1, <3>2 DEF Life!Ready
  <2>5. CASE wpc[w] = "evaluate"
    <3>1. Life!Predicted(outputs[cur[w]])
      BY <2>1, <2>5, BackedStages, LifeRuns DEF StageAt
    <3>2. o = "evaluations"
      BY <1>6, <2>5 DEF RunsOf, OutputOf, FailureOf
    <3>3. QED
      BY <1>4, <1>6, <2>2, <3>1, <3>2 DEF Life!Ready
  <2>6. QED
    BY <1>6, <2>3, <2>4, <2>5 DEF ContainerPC
<1>7. CASE RunStage(w) \/ WorkerPanic(w)
  BY <1>1, <1>6, <1>7, TaskDocuments, RunsLeaveOneOutput DEF taskVars
<1>8. QED
  BY <1>5, <1>7

LEMMA WorkerLives ==
    ASSUME TypeInv, LockInv, OutcomeInv, OutputsInv, NEW w \in Workers, WorkerMoves(w)
    PROVE  Life!Next \/ UNCHANGED taskVars
<1>h. wpc[w] \in HandlingPC => cur[w] \in Tasks
  BY DEF TypeInv, HasTask
<1> USE DEF storeVars
<1>1. ASSUME NEW t \in Tasks, WorkerLock(w, t) PROVE Life!Next
  BY <1>1, LockIsTake DEF WorkerLock, Procs
<1>2. CASE MarkWorking(w) \/ MarkIdle(w) \/ ReadTask(w) \/ LoadModel(w) \/ GetTaskStatus(w)
  BY <1>2 DEF MarkWorking, MarkIdle, ReadTask, LoadModel, GetTaskStatus
<1>3. CASE CheckJob(w) \/ ReadJob(w) \/ WriteJobCompleted(w) \/ WorkerCallFails(w)
  BY <1>3 DEF CheckJob, ReadJob, WriteJobCompleted, WorkerCallFails
<1>4. CASE WorkerCrash(w) \/ WorkerLockFails(w)
  BY <1>4 DEF WorkerCrash, WorkerLockFails
<1>5. CASE TerminateRest(w)
  <2>1. cur[w] \in Tasks
    BY <1>5, <1>h, CallTables DEF TerminateRest, At, EndingPC
  <2>2. taskJob[cur[w]] \in Jobs
    BY <2>1, TaskDocuments DEF OutcomeInv, WorkerIsRight
  <2>3. QED
    BY <1>5, <2>2, RedirectMany DEF TerminateRest
<1>6. CASE WorkerUnlock(w)
  <2>1. cur[w] \in Tasks
    BY <1>6, <1>h, CallTables DEF WorkerUnlock, At, EndingPC
  <2>2. QED
    BY <1>6, <2>1, UnlockIsRelease DEF WorkerUnlock
<1>7. QED
  BY <1>1, <1>2, <1>3, <1>4, <1>5, <1>6, StatusWriteLives, StageWriteLives, OutputLives
     DEF WorkerMoves, WorkerStep

LEMMA MaintainerLives ==
    ASSUME TypeInv, LockInv, OutcomeInv, NEW c \in Controllers, MaintainerMoves(c)
    PROVE  Life!Next \/ UNCHANGED taskVars
<1> USE DEF storeVars
<1>1. ASSUME NEW j \in Jobs, JobBulk(c, j) PROVE Life!Next
  BY <1>1, RedirectMany DEF JobBulk
<1>2. ASSUME NEW j \in Jobs, JobRead(c, j) \/ JobWrite(c, j) \/ JobUnlock(c, j) \/ JobCallFails(c, j)
      PROVE  UNCHANGED taskVars
  BY <1>2 DEF JobRead, JobWrite, JobUnlock, JobCallFails
<1>3. ASSUME NEW j \in Jobs, NEW kind, MaintainJob(c, j, kind) PROVE UNCHANGED taskVars
  BY <1>3 DEF MaintainJob
<1>4. ASSUME NEW t \in Tasks, NEW kind \in {"pausing", "terminating"}, MaintainTask(c, t, kind)
      PROVE  Life!Next
  BY <1>4, LockIsTake DEF MaintainTask, Procs
<1>5. ASSUME NEW t \in Tasks, TaskRead(c, t) \/ TaskCallFails(c, t) PROVE UNCHANGED taskVars
  BY <1>5 DEF TaskRead, TaskCallFails
<1>6. ASSUME NEW t \in Tasks, TaskUnlock(c, t) PROVE Life!Next
  BY <1>6, UnlockIsRelease DEF TaskUnlock
<1>7. ASSUME NEW t \in Tasks, TaskWrite(c, t) PROVE Life!Next
  <2>1. /\ tm[c][t].step = "write"
        /\ taskStatus' = [taskStatus EXCEPT ![t] = TargetOf(tm[c][t].kind)]
        /\ UNCHANGED <<taskJob, taskLock, taskStage, outputs>>
    BY <1>7 DEF TaskWrite, TaskAt, SetTaskStatus
  <2>2. Life!AtWork(t)
    BY <2>1, GoroutineIsAtWork
  <2>3. tm[c][t] # NoGoroutine /\ tm[c][t].kind \in {"pausing", "terminating"}
    BY <2>1 DEF NoGoroutine, TaskGoroutine, TypeInv, TypeOK, MaintainerTypeOK
  <2>4. CASE tm[c][t].kind = "pausing"
    BY <2>1, <2>2, <2>4, RedirectOne DEF TargetOf
  <2>5. CASE tm[c][t].kind = "terminating"
    <3>1. taskStatus[t] = "terminating"
      BY <2>1, <2>3, <2>5 DEF OutcomeInv, GoroutineIsRight
    <3>2. Life!End(t, "terminated")
      BY <2>1, <2>2, <2>5, <3>1 DEF TargetOf, Life!End, Life!Ended
    <3>3. QED
      BY <3>2 DEF Life!Next, Life!TaskStep, Life!Ended
  <2>6. QED
    BY <2>3, <2>4, <2>5
<1>8. QED
  BY <1>1, <1>2, <1>3, <1>4, <1>5, <1>6, <1>7
     DEF MaintainerMoves, MaintainerStep, JobMaintainerStep, TaskMaintainerStep

LEMMA OthersLive ==
    ASSUME TypeInv, OutcomeInv,
           \/ \E c \in Controllers : ReaperMoves(c) \/ ControllerStops(c)
           \/ SchedulerMoves \/ ClientMoves \/ NobodyMoves
    PROVE  Life!Next \/ UNCHANGED taskVars
<1> USE DEF storeVars
<1>1. ASSUME NEW c \in Controllers, ReleaseTasks(c) PROVE Life!Next
  <2> DEFINE ts == {t \in Tasks : taskLock[t] = reaping[c].proc /\ taskStatus[t] # "error"}
  <2>1. Life!Release(ts)
    BY <1>1 DEF ReleaseTasks, ReleaseTaskLockByProcess, Life!Release
  <2>2. QED
    BY <2>1 DEF Life!Next, Life!TasksStep
<1>2. ASSUME NEW c \in Controllers, ReaperMoves(c) \/ ControllerStops(c)
      PROVE  Life!Next \/ UNCHANGED taskVars
  BY <1>1, <1>2 DEF ReaperMoves, ReaperStep, DeclareDead, ReleaseJobs, ReleaseFails, ControllerStops
<1>3. ASSUME NEW j \in Jobs, NEW t \in Tasks, CreateTask(j, t) PROVE Life!Next
  <2>1. taskJob[t] = NoJob /\ taskJob' = [taskJob EXCEPT ![t] = j] /\ UNCHANGED <<taskLock, outputs>>
    BY <1>3 DEF CreateTask, NewTask
  <2>2. taskStatus[t] = "scheduled" /\ taskStage[t] = "begin"
    BY <2>1 DEF OutcomeInv, FreshIsRight
  <2>3. UNCHANGED <<taskStatus, taskStage>>
    BY <1>3, <2>2, TaskDocuments DEF CreateTask
  <2>4. Life!Create(t, j)
    BY <2>1, <2>3 DEF Life!Create
  <2>5. QED
    BY <2>4 DEF Life!Next, Life!TaskStep
<1>4. CASE SchedulerMoves
  <2>1. CASE SchedulerCallFails \/ SchedulerCrash
    BY <2>1 DEF SchedulerCallFails, SchedulerCrash, SchedulerPanic, StopScheduler
  <2>2. CASE CountIdle \/ CountWorking \/ DecideToRun \/ DecideToWait \/ Suggest
             \/ EndOfSuggestions \/ BadSuggestion
    BY <2>2 DEF CountIdle, CountWorking, DecideToRun, DecideToWait, Suggest, EndOfSuggestions,
                BadSuggestion, SchedulerPanic, StopScheduler
  <2>3. QED
    BY <1>3, <1>4, <2>1, <2>2 DEF SchedulerMoves, SchedulerStep
<1>5. CASE ClientMoves
  BY <1>5 DEF ClientMoves, ClientStep, CreateJob, PatchRead, PatchWrite
<1>6. CASE NobodyMoves
  BY <1>6 DEF NobodyMoves
<1>7. QED
  BY <1>2, <1>4, <1>5, <1>6

\* JobTasks implements TaskLife: two workers, a worker and a maintainer, or a bulk
\* update between the read and the write of UpdateTask never make a task do what no
\* single careful process would do with it.
THEOREM SystemImplementsTaskLife == MaySuspect = {} => (Spec => TasksLiveOnce)
<1> SUFFICES ASSUME MaySuspect = {} PROVE Spec => TasksLiveOnce
  OBVIOUS
<1>1. Init => Life!Init
  BY DEF Init, StoreInit, Life!Init
<1>2. TypeInv /\ LockInv /\ OutcomeInv /\ OutputsInv /\ [Next]_vars => [Life!Next]_(Life!taskLife)
  <2> SUFFICES ASSUME TypeInv, LockInv, OutcomeInv, OutputsInv, [Next]_vars
               PROVE  Life!Next \/ UNCHANGED taskVars
    BY DEF taskVars, Life!taskLife
  <2>1. QED
    BY StepsByActor, WorkerLives, MaintainerLives, OthersLive
<1>3. Spec => [](TypeInv /\ LockInv /\ OutcomeInv)
  BY OutcomesHold
<1>4. QED
  BY <1>1, <1>2, <1>3, InitIsBacked, NextStaysBacked, PTL DEF Spec, TasksLiveOnce, Life!Spec

------------------------------------------------------------------------------
(***************************************************************************)
(* The bound on the backlog of scheduled tasks, also when live processes   *)
(* are taken for dead.                                                     *)
(***************************************************************************)

NumWorkers == Cardinality(Workers)

\* The three counts that OptimizerRunListener makes, one call after the other.
CountsAreBounded ==
    /\ spc = "countWorking" => counted <= NumWorkers
    /\ spc = "countTasks" => counted <= 2 * NumWorkers
    /\ spc \notin {"suggest", "create"} => quota = 0

\* Nobody resumes a job: none has the status, no goroutine was started for it.
NothingResumes ==
    /\ \A j \in Jobs : jobStatus[j] # "resuming"
    /\ \A c \in Controllers, j \in Jobs : jm[c][j].kind # "resuming"

SchedInv == CountsAreBounded /\ NothingResumes /\ PatchesAreRequests /\ ScheduleIsBounded

------------------------------------------------------------------------------
\* The number of workers with a given status is at most the number of workers.
LEMMA FewWorkers ==
    ASSUME NEW status
    PROVE  /\ NumWorkers \in Nat
           /\ Cardinality(WorkersIn(status)) \in Nat
           /\ Cardinality(WorkersIn(status)) <= NumWorkers
<1>1. WorkersIn(status) \in SUBSET Workers /\ IsFiniteSet(Workers)
  BY ProcsAssumption DEF WorkersIn
<1>2. QED
  BY <1>1, WorkerSetsFinite, FS_Subset, FS_CardinalityType DEF NumWorkers

\* The backlog is counted by a natural number.
LEMMA BacklogIsNatural ==
    /\ IsFiniteSet(ScheduledTasks) /\ Cardinality(ScheduledTasks) \in Nat
    /\ IsFiniteSet(ScheduledTasks') /\ Cardinality(ScheduledTasks') \in Nat
<1>1. ScheduledTasks \in SUBSET Tasks /\ ScheduledTasks' \in SUBSET Tasks
  BY DEF ScheduledTasks
<1>2. QED
  BY <1>1, TaskSetsFinite

\* A step after which no other task is scheduled makes the backlog no longer.
LEMMA BacklogShrinks ==
    ASSUME UNCHANGED taskJob,
           \A t \in Tasks : taskStatus'[t] = "scheduled" => taskStatus[t] = "scheduled"
    PROVE  Cardinality(ScheduledTasks') <= Cardinality(ScheduledTasks)
<1>1. ScheduledTasks' \subseteq ScheduledTasks
  BY DEF ScheduledTasks
<1>2. QED
  BY <1>1, BacklogIsNatural, FS_Subset

\* One new task makes it longer by one at most.
LEMMA BacklogGrowsByOne ==
    ASSUME TypeInv, NEW j \in Jobs, NEW t \in Tasks, CreateTask(j, t)
    PROVE  Cardinality(ScheduledTasks') <= Cardinality(ScheduledTasks) + 1
<1>1. ScheduledTasks' \subseteq ScheduledTasks \cup {t}
  BY DEF CreateTask, ScheduledTasks, TypeInv, TypeOK, StoreTypeOK
<1>2. /\ IsFiniteSet(ScheduledTasks \cup {t})
      /\ Cardinality(ScheduledTasks \cup {t}) \in {Cardinality(ScheduledTasks), Cardinality(ScheduledTasks) + 1}
  BY BacklogIsNatural, FS_AddElement
<1>3. Cardinality(ScheduledTasks') <= Cardinality(ScheduledTasks \cup {t})
  BY <1>1, <1>2, FS_Subset
<1>4. QED
  BY <1>2, <1>3, BacklogIsNatural

\* Only a resumed job and a new task make tasks scheduled.
LEMMA NothingIsRescheduled ==
    ASSUME TypeInv, NothingResumes,
           \/ \E w \in Workers : WorkerMoves(w)
           \/ \E c \in Controllers : MaintainerMoves(c) \/ ReaperMoves(c) \/ ControllerStops(c)
           \/ ClientMoves \/ NobodyMoves
    PROVE  /\ UNCHANGED <<schedVars, taskJob>>
           /\ \A t \in Tasks : taskStatus'[t] = "scheduled" => taskStatus[t] = "scheduled"
<1>t. taskStatus \in [Tasks -> TaskStatus]
      /\ tm \in [Controllers -> [Tasks -> TaskGoroutine \cup {NoGoroutine}]]
  BY DEF TypeInv, TypeOK, StoreTypeOK, MaintainerTypeOK
<1> USE DEF storeVars, jobVars, taskVars, procVars
<1>1. ASSUME NEW w \in Workers, WorkerMoves(w)
      PROVE  /\ UNCHANGED <<schedVars, taskJob>>
             /\ \A t \in Tasks : taskStatus'[t] = "scheduled" => taskStatus[t] = "scheduled"
  <2>1. UNCHANGED <<schedVars, taskJob>>
    BY <1>1, WorkerWrites DEF WorkerMoves
  <2>2. ASSUME WriteStatus(w)
        PROVE  \A t \in Tasks : taskStatus'[t] = "scheduled" => taskStatus[t] = "scheduled"
    <3>1. StatusOf(wpc[w]) # "scheduled"
      BY <2>2 DEF WriteStatus, At, StatusPC, StatusOf
    <3>2. QED
      BY <1>t, <2>2, <3>1 DEF WriteStatus, SetTaskStatus
  <2>3. ASSUME FailTask(w) \/ TerminateRest(w)
        PROVE  \A t \in Tasks : taskStatus'[t] = "scheduled" => taskStatus[t] = "scheduled"
    BY <1>t, <2>3 DEF FailTask, SetTaskStatus, TerminateRest, TerminateRunningTasks, BulkUpdate
  <2>4. QED
    BY <1>1, <2>1, <2>2, <2>3, WorkerWrites
<1>2. ASSUME NEW c \in Controllers, MaintainerMoves(c)
      PROVE  /\ UNCHANGED <<schedVars, taskJob>>
             /\ \A t \in Tasks : taskStatus'[t] = "scheduled" => taskStatus[t] = "scheduled"
  <2>1. UNCHANGED <<schedVars, taskJob>>
    BY <1>2, MaintainerKeepsJobs DEF MaintainerMoves
  <2>2. ASSUME NEW j \in Jobs, JobBulk(c, j)
        PROVE  \A t \in Tasks : taskStatus'[t] = "scheduled" => taskStatus[t] = "scheduled"
    <3>1. PauseRunningTasks(j) \/ TerminateRunningTasks(j)
      BY <2>2 DEF JobBulk, NothingResumes
    <3>2. QED
      BY <1>t, <3>1 DEF PauseRunningTasks, TerminateRunningTasks, BulkUpdate
  <2>3. ASSUME NEW u \in Tasks, TaskWrite(c, u)
        PROVE  \A t \in Tasks : taskStatus'[t] = "scheduled" => taskStatus[t] = "scheduled"
    <3>1. tm[c][u].step = "write" /\ taskStatus' = [taskStatus EXCEPT ![u] = TargetOf(tm[c][u].kind)]
      BY <2>3 DEF TaskWrite, TaskAt, SetTaskStatus
    <3>2. tm[c][u].kind \in {"pausing", "terminating"}
      BY <1>t, <3>1 DEF TaskGoroutine, NoGoroutine
    <3>3. TargetOf(tm[c][u].kind) # "scheduled"
      BY <3>2 DEF TargetOf
    <3>4. QED
      BY <1>t, <3>1, <3>3
  <2>4. \/ UNCHANGED taskStatus \/ \E j \in Jobs : JobBulk(c, j)
        \/ \E u \in Tasks : TaskWrite(c, u)
    BY <1>2 DEF MaintainerMoves, MaintainerStep, JobMaintainerStep, TaskMaintainerStep, MaintainJob,
           MaintainTask, JobRead, JobWrite, JobUnlock, TaskRead, TaskUnlock, JobCallFails,
           TaskCallFails
  <2>5. QED
    BY <2>1, <2>2, <2>3, <2>4
<1>3. ASSUME NEW c \in Controllers, ReaperMoves(c) \/ ControllerStops(c)
      PROVE  UNCHANGED <<schedVars, taskJob, taskStatus>>
  BY <1>3 DEF ReaperMoves, ReaperStep, DeclareDead, ReleaseJobs, ReleaseTasks, ReleaseFails,
              ControllerStops
<1>4. CASE ClientMoves \/ NobodyMoves
  BY <1>4 DEF ClientMoves, ClientStep, CreateJob, PatchRead, PatchWrite, NobodyMoves
<1>5. QED
  BY <1>1, <1>2, <1>3, <1>4

\* No step brings a job to resuming when nobody asks for it.
LEMMA NextResumesNothing ==
    ASSUME "resuming" \notin Requests, TypeInv, PatchesAreRequests, NothingResumes, [Next]_vars
    PROVE  NothingResumes'
<1>t. jm \in [Controllers -> [Jobs -> JobGoroutine \cup {NoGoroutine}]]
  BY DEF TypeInv, TypeOK, MaintainerTypeOK
<1>1. \A j \in Jobs : jobStatus'[j] # "resuming"
  BY JobStatusWrites DEF NothingResumes
<1>2. ASSUME NEW d \in Controllers, NEW j \in Jobs
      PROVE  jm'[d][j].kind # "resuming"
  <2>n. NoGoroutine.kind # "resuming" /\ jm[d][j].kind # "resuming"
    BY DEF NoGoroutine, NothingResumes
  <2> USE DEF maintVars
  <2>1. ASSUME NEW c \in Controllers, NEW i \in Jobs, NEW kind, MaintainJob(c, i, kind)
        PROVE  jm'[d][j].kind # "resuming"
    <3>1. kind # "resuming"
      BY <2>1 DEF MaintainJob, LockJob, JobLockable, NothingResumes
    <3>2. QED
      BY <1>t, <2>1, <2>n, <3>1 DEF MaintainJob
  <2>2. ASSUME NEW c \in Controllers, NEW i \in Jobs, NEW step, JobGoto(c, i, step)
        PROVE  jm'[d][j].kind # "resuming"
    <3>1. CASE d = c /\ i = j
      <4>1. jm'[d][j] = [jm[d][j] EXCEPT !.step = step]
        BY <1>t, <2>2, <3>1 DEF JobGoto
      <4>2. QED
        BY <1>t, <2>n, <4>1 DEF JobGoroutine, NoGoroutine
    <3>2. CASE d # c \/ i # j
      BY <1>t, <2>2, <2>n, <3>2 DEF JobGoto
    <3>3. QED
      BY <3>1, <3>2
  <2>3. ASSUME NEW c \in Controllers, MaintainerMoves(c)
        PROVE  jm'[d][j].kind # "resuming"
    <3>1. ASSUME NEW i \in Jobs, JobBulk(c, i) \/ JobRead(c, i) \/ JobWrite(c, i) \/ JobCallFails(c, i)
          PROVE  \E step : JobGoto(c, i, step)
      BY <3>1 DEF JobBulk, JobRead, JobWrite, JobCallFails
    <3>2. ASSUME NEW i \in Jobs, JobUnlock(c, i) PROVE jm'[d][j].kind # "resuming"
      BY <1>t, <2>n, <3>2 DEF JobUnlock
    <3>3. ASSUME NEW t \in Tasks,
                 \/ TaskRead(c, t) \/ TaskWrite(c, t) \/ TaskUnlock(c, t) \/ TaskCallFails(c, t)
                 \/ \E kind : MaintainTask(c, t, kind)
          PROVE  UNCHANGED jm
      BY <3>3 DEF TaskRead, TaskWrite, TaskUnlock, TaskCallFails, MaintainTask
    <3>4. QED
      BY <2>1, <2>2, <2>3, <2>n, <3>1, <3>2, <3>3
         DEF MaintainerMoves, MaintainerStep, JobMaintainerStep, TaskMaintainerStep
  <2>4. ASSUME NEW c \in Controllers, ControllerStops(c)
        PROVE  jm'[d][j].kind # "resuming"
    BY <1>t, <2>4, <2>n DEF ControllerStops, StopMaintainers
  <2>5. UNCHANGED jm \/ \E c \in Controllers : MaintainerMoves(c) \/ ControllerStops(c)
    BY StepsByActor DEF WorkerMoves, ReaperMoves, SchedulerMoves, ClientMoves, NobodyMoves
  <2>6. QED
    BY <2>3, <2>4, <2>5, <2>n
<1>3. QED
  BY <1>1, <1>2 DEF NothingResumes

\* What each step of the scheduler does to its counts and to the backlog.
LEMMA SchedulerKeepsBound ==
    ASSUME TypeInv, CountsAreBounded, ScheduleIsBounded, SchedulerMoves
    PROVE  CountsAreBounded' /\ ScheduleIsBounded'
<1>t. counted \in Nat /\ quota \in Nat /\ NumWorkers \in Nat
  BY FewWorkers DEF TypeInv, TypeOK, SchedulerTypeOK
<1> USE DEF storeVars, jobVars, taskVars, procVars, SchedulerAt
<1>u. UNCHANGED <<taskJob, taskStatus>> => ScheduledTasks' = ScheduledTasks
  BY DEF ScheduledTasks
<1>1. CASE CountIdle
  <2>1. UNCHANGED <<taskJob, taskStatus, quota>> /\ spc = "idle" /\ spc' = "countWorking"
        /\ counted' = Cardinality(WorkersIn("idle"))
    BY <1>1 DEF CountIdle
  <2>2. CountsAreBounded'
    BY <1>t, <2>1, FewWorkers DEF CountsAreBounded
  <2>3. QED
    BY <1>u, <2>1, <2>2 DEF ScheduleIsBounded
<1>2. CASE CountWorking
  <2>1. UNCHANGED <<taskJob, taskStatus, quota>> /\ spc = "countWorking" /\ spc' = "countTasks"
        /\ counted' = counted + Cardinality(WorkersIn("working"))
    BY <1>2 DEF CountWorking
  <2>2. counted' <= 2 * NumWorkers
    BY <1>t, <2>1, FewWorkers DEF CountsAreBounded
  <2>3. CountsAreBounded'
    BY <1>t, <2>1, <2>2 DEF CountsAreBounded
  <2>4. QED
    BY <1>u, <2>1, <2>3 DEF ScheduleIsBounded
<1>3. CASE DecideToRun
  <2>1. UNCHANGED <<taskJob, taskStatus>> /\ spc = "countTasks" /\ spc' = "suggest"
        /\ quota' = 2 * counted - Cardinality(ScheduledTasks)
    BY <1>3 DEF DecideToRun, NumNewTasks
  <2>2. counted <= 2 * NumWorkers
    BY <2>1 DEF CountsAreBounded
  <2>3. Cardinality(ScheduledTasks') + quota' <= 4 * NumWorkers
    BY <1>t, <1>u, <2>1, <2>2, BacklogIsNatural
  <2>4. CountsAreBounded'
    BY <2>1 DEF CountsAreBounded
  <2>5. QED
    BY <2>3, <2>4 DEF ScheduleIsBounded, NumWorkers
<1>4. CASE DecideToWait
  <2>1. UNCHANGED <<taskJob, taskStatus, quota>> /\ spc = "countTasks" /\ spc' = "idle"
    BY <1>4 DEF DecideToWait
  <2>2. QED
    BY <1>u, <2>1 DEF CountsAreBounded, ScheduleIsBounded
\* From here on the quota only shrinks.
<1>5. ASSUME UNCHANGED <<taskJob, taskStatus>>, quota' \in 0 .. quota,
             spc' \in {"suggest", "create"} \/ quota' = 0,
             spc' \notin {"countWorking", "countTasks"}
      PROVE  CountsAreBounded' /\ ScheduleIsBounded'
  <2>1. Cardinality(ScheduledTasks') + quota' <= 4 * NumWorkers
    BY <1>5, <1>t, <1>u, BacklogIsNatural DEF ScheduleIsBounded, NumWorkers
  <2>2. CountsAreBounded'
    BY <1>5 DEF CountsAreBounded
  <2>3. QED
    BY <2>1, <2>2 DEF ScheduleIsBounded, NumWorkers
<1>6. CASE Suggest
  BY <1>5, <1>6, <1>t DEF Suggest
<1>7. CASE EndOfSuggestions
  BY <1>5, <1>7, <1>t DEF EndOfSuggestions
<1>8. CASE SchedulerPanic \/ SchedulerCrash
  BY <1>5, <1>8, <1>t DEF SchedulerPanic, SchedulerCrash, StopScheduler
<1>9. ASSUME NEW j \in Jobs, NEW t \in Tasks, CreateTask(j, t)
      PROVE  CountsAreBounded' /\ ScheduleIsBounded'
  <2>1. quota' = quota - 1 /\ UNCHANGED spc /\ spc = "create"
    BY <1>9 DEF CreateTask
  <2>2. Cardinality(ScheduledTasks') <= Cardinality(ScheduledTasks) + 1
    BY <1>9, BacklogGrowsByOne
  <2>3. Cardinality(ScheduledTasks') + quota' <= 4 * NumWorkers
    BY <1>t, <2>1, <2>2, BacklogIsNatural DEF ScheduleIsBounded, NumWorkers
  <2>4. CountsAreBounded'
    BY <2>1 DEF CountsAreBounded
  <2>5. QED
    BY <2>3, <2>4 DEF ScheduleIsBounded, NumWorkers
<1>10. QED
  BY <1>1, <1>2, <1>3, <1>4, <1>6, <1>7, <1>8, <1>9
     DEF SchedulerMoves, SchedulerStep, BadSuggestion, SchedulerCallFails

LEMMA NextKeepsSchedule ==
    ASSUME "resuming" \notin Requests, TypeInv, SchedInv, [Next]_vars
    PROVE  SchedInv'
<1>1. NothingResumes' /\ PatchesAreRequests'
  BY NextResumesNothing, NextKeepsPatches DEF SchedInv
<1>2. CASE SchedulerMoves
  BY <1>1, <1>2, SchedulerKeepsBound DEF SchedInv
<1>3. CASE ~SchedulerMoves
  <2>1. /\ UNCHANGED <<schedVars, taskJob>>
        /\ \A t \in Tasks : taskStatus'[t] = "scheduled" => taskStatus[t] = "scheduled"
    BY <1>3, StepsByActor, NothingIsRescheduled DEF SchedInv
  <2>2. CountsAreBounded'
    BY <2>1 DEF SchedInv, CountsAreBounded, schedVars
  <2>3. Cardinality(ScheduledTasks') <= Cardinality(ScheduledTasks)
    BY <2>1, BacklogShrinks
  <2>4. quota \in Nat /\ UNCHANGED quota /\ NumWorkers \in Nat
    BY <2>1, FewWorkers DEF TypeInv, TypeOK, SchedulerTypeOK, schedVars
  <2>5. Cardinality(ScheduledTasks') + quota' <= 4 * NumWorkers
    BY <2>3, <2>4, BacklogIsNatural DEF SchedInv, ScheduleIsBounded, NumWorkers
  <2>6. ScheduleIsBounded'
    BY <2>5 DEF ScheduleIsBounded, NumWorkers
  <2>7. QED
    BY <1>1, <2>2, <2>6 DEF SchedInv
<1>4. QED
  BY <1>2, <1>3

LEMMA InitSchedule == Init => SchedInv
<1> SUFFICES ASSUME Init PROVE SchedInv
  OBVIOUS
<1>1. CountsAreBounded /\ NothingResumes /\ PatchesAreRequests
  BY DEF Init, SchedulerInit, StoreInit, MaintainerInit, ClientInit, CountsAreBounded,
         NothingResumes, PatchesAreRequests, NoGoroutine
<1>2. ScheduledTasks = {}
  BY DEF Init, StoreInit, ScheduledTasks
<1>3. ScheduleIsBounded
  BY <1>2, FS_EmptySet, FewWorkers DEF Init, SchedulerInit, ScheduleIsBounded, NumWorkers
<1>4. QED
  BY <1>1, <1>3 DEF SchedInv

\* However the workers change between OptimizerRunListener's counts, and however often
\* it counts one of them twice, the tasks waiting for a worker and the ones it is about
\* to create are at most four per worker, as long as no user resumes a job.
THEOREM BacklogIsBounded == "resuming" \notin Requests => (Spec => []ScheduleIsBounded)
<1> SUFFICES ASSUME "resuming" \notin Requests PROVE Spec => []ScheduleIsBounded
  OBVIOUS
<1>1. TypeInv /\ SchedInv /\ [Next]_vars => SchedInv'
  BY NextKeepsSchedule
<1>2. SchedInv => ScheduleIsBounded
  BY DEF SchedInv
<1>3. QED
  BY <1>1, <1>2, InitSchedule, TypesHold, PTL DEF Spec
==============================================================================
