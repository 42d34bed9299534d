--------------------------- MODULE OptimizerRunner ---------------------------
(***************************************************************************)
(* The scheduler process: OptimizerRunListener watches the backlog of      *)
(* scheduled tasks and OptimizerRunWorker has the optimizer suggest new    *)
(* ones for the running jobs.  The listener decides on three counts, each  *)
(* a database call of its own.                                             *)
(***************************************************************************)
EXTENDS JobTaskStore

VARIABLES
    spc,      \* the step the scheduler makes next
    counted,  \* workers counted so far: idleCount + workingCount
    quota,    \* tasks it may still ask for or create
    spaces    \* the running jobs it has read

schedVars == <<spc, counted, quota, spaces>>

SchedulerTypeOK ==
    /\ spc \in {"idle", "countWorking", "countTasks", "suggest", "create", "done"}
    /\ counted \in Nat
    /\ quota \in Nat
    /\ spaces \subseteq Jobs

SchedulerInit == spc = "idle" /\ counted = 0 /\ quota = 0 /\ spaces = {}

------------------------------------------------------------------------------
WorkersIn(status) == {w \in Workers : procStatus[w] = status}

RunningJobs == {j \in Jobs : jobStatus[j] = "running"}

SchedulerAt(step) == alive[Scheduler] /\ spc = step

\* The bound on the tasks ever created: the scheduler rests once it is used up,
\* and the optimizer's answer is cut short there.
TasksLeft == \E t \in Tasks : taskJob[t] = NoJob

\* CountJobs, then CountProcesses of the idle workers.
CountIdle ==
    /\ SchedulerAt("idle")
    /\ TasksLeft
    /\ RunningJobs # {}
    /\ counted' = Cardinality(WorkersIn("idle"))
    /\ spc' = "countWorking"
    /\ UNCHANGED <<storeVars, quota, spaces>>

\* A worker that has started to work since is counted a second time.
CountWorking ==
    /\ SchedulerAt("countWorking")
    /\ counted' = counted + Cardinality(WorkersIn("working"))
    /\ spc' = "countTasks"
    /\ UNCHANGED <<storeVars, quota, spaces>>

\* Ask for tasks when fewer are scheduled than workers were counted.
NeedTasks == Cardinality(ScheduledTasks) < counted

\* Mutant of NumNewTasks: the tasks that are already scheduled are not counted.
NumNewTasksNoBacklog == 2 * counted

NumNewTasks == 2 * counted - Cardinality(ScheduledTasks)

\* CountTasks, and the decision.
DecideToRun ==
    /\ SchedulerAt("countTasks")
    /\ NeedTasks
    /\ quota' = NumNewTasks
    /\ counted' = 0
    /\ spc' = "suggest"
    /\ procStatus' = [procStatus EXCEPT ![Scheduler] = "working"]
    /\ UNCHANGED <<jobVars, taskVars, alive, spaces>>

DecideToWait ==
    /\ SchedulerAt("countTasks")
    /\ ~NeedTasks
    /\ counted' = 0
    /\ spc' = "idle"
    /\ UNCHANGED <<storeVars, quota, spaces>>

\* Read the running jobs and run the optimizer's container on their spaces.  It
\* suggests what it was asked for or less; the code does not look.
Suggest ==
    /\ SchedulerAt("suggest")
    /\ spaces' = RunningJobs
    /\ \/ RunningJobs # {} /\ spc' = "create" /\ quota' \in 1 .. quota
       \/ (RunningJobs = {} \/ ModulesFail) /\ spc' = "done" /\ quota' = 0
    /\ UNCHANGED <<storeVars, counted>>

\* Mutant of NewTask: the next id is the number of tasks, not one more.
NewTaskReusesId(t) == \A u \in Tasks : u < t => taskJob[u] # NoJob

\* The next task document; ids count the tasks of a job, so they follow the
\* order of creation.
NewTask(t) == taskJob[t] = NoJob /\ \A u \in Tasks : u < t => taskJob[u] # NoJob

\* The status check of CreateTask has no effect: its error is overwritten.
CreateTask(j, t) ==
    /\ SchedulerAt("create") /\ quota > 0
    /\ j \in spaces
    /\ NewTask(t)
    /\ taskJob' = [taskJob EXCEPT ![t] = j]
    /\ taskStatus' = [taskStatus EXCEPT ![t] = "scheduled"]
    /\ taskStage' = [taskStage EXCEPT ![t] = "begin"]
    /\ quota' = quota - 1
    /\ UNCHANGED <<jobVars, taskLock, outputs, procVars, spc, counted, spaces>>

\* The optimizer's output ends.
EndOfSuggestions ==
    /\ SchedulerAt("done") \/ SchedulerAt("create")
    /\ spc = "create" => quota = 0 \/ ~TasksLeft
    /\ spc' = "idle" /\ quota' = 0 /\ spaces' = {}
    /\ procStatus' = [procStatus EXCEPT ![Scheduler] = "idle"]
    /\ UNCHANGED <<jobVars, taskVars, alive, counted>>

\* Every other error of the listener and the worker is a panic, and the
\* deferred SetProcessStatus of Start runs.
StopScheduler ==
    /\ alive[Scheduler]
    /\ alive' = [alive EXCEPT ![Scheduler] = FALSE]
    /\ spc' = "idle" /\ counted' = 0 /\ quota' = 0 /\ spaces' = {}
    /\ UNCHANGED <<jobVars, taskVars>>

SchedulerPanic ==
    /\ StopScheduler
    /\ procStatus' = [procStatus EXCEPT ![Scheduler] = "terminated"]

\* An answer of the optimizer that cannot be read.
BadSuggestion == spc = "create" /\ ModulesFail /\ SchedulerPanic

SchedulerCallFails == spc # "done" /\ SchedulerPanic

SchedulerCrash == StopScheduler /\ UNCHANGED procStatus

SchedulerStep ==
    \/ CountIdle \/ CountWorking \/ DecideToRun \/ DecideToWait
    \/ Suggest \/ EndOfSuggestions \/ BadSuggestion
    \/ \E j \in Jobs, t \in Tasks : CreateTask(j, t)
==============================================================================
