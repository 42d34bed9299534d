------------------------------- MODULE Reaper --------------------------------
(***************************************************************************)
(* The controller's TerminateDeadProcessesWorker: a process whose          *)
(* keepalive is too old is marked terminated in one database call, and the *)
(* locks it holds are released in the calls that follow, one collection    *)
(* after the other.                                                        *)
(***************************************************************************)
EXTENDS JobTaskStore

CONSTANT MaySuspect   \* live processes whose keepalive may come too late

ASSUME SuspectAssumption == MaySuspect \subseteq Workers

VARIABLE reaping   \* the process whose locks a controller releases, and from where

NotReaping == [proc |-> NoProc, step |-> "jobs"]

ReaperTypeOK ==
    reaping \in [Controllers -> [proc : Procs \cup {NoProc}, step : {"jobs", "tasks"}]]

ReaperInit == reaping = [c \in Controllers |-> NotReaping]

------------------------------------------------------------------------------
\* Find-and-modify of one process whose keepalive is too old.
DeclareDead(c, p) ==
    /\ alive[c]
    /\ reaping[c] = NotReaping
    /\ procStatus[p] # "terminated"
    /\ ~alive[p] \/ p \in MaySuspect
    /\ procStatus' = [procStatus EXCEPT ![p] = "terminated"]
    /\ reaping' = [reaping EXCEPT ![c].proc = p]
    /\ UNCHANGED <<jobVars, taskVars, alive>>

Reaping(c, step) == alive[c] /\ reaping[c].proc # NoProc /\ reaping[c].step = step

ReleaseJobs(c) ==
    /\ Reaping(c, "jobs")
    /\ ReleaseJobLockByProcess(reaping[c].proc)
    /\ reaping' = [reaping EXCEPT ![c].step = "tasks"]
    /\ UNCHANGED <<jobStatus, taskVars, procVars>>

ReleaseTasks(c) ==
    /\ Reaping(c, "tasks")
    /\ ReleaseTaskLockByProcess(reaping[c].proc)
    /\ reaping' = [reaping EXCEPT ![c] = NotReaping]
    /\ UNCHANGED <<jobVars, taskJob, taskStatus, taskStage, outputs, procVars>>

ReaperStep(c) == (\E p \in Procs : DeclareDead(c, p)) \/ ReleaseJobs(c) \/ ReleaseTasks(c)

\* The result of a Release...ByProcess call is not looked at: a failed one
\* leaves the locks of that collection in place.
ReleaseFails(c) ==
    /\ \/ Reaping(c, "jobs") /\ reaping' = [reaping EXCEPT ![c].step = "tasks"]
       \/ Reaping(c, "tasks") /\ reaping' = [reaping EXCEPT ![c] = NotReaping]
    /\ UNCHANGED storeVars
==============================================================================
