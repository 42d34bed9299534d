------------------------------ MODULE TaskLife -------------------------------
(***************************************************************************)
(* What becomes of tasks, as their users see it: a task is created, held   *)
(* by one process at a time, goes through its stages in order while        *)
(* outputs accumulate, may be sent elsewhere while it has not ended, and   *)
(* ends once.  Nothing is said about who does this, about jobs and their   *)
(* maintainers, or about the reads and writes it takes.                    *)
(***************************************************************************)
CONSTANTS
    Tasks, Jobs, Procs,
    NoJob,        \* the job of a task that does not exist yet
    NoProc,       \* the holder of a task that nobody holds
    ModulesFail   \* may a training or a prediction fail?

VARIABLES job, holder, status, stage, outputs   \* of each task

taskLife == <<job, holder, status, stage, outputs>>

Ended == {"completed", "terminated", "error"}

\* The stage after a stage.
Following(s) ==
    CASE s = "begin"      -> "training"
      [] s = "training"   -> "predicting"
      [] s = "predicting" -> "evaluating"
      [] s = "evaluating" -> "end"

Output ==
    {"parameters", "predictions", "evaluations", "quality", "trainFailure", "predictFailure"}

\* What has been run.  Of a training or a prediction that failed there is only
\* the log, and life goes on.
Trained(left)   == "parameters" \in left \/ (ModulesFail /\ "trainFailure" \in left)
Predicted(left) == "predictions" \in left \/ (ModulesFail /\ "predictFailure" \in left)
Evaluated(left) == {"evaluations", "quality"} \subseteq left

\* What must have been run before a task enters a stage.
Passed(s, left) ==
    /\ s \in {"predicting", "evaluating", "end"} => Trained(left)
    /\ s \in {"evaluating", "end"} => Predicted(left)
    /\ s = "end" => Evaluated(left)

\* What must have been run before an output is computed.
Ready(o, left) ==
    /\ o \in {"predictions", "predictFailure"} => Trained(left)
    /\ o = "evaluations" => Predicted(left)
    /\ o = "quality" => "evaluations" \in left

------------------------------------------------------------------------------
Init ==
    /\ job = [t \in Tasks |-> NoJob]
    /\ holder = [t \in Tasks |-> NoProc]
    /\ status = [t \in Tasks |-> "scheduled"]
    /\ stage = [t \in Tasks |-> "begin"]
    /\ outputs = [t \in Tasks |-> {}]

Open(t) == job[t] # NoJob /\ status[t] \notin Ended

\* Work on a task needs its lock.
AtWork(t) == Open(t) /\ holder[t] # NoProc

Create(t, j) ==
    /\ job[t] = NoJob
    /\ job' = [job EXCEPT ![t] = j]
    /\ UNCHANGED <<holder, status, stage, outputs>>

Take(t, p) ==
    /\ Open(t) /\ holder[t] = NoProc
    /\ holder' = [holder EXCEPT ![t] = p]
    /\ UNCHANGED <<job, status, stage, outputs>>

\* A process lets go of one task, or all tasks of a dead process are released.
Release(ts) ==
    /\ holder' = [t \in Tasks |-> IF t \in ts THEN NoProc ELSE holder[t]]
    /\ UNCHANGED <<job, status, stage, outputs>>

Produce(t, o) ==
    /\ AtWork(t)
    /\ Ready(o, outputs[t])
    /\ outputs' = [outputs EXCEPT ![t] = @ \cup {o}]
    /\ UNCHANGED <<job, holder, status, stage>>

Advance(t) ==
    /\ AtWork(t) /\ stage[t] # "end"
    /\ Passed(Following(stage[t]), outputs[t])
    /\ stage' = [stage EXCEPT ![t] = Following(@)]
    /\ UNCHANGED <<job, holder, status, outputs>>

\* Tasks start, or are paused, resumed or told to terminate, one or many at once.
Redirect(ts, s) ==
    /\ \A t \in ts : Open(t)
    /\ s \notin Ended
    /\ status' = [t \in Tasks |-> IF t \in ts THEN s ELSE status[t]]
    /\ UNCHANGED <<job, holder, stage, outputs>>

End(t, s) ==
    /\ AtWork(t)
    /\ s = "completed" => stage[t] = "end" /\ Passed("end", outputs[t])
    /\ s = "terminated" => status[t] = "terminating"
    /\ s \in Ended
    /\ status' = [status EXCEPT ![t] = s]
    /\ UNCHANGED <<job, holder, stage, outputs>>

TaskStep(t) ==
    \/ \E j \in Jobs : Create(t, j)
    \/ \E p \in Procs : Take(t, p)
    \/ \E o \in Output : Produce(t, o)
    \/ Advance(t)
    \/ \E s \in Ended : End(t, s)

TasksStep ==
    \E ts \in SUBSET Tasks :
        \/ Release(ts)
        \/ \E s \in {"scheduled", "running", "pausing", "paused", "terminating"} : Redirect(ts, s)

Next == TasksStep \/ \E t \in Tasks : TaskStep(t)

Spec == Init /\ [][Next]_taskLife
==============================================================================
