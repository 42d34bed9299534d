------------------------------ MODULE Lifecycle ------------------------------
(***************************************************************************)
(* The statuses of jobs and tasks, the stages of a task, and the           *)
(* transition checks that UpdateJob and UpdateTask make against the        *)
(* document they have read.  Constant-level: shared by every module that   *)
(* talks about jobs and tasks.                                             *)
(***************************************************************************)

JobStatus == {"scheduled", "running", "pausing", "paused", "resuming",
              "completed", "terminating", "terminated", "error"}

TaskStatus == {"scheduled", "running", "pausing", "paused", "completed",
               "terminating", "terminated", "canceled", "error"}

TaskStage == {"begin", "training", "predicting", "evaluating", "end"}

\* A job in one of these has ended (IsEnded).
JobTerminal == {"completed", "terminated", "error"}

\* A job in one of these waits for the job status maintainer.
JobTransient == {"pausing", "resuming", "terminating"}

\* A task in one of these has ended (IsEnded).
TaskTerminal == {"completed", "terminated", "error"}

(***************************************************************************)
(* The statuses from which UpdateTask lets a task enter the given status.  *)
(***************************************************************************)
TaskStatusFrom(new) ==
    CASE new = "scheduled"   -> {"scheduled"}
      [] new = "running"     -> {"scheduled", "pausing", "paused"}
      [] new = "pausing"     -> {"running"}
      [] new = "paused"      -> {"pausing"}
      [] new = "completed"   -> {"running"}
      [] new = "terminating" -> {"running", "pausing", "paused"}
      [] new = "terminated"  -> {"terminating"}
      [] new = "canceled"    -> {"scheduled"}
      [] new = "error"       -> TaskStatus

\* A stage follows its predecessor, or is written again.
TaskStageFrom(new) ==
    CASE new = "begin"      -> {"begin"}
      [] new = "training"   -> {"begin", "training"}
      [] new = "predicting" -> {"training", "predicting"}
      [] new = "evaluating" -> {"predicting", "evaluating"}
      [] new = "end"        -> {"evaluating", "end"}

(***************************************************************************)
(* The statuses from which UpdateJob lets a job enter the given one.  A    *)
(* request for the status the job already has is skipped, not refused.     *)
(***************************************************************************)
JobStatusFrom(new) ==
    CASE new = "scheduled"   -> {}
      [] new = "running"     -> {"scheduled", "resuming"}
      [] new = "pausing"     -> {"running"}
      [] new = "paused"      -> {"pausing"}
      [] new = "resuming"    -> {"pausing", "paused"}
      [] new = "completed"   -> {"running"}
      [] new = "terminating" -> {"running", "pausing", "paused"}
      [] new = "terminated"  -> {"terminating"}
      [] new = "error"       -> JobStatus

\* Stages in their order of execution.
StageIndex(s) ==
    CASE s = "begin"      -> 0
      [] s = "training"   -> 1
      [] s = "predicting" -> 2
      [] s = "evaluating" -> 3
      [] s = "end"        -> 4
==============================================================================
