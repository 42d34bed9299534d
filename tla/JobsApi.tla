------------------------------- MODULE JobsApi -------------------------------
(***************************************************************************)
(* The REST API on jobs, as its users see it: POST /jobs and               *)
(* PATCH /jobs/{id} with a new status.                                     *)
(***************************************************************************)
EXTENDS JobTaskStore

CONSTANTS
    Clients,       \* users of the REST API
    Requests,      \* statuses they ask for with PATCH /jobs/{id}
    MaxPatches,    \* bound: PATCH requests
    Patient        \* do users wait until a job has settled?

ASSUME ClientAssumption ==
    /\ Requests \subseteq JobStatus
    /\ MaxPatches \in Nat
    /\ Patient \in BOOLEAN

VARIABLES
    patch,     \* a validated PATCH of a client that is about to be written
    patches    \* requests made so far

clientVars == <<patch, patches>>

NoPatch == <<NoJob, "none">>

ClientTypeOK ==
    /\ patch \in [Clients -> (Jobs \X JobStatus) \cup {NoPatch}]
    /\ patches \in 0 .. MaxPatches

ClientInit ==
    /\ patch = [u \in Clients |-> NoPatch]
    /\ patches = 0

------------------------------------------------------------------------------
\* CreateJob puts the job straight into the running state.
CreateJob(j) ==
    /\ jobStatus[j] = "none"
    /\ \A i \in Jobs : i < j => jobStatus[i] # "none"
    /\ jobStatus' = [jobStatus EXCEPT ![j] = "running"]
    /\ UNCHANGED <<jobLock, taskVars, procVars, clientVars>>

\* UpdateJob, first half; a refused request answers 400 and changes nothing.
\* A patient user asks only about a job that no maintainer is busy with.
PatchRead(u, j, s) ==
    /\ patch[u] = NoPatch
    /\ patches < MaxPatches
    /\ jobStatus[j] \in JobStatusFrom(s) \ {s}
    /\ Patient => jobStatus[j] \notin JobTransient /\ jobLock[j] = NoProc
    /\ patch' = [patch EXCEPT ![u] = <<j, s>>]
    /\ patches' = patches + 1
    /\ UNCHANGED storeVars

\* UpdateJob, second half.
PatchWrite(u) ==
    /\ patch[u] # NoPatch
    /\ jobStatus' = [jobStatus EXCEPT ![patch[u][1]] = patch[u][2]]
    /\ patch' = [patch EXCEPT ![u] = NoPatch]
    /\ UNCHANGED <<jobLock, taskVars, procVars, patches>>

ClientStep ==
    \/ \E j \in Jobs : CreateJob(j)
    \/ \E u \in Clients, j \in Jobs, s \in Requests : PatchRead(u, j, s)
    \/ \E u \in Clients : PatchWrite(u)
==============================================================================
