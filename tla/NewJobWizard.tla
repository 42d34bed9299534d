---------------------------- MODULE NewJobWizard ----------------------------
(***************************************************************************)
(* The dialog that starts a job: NewJob.vue, the calls of the client       *)
(* library that it makes and what the server does with them.  The          *)
(* component lives as long as the page: closing the dialog keeps its data, *)
(* and answers are applied whenever they come.  The datasets and modules   *)
(* that the server has do not change meanwhile.                            *)
(***************************************************************************)
EXTENDS Integers, SequencesExt, BagsExt

CONSTANTS
    Datasets, Objectives, Models,
    Fits,           \* the pairs <<dataset, module>> whose schemas match
    None,           \* no selection
    MaxOpens,       \* bound: how often the dialog is opened
    MaxRequests,    \* bound: queries in flight
    MaxPosts        \* bound: how often Finish is pressed

ASSUME WizardAssumption ==
    /\ None \notin Datasets \cup Objectives \cup Models
    /\ Fits \subseteq Datasets \X (Objectives \cup Models)
    /\ {MaxOpens, MaxRequests, MaxPosts} \subseteq Nat

VARIABLES
    validated,     \* server: the datasets with status validated
    jobs,          \* server: the jobs that were created
    open, step,    \* the dialog
    datasets, dataset,        \* the list of step 1 and its selection
    objectives, objective,    \* the list of step 2 and its selection
    models, chosen,           \* the list of step 3 and its selection
    requests,      \* queries in flight
    posts,         \* POST /jobs in flight
    opened,        \* how often the dialog was opened
    pressed,       \* how often Finish was pressed
    hasty          \* history: the user went on without the answer of a query

lists == <<datasets, dataset, objectives, objective, models, chosen>>
server == <<validated, jobs>>
vars == <<server, open, step, lists, requests, posts, opened, pressed, hasty>>

Query == [type : {"datasets", "objectives", "models"}, dataset : Datasets \cup {None}]
Job == [dataset : Datasets \cup {None}, objective : Objectives \cup {None}, models : SUBSET Models,
        hasty : BOOLEAN, listed : BOOLEAN]

TypeOK ==
    /\ validated \in SUBSET Datasets /\ jobs \in SUBSET Job
    /\ open \in BOOLEAN /\ step \in 1..4 /\ hasty \in BOOLEAN
    /\ datasets \in SUBSET Datasets /\ dataset \in Datasets \cup {None}
    /\ objectives \in SUBSET Objectives /\ objective \in Objectives \cup {None}
    /\ models \in SUBSET Models /\ chosen \in SUBSET Models
    /\ IsABag(requests) /\ BagToSet(requests) \subseteq Query
    /\ posts \in Seq([job : Job, made : BOOLEAN, waits : BOOLEAN])
    /\ opened \in 0..MaxOpens /\ pressed \in 0..MaxPosts

Init ==
    /\ validated \in SUBSET Datasets /\ jobs = {}
    /\ open = FALSE /\ step = 1
    /\ datasets = {} /\ dataset = None /\ objectives = {} /\ objective = None
    /\ models = {} /\ chosen = {}
    /\ requests = EmptyBag /\ posts = <<>>
    /\ opened = 0 /\ pressed = 0 /\ hasty = FALSE

------------------------------------------------------------------------------
(* The server, as the client library asks it: runGetQuery goes on until    *)
(* there is no next page.  Without a selected dataset the query has no     *)
(* schema, and nothing is filtered out.                                    *)

Applicable(modules, d) == {m \in modules : d = None \/ <<d, m>> \in Fits}

Answer(q) ==
    CASE q.type = "datasets" -> validated
      [] q.type = "objectives" -> Applicable(Objectives, q.dataset)
      [] q.type = "models" -> Applicable(Models, q.dataset)

\* A bug: the objectives are not restricted to those that fit the dataset.
InitStepUnfiltered(s) ==
    /\ step' = s
    /\ requests' = CASE s = 1 -> BagAdd(requests, [type |-> "datasets", dataset |-> None])
                     [] s = 2 -> BagAdd(requests, [type |-> "objectives", dataset |-> None])
                     [] s = 3 -> BagAdd(requests, [type |-> "models", dataset |-> dataset])
                     [] s = 4 -> requests

\* initStep: a step queries what it shows, with the dataset selected at this moment.
InitStep(s) ==
    /\ step' = s
    /\ requests' = CASE s = 1 -> BagAdd(requests, [type |-> "datasets", dataset |-> None])
                     [] s = 2 -> BagAdd(requests, [type |-> "objectives", dataset |-> dataset])
                     [] s = 3 -> BagAdd(requests, [type |-> "models", dataset |-> dataset])
                     [] s = 4 -> requests

------------------------------------------------------------------------------
(* The user.  Nothing keeps them from going on while a query is in flight. *)

GoOn == hasty' = (hasty \/ requests # EmptyBag)

Open ==
    /\ ~open /\ opened < MaxOpens /\ BagCardinality(requests) < MaxRequests
    /\ open' = TRUE /\ opened' = opened + 1
    /\ InitStep(1) /\ GoOn
    /\ UNCHANGED <<server, lists, posts, pressed>>

Close ==
    /\ open
    /\ open' = FALSE
    /\ UNCHANGED <<server, step, lists, requests, posts, opened, pressed, hasty>>

Prev ==
    /\ open /\ step > 1 /\ BagCardinality(requests) < MaxRequests
    /\ InitStep(step - 1) /\ GoOn
    /\ UNCHANGED <<server, open, lists, posts, opened, pressed>>

Next ==
    /\ open /\ step < 4 /\ (BagCardinality(requests) < MaxRequests \/ step = 3)
    /\ InitStep(step + 1) /\ GoOn
    /\ UNCHANGED <<server, open, lists, posts, opened, pressed>>

SelectDataset(d) ==
    /\ open /\ step = 1 /\ d \in datasets
    /\ dataset' = d /\ GoOn
    /\ UNCHANGED <<server, open, step, datasets, objectives, objective, models, chosen,
                   requests, posts, opened, pressed>>

SelectObjective(o) ==
    /\ open /\ step = 2 /\ o \in objectives
    /\ objective' = o /\ GoOn
    /\ UNCHANGED <<server, open, step, datasets, dataset, objectives, models, chosen,
                   requests, posts, opened, pressed>>

SelectModels(ms) ==
    /\ open /\ step = 3 /\ ms \subseteq models
    /\ chosen' = ms /\ GoOn
    /\ UNCHANGED <<server, open, step, datasets, dataset, objectives, objective, models,
                   requests, posts, opened, pressed>>

\* finish may be pressed again while a job is being created.
Finish ==
    /\ open /\ step = 4 /\ pressed < MaxPosts
    /\ pressed' = pressed + 1
    /\ posts' = Append(posts,
           [job |-> [dataset |-> dataset, objective |-> objective, models |-> chosen,
                     hasty |-> hasty \/ requests # EmptyBag, listed |-> objectives # {}],
            made |-> FALSE, waits |-> TRUE])
    /\ UNCHANGED <<server, open, step, lists, requests, opened, hasty>>

------------------------------------------------------------------------------
(* Answers of queries, in any order.  The order of a list is that of the   *)
(* server, and its first element becomes the selection.                    *)

DatasetsArrive(data) ==
    /\ datasets' = data
    /\ dataset' \in IF data = {} THEN {dataset} ELSE data
    /\ UNCHANGED <<objectives, objective, models, chosen>>

\* A bug: a new list leaves the selection alone.
ObjectivesArriveKeep(data) ==
    /\ objectives' = data
    /\ objective' \in IF objective # None \/ data = {} THEN {objective} ELSE data
    /\ UNCHANGED <<datasets, dataset, models, chosen>>

\* A bug: the first element of an empty list is selected.
ObjectivesArriveFirst(data) ==
    /\ objectives' = data
    /\ objective' \in IF data = {} THEN {"undefined"} ELSE data
    /\ UNCHANGED <<datasets, dataset, models, chosen>>

ObjectivesArrive(data) ==
    /\ objectives' = data
    /\ objective' \in IF data = {} THEN {objective} ELSE data
    /\ UNCHANGED <<datasets, dataset, models, chosen>>

ModelsArrive(data) ==
    /\ models' = data /\ chosen' = data
    /\ UNCHANGED <<datasets, dataset, objectives, objective>>

Arrive(q) ==
    /\ requests' = BagRemove(requests, q)
    /\ CASE q.type = "datasets" -> DatasetsArrive(Answer(q))
         [] q.type = "objectives" -> ObjectivesArrive(Answer(q))
         [] q.type = "models" -> ModelsArrive(Answer(q))
    /\ UNCHANGED <<server, open, step, posts, opened, pressed, hasty>>

\* An error or the timeout of one second: the list stays as it is.
QueryFails(q) ==
    /\ requests' = BagRemove(requests, q)
    /\ hasty' = TRUE
    /\ UNCHANGED <<server, open, step, lists, posts, opened, pressed>>

------------------------------------------------------------------------------
(* The creation of a job.                                                  *)

\* The errors that CreateJob finds in its references are overwritten by later
\* calls: every job is inserted.
CreateJob(i) ==
    /\ ~posts[i].made
    /\ jobs' = jobs \cup {posts[i].job}
    /\ posts' = IF posts[i].waits THEN [posts EXCEPT ![i].made = TRUE] ELSE RemoveAt(posts, i)
    /\ UNCHANGED <<validated, open, step, lists, requests, opened, pressed, hasty>>

\* sucess: the dialog is closed, whatever it shows by then.
Created(i) ==
    /\ posts[i].made
    /\ posts' = RemoveAt(posts, i)
    /\ open' = FALSE
    /\ UNCHANGED <<server, step, lists, requests, opened, pressed, hasty>>

\* The client gives up after one second; the server may still handle the request.
PostFails(i) ==
    /\ posts[i].waits
    /\ posts' = IF posts[i].made THEN RemoveAt(posts, i) ELSE [posts EXCEPT ![i].waits = FALSE]
    /\ UNCHANGED <<server, open, step, lists, requests, opened, pressed, hasty>>

\* A request that is given up and never reaches the server.
PostLost(i) ==
    /\ ~posts[i].waits
    /\ posts' = RemoveAt(posts, i)
    /\ UNCHANGED <<server, open, step, lists, requests, opened, pressed, hasty>>

------------------------------------------------------------------------------
User ==
    \/ Open \/ Close \/ Prev \/ Next \/ Finish
    \/ \E d \in Datasets : SelectDataset(d)
    \/ \E o \in Objectives : SelectObjective(o)
    \/ \E ms \in SUBSET Models : SelectModels(ms)

Network ==
    \/ \E q \in BagToSet(requests) : Arrive(q) \/ QueryFails(q)
    \/ \E i \in DOMAIN posts : CreateJob(i) \/ Created(i) \/ PostFails(i) \/ PostLost(i)

Step == User \/ Network

Spec == Init /\ [][Step]_vars

------------------------------------------------------------------------------
(* Properties.                                                             *)

Suits(job) ==
    /\ <<job.dataset, job.objective>> \in Fits
    /\ \A m \in job.models : <<job.dataset, m>> \in Fits

\* What is selected is something that the dialog shows, however the answers of
\* earlier steps and of earlier openings are interleaved with those of this one;
\* only a list that comes back empty leaves the former selection in place.
SelectionIsShown ==
    /\ datasets # {} => dataset \in datasets
    /\ objectives # {} => objective \in objectives
    /\ chosen \subseteq models

\* A job that a patient user starts (one who never goes on while a query is in flight,
\* with no query failing) has an objective and models that fit its dataset, on
\* whatever path through the steps and openings of the dialog, provided that
\* there was a dataset and an objective to choose.
PatientJobFits ==
    \A job \in jobs : ~job.hasty /\ job.listed /\ job.dataset # None => Suits(job)
==============================================================================
