# ease.ml: a verification project

TLA+ modules of the ease.ml engine (`src/engine`), of its schema library
(`src/schema/javascript`) and of the two dialogs of its web interface
(`src/web`), the TLC runs that check them on small instances, and TLAPS proofs of
the main results for every instance.

## 1. Inventory

ease.ml runs machine-learning *jobs*. A job is a dataset, a set of models with a
configuration space and an objective; the engine splits it into *tasks*, each of
which trains, predicts and evaluates one configuration. There are three kinds of
operating system process - *controller*, *scheduler* and *worker* - and they do
not talk to each other: everything goes through a MongoDB database, where each
call is atomic on one document, and a shared file system.

| Component | State it keeps | Operations | What is hard |
|---|---|---|---|
| Job and task data model (`database/model/job.go`, `task.go`) | status, stage, `process` lock of each document | Create, Update, Lock, Unlock, bulk updates, release by process | `Update` reads, validates and writes in separate calls; the write repeats no check |
| Task runner (`workers/task_runner.go`) | local copy of the task, position in the stages | lock, run stages, complete task and job, unlock | stale status between stages, lost locks, two workers finishing together |
| Job and task status maintainers (`workers/*_status_maintainer.go`) | one goroutine per locked document | carry a job or task out of pausing, resuming, terminating | requests that arrive while a goroutine is at work |
| Dead process reaper (`model/process.go`, `workers/process_manager.go`) | keepalive and status of each process | mark terminated, release locks in four collections | late keepalives, a crash half-way, processes that terminate themselves |
| Scheduler (`workers/optimizer_runner.go`) | counts it has read, the optimizer's answer | count, decide, create tasks | three counts at three times; jobs that end while the optimizer runs |
| REST API on jobs (`api/handlers/jobs.go`) | a validated request | POST, PATCH | several users, no transaction |
| Process registry (`model/process.go`) | running ordinals | optimistic choice of an ordinal, check, retry | registrations that overlap |
| Dataset pipeline (`workers/dataset_*.go`, `model/dataset.go`) | status and lock of a dataset | download, copy, unpack, validate | reaping during a long transfer, errors that keep the lock |
| Module pipeline (`workers/module_*.go`, `model/module.go`) | status and lock of a module | download, validate, add to jobs | `AddModelToApplicableJobs` rewrites whole lists |
| Users and sessions (`model/user.go`, `api/middleware`) | API keys | login, logout, authenticate | a key that changes during a request |
| Listing (`Get...` of `database/model`) | none | filters, sorting, cursors | pages must neither skip nor repeat documents |
| Schema library (`schema.js`, also in Go and Python) | none | load, dump, match a dataset schema with a module schema | orders of nodes and fields, wildcards, names bound on the way |
| Dataset library (`dataset.js`) | none | read a dataset, infer its schema, generate one from a schema | samples compared with the first one, flags accumulated, search for cycles |
| New job dialog (`NewJob.vue`) | lists, selections, queries in flight | open, move between steps, select, finish | answers that come late, or out of order, or not |
| New dataset dialog (`NewDataset.vue`) | file, source, id, calls in flight | open, read a file, finish: create, upload, update | callbacks that read fields changed meanwhile, time-outs |
| Storage, containers, router, command line, other views and calls | files, images, presentation | - | input and output only |

What makes the core correct: a task and a job are worked on by one process at a
time; a task goes through its stages in order and is completed only after all of
them were run; what has ended stays as it ended; a job completes when and only when it
has `max-tasks` completed tasks; a job that is paused, resumed or terminated
gets there; the locks of a process that is gone are released. Around the core: a
schema that is inferred describes the dataset, a match that is reported is one,
the search for cycles is right; a job that is started fits its dataset, and a
dataset that is declared transferred is.

## 2. Modules

```
TaskLife             what becomes of a task (abstract specification)
Lifecycle            statuses, stages, transition checks (constant level)
  JobTaskStore       the shared database: jobs, tasks, processes, locks
    TaskRunner         worker: TaskRunListener, TaskRunWorker
    StatusMaintainers  controller: job and task status maintainers
    Reaper             controller: TerminateDeadProcesses
    OptimizerRunner    scheduler: OptimizerRunListener, OptimizerRunWorker
    JobsApi            users: POST and PATCH on jobs
      JobTasks           all of them together, crashes, faults; the properties
        MCJobTasks         symmetry, for TLC
        JobTasksProofs     theorems and proofs: types, locks, stages and outputs, tasks
                           and jobs that end, locks left behind, the backlog; JobTasks
                           implements TaskLife

DatasetLife          what becomes of a dataset (abstract specification)
DatasetPipeline      datasets: users, client, listeners, goroutines, reaper
  DatasetProofs        theorems and proofs; DatasetPipeline implements DatasetLife

NamedSequences       sequences of records with a name, for maps whose keys have an order
  Schemas              schemas: constructors with their checks, load, dump
    SchemaMatch          Schema.match
      MCSchemaMatch        families of schemas, for TLC
      SchemaMatchProofs    theorems and proofs: what match accepts and builds
        MatchCompleteProofs  theorems and proofs: what match never misses

CycleDecision        what Links.isCyclic promises (abstract specification)
LinkCycles           Links.isCyclic: the two depth first searches
  SchemaInference      (with Schemas) reading a dataset, Dataset.inferSchema
    SchemaGeneration     generateFromSchema, then inferSchema
      SchemaInferenceProofs  theorems and proofs: both searches, LinkCycles implements
                             CycleDecision; what is inferred, and isCyclic as it is called
      MCSchemaInference    families of datasets and schemas, for TLC

NewJobWizard         NewJob.vue, its calls and the server's answers
  MCNewJobWizard       one dataset that modules fit and one that none fits
  NewJobWizardProofs   theorems and proofs
NewDatasetWizard     NewDataset.vue, its calls and the server's answers
  MCNewDatasetWizard   files of the same name
  NewDatasetWizardProofs   theorems and proofs
SequenceLemmas       appending to and removing from a sequence, for both dialogs; induction
                     over numbers and what is picked from a sequence, for the schema library
```

**One step is one database call.** A component's actions change the database and
its own variables; `JobTasks` conjoins the frame for the other components
(`WorkerAct`, `MaintainerAct`, ...).

**Database** (`JobTaskStore`). `jobStatus`, `jobLock`, `taskJob`, `taskStatus`,
`taskStage`, `taskLock` and `procStatus` are fields of documents; a job with
status `"none"` and a task with job `NoJob` do not exist yet. `outputs` is what
the stages have left on the shared file system and in the quality fields.
`alive` says whether the operating system process runs; only crashes and panics
change it. Documents are numbered in order of creation, which is the order
`LockTask` and `LockJob` sort by (newest first). All callers are the root user.

**Updates.** `UpdateTask` and `UpdateJob` are two steps: the first reads the
document and validates the transition (`TaskStatusFrom`, `TaskStageFrom`,
`JobStatusFrom`), the second writes whatever the document holds by then.

**`repeatUntilSuccess`** evaluates its call once. When it fails the loop only
sleeps, so a refused or failed update leaves a worker or a goroutine in the
state `"stuck"`, for ever and with its locks. `ErrNotFound` makes it panic. The
calls modelled as failing are those under a `Fault`, bounded by `MaxFaults`.

**Worker** (`TaskRunner`). `wpc` names the next call of `TaskRunWorker`;
`validated` tells the two halves of an update apart; `cur` and `lstage` are the
task and its stage in the worker's memory. The status read by `getTaskStatus` is
used at once (`AfterCheck`) and never again, so it is not a variable. Containers
are external. A run adds its output; with `ModulesFail` it may fail in three ways.
`RunContainerAndCollectOutput` drops the exit status, so the worker takes a
training or a prediction that failed for one that succeeded, and goes on with a log
and no output (`FailureOf`). What the worker itself cannot read or parse (an image,
a quality) is reported as `error`. And whatever docker refuses, or an evaluation that
prints nothing, is a panic (`WorkerPanic`); so is unlocking with a lost lock. The
last two may come after the output was written (`Leftovers`). A panic runs the
deferred `SetProcessStatus(terminated)`, a crash does not.

**Maintainers** (`StatusMaintainers`). `jm[c][j]` and `tm[c][t]` are the
goroutines of controller `c`: the status they were started for, and their step.

**Reaper**. Keepalives are abstracted: a process that is not alive may be
declared dead at any time, and so may a live one in `MaySuspect` (only workers;
a controller that loses its own locks is not modelled). Marking and the two
releases are three steps. Datasets have a reaper of their own below; modules are not modelled.

**Scheduler** (`OptimizerRunner`). `counted` accumulates the idle and then the
working workers; `quota` is `numNewTasks` and then what is left of the
optimizer's answer, which holds between one suggestion and what was asked for.

**Users** (`JobsApi`). A PATCH is a read and a write of `UpdateJob`; a refused one
changes nothing. `Patient` users ask only about a job that is in no transient
status and that no maintainer holds.

**What a task's user sees** (`TaskLife`). The abstract specification of tasks has the
documents of the tasks and no process: a task is created, taken and released; under
a lock it is run, each run after the earlier ones, and goes from one stage to
the next when the runs of that stage have left something: their output or, where
modules may fail, the log of a failed training or prediction. While it has not ended
it may be redirected (started, paused, resumed, told to terminate), alone or with
others; and it ends once: completed after every stage, terminated when told to, or failed.

**Datasets** (`DatasetPipeline`). `source`, `status`, `lock` and `schema` are
fields of the documents; `archive` and `content` are what the file system holds
under `.download` or `.upload` and next to it. `worker[c][d]` is the step of the
goroutine that a listener of controller `c` has started for dataset `d`
(`DatasetDownloadWorker`, `DatasetGitWorker`, `DatasetLocalCopyWorker`,
`DatasetUnpackWorker`, `DatasetValidatorkWorker`), with one step per database
call and one for the beginning and the end of each file operation, so that a
crash may fall into the middle of it. `client[d]` is `UploadDataset` of the Go
client, which sets the status `transferred` also when the upload broke off. An
unpack of an upload whose directory is missing panics and ends the controller; a
panic in a goroutine does not run the deferred status write of the main one, so
the reaper finds such a controller. `FlushDatasetAccessKey` writes the field
`accessKey`, the document's field is `access-key`: the step changes nothing that
is modelled. `DataFails` lets transfers, archives and schemas be bad.

**What a dataset's user sees** (`DatasetLife`). The abstract specification has the
documents and the unpacked files, and neither controllers nor staged archives: a
dataset that waits for its next status is taken and released; whoever holds it
writes its files while they are not promised yet, then its schema; it reaches one
status after the other, with the files that the status promises; it fails, and is
then kept by its holder, or is archived. An archived dataset that is still held may
reach the next status after all: `UpdateDatasetStatus` looks at nothing.

**Schemas** (`Schemas`, `SchemaMatch`). A JavaScript object keeps its keys in
order, so it is a sequence of records with a field `name`. What a constructor
tests with a regular expression is a value, and `Malformed` is what it refuses.
`match` is a state machine: it tries one order of the source's singletons after
the other, keeps the names bound by the first that fits, then one order of the
other nodes after the other (`Permutation` is the iterative Heap's algorithm with
its own stack). What one order needs, backtracking over wildcards in
`matchDimList` included, is an operator. The reference is `Embeds`, which has no
algorithm: there are maps of nodes, fields, dimension names and classes, the
first two one to one, and expansions of the wildcards, under which the schemas
agree.

**Datasets as the library sees them** (`SchemaInference`, `LinkCycles`). A file is
its name, its type and what inference looks at: shape, categories, links.
`inferSchema` handles a sample in three steps (names, nodes, links), and the call
of `Links.isCyclic` is the state machine of `LinkCycles`. JavaScript visits sets
and maps in the order of insertion; here any order is possible. `CycleDecision`
is the abstract specification: a question about a graph is followed by one
answer, and that is whether some nonempty set of vertices has a successor (two
neighbours or a loop, if undirected) of each of them in the set.

**Generation** (`SchemaGeneration`). Each random draw is an arbitrary choice. A
step is a sample's nodes, or the links of one instance to one node, in the order
of the nested loops, with the counters that earlier links have changed. What was
made goes to `inferSchema`, as in `dataset_test.js`.

**Dialogs** (`NewJobWizard`, `NewDatasetWizard`). One action per event and one per
answer; queries in flight are a bag or a sequence from which any one is answered
next, or fails. A POST or PATCH has three moments, sending, the server's step and
the answer, so that axios' time-out of one second may come before or after the
server has acted. Both components outlive the dialog's closing. The variables
`hasty` and `careless` remember whether the user went on without waiting; they
restrict properties and no step.

### Left out of the modelled components

Schemas and dialogs: texts of messages and paths, descriptions, the maximum of
tasks, the text of addresses; dumping of datasets; the readers of npy and tar
files.

Datasets: failed database calls, controllers suspected wrongly, malformed git
addresses, two clients that upload one dataset at the same time, and the statuses
a PATCH may write besides `archived` and `transferred`: `UpdateDataset` accepts
any of them, so the properties are for users who do not write the pipeline's own.
Archive formats are taken to detect truncation (a zip or gzip file does).

Jobs and tasks: time stamps and durations, listing and filters, alternative objectives, log
files, images and paths; the pull of model images on the worker's host; the
fields of a PATCH other than the status; more than one scheduler.

## 3. Runs

Every run of `JobTasks` uses one job. `CHECK_DEADLOCK FALSE`: a system whose tasks
have all ended only polls, and polling changes nothing; a call that has returned
and a dialog whose bounds are used up stop.

| Run | Instance | Properties | Shows |
|---|---|---|---|
| `quiet` | 2 workers, 3 tasks, `max-tasks` 2 | `ScheduleIsBounded`, `CompletedJobIsDone`, `EveryJobCompletes` | jobs complete; the backlog is bounded |
| `requests` | 2 workers, 2 controllers, 1 task, failing modules, 3 pause, resume or terminate requests at any time | `TypeOK`, `CompletedJobIsDone`, `HandlerHoldsLock`, `CompletedTaskIsDone`, `EndedTasksStay`, `TasksLiveOnce` | completion survives every race; a task handed from worker to worker is handled by one at a time and loses no stage, also when containers fail unnoticed; tasks live as `TaskLife` says |
| `crash` | 1 worker, 2 controllers, 1 task, 1 crash, 2 patient requests | `JobsSettle`, `DeadLocksReleased` | a crash is survived by the locks and the jobs |
| `faults` | 1 worker, 2 controllers, 1 task, a crash of the worker or the scheduler, 2 failed calls, failing modules, 1 request to pause or terminate | `NoForgottenLock` | no return path forgets a lock |
| `suspicion` | 2 workers of which one may be suspected, 1 task, failing modules | `StageHasOutputs` | the stage of a task run twice at once never runs ahead of the runs; what is missing, a failed container has not given |
| `datasets` | 2 controllers, 1 dataset of any source, 1 crash, bad data, 1 archival | `DatasetTypeOK`, `OneHandler`, `ValidatedIsUsable`, `NothingLost`, `DatasetsLiveOnce`, `DatasetsSettle` | the pipeline loses no data, treats a dataset as `DatasetLife` says, and finishes |
| `matching` | pairs of schemas of five families, up to 3 nodes | `MatchIsSound`, `DeterminedMatchIsFound`, `DimListsDecided`, `SchemaMatchesItself`, `BuiltSchemaFits`, `BuiltSchemaIsReadable` | what `match` accepts is a match, what it builds can be read again, and it finds what does not have to be guessed |
| `inference` | all graphs on 3 instances; 2 samples of 26 kinds; nodes without instances, linked or not; datasets generated from schemas under all flags | `SchemaFitsSamples`, `LinksFitLastSample`, `FlagsDescribeSamples`, `GeneratedFits`, `DirectedVerdict`, `ImplementsDecision`, `SearchEnds` | an inferred schema describes the samples and fits the schema they were generated from; `isCyclic` implements `CycleDecision` and returns |
| `newjob` | 2 datasets, 2 objectives, 1 model, 2 openings, 2 queries in flight, 1 job | `TypeOK`, `SelectionIsShown`, `PatientJobFits` | late answers select nothing that is not shown; a user who waits gets a job that fits |
| `newdataset` | 3 files, one of them bad, 2 sources, 1 opening, 2 presses of Finish | `TypeOK`, `TransferredHasContent`, `UploadIsWhatWasShown`, `SuccessIsTrue`, `PanelEnds` | only uploaded data is declared transferred; success is said only when it is true |
| `v_unpack` | 2 controllers, 1 upload, 1 crash | `TransferredGetUnpacked` (violated) | a crash after the cleanup ends every controller |
| `v_links` | the datasets of `inference` | `AllOrNoneHaveLinks` (violated) | samples with and without links are accepted together |

The bounds: two workers are enough for two handlers of one task and for two
tasks that complete together; two tasks are enough for the one to end the job
under the other, and three leave the scheduler something to count while both
workers change their status; two requests make a pause and its resumption; two
controllers let one reap the other. `NumTasks` caps the tasks ever created
(`TasksLeft`: the scheduler rests when they are used up), `MaxPatches`,
`MaxCrashes` and `MaxFaults` cap the rest. The three workers of the pipeline act
on one dataset through its own lock, so one dataset shows every race; the second
controller is the one that takes over. With two datasets the safety properties
and the inductive invariant of `DatasetProofs` hold as well (900,000 states); the
liveness property is then out of the time a run may take.

Three nodes in each of two schemas give every permutation something to get wrong,
and lists of up to three dimensions with two names and all wildcards every branch
of `matchDimList`. Three instances have loops, triangles and diamonds in both
kinds of graph, and two samples every comparison with the first. The dialog for
jobs is opened twice, so that an answer to the first opening meets the second;
the one for datasets once, with two presses of Finish, since closing changes
nothing that a second opening would find different.

**Fairness** (`Fairness`): each worker, the scheduler, each listener, each
goroutine and the reaper is weakly fair on its own: their loops poll for ever,
no call waits for another process, and the Go scheduler starves no goroutine. A
validated PATCH is also written. Users, crashes and faults owe nothing. In
`DatasetPipeline` each listener, goroutine and reaper is weakly fair in the same
way, and a client goes on with the upload it has begun. `DatasetsSettle` ends
with "or no controller is left": nothing restarts controllers. `SearchEnds` needs
only that a loop goes on (`WF(Search)`), `PanelEnds` that calls go on: axios gives
up after a second, and tus after its retries. Users owe nothing there either.

### What the violations mean

Both `v_` runs record where a comment of the code states more than the code does;
PROJECT.json quotes the lines. `DatasetUnpackWorker` removes `.upload` before it
writes `unpacked`; after a crash in between, the next controller panics on the
missing directory, then the one after it. The data are complete by then
(`NothingLost`); only the status is not. `inferSchema` compares whether a sample
has links with a flag that the same sample has just set.

### What the models show besides

These follow from the modelled code and limit what the properties can say.

*Jobs.* `CreateTask` overwrites the error of its validation (`task.go:301`,
`:345`), so tasks are created for jobs that have ended. `UpdateJob` writes
`pausing` over a status `completed` that came between its read and its write
(`job.go:620`), and `UpdateTask` likewise writes `running` over a status
`terminating` that came in between (`task.go:535`): the task of a job that is
terminated then runs to its end. A job that is resumed while it is pausing leaves its maintainer
in `repeatUntilSuccess`, which does not repeat (`workers.go:40`). The locks of a
worker that panics are never released, since it is `terminated` already
(`worker.go:45`, `process.go:511`).

The exit status of a container is dropped (`modules.go:364`), and `runModelTraining`
and `runModelPrediction` return `nil` after a container that failed
(`task_runner.go:369-461`), so that a task may be completed without parameters or
predictions; `StageHasOutputs` and `CompletedTaskIsDone` say that nothing else
makes an output missing, and that an evaluation and a quality never are.

*Matching.* `match` fixes the first order of singletons that fits before it looks
at the other nodes, and the first fields within a node, so that it misses matches
although the comments (`schema.js:276`, `:347`) say that all are tried; hence
`Determined` in `DeterminedMatchIsFound`. It does not compare the numbers of
nodes first, as `schema.go:257` does: with more singletons in the source it ends
with a TypeError (`SameCounts` in `MatchIsSound`).

*Inference.* A node is made anew for every sample (`dataset.js:407`), so the
bounds on links are those of the last sample and those of earlier ones are lost;
the comment at `:456` promises a merge over one sample only, and
`LinksFitLastSample` states which bounds remain. The same property states that an
index of 0 is not compared with the number of instances: a link to a node without
instances is accepted at index 0, and refused at any other. A sample
with undirected links that comes before one with directed links has its flags
computed for the wrong kind of graph (the proviso of `FlagsDescribeSamples`). A
count of 0 instances is taken for an unknown one (`:346`), a class file in a
sample is looked at by nobody and hides a missing child (`NoClassInSamples`, a
proviso of `SchemaFitsSamples` and `LinksFitLastSample`), and two sets of names of which neither contains the
other are met later as a TypeError.

*Generation.* The number of links is drawn as `random - lBound` (`dataset.js:639`;
the Go and Python versions add it), so that a link with bounds `[1, 1]` or `[1, 2]`
is never made. `maxIdxIn` is looked up before it is set, so that acyclic schemas with
links both ways between two nodes get cycles. Links that come back in an
undirected cyclic schema exceed its bounds. Without fan-in an instance of an undirected
schema has two neighbours at most; the constructor (`schema.js:94`) asks it of a
node, and `inferSchema` gives it the largest numbers of links to each node over all
instances, so that one instance with two links to `p` and another with two links to
`q` make a schema that is refused. A node without fields has no instances that are
counted, a node named `links` meets the links file, and with no sample or no instance there
is nothing to infer from. `Supported` names these cases. Also a
link that happens not to be drawn is missing from what is inferred, and `match`
then fails; `Allows` does not ask for it.

*Dialogs.* A user who does not wait can start a job whose objective and models are
those of another dataset (`NewJob.vue:281`), and an empty list of objectives keeps
the former selection. Finish can be pressed again: after a time-out the server
may have a job already, and gets another. In the other dialog a file that is read
late moves on from whichever step is shown, up to the upload panel with nothing
to upload; the callbacks of the calls read the source and the file as they are
when the answer comes, so that another file may be uploaded under the old id; and
a dataset whose creation timed out after the server made it stays `created`, since
a retry is refused.

Assumptions of the passing runs that the code does not enforce:
`HandlerHoldsLock` is for systems in which no live process is suspected
(`MaySuspect = {}`): a late keepalive lets a second worker in, which is why
`suspicion` checks only that the stage does not run ahead of the runs. `DeadLocksReleased` holds for
one crash; a second one, of the controller that has just marked the first
process terminated, leaves the locks in place. `JobsSettle` needs patient users.
`ScheduleIsBounded` is for systems without pauses, since resumed tasks come on
top. After a crash a worker's task is unlocked but keeps the status `running`,
and `TaskRunListener` locks scheduled tasks only, so no other worker takes it
over.

## 4. Proofs

Every invariant, action property and refinement that the passing runs check is a theorem, but
for `GeneratedFits`; it and the liveness properties are at the end of this section. The
inductive invariants were checked with TLC on small instances, those of the runs in most
cases, before they were proved.

### Jobs and tasks

`JobTasksProofs` proves, for every number of workers, controllers, jobs, tasks,
requests, crashes and faults:

* **`TypeCorrect`**: `Spec => []TypeOK`. `TypeOK` is not inductive: a worker
  inside `TaskRunWorker` indexes the task collection with `cur`, so the
  invariant adds that such a worker has a task (`HasTask`). That the scheduler's
  quota stays a natural number needs the finiteness of the sets it counts.
* **`LockSafety`**: `MaySuspect = {} => (Spec => []HandlerHoldsLock)`, mutual
  exclusion. The strengthening `LockInv` adds that a dead process handles
  nothing (`DeadAreIdle`) and that a process whose locks are being released is
  dead (`ReapedAreDead`). Locking needs a null `process` field, unlocking the
  holder's own name, and the reaper finds only locks nobody works under.

The argument has one lemma per component (`WorkerTypes`, `MaintainerTypes`, ...;
`WorkerLocks`, ...), with one step per action, and one lemma that puts them
together under the frames of `JobTasks`. Assumptions on the constants:
`ProcsAssumption` (the kinds of process are disjoint, the workers finitely
many), `StoreAssumption`, `MaxTasksAssumption`, `SuspectAssumption`,
`ClientAssumption`, `EnvironmentAssumption`. The theorems that follow use the same,
and two more invariants.

* **`StagesAreBacked`** (`Spec => []StageHasOutputs`) needs no lock at all, so it
  also covers live workers that are taken for dead. `OutputsInv` says of every
  worker that the stage in its memory is backed by runs, that a container runs
  in its own stage, and that a worker about to record the next stage has been
  through the runs that stage follows (`Promised`); nothing they left is ever removed.
  A run counts when it left its output or, with `ModulesFail`, the log of a failed
  training or prediction. So for `ModulesFail = FALSE` the theorem says that the outputs of
  every stage passed are there; for `TRUE` that the stage never runs ahead of the runs,
  and that evaluations and qualities are there.
* **`EndedTasksStayEnded`** (`EndedTasksStay`), **`CompletedTasksAreDone`**
  (`CompletedTaskIsDone`) and **`CompletedJobsAreDone`** (`CompletedJobIsDone`),
  for `MaySuspect = {}`. An update validates in one call and writes in the next, so
  the write is right only if what was read still holds. `OutcomeInv` says so for everyone who may be
  between the two: a worker's task exists, has not ended unless the worker is on
  its way out, and its stage is the one in the worker's memory (`WorkerIsRight`);
  a goroutine's task has not ended as long as it may write (`GoroutineIsRight`); a
  task that is not created yet is at its first stage (`FreshIsRight`). That others
  leave the task alone meanwhile comes from `LockInv`, and the bulk updates, which
  look at no lock, spare tasks that have ended and end none (`BulkSpares`).
  Completed tasks stay completed, so the count that a worker has made can only
  be too small when it writes the job's status.
* **`SystemImplementsTaskLife`** (`Spec => TasksLiveOnce`), for `MaySuspect = {}`: the
  refinement of `TaskLife`. The documents are their own images, so the mapping hides
  all processes. Each write of a worker, a goroutine, the reaper or the scheduler is
  one abstract step, and reads stutter. `LockInv` gives that the writer holds the
  lock, `OutcomeInv` that the task has not ended and that the stage is the one
  before (or a repetition, which stutters), `OutputsInv` that the runs before it were made
  (a run that leaves one thing more is one step, one that leaves nothing new stutters).
  That only a task that was told to terminate is terminated needs that no bulk
  update touches a status `terminating`, which is part of `Spares`.
* **`NoLockIsForgotten`** (`NoForgottenLock`), for `MaySuspect = {}`: the property
  is inductive together with `LockInv` and `OutcomeInv` (an idle worker has no task,
  and a failed task stays failed).

* **`BacklogIsBounded`**: `"resuming" \notin Requests => (Spec => []ScheduleIsBounded)`,
  with wrong suspicions too. The scheduler counts idle workers, working workers and
  scheduled tasks at three different moments; `SchedInv` bounds each partial count by
  the number of workers (`CountsAreBounded`), whatever they do between the calls, and
  says that nothing but the scheduler makes tasks scheduled (`NothingResumes`).

### Datasets

`DatasetProofs` proves, for every number of controllers, datasets, archivals and
crashes, `DatasetTypes` (`[]DatasetTypeOK`), `DatasetLockSafety`
(`[]OneHandler`), `ValidatedIsSound` (`[]ValidatedIsUsable`) and `DataIsKept`
(`[]NothingLost`), from `PipelineAssumption` alone. The three safety properties
come from one inductive invariant, `WorkInv`, since neither stands without the
others: that a validated dataset is complete needs that nobody else has touched
its files since the unpacker looked (`OneHandler`), which needs that only dead
controllers are reaped (`ReapedAreDead`) and that no listener is interested in a
dataset while it is uploaded (`UploadsAreAlone`); that the goroutine which
writes the status was started for the status before it, archiving aside
(`StartedForStatus`); and what each step (`KnowsFiles`) and each status
(`StatusKnowsFiles`) says about the archive, the content and the schemas. There
is one lemma per group of actions, with one step per action. `WorkInv` was
checked with TLC on two datasets before it was proved; it is no run of its own.

**`PipelineImplementsDatasetLife`** (`Spec => DatasetsLiveOnce`) is the refinement of
`DatasetLife`, from the same invariant. The documents and the content are their own
images; steps on staged archives and processes stutter. `UpdateDatasetStatus` writes
by id whatever the status is by then, and the write is a step of `DatasetLife`
because the goroutine still has the lock (`OneHandler`), was started for the status
before (`StartedForStatus`), and knows the files that the new status promises
(`KnowsFiles`). Uploads end without a lock, while nobody else may have one
(`UploadsAreAlone`).

### Matching

`SchemaMatchProofs` proves **`MatchSoundness`** (`MatchSpec => []MatchIsSound`) from
`CallsAssumption`, which says that an input has the parts of a schema, that maps have
one value for a key and that neither a dimension nor the name of a node is `null`. It holds for schemas of any
size with any number of wildcards, names and classes, where TLC only has a few of
each. The proof goes from the inside out, a function of the code at a time:

* *The iterator.* Heap's algorithm with a stack of its own gives orders of its list
  and, as long as `hasNext` says so, has a frame with a turn left. A frame of size `d + 1` has had
  `index[d]` turns, the stack is in effect a number in the factorial system
  (`Odometer`), and `maxIterations` is the number after which it has none left
  (`NextIsIterator`).
* *Dimensions.* A call of `matchDimList` on suffixes leaves less to compare
  (`SizeShrinks`), so the recursion is well-founded; what it returns is turned into a
  walk along each list (`FitSound`), a name being bound once and kept (`Extends`).
* *Fields and nodes.* The maps only grow, and what fitted goes on to fit under larger
  ones (`FitsStill`, `NodeFitsStill`). The loops over orders of the tensors and of the
  categories give two bijections of fields, which join to one of the node's
  (`FieldOrderSound`, `PairsExist`, `MatchNodeSound`).
* *Schemas.* What `load` accepts is a schema (`LoadIsSchema`); if the nodes of both
  kinds fit under the same maps, each under the names known when it was compared, one
  schema embeds in the other (`FitEmbeds`). Singletons are compared before any
  node has a name in the source, and fit anyway because they have no links.
* *The call.* The inductive invariant `MatchInv` says that the schemas were read, that
  the iterator is one of the nodes at work, and what the loops that are done have
  found (`FirstDone`, `BothDone`). That every call ends with an answer also needs that the
  schema which is built passes the checks of the constructors (`BuildSchemaOK`).
* *The schema that is built.* **`BuiltSchemaIsConsistent`** (`MatchSpec => []BuiltSchemaFits`):
  it has the names of self and, with them, those of the source. The source names of
  two nodes, or of two fields of a node, are different (the permutations are one to one,
  `StageNodes`, `BuiltNodeSays`), each field embeds in the one it names (`FieldsFit` under the final maps),
  and sizes and classes are read from one map for the whole schema. A schema without
  names of dimensions has nothing to remember, because only names that occur in self are ever
  bound (`Occurring`, `NothingBound`). `BuiltInv` adds this for `result` to `MatchInv`.
* *Reading it again.* **`BuiltSchemaCanBeRead`** (`MatchSpec => []BuiltSchemaIsReadable`): a node
  that was built is whole (`IsWhole`): its parts pass the checks of the constructors,
  because those of self and of the source did (`field`, the new name, does by
  `FieldNameAssumption`), and it has the name of a node of the source, which is not
  `null`. Such a node is written and read as it is, or with its only field renamed
  (`NodeTwice`); then the whole schema passes its checks again (`AgainOK`, `SchemaTwice`).
  `ReadInv` adds to `MatchInv` that links of self are as they are read, and the result.
* *A schema and itself.* **`EverySchemaMatchesItself`** (`MatchSpec => []SchemaMatchesItself`):
  the first order is that of self, and with it the first way to take a wildcard always
  leads on, with every name of a dimension and of a class bound to itself. No loop
  therefore needs a second order, which is what `SelfInv` adds: each is before its first one.

`MatchCompleteProofs` proves the converse, what `match` finds at any rate:

* *Lists of dimensions.* **`DimensionListsAreDecided`** (`MatchSpec => []DimListsDecided`):
  one half is soundness. For the other, any pair of expansions that agree is a way
  through both lists; by induction on what is left to compare and the steps of the two walks,
  `matchDimList` finds one from every point of such a way (`AgreesNext`, `FitComplete`).
  The first way it takes may be another than the given one, which is no loss because it returns
  only what leads to the end (`FirstFit`). With one singleton of one tensor each there is one
  order, so the answer to the lists is the answer to the call (`OneEach`, `DecidedInv`).
* *Every order of a list.* The iterator gives each order of its list (`Tried`). The turns of a
  frame of size `s` put another element at place `s` each (`From`, `Moved`), and the state of the
  iterator is a chain of arrangements, one for a frame (`Chain`), in which a turn of the frame that
  is due changes the lower ones only (`NextChain`). An order that was not given yet is
  to be made by turns that are still to come; when `hasNext` is false, there are none.
* *Several nodes.* **`DeterminedMatchesAreFound`** (`MatchSpec => []DeterminedMatchIsFound`):
  where no dimension is a wildcard, a node has at most a field of a type, and all nodes
  are of one kind, an embedding says what every name, class and node stands for. As long as
  the maps hold nothing else, no list of dimensions, field, node or list of nodes that
  follows it is refused (`DimsFollow`, `FieldFollows`, `NodeFollows`, `NodesFollow`), so the order of
  nodes that the embedding gives fits (`SomeOrderFits`). `FoundInv` adds to `MatchInv` that every order
  given so far was refused; the one that fits is therefore still to come
  (`NotAllRefused`), and `match` cannot end without an answer before it.

### Search for cycles

The first part of `SchemaInferenceProofs` proves, for every set of instances, every graph on it and every
order in which vertices are taken, without an assumption:

* **`CycleTypes`** and **`DirectedSearchIsRight`** (`CycleSpec => []DirectedVerdict`).
  A vertex may be on the stack several times and may be visited again after it
  was left, so the visited set proves nothing by itself. The invariant
  `SearchInv` has a set `F` of vertices that is closed under successors and
  without a cycle, which every vertex joins when it is left; it says that what
  was visited is in `F` or an ancestor, that what lies on the stack above the
  topmost occurrence of an ancestor can be reached from it, and that each
  successor of an ancestor is in `F`, or above it, or about to be pushed.
  Reachability is "in every closed set", which needs no induction over paths: a
  link back to an ancestor closes a cycle because the vertices between the two are
  a set of which each has a successor in it (`BackLink`), and a vertex that is
  left has all its successors in `F` (`LeaveGoesOn`).
* **`UndirectedSearchIsRight`** and **`SearchImplementsDecision`**
  (`CycleSpec => ImplementsDecision`), the refinement. `ExploreInv` has the
  vertices `K` of the component at work and the links `H` they were reached by,
  which join any two of them by a path (a set of vertices of which all but the
  ends have two neighbours in it). The pairs on the stack are links from `K`
  outside `H`, so one that leads back closes a cycle with a path
  (`ExploreFindsCycle`); and as long as there is a cycle among the vertices
  reached, some pair on the stack leads to one of them, so the search cannot end
  without noticing (`ExploreVisit`, `ExploreEnds`). A call is then a step `Ask`,
  a step that returns is `Answer`, and all others stutter (`StepDecides`).

### Inference

`SchemaInferenceProofs` proves about `RoundTripSpec`, for every set of datasets that are
read and of schemas that datasets are generated from, from `OutcomesAssumption` (`Null` is none of
the other outcomes), `InstancesAssumption` (an instance has an index), `DatasetsAssumption`
(a directory is a list of files that have what files of their type have) and
`OrdersAssumption` (what is generated from is a schema that its constructors accept, with the
instances that there are):

* **`SchemaIsThatOfEverySample`** (`RoundTripSpec => []SchemaFitsSamples`). What is
  inferred is put together by loops over the files of a directory, the fields of a
  node and the children of a sample, each written as a recursive function. That
  such a function exists, and what it returns, is proved by induction on sets of
  numbers (`SetInduction`, from the well-foundedness of `<`), with the statement as
  a set and not as a parameter; one lemma per loop. The invariant `InferInv` says how far the call is
  (`CallInv`) and that each node and class agrees with all samples handled so far
  (`NodesInv`), the sample at work included as far as its steps have come. A dataset
  that is generated never passes through the readers; `GenInv` says that all of it is
  what they would have accepted (`FileRead`) and that its links join instances, whatever is
  drawn, so that inference may rely on a generated dataset as on one that was read
  (`GeneratedIsTree`). `GenInv` was checked with TLC on the orders of the run.
* **`FlagsAreThoseOfAllSamples`** (`RoundTripSpec => []FlagsDescribeSamples`). The
  flags `cyclic`, `undirected` and `fanin` are accumulated over samples, and
  `cyclic` by a call of `isCyclic` in between; `FlagsInv` says whether each sample
  had been counted under the kind of graph that the schema ends with (the
  property's proviso), and takes the verdict of a search from `SearchInv`.
* **`BoundsAreThoseOfLastSample`** (`RoundTripSpec => []LinksFitLastSample`). `LinksInv`
  says that the links of each node have the bounds of the sample that was handled
  last. An index is compared with the number of instances only when it is the largest one
  recorded for its node, and 0 is never recorded; hence index 0 of a node without
  instances is excepted, in the property as in the code; counting how many links of an instance lead to a node needs that the
  destinations of an instance and its links are in one-to-one correspondence
  (`EndpointCounts`).
* **`InferenceDecides`** (`RoundTripSpec => ImplementsDecision`): the refinement of
  `CycleDecision` also holds when `inferSchema` calls the search with one graph
  after the other. A step of inference starts a search or leaves it alone, so that
  `SearchInv` and `ExploreInv` carry over.

### Dialogs

`NewJobWizardProofs` proves, from `WizardAssumption`, for all datasets, objectives
and models and any number of openings, queries and presses of Finish:
**`WizardTypes`**, **`SelectionsAreShown`** (`SelectionIsShown`, inductive with the
types alone: an answer replaces list and selection together), and
**`PatientJobsFit`** (`PatientJobFits`). For the last, `PatientInv` says that as
long as the user has waited, the only query in flight is the one of the step that
is shown (`OneQuery`), it names the dataset that is still selected, and the lists
that were answered belong to that dataset (`ListsBelong`); what was sent or
stored keeps what it had when Finish was pressed (`JobsFit`).

`NewDatasetWizardProofs` proves, from `DialogAssumption`, for all files, ids and
sources: **`DialogTypes`**, **`TransferredIsComplete`** (`TransferredHasContent`),
**`UploadsAreShown`** (`UploadIsWhatWasShown`) and **`SuccessIsReported`**
(`SuccessIsTrue`). They come from one invariant, `DialogInv`. Its first part holds
whatever the user does: each state of a call vouches for something the server has
(`CallOK`), and no step takes it back (`Grows`). The second part is about a
user who has waited: at most one file is being read, and it is the chosen one
(`Reading`); at most one call is waited for, and not while a file is read
(`OneCall`); and it is about the fields the dialog still has (`CallsAreCurrent`),
which is why a callback that reads them again finds what it should.

Calls are removed from the middle of a sequence when they are answered;
`SequenceLemmas` says which index the remaining ones had before (`Former`).

### Only model-checked

* Liveness: `EveryJobCompletes`, `JobsSettle`, `DeadLocksReleased`,
  `DatasetsSettle`, `SearchEnds`, `PanelEnds`. They need fairness and `ENABLED`,
  which are out of the prover's reach.
* `GeneratedFits` of `SchemaGeneration`: that a generated dataset is accepted, and that its
  schema is allowed by the one it was generated from. What is inferred is proved to
  describe the dataset; that the numbers drawn stay within the bounds of a
  `Supported` schema is not proved.

## 5. Plan

1. *Done*: jobs and tasks, the dataset pipeline, the schema and dataset libraries,
   the two dialogs, the refinements of `CycleDecision`, `TaskLife` and `DatasetLife`; proofs
   of their safety properties, generation aside.
2. `ModulePipeline`: the sibling of `DatasetPipeline` for modules. What differs is
   worth a model: `AddModelToApplicableJobs` reads a job's list of models and
   writes it back, so two modules that become active together may lose one; a
   crash between the status `active` and that call leaves a module in no job;
   and a local module file is copied onto a directory that `GetModulePath` has
   just created.
3. `ProcessRegistry`: `CreateProcess`, the ordinals it chooses optimistically, and
   keepalives; are ordinals unique among running processes, does everyone
   register?
4. Cursors of the `Get...` functions (the default order sorts downwards, the cursor
   comparison goes upwards) as operators checked against a reference definition.
5. Proofs: that what is generated keeps the bounds and flags of a `Supported` schema.

## 6. Not modelled

Storage, containers and configuration spaces (files and external programs);
router, handlers other than those of jobs and datasets, logging and the command line
(stateless); the schema libraries in Go and Python, which follow the same
algorithms; the other views of the web interface and the other calls of the
client libraries (presentation over the REST API); the readers of npy and tar
files; vendored code, data sets, example modules.
