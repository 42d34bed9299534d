--------------------------- MODULE DatasetPipeline ---------------------------
(***************************************************************************)
(* Datasets on their way from creation to validation.  Users create them,  *)
(* upload them and archive them; the listeners of every controller lock    *)
(* those that are created, transferred or unpacked, and start a goroutine  *)
(* that transfers, unpacks or validates one and unlocks it.  Goroutines    *)
(* share the file system: a dataset has a staged archive (.download or     *)
(* .upload) and, next to it, its unpacked content.  A panic of any         *)
(* goroutine ends its controller, and the other controllers release the    *)
(* locks it held.                                                          *)
(*                                                                         *)
(* Datasets are numbered in the order of their creation.  A local source   *)
(* is a file or a directory.  Addresses of git sources are well formed,    *)
(* and archive formats detect a truncated file.  A dataset is uploaded by  *)
(* one client.  Of the statuses a PATCH may write, users send archived and *)
(* the client library transferred.                                         *)
(***************************************************************************)
EXTENDS Integers

CONSTANTS
    Controllers,
    NoProc,        \* the null process field
    NumDatasets,   \* bound: datasets created
    SourceKinds,   \* where they come from
    DataFails,     \* whether transfers, archives and schemas may be bad
    MaxArchived,   \* bound: requests to archive a dataset
    MaxCrashes     \* bound: controllers that crash by themselves

ASSUME PipelineAssumption ==
    /\ NoProc \notin Controllers
    /\ NumDatasets \in Nat
    /\ SourceKinds \subseteq {"upload", "download", "git", "localfile", "localdir"}
    /\ DataFails \in BOOLEAN
    /\ MaxArchived \in Nat
    /\ MaxCrashes \in Nat

Datasets == 1 .. NumDatasets

VARIABLES
    source, status, lock,  \* fields of the dataset documents
    schema,                \* whether the schemas inferred from the files are stored
    archive,               \* the staged archive of each dataset
    content,               \* its unpacked files
    client,                \* the step of easemlclient on each dataset
    worker,                \* the goroutine each controller runs for each dataset
    alive, terminated,     \* per controller: it runs; its document says terminated
    reaping,               \* the dead controller whose locks a controller releases
    archivals, crashes     \* how much of the bounds is used

docVars == <<source, status, lock, schema>>
fileVars == <<archive, content>>
procVars == <<alive, terminated, reaping>>
boundVars == <<archivals, crashes>>
vars == <<docVars, fileVars, client, worker, procVars, boundVars>>

Status == {"none", "created", "transferred", "unpacked", "validated", "archived", "error"}
Extent == {"absent", "partial", "complete"}
Step == {"none", "transfer", "flush", "transferring", "setTransferred",
         "unpack", "unpacking", "cleanup", "setUnpacked",
         "infer", "setSchema", "setValidated", "setError", "unlock"}

DatasetTypeOK ==
    /\ source \in [Datasets -> SourceKinds \cup {"none"}]
    /\ status \in [Datasets -> Status]
    /\ lock \in [Datasets -> Controllers \cup {NoProc}]
    /\ schema \in [Datasets -> BOOLEAN]
    /\ archive \in [Datasets -> Extent] /\ content \in [Datasets -> Extent]
    /\ client \in [Datasets -> {"idle", "uploading", "uploaded"}]
    /\ worker \in [Controllers -> [Datasets -> Step]]
    /\ alive \in [Controllers -> BOOLEAN] /\ terminated \in [Controllers -> BOOLEAN]
    /\ reaping \in [Controllers -> Controllers \cup {NoProc}]
    /\ archivals \in 0 .. MaxArchived /\ crashes \in 0 .. MaxCrashes

Init ==
    /\ source = [d \in Datasets |-> "none"]
    /\ status = [d \in Datasets |-> "none"]
    /\ lock = [d \in Datasets |-> NoProc]
    /\ schema = [d \in Datasets |-> FALSE]
    /\ archive = [d \in Datasets |-> "absent"]
    /\ content = [d \in Datasets |-> "absent"]
    /\ client = [d \in Datasets |-> "idle"]
    /\ worker = [c \in Controllers |-> [d \in Datasets |-> "none"]]
    /\ alive = [c \in Controllers |-> TRUE]
    /\ terminated = [c \in Controllers |-> FALSE]
    /\ reaping = [c \in Controllers |-> NoProc]
    /\ archivals = 0 /\ crashes = 0

------------------------------------------------------------------------------
(* Users and the client library.                                           *)

\* Mutant of CreateDataset: the source is not looked at.
CreateDatasetUnchecked(d, kind) ==
    /\ status[d] = "none"
    /\ source' = [source EXCEPT ![d] = "unknown"]
    /\ status' = [status EXCEPT ![d] = "created"]
    /\ UNCHANGED <<lock, schema, fileVars, client, worker, procVars, boundVars>>

CreateDataset(d, kind) ==
    /\ status[d] = "none"
    /\ \A e \in 1 .. d - 1 : status[e] # "none"
    /\ source' = [source EXCEPT ![d] = kind]
    /\ status' = [status EXCEPT ![d] = "created"]
    /\ UNCHANGED <<lock, schema, fileVars, client, worker, procVars, boundVars>>

\* Mutant of MayUpload: the handler does not look at the status.
MayUploadAnyTime(d) == source[d] = "upload"

\* The upload handler takes files only for a created dataset of source upload.
MayUpload(d) == source[d] = "upload" /\ status[d] = "created"

\* UploadDataset of the client first creates the upload ...
BeginUpload(d) ==
    /\ client[d] = "idle"
    /\ MayUpload(d)
    /\ archive' = [archive EXCEPT ![d] = "partial"]
    /\ client' = [client EXCEPT ![d] = "uploading"]
    /\ UNCHANGED <<docVars, content, worker, procVars, boundVars>>

\* ... then sends the data, which may be refused or break off, ...
SendUpload(d) ==
    /\ client[d] = "uploading"
    /\ client' = [client EXCEPT ![d] = "uploaded"]
    /\ \/ MayUpload(d) /\ archive' = [archive EXCEPT ![d] = "complete"]
       \/ (DataFails \/ ~MayUpload(d)) /\ UNCHANGED archive
    /\ UNCHANGED <<docVars, content, worker, procVars, boundVars>>

\* ... and sets the status in either case.
FinishUpload(d) ==
    /\ client[d] = "uploaded"
    /\ status' = [status EXCEPT ![d] = "transferred"]
    /\ client' = [client EXCEPT ![d] = "idle"]
    /\ UNCHANGED <<source, lock, schema, fileVars, worker, procVars, boundVars>>

ArchiveDataset(d) ==
    /\ archivals < MaxArchived
    /\ status[d] # "none"
    /\ status' = [status EXCEPT ![d] = "archived"]
    /\ archivals' = archivals + 1
    /\ UNCHANGED <<source, lock, schema, fileVars, client, worker, procVars, crashes>>

UserStep(d) ==
    \/ \E kind \in SourceKinds : CreateDataset(d, kind)
    \/ BeginUpload(d) \/ SendUpload(d) \/ FinishUpload(d)
    \/ ArchiveDataset(d)

------------------------------------------------------------------------------
(* Listeners and goroutines of a controller.                               *)

Goto(c, d, step) == worker' = [worker EXCEPT ![c][d] = step]

At(c, d, step) == alive[c] /\ worker[c][d] = step

\* A panic ends the process, and every goroutine of it.
Panic(c) ==
    /\ alive' = [alive EXCEPT ![c] = FALSE]
    /\ worker' = [worker EXCEPT ![c] = [d \in Datasets |-> "none"]]
    /\ reaping' = [reaping EXCEPT ![c] = NoProc]
    /\ UNCHANGED <<docVars, fileVars, client, terminated>>

\* Mutant of Wanted: the validator does not wait for the unpacker.
WantedTooEarly(d, step) ==
    \/ step = "transfer" /\ status[d] = "created" /\ source[d] # "upload"
    \/ step = "unpack"   /\ status[d] = "transferred"
    \/ step = "infer"    /\ status[d] \in {"transferred", "unpacked"}

\* What a listener asks LockDataset for, and the goroutine it starts.
Wanted(d, step) ==
    \/ step = "transfer" /\ status[d] = "created" /\ source[d] # "upload"
    \/ step = "unpack"   /\ status[d] = "transferred"
    \/ step = "infer"    /\ status[d] = "unpacked"

\* The query a listener sends: created datasets are asked for by their source,
\* transferred and unpacked ones are not.
SameQuery(d, e, step) ==
    \/ step # "transfer"
    \/ source[d] = source[e]
    \/ {source[d], source[e]} \subseteq {"localfile", "localdir"}

\* Mutant of Lockable: the query forgets the process field.
LockableByAnyone(d, step) == Wanted(d, step)

Lockable(d, step) == lock[d] = NoProc /\ Wanted(d, step)

\* LockDataset locks the newest dataset of the query.
Listen(c, d, step) ==
    /\ alive[c]
    /\ Lockable(d, step)
    /\ \A e \in d + 1 .. NumDatasets : ~(Lockable(e, step) /\ SameQuery(d, e, step))
    /\ lock' = [lock EXCEPT ![d] = c]
    /\ Goto(c, d, step)
    /\ UNCHANGED <<source, status, schema, fileVars, client, procVars, boundVars>>

\* Sources whose data is first staged as an archive.
Staged(d) == source[d] \in {"upload", "download", "git"}

\* DatasetDownloadWorker, DatasetGitWorker and DatasetLocalCopyWorker.  A local
\* file is left where it is, a local directory is copied at once to its place.
BeginTransfer(c, d) ==
    /\ At(c, d, "transfer")
    /\ \/ /\ source[d] = "download"
          /\ archive' = [archive EXCEPT ![d] = "partial"]
          /\ Goto(c, d, "transferring") /\ UNCHANGED content
       \/ source[d] = "git" /\ Goto(c, d, "flush") /\ UNCHANGED fileVars
       \/ source[d] = "localfile" /\ Goto(c, d, "setTransferred") /\ UNCHANGED fileVars
       \/ /\ source[d] = "localdir"
          /\ content' = [content EXCEPT ![d] = "partial"]
          /\ Goto(c, d, "transferring") /\ UNCHANGED archive
       \/ /\ DataFails /\ source[d] \in {"localfile", "localdir"}
          /\ Goto(c, d, "setError") /\ UNCHANGED fileVars
    /\ UNCHANGED <<docVars, client, procVars, boundVars>>

\* The clone of a git source is followed by FlushDatasetAccessKey, which changes
\* no field that matters here, and by the copy into the archive.
FlushAccessKey(c, d) ==
    /\ At(c, d, "flush")
    /\ archive' = [archive EXCEPT ![d] = "partial"]
    /\ Goto(c, d, "transferring")
    /\ UNCHANGED <<docVars, content, client, procVars, boundVars>>

EndTransfer(c, d) ==
    /\ At(c, d, "transferring")
    /\ \/ /\ Goto(c, d, "setTransferred")
          /\ IF Staged(d) THEN archive' = [archive EXCEPT ![d] = "complete"] /\ UNCHANGED content
                          ELSE content' = [content EXCEPT ![d] = "complete"] /\ UNCHANGED archive
       \/ DataFails /\ Goto(c, d, "setError") /\ UNCHANGED fileVars
    /\ UNCHANGED <<docVars, client, procVars, boundVars>>

\* DatasetUnpackWorker.  A downloaded archive that is not there has no known
\* format; the directory of an upload that is not there is a panic.
BeginUnpack(c, d) ==
    /\ At(c, d, "unpack")
    /\ \/ /\ source[d] = "localfile" \/ (Staged(d) /\ archive[d] # "absent")
          /\ content' = [content EXCEPT ![d] = "partial"]
          /\ Goto(c, d, "unpacking")
       \/ source[d] = "localdir" /\ Goto(c, d, "setUnpacked") /\ UNCHANGED content
       \/ /\ \/ source[d] \in {"download", "git"} /\ archive[d] = "absent"
             \/ source[d] \in {"localfile", "localdir"} /\ DataFails
          /\ Goto(c, d, "setError") /\ UNCHANGED content
    /\ UNCHANGED <<docVars, archive, client, procVars, boundVars>>

UnpackPanics(c, d) ==
    /\ At(c, d, "unpack")
    /\ source[d] = "upload" /\ archive[d] = "absent"
    /\ Panic(c)
    /\ UNCHANGED boundVars

\* Mutant of EndUnpack: the error of the archiver is not looked at.
EndUnpackUnchecked(c, d) ==
    /\ At(c, d, "unpacking")
    /\ Goto(c, d, "cleanup")
    /\ UNCHANGED <<docVars, fileVars, client, procVars, boundVars>>

EndUnpack(c, d) ==
    /\ At(c, d, "unpacking")
    /\ \/ /\ Staged(d) => archive[d] = "complete"
          /\ content' = [content EXCEPT ![d] = "complete"]
          /\ Goto(c, d, "cleanup")
       \/ /\ DataFails \/ (Staged(d) /\ archive[d] # "complete")
          /\ Goto(c, d, "setError") /\ UNCHANGED content
    /\ UNCHANGED <<docVars, archive, client, procVars, boundVars>>

\* Delete the temp directories.
Cleanup(c, d) ==
    /\ At(c, d, "cleanup")
    /\ archive' = [archive EXCEPT ![d] = "absent"]
    /\ Goto(c, d, "setUnpacked")
    /\ UNCHANGED <<docVars, content, client, procVars, boundVars>>

\* DatasetValidatorkWorker: the schema of incomplete content may be missing or
\* may look right.
Infer(c, d) ==
    /\ At(c, d, "infer")
    /\ \/ content[d] # "absent" /\ Goto(c, d, "setSchema")
       \/ (DataFails \/ content[d] # "complete") /\ Goto(c, d, "setError")
    /\ UNCHANGED <<docVars, fileVars, client, procVars, boundVars>>

SetSchema(c, d) ==
    /\ At(c, d, "setSchema")
    /\ schema' = [schema EXCEPT ![d] = TRUE]
    /\ Goto(c, d, "setValidated")
    /\ UNCHANGED <<source, status, lock, fileVars, client, procVars, boundVars>>

\* UpdateDatasetStatus writes the status whatever it is by then.
SetStatus(c, d, step, new) ==
    /\ At(c, d, step)
    /\ status' = [status EXCEPT ![d] = new]
    /\ Goto(c, d, "unlock")
    /\ UNCHANGED <<source, lock, schema, fileVars, client, procVars, boundVars>>

\* After an error the goroutine returns and the dataset stays locked.
SetError(c, d) ==
    /\ At(c, d, "setError")
    /\ status' = [status EXCEPT ![d] = "error"]
    /\ Goto(c, d, "none")
    /\ UNCHANGED <<source, lock, schema, fileVars, client, procVars, boundVars>>

\* Mutant of UnlockDataset: the goroutine returns without unlocking.
UnlockDatasetForgotten(c, d) ==
    /\ At(c, d, "unlock")
    /\ Goto(c, d, "none")
    /\ UNCHANGED <<docVars, fileVars, client, procVars, boundVars>>

\* UnlockDataset finds the lock of its own process.
UnlockDataset(c, d) ==
    /\ At(c, d, "unlock")
    /\ lock[d] = c
    /\ lock' = [lock EXCEPT ![d] = NoProc]
    /\ Goto(c, d, "none")
    /\ UNCHANGED <<source, status, schema, fileVars, client, procVars, boundVars>>

Work(c, d) ==
    \/ BeginTransfer(c, d) \/ FlushAccessKey(c, d) \/ EndTransfer(c, d)
    \/ BeginUnpack(c, d) \/ UnpackPanics(c, d) \/ EndUnpack(c, d) \/ Cleanup(c, d)
    \/ Infer(c, d) \/ SetSchema(c, d)
    \/ SetStatus(c, d, "setTransferred", "transferred")
    \/ SetStatus(c, d, "setUnpacked", "unpacked")
    \/ SetStatus(c, d, "setValidated", "validated")
    \/ SetError(c, d) \/ UnlockDataset(c, d)

------------------------------------------------------------------------------
(* TerminateDeadProcesses, for the collection of datasets, and crashes.     *)

DeclareDead(c, p) ==
    /\ alive[c] /\ reaping[c] = NoProc
    /\ ~alive[p] /\ ~terminated[p]
    /\ terminated' = [terminated EXCEPT ![p] = TRUE]
    /\ reaping' = [reaping EXCEPT ![c] = p]
    /\ UNCHANGED <<docVars, fileVars, client, worker, alive, boundVars>>

ReleaseDatasetLockByProcess(c) ==
    /\ alive[c] /\ reaping[c] # NoProc
    /\ lock' = [d \in Datasets |->
                  IF lock[d] = reaping[c] /\ status[d] # "error" THEN NoProc ELSE lock[d]]
    /\ reaping' = [reaping EXCEPT ![c] = NoProc]
    /\ UNCHANGED <<source, status, schema, fileVars, client, worker, alive, terminated, boundVars>>

Reap(c) == (\E p \in Controllers : DeclareDead(c, p)) \/ ReleaseDatasetLockByProcess(c)

Crash(c) ==
    /\ alive[c] /\ crashes < MaxCrashes
    /\ Panic(c)
    /\ crashes' = crashes + 1
    /\ UNCHANGED archivals

------------------------------------------------------------------------------
Next ==
    \/ \E d \in Datasets : UserStep(d)
    \/ \E c \in Controllers, d \in Datasets, step \in {"transfer", "unpack", "infer"} :
          Listen(c, d, step)
    \/ \E c \in Controllers, d \in Datasets : Work(c, d)
    \/ \E c \in Controllers : Reap(c) \/ Crash(c)

Spec == Init /\ [][Next]_vars

\* The listeners poll for ever, goroutines are not starved, and the client
\* finishes what it has begun.  Users and crashes owe nothing.
Fairness ==
    /\ \A c \in Controllers :
          /\ \A step \in {"transfer", "unpack", "infer"} :
                WF_vars(\E d \in Datasets : Listen(c, d, step))
          /\ \A d \in Datasets : WF_vars(Work(c, d))
          /\ WF_vars(Reap(c))
    /\ \A d \in Datasets : WF_vars(SendUpload(d)) /\ WF_vars(FinishUpload(d))

FairSpec == Spec /\ Fairness

------------------------------------------------------------------------------
(* Properties.                                                             *)

\* A dataset is handled by one goroutine of one controller, the one its process
\* field names: two controllers never transfer or unpack over each other.
OneHandler ==
    \A c \in Controllers, d \in Datasets : worker[c][d] # "none" => alive[c] /\ lock[d] = c

\* Jobs may use a validated dataset: all its files are in place and its schemas
\* are known, whatever uploads broke off and whichever controllers crashed.
ValidatedIsUsable ==
    \A d \in Datasets : status[d] = "validated" => content[d] = "complete" /\ schema[d]

\* The staged archive is deleted only when everything in it has been unpacked:
\* no crash loses the data of a dataset that was transferred.
NothingLost ==
    \A d \in Datasets :
       /\ status[d] \in {"transferred", "unpacked"} /\ Staged(d)
       => archive[d] # "absent" \/ content[d] = "complete"

Life == INSTANCE DatasetLife WITH Procs <- Controllers, holder <- lock

\* Listeners, goroutines, reaper and clients together treat every dataset as
\* DatasetLife says: only who has locked a dataset writes its files, its schema
\* and its status, although UpdateDatasetStatus looks at nothing; each status is
\* reached from the one before, with the files it promises, and no step is done
\* again on a dataset that has gone on, has failed or was archived and released.
DatasetsLiveOnce == Life!Spec

\* A dataset whose processing has begun gets validated, archived or fails, as
\* long as a controller is left.
DatasetsSettle ==
    \A d \in Datasets :
       (status[d] \in {"transferred", "unpacked"}) ~>
          (status[d] \in {"validated", "archived", "error"} \/ \A c \in Controllers : ~alive[c])

\* The unpack listener unpacks transferred datasets (DatasetUnpackListener).
TransferredGetUnpacked ==
    \A d \in Datasets : status[d] = "transferred" ~> status[d] # "transferred"
==============================================================================
