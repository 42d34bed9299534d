-------------------------- MODULE NewDatasetWizard --------------------------
(***************************************************************************)
(* The dialog that adds a dataset: NewDataset.vue, the file field in it,   *)
(* the calls of the client library that it makes and the handlers of the   *)
(* server that answer them.  The component keeps its data when the dialog  *)
(* is closed, and callbacks read its fields when they run.  A file stands  *)
(* for its content and the schemas inferred from it.                       *)
(***************************************************************************)
EXTENDS Integers, FiniteSets, SequencesExt

CONSTANTS
    Files,       \* the archives that the user has
    BadFiles,    \* those that no schema can be extracted from
    IdOf,        \* the id that a file name is turned into
    TypedIds,    \* the ids that the user types
    Sources,     \* the kinds of source that the user chooses from
    None,        \* the null of the source
    MaxOpens,    \* bound: how often the dialog is opened
    MaxLoads,    \* bound: files that are being read
    MaxPressed   \* bound: how often Finish is pressed

ASSUME DialogAssumption ==
    /\ BadFiles \subseteq Files /\ IdOf \in [Files -> TypedIds]
    /\ None \notin Files \cup TypedIds
    /\ Sources \subseteq {"upload", "download", "git", "local"} /\ "upload" \in Sources
    /\ {MaxOpens, MaxLoads, MaxPressed} \subseteq Nat

VARIABLES
    open, step,            \* the dialog
    source,                \* datasetSource
    address,               \* whether datasetSourceAddress is not empty
    raw,                   \* datasetRawData
    id,                    \* datasetId
    dumps,                 \* the file whose schemas are shown
    error,                 \* whether an error is shown; nothing clears it
    userId,                \* whether the current user is known
    asking,                \* whether that is being asked
    loads,                 \* the files that are being read, in order
    calls,                 \* calls of the client library in flight
    docs,                  \* server: the documents
    reported,              \* history: the ids of the messages "Dataset Created"
    opened, pressed,       \* how often it was opened, and Finish pressed
    careless               \* history: the user did not wait, or offered a bad file

dialog == <<open, step, source, address, raw, id, dumps, error, userId>>
flight == <<asking, loads, calls>>
bounds == <<opened, pressed>>
vars == <<dialog, flight, docs, reported, bounds, careless>>

Ids == TypedIds \cup {None}
NoDoc == [source |-> "none", status |-> "none", content |-> "none"]

\* Data is told apart by whether it is that of the file whose schemas were shown.
Content == {"none", "shown", "other"}
Doc == [source : Sources \cup {"none"}, status : {"none", "created", "transferred"},
        content : Content]
Call == [op : {"create", "upload", "update"}, id : Ids, source : Sources,
         shown : Files \cup {None}, content : Content, known : BOOLEAN,
         state : {"sent", "ok", "refused"}, waits : BOOLEAN]

TypeOK ==
    /\ open \in BOOLEAN /\ step \in 1..4 /\ source \in Sources /\ address \in BOOLEAN
    /\ {raw, dumps} \subseteq Files \cup {None} /\ id \in Ids
    /\ error \in BOOLEAN /\ userId \in BOOLEAN /\ asking \in BOOLEAN
    /\ loads \in Seq(Files) /\ calls \in Seq(Call)
    /\ docs \in [Ids -> Doc] /\ reported \in SUBSET Ids
    /\ opened \in 0..MaxOpens /\ pressed \in 0..MaxPressed /\ careless \in BOOLEAN

Init ==
    /\ open = FALSE /\ step = 1 /\ source = "upload" /\ address = FALSE
    /\ raw = None /\ id = None /\ dumps = None
    /\ error = FALSE /\ userId = FALSE /\ asking = FALSE
    /\ loads = <<>> /\ calls = <<>>
    /\ docs = [x \in Ids |-> NoDoc] /\ reported = {}
    /\ opened = 0 /\ pressed = 0 /\ careless = FALSE

------------------------------------------------------------------------------
(* Steps of the dialog.                                                    *)

\* A bug: the last step is left in either direction.
SwitchStepUnchecked(direction) ==
    LET next == step + direction
        to == IF next = 2 /\ raw = None THEN next + direction ELSE next
    IN  step' = to /\ raw' = IF to = 1 THEN None ELSE raw

\* switchStep: step 2 is skipped without a file, and coming to step 1 forgets the file.
SwitchStep(direction) ==
    LET next == step + direction
        to == IF next = 2 /\ raw = None THEN next + direction ELSE next
    IN  IF (direction < 0 /\ step <= 1) \/ (direction > 0 /\ step >= 4)
        THEN UNCHANGED <<step, raw>>
        ELSE step' = to /\ raw' = IF to = 1 THEN None ELSE raw

PrevVisible == step > 1 /\ step < 4
NextEnabled == step < 3 /\ IF source = "upload" THEN dumps # None ELSE address
FinishVisible == step = 3

\* The user acts although something that was started has not ended.
Waiting == asking \/ loads # <<>> \/ \E i \in DOMAIN calls : calls[i].waits
GoOn == careless' = (careless \/ Waiting)

\* beforeOpen: switchStep(0) at step 1 forgets the file; the user is asked for again.
Open ==
    /\ ~open /\ opened < MaxOpens /\ ~asking
    /\ open' = TRUE /\ opened' = opened + 1
    /\ step' = 1 /\ raw' = None /\ asking' = TRUE
    /\ GoOn
    /\ UNCHANGED <<source, address, id, dumps, error, userId, loads, calls, docs, reported,
                   pressed>>

Close ==
    /\ open
    /\ open' = FALSE /\ GoOn
    /\ UNCHANGED <<step, source, address, raw, id, dumps, error, userId, flight, docs,
                   reported, bounds>>

Prev ==
    /\ open /\ PrevVisible
    /\ SwitchStep(-1) /\ GoOn
    /\ UNCHANGED <<open, source, address, id, dumps, error, userId, flight, docs, reported,
                   bounds>>

Next ==
    /\ open /\ NextEnabled
    /\ SwitchStep(1) /\ GoOn
    /\ UNCHANGED <<open, source, address, id, dumps, error, userId, flight, docs, reported,
                   bounds>>

ChooseSource(s) ==
    /\ open /\ step = 1 /\ s # source
    /\ source' = s /\ GoOn
    /\ UNCHANGED <<open, step, address, raw, id, dumps, error, userId, flight, docs, reported,
                   bounds>>

TypeAddress ==
    /\ open /\ step = 1 /\ source # "upload" /\ ~address
    /\ address' = TRUE /\ GoOn
    /\ UNCHANGED <<open, step, source, raw, id, dumps, error, userId, flight, docs, reported,
                   bounds>>

TypeId(x) ==
    /\ open /\ step = 3 /\ x # id
    /\ id' = x /\ GoOn
    /\ UNCHANGED <<open, step, source, address, raw, dumps, error, userId, flight, docs,
                   reported, bounds>>

\* newDatasetInput: the file is taken and its reading is started.
NewDatasetInput(f) ==
    /\ open /\ step = 1 /\ source = "upload" /\ Len(loads) < MaxLoads
    /\ raw' = f /\ id' = IdOf[f]
    /\ loads' = Append(loads, f)
    /\ GoOn
    /\ UNCHANGED <<open, step, source, address, dumps, error, userId, asking, calls, docs,
                   reported, bounds>>

\* A bug: schemas that are shown already are not replaced.
LoadedOnce(i) ==
    /\ loads' = RemoveAt(loads, i)
    /\ loads[i] \notin BadFiles
    /\ dumps' = IF dumps = None THEN loads[i] ELSE dumps
    /\ SwitchStep(1)
    /\ UNCHANGED <<open, source, address, id, error, userId, asking, calls, docs, reported,
                   bounds, careless>>

\* The file has been read: extractSchema succeeds and the dialog goes one step on, from
\* whichever step it shows.
Loaded(i) ==
    /\ loads' = RemoveAt(loads, i)
    /\ loads[i] \notin BadFiles
    /\ dumps' = loads[i]
    /\ SwitchStep(1)
    /\ UNCHANGED <<open, source, address, id, error, userId, asking, calls, docs, reported,
                   bounds, careless>>

\* The file cannot be read, which is logged only, or extractSchema fails with an error;
\* the schemas that are shown stay.
NotLoaded(i) ==
    /\ loads' = RemoveAt(loads, i)
    /\ loads[i] \in BadFiles
    /\ error' \in {error, TRUE}
    /\ careless' = TRUE
    /\ UNCHANGED <<open, step, source, address, raw, id, dumps, userId, asking, calls, docs,
                   reported, bounds>>

\* The answer of getUserById, or an error that is logged only.
UserKnown ==
    /\ asking
    /\ asking' = FALSE
    /\ userId' \in {userId, TRUE}
    /\ UNCHANGED <<open, step, source, address, raw, id, dumps, error, loads, calls, docs,
                   reported, bounds, careless>>

------------------------------------------------------------------------------
(* Calls of the client library.                                            *)

MakeCall(op, x, s, shown, content, known) ==
    [op |-> op, id |-> x, source |-> s, shown |-> shown, content |-> content, known |-> known,
     state |-> "sent", waits |-> TRUE]

CreateDataset(x, s, known) == MakeCall("create", x, s, dumps, "none", known)

\* The file of this moment is sent; shown is the file that the dialog showed.
UploadDataset(x, shown) ==
    MakeCall("upload", x, source, None, IF raw = shown THEN "shown" ELSE "other", TRUE)

UpdateDataset(x, s) == MakeCall("update", x, s, None, "none", TRUE)

\* finish: for a git source the path is appended to the address field itself.
Finish ==
    /\ open /\ FinishVisible /\ pressed < MaxPressed
    /\ pressed' = pressed + 1
    /\ address' = (address \/ source = "git")
    /\ calls' = Append(calls, CreateDataset(id, source, userId))
    /\ GoOn
    /\ UNCHANGED <<open, step, source, raw, id, dumps, error, userId, asking, loads, docs,
                   reported, opened>>

\* CreateDataset refuses an id that is taken or has no user; the others insert.
HandleCreate(i) ==
    LET c == calls[i]
        ok == c.known /\ docs[c.id] = NoDoc
    IN  /\ c.op = "create" /\ c.state = "sent"
        /\ docs' = IF ok THEN [docs EXCEPT ![c.id] = [source |-> c.source, status |-> "created",
                                                      content |-> "none"]]
                   ELSE docs
        /\ calls' = IF c.waits THEN [calls EXCEPT ![i].state = IF ok THEN "ok" ELSE "refused"]
                    ELSE RemoveAt(calls, i)
        /\ UNCHANGED <<dialog, asking, loads, reported, bounds, careless>>

\* The upload handler takes data for a created dataset whose source is upload.
MayUpload(x) == docs[x].source = "upload" /\ docs[x].status = "created"

HandleUpload(i) ==
    /\ calls[i].op = "upload" /\ calls[i].state = "sent"
    /\ IF MayUpload(calls[i].id)
       THEN /\ docs' = [docs EXCEPT ![calls[i].id].content = calls[i].content]
            /\ calls' = [calls EXCEPT ![i].state = "ok"]
       ELSE calls' = [calls EXCEPT ![i].state = "refused"] /\ UNCHANGED docs
    /\ UNCHANGED <<dialog, asking, loads, reported, bounds, careless>>

\* UpdateDataset writes the status whatever it was.
HandleUpdate(i) ==
    /\ calls[i].op = "update" /\ calls[i].state = "sent"
    /\ docs' = [docs EXCEPT ![calls[i].id].status = "transferred"]
    /\ calls' = IF calls[i].waits THEN [calls EXCEPT ![i].state = "ok"] ELSE RemoveAt(calls, i)
    /\ UNCHANGED <<dialog, asking, loads, reported, bounds, careless>>

------------------------------------------------------------------------------
(* Their callbacks.                                                        *)

\* sucess: the message is shown and the dialog is closed.
Sucess(x) == open' = FALSE /\ reported' = reported \cup {x}

\* A bug: whether there is something to upload is decided by the file.
CreatedByFile(i) ==
    /\ calls[i].op = "create" /\ calls[i].state = "ok"
    /\ IF raw # None
       THEN /\ SwitchStep(1)
            /\ calls' = [calls EXCEPT ![i] = UploadDataset(@.id, @.shown)]
            /\ UNCHANGED <<open, reported>>
       ELSE Sucess(calls[i].id) /\ calls' = RemoveAt(calls, i) /\ UNCHANGED <<step, raw>>
    /\ UNCHANGED <<source, address, id, dumps, error, userId, asking, loads, docs, bounds,
                   careless>>

\* createDataset resolved.  The fields are read as they are now: an upload needs the
\* file, and without one its name cannot be read, which ends in the catch.
Created(i) ==
    /\ calls[i].op = "create" /\ calls[i].state = "ok"
    /\ \/ /\ source # "upload"
          /\ Sucess(calls[i].id)
          /\ calls' = RemoveAt(calls, i)
          /\ UNCHANGED <<step, raw, error>>
       \/ /\ source = "upload"
          /\ SwitchStep(1)
          /\ IF raw' # None
             THEN /\ calls' = [calls EXCEPT ![i] = UploadDataset(@.id, @.shown)]
                  /\ UNCHANGED error
             ELSE calls' = RemoveAt(calls, i) /\ error' = TRUE
          /\ UNCHANGED <<open, reported>>
    /\ UNCHANGED <<source, address, id, dumps, userId, asking, loads, docs, bounds, careless>>

\* A bug: the end of the upload is not followed by the update.
UploadedOnly(i) ==
    /\ calls[i].op = "upload" /\ calls[i].state = "ok"
    /\ calls' = RemoveAt(calls, i)
    /\ UNCHANGED <<dialog, asking, loads, docs, reported, bounds, careless>>

\* uploadDataset resolved: the status is set.
Uploaded(i) ==
    /\ calls[i].op = "upload" /\ calls[i].state = "ok"
    /\ calls' = [calls EXCEPT ![i] = UpdateDataset(@.id, @.source)]
    /\ UNCHANGED <<dialog, asking, loads, docs, reported, bounds, careless>>

Updated(i) ==
    /\ calls[i].op = "update" /\ calls[i].state = "ok"
    /\ Sucess(calls[i].id)
    /\ calls' = RemoveAt(calls, i)
    /\ UNCHANGED <<step, source, address, raw, id, dumps, error, userId, asking, loads, docs,
                   bounds, careless>>

\* A bug: an upload that breaks off is taken for one that ended.
FailedAnyway(i) ==
    /\ calls[i].waits
    /\ calls' = IF calls[i].op = "upload"
                THEN [calls EXCEPT ![i] = UpdateDataset(@.id, @.source)]
                ELSE RemoveAt(calls, i)
    /\ error' = TRUE
    /\ UNCHANGED <<open, step, source, address, raw, id, dumps, userId, asking, loads, docs,
                   reported, bounds, careless>>

\* A call is rejected: the server refused it, or its answer did not come in time.  In
\* the second case the server may have handled it, or handle it later; tus gives up
\* only after its retries, so that an upload has ended by then.
Failed(i) ==
    /\ calls[i].waits
    /\ calls' = IF calls[i].state = "sent" /\ calls[i].op # "upload"
                THEN [calls EXCEPT ![i].waits = FALSE] ELSE RemoveAt(calls, i)
    /\ error' = TRUE
    /\ UNCHANGED <<open, step, source, address, raw, id, dumps, userId, asking, loads, docs,
                   reported, bounds, careless>>

\* A request that was given up never reaches the server.
Lost(i) ==
    /\ ~calls[i].waits
    /\ calls' = RemoveAt(calls, i)
    /\ UNCHANGED <<dialog, asking, loads, docs, reported, bounds, careless>>

------------------------------------------------------------------------------
User ==
    \/ Open \/ Close \/ Prev \/ Next \/ TypeAddress \/ Finish
    \/ \E s \in Sources : ChooseSource(s)
    \/ \E x \in TypedIds : TypeId(x)
    \/ \E f \in Files : NewDatasetInput(f)

CallStep(i) ==
    \/ HandleCreate(i) \/ HandleUpload(i) \/ HandleUpdate(i)
    \/ Created(i) \/ Uploaded(i) \/ Updated(i) \/ Failed(i) \/ Lost(i)

Step ==
    \/ User \/ UserKnown
    \/ \E i \in DOMAIN loads : Loaded(i) \/ NotLoaded(i)
    \/ \E i \in DOMAIN calls : CallStep(i)

\* The calls go on: each is answered or fails, axios after one second and tus after
\* its retries.
Spec == Init /\ [][Step]_vars /\ WF_vars(\E i \in DOMAIN calls : CallStep(i))

------------------------------------------------------------------------------
(* Properties.                                                             *)

\* A dataset that was uploaded says transferred only once its data is complete on the
\* server, whatever the user does and whichever calls fail or are late: the pipeline
\* unpacks what it finds then.
TransferredHasContent ==
    \A x \in Ids : docs[x].status = "transferred" => docs[x].content # "none"

\* A user who waits for what they started uploads the file whose schemas the dialog
\* showed when Finish was pressed.
UploadIsWhatWasShown ==
    ~careless => \A x \in Ids : docs[x].content # "other"

\* To a user who waits, "Dataset Created" is said only of a dataset that exists and, if
\* it was to be uploaded, has been: also when earlier calls failed or timed out.
SuccessIsTrue ==
    ~careless => \A x \in reported :
        /\ docs[x].status # "none"
        /\ docs[x].source = "upload" => docs[x].status = "transferred"

\* The upload panel has no buttons.  A user who waits does not stay in it: it closes
\* or an error appears.
PanelEnds == (open /\ step = 4) ~> (~open \/ step # 4 \/ error \/ careless)
==============================================================================
