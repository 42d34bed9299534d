---------------------------- MODULE DatasetProofs ----------------------------
(***************************************************************************)
(* Theorems about DatasetPipeline, for every number of controllers,        *)
(* datasets and crashes.                                                   *)
(***************************************************************************)
EXTENDS DatasetPipeline, TLAPS

------------------------------------------------------------------------------
(* The inductive invariant.                                                *)

\* A controller whose locks are being released is dead.
ReapedAreDead ==
    \A c \in Controllers : reaping[c] # NoProc => reaping[c] \in Controllers /\ ~alive[reaping[c]]

\* While the client uploads, no controller is interested in the dataset.
UploadsAreAlone ==
    \A d \in Datasets : client[d] # "idle" =>
       /\ source[d] = "upload" /\ status[d] \in {"created", "archived"}
       /\ lock[d] = NoProc /\ archive[d] # "absent"

TransferSteps == {"transfer", "flush", "transferring", "setTransferred"}
UnpackSteps == {"unpack", "unpacking", "cleanup", "setUnpacked"}
ValidateSteps == {"infer", "setSchema", "setValidated"}

\* The goroutine of a dataset was started for the status the dataset still has,
\* unless a user has archived it meanwhile.
StartedForStatus(c, d) ==
    /\ worker[c][d] \in TransferSteps => status[d] \in {"created", "archived"} /\ source[d] # "upload"
    /\ worker[c][d] \in UnpackSteps => status[d] \in {"transferred", "archived"}
    /\ worker[c][d] \in ValidateSteps => status[d] \in {"unpacked", "archived"}
    /\ worker[c][d] = "setError" => status[d] \in {"created", "transferred", "unpacked", "archived"}
    /\ worker[c][d] = "unlock" => status[d] \in {"transferred", "unpacked", "validated", "archived"}

\* What the steps of a goroutine know of the files.
KnowsFiles(c, d) ==
    /\ worker[c][d] \in {"cleanup", "setUnpacked"} \cup ValidateSteps => content[d] = "complete"
    /\ worker[c][d] = "setValidated" => schema[d]
    /\ worker[c][d] = "flush" => Staged(d)
    /\ worker[c][d] = "transferring" /\ ~Staged(d) => source[d] = "localdir"
    /\ worker[c][d] \in {"setTransferred", "unpack"} /\ source[d] = "localdir" => content[d] = "complete"
    /\ worker[c][d] = "unpacking" => source[d] # "localdir" /\ (Staged(d) => archive[d] # "absent")
    /\ worker[c][d] = "setTransferred" /\ Staged(d) => archive[d] # "absent"

\* What the status of a dataset says about its files.
StatusKnowsFiles(d) ==
    /\ status[d] \in {"unpacked", "validated"} => content[d] = "complete"
    /\ status[d] = "validated" => schema[d]
    /\ status[d] = "transferred" /\ source[d] = "localdir" => content[d] = "complete"
    /\ status[d] = "transferred" /\ Staged(d) => archive[d] # "absent" \/ content[d] = "complete"
    /\ status[d] = "none" => lock[d] = NoProc
    /\ status[d] = "created" /\ source[d] = "upload" => lock[d] = NoProc

WorkInv ==
    /\ OneHandler
    /\ ReapedAreDead
    /\ UploadsAreAlone
    /\ \A c \in Controllers, d \in Datasets : StartedForStatus(c, d) /\ KnowsFiles(c, d)
    /\ \A d \in Datasets : StatusKnowsFiles(d)

------------------------------------------------------------------------------
(* Type correctness.                                                       *)

LEMMA InitTypes == Init => DatasetTypeOK
BY PipelineAssumption DEF Init, DatasetTypeOK, Status, Extent, Step

LEMMA NextTypes == DatasetTypeOK /\ [Next]_vars => DatasetTypeOK'
<1> SUFFICES ASSUME DatasetTypeOK, [Next]_vars PROVE DatasetTypeOK'
  OBVIOUS
<1> USE PipelineAssumption
    DEF DatasetTypeOK, docVars, fileVars, procVars, boundVars, At
<1>s. /\ {"created", "transferred", "unpacked", "validated", "archived", "error"} \subseteq Status
      /\ {"absent", "partial", "complete"} \subseteq Extent
      /\ {"none", "transfer", "flush", "transferring", "setTransferred", "unpack", "unpacking",
          "cleanup", "setUnpacked", "infer", "setSchema", "setValidated", "setError",
          "unlock"} \subseteq Step
  BY DEF Status, Extent, Step
<1>g. ASSUME NEW c \in Controllers, NEW d \in Datasets, NEW step \in Step, Goto(c, d, step)
      PROVE  worker' \in [Controllers -> [Datasets -> Step]]
  BY <1>g DEF Goto
<1>f. ASSUME NEW d \in Datasets, NEW x \in Extent
      PROVE  /\ archive' = [archive EXCEPT ![d] = x] => archive' \in [Datasets -> Extent]
             /\ content' = [content EXCEPT ![d] = x] => content' \in [Datasets -> Extent]
  <2>1. archive \in [Datasets -> Extent] /\ content \in [Datasets -> Extent]
    OBVIOUS
  <2> HIDE DEF DatasetTypeOK
  <2>2. archive' = [archive EXCEPT ![d] = x] => archive' \in [Datasets -> Extent]
    BY <2>1
  <2>3. content' = [content EXCEPT ![d] = x] => content' \in [Datasets -> Extent]
    BY <2>1
  <2>4. QED
    BY <2>2, <2>3
<1>u. /\ archive' = archive => archive' \in [Datasets -> Extent]
      /\ content' = content => content' \in [Datasets -> Extent]
  OBVIOUS
<1>1. ASSUME NEW d \in Datasets, UserStep(d) PROVE DatasetTypeOK'
  <2>1. ASSUME NEW kind \in SourceKinds, CreateDataset(d, kind) PROVE DatasetTypeOK'
    BY <2>1, <1>s, <1>g, <1>f DEF CreateDataset
  <2>2. CASE BeginUpload(d)
    BY <2>2, <1>s, <1>g, <1>f DEF BeginUpload
  <2>3. CASE SendUpload(d)
    <3>1. archive' \in [Datasets -> Extent]
      BY <2>3, <1>s, <1>g, <1>f DEF SendUpload
    <3>2. QED
      BY <2>3, <3>1 DEF SendUpload
  <2>4. CASE FinishUpload(d)
    BY <2>4, <1>s, <1>g, <1>f DEF FinishUpload
  <2>5. CASE ArchiveDataset(d)
    BY <2>5, <1>s, <1>g, <1>f DEF ArchiveDataset
  <2>6. QED
    BY <1>1, <2>1, <2>2, <2>3, <2>4, <2>5 DEF UserStep
<1>2. ASSUME NEW c \in Controllers, NEW d \in Datasets,
             NEW step \in {"transfer", "unpack", "infer"}, Listen(c, d, step)
      PROVE  DatasetTypeOK'
  BY <1>2, <1>s, <1>g, <1>f DEF Listen
<1>p. ASSUME NEW c \in Controllers, Panic(c), crashes' \in 0 .. MaxCrashes, UNCHANGED archivals
      PROVE  DatasetTypeOK'
  BY <1>p, <1>s, <1>g, <1>f DEF Panic
<1>3. ASSUME NEW c \in Controllers, NEW d \in Datasets, Work(c, d) PROVE DatasetTypeOK'
  <2>1. CASE BeginTransfer(c, d)
    <3>1. worker' \in [Controllers -> [Datasets -> Step]]
      BY <2>1, <1>s, <1>g, <1>f DEF BeginTransfer
    <3>2. /\ archive' = archive \/ \E x \in Extent : archive' = [archive EXCEPT ![d] = x]
          /\ content' = content \/ \E x \in Extent : content' = [content EXCEPT ![d] = x]
      BY <2>1, <1>s DEF BeginTransfer
    <3>3. archive' \in [Datasets -> Extent] /\ content' \in [Datasets -> Extent]
      BY <3>2, <1>f, <1>u, Zenon
    <3>4. QED
      BY <2>1, <3>1, <3>3 DEF BeginTransfer
  <2>2. CASE FlushAccessKey(c, d)
    BY <2>2, <1>s, <1>g, <1>f DEF FlushAccessKey
  <2>3. CASE EndTransfer(c, d)
    <3>1. worker' \in [Controllers -> [Datasets -> Step]]
      BY <2>3, <1>s, <1>g, <1>f DEF EndTransfer
    <3>2. /\ archive' = archive \/ \E x \in Extent : archive' = [archive EXCEPT ![d] = x]
          /\ content' = content \/ \E x \in Extent : content' = [content EXCEPT ![d] = x]
      BY <2>3, <1>s DEF EndTransfer
    <3>3. archive' \in [Datasets -> Extent] /\ content' \in [Datasets -> Extent]
      BY <3>2, <1>f, <1>u, Zenon
    <3>4. QED
      BY <2>3, <3>1, <3>3 DEF EndTransfer
  <2>4. CASE BeginUnpack(c, d)
    <3>1. worker' \in [Controllers -> [Datasets -> Step]]
      BY <2>4, <1>s, <1>g, <1>f DEF BeginUnpack
    <3>2. /\ archive' = archive \/ \E x \in Extent : archive' = [archive EXCEPT ![d] = x]
          /\ content' = content \/ \E x \in Extent : content' = [content EXCEPT ![d] = x]
      BY <2>4, <1>s DEF BeginUnpack
    <3>3. archive' \in [Datasets -> Extent] /\ content' \in [Datasets -> Extent]
      BY <3>2, <1>f, <1>u, Zenon
    <3>4. QED
      BY <2>4, <3>1, <3>3 DEF BeginUnpack
  <2>5. CASE EndUnpack(c, d)
    <3>1. worker' \in [Controllers -> [Datasets -> Step]]
      BY <2>5, <1>s, <1>g, <1>f DEF EndUnpack
    <3>2. /\ archive' = archive \/ \E x \in Extent : archive' = [archive EXCEPT ![d] = x]
          /\ content' = content \/ \E x \in Extent : content' = [content EXCEPT ![d] = x]
      BY <2>5, <1>s DEF EndUnpack
    <3>3. archive' \in [Datasets -> Extent] /\ content' \in [Datasets -> Extent]
      BY <3>2, <1>f, <1>u, Zenon
    <3>4. QED
      BY <2>5, <3>1, <3>3 DEF EndUnpack
  <2>6. CASE Cleanup(c, d)
    BY <2>6, <1>s, <1>g, <1>f DEF Cleanup
  <2>7. CASE UnpackPanics(c, d)
    BY <2>7, <1>p DEF UnpackPanics
  <2>8. CASE Infer(c, d)
    <3>1. worker' \in [Controllers -> [Datasets -> Step]]
      BY <2>8, <1>s, <1>g, <1>f DEF Infer
    <3>2. QED
      BY <2>8, <3>1 DEF Infer
  <2>9. CASE SetSchema(c, d)
    BY <2>9, <1>s, <1>g, <1>f DEF SetSchema
  <2>10. CASE SetError(c, d)
    BY <2>10, <1>s, <1>g, <1>f DEF SetError
  <2>11. CASE UnlockDataset(c, d)
    BY <2>11, <1>s, <1>g, <1>f DEF UnlockDataset
  <2>12. ASSUME NEW step, NEW new \in Status, SetStatus(c, d, step, new) PROVE DatasetTypeOK'
    BY <2>12, <1>s, <1>g, <1>f DEF SetStatus
  <2>13. QED
    BY <1>3, <2>1, <2>2, <2>3, <2>4, <2>5, <2>6, <2>7, <2>8, <2>9, <2>10, <2>11, <2>12, <1>s, <1>g, <1>f DEF Work
<1>4. ASSUME NEW c \in Controllers, Reap(c) PROVE DatasetTypeOK'
  <2>1. ASSUME NEW p \in Controllers, DeclareDead(c, p) PROVE DatasetTypeOK'
    BY <2>1 DEF DeclareDead
  <2>2. CASE ReleaseDatasetLockByProcess(c)
    BY <2>2 DEF ReleaseDatasetLockByProcess
  <2>3. QED
    BY <1>4, <2>1, <2>2 DEF Reap
<1>5. ASSUME NEW c \in Controllers, Crash(c) PROVE DatasetTypeOK'
  BY <1>5, <1>p DEF Crash
<1>6. CASE UNCHANGED vars
  BY <1>6 DEF vars
<1>7. QED
  BY <1>1, <1>2, <1>3, <1>4, <1>5, <1>6 DEF Next

\* Every document, file and goroutine of the pipeline keeps its type.
THEOREM DatasetTypes == Spec => []DatasetTypeOK
BY InitTypes, NextTypes, PTL DEF Spec

------------------------------------------------------------------------------
(* Mutual exclusion, and what a status says about the files.               *)

LEMMA InitWork == Init => WorkInv
BY DEF Init, WorkInv, OneHandler, ReapedAreDead, UploadsAreAlone, StartedForStatus, KnowsFiles,
       StatusKnowsFiles, TransferSteps, UnpackSteps, ValidateSteps

LEMMA GoroutineWork ==
    ASSUME DatasetTypeOK, WorkInv, NEW c \in Controllers, NEW d \in Datasets,
           Work(c, d), ~UnpackPanics(c, d)
    PROVE  WorkInv'
<1>t. /\ worker \in [Controllers -> [Datasets -> Step]]
      /\ lock \in [Datasets -> Controllers \cup {NoProc}]
      /\ status \in [Datasets -> Status] /\ schema \in [Datasets -> BOOLEAN]
      /\ archive \in [Datasets -> Extent] /\ content \in [Datasets -> Extent]
  BY DEF DatasetTypeOK
<1>w. worker[c][d] # "none"
  BY DEF Work, BeginTransfer, FlushAccessKey, EndTransfer, BeginUnpack, UnpackPanics, EndUnpack,
         Cleanup, Infer, SetSchema, SetStatus, SetError, UnlockDataset, At
<1>o. /\ lock[d] = c /\ lock[d] # NoProc /\ alive[c]
      /\ \A b \in Controllers : b # c => worker[b][d] = "none"
      /\ client[d] = "idle"
      /\ status[d] # "none"
  BY <1>w, PipelineAssumption DEF WorkInv, OneHandler, UploadsAreAlone, StatusKnowsFiles
<1> USE DEF docVars, fileVars, procVars, boundVars, At, Goto, WorkInv, OneHandler, ReapedAreDead,
        UploadsAreAlone, StartedForStatus, KnowsFiles, StatusKnowsFiles, TransferSteps, UnpackSteps,
        ValidateSteps, Staged
<1>1. CASE BeginTransfer(c, d)
  <2>1. CASE worker' = [worker EXCEPT ![c][d] = "transferring"]
    <3>1. CASE source[d] = "download"
      BY <1>1, <2>1, <3>1, <1>t, <1>o DEF BeginTransfer
    <3>2. CASE source[d] = "localdir"
      BY <1>1, <2>1, <3>2, <1>t, <1>o DEF BeginTransfer
    <3>3. QED
      BY <1>1, <2>1, <3>1, <3>2, <1>t DEF BeginTransfer
  <2>2. CASE worker' = [worker EXCEPT ![c][d] = "flush"]
    BY <1>1, <2>2, <1>t, <1>o DEF BeginTransfer
  <2>3. CASE worker' = [worker EXCEPT ![c][d] = "setTransferred"]
    BY <1>1, <2>3, <1>t, <1>o DEF BeginTransfer
  <2>4. CASE worker' = [worker EXCEPT ![c][d] = "setError"]
    BY <1>1, <2>4, <1>t, <1>o DEF BeginTransfer
  <2>5. QED
    BY <1>1, <2>1, <2>2, <2>3, <2>4 DEF BeginTransfer
<1>2. CASE FlushAccessKey(c, d)
  BY <1>2, <1>t, <1>o DEF FlushAccessKey
<1>3. CASE EndTransfer(c, d)
  <2>1. CASE worker' = [worker EXCEPT ![c][d] = "setTransferred"] /\ Staged(d)
    BY <1>3, <2>1, <1>t, <1>o DEF EndTransfer
  <2>2. CASE worker' = [worker EXCEPT ![c][d] = "setTransferred"] /\ ~Staged(d)
    BY <1>3, <2>2, <1>t, <1>o DEF EndTransfer
  <2>3. CASE worker' = [worker EXCEPT ![c][d] = "setError"]
    BY <1>3, <2>3, <1>t, <1>o DEF EndTransfer
  <2>4. QED
    BY <1>3, <2>1, <2>2, <2>3 DEF EndTransfer
<1>4. CASE BeginUnpack(c, d)
  <2>1. CASE worker' = [worker EXCEPT ![c][d] = "unpacking"]
    BY <1>4, <2>1, <1>t, <1>o DEF BeginUnpack
  <2>2. CASE worker' = [worker EXCEPT ![c][d] = "setUnpacked"]
    BY <1>4, <2>2, <1>t, <1>o DEF BeginUnpack
  <2>3. CASE worker' = [worker EXCEPT ![c][d] = "setError"]
    BY <1>4, <2>3, <1>t, <1>o DEF BeginUnpack
  <2>4. QED
    BY <1>4, <2>1, <2>2, <2>3 DEF BeginUnpack
<1>5. CASE EndUnpack(c, d)
  <2>1. CASE worker' = [worker EXCEPT ![c][d] = "cleanup"]
    BY <1>5, <2>1, <1>t, <1>o DEF EndUnpack
  <2>2. CASE worker' = [worker EXCEPT ![c][d] = "setError"]
    BY <1>5, <2>2, <1>t, <1>o DEF EndUnpack
  <2>3. QED
    BY <1>5, <2>1, <2>2 DEF EndUnpack
<1>6. CASE Cleanup(c, d)
  BY <1>6, <1>t, <1>o DEF Cleanup
<1>7. CASE Infer(c, d)
  <2>1. CASE worker' = [worker EXCEPT ![c][d] = "setSchema"]
    BY <1>7, <2>1, <1>t, <1>o DEF Infer
  <2>2. CASE worker' = [worker EXCEPT ![c][d] = "setError"]
    BY <1>7, <2>2, <1>t, <1>o DEF Infer
  <2>3. QED
    BY <1>7, <2>1, <2>2 DEF Infer
<1>8. CASE SetSchema(c, d)
  BY <1>8, <1>t, <1>o DEF SetSchema
<1>9. CASE SetError(c, d)
  BY <1>9, <1>t, <1>o DEF SetError
<1>10. CASE UnlockDataset(c, d)
  BY <1>10, <1>t, <1>o DEF UnlockDataset
<1>11. CASE SetStatus(c, d, "setTransferred", "transferred")
  BY <1>11, <1>t, <1>o DEF SetStatus
<1>12. CASE SetStatus(c, d, "setUnpacked", "unpacked")
  BY <1>12, <1>t, <1>o DEF SetStatus
<1>13. CASE SetStatus(c, d, "setValidated", "validated")
  BY <1>13, <1>t, <1>o DEF SetStatus
<1>14. QED
  BY <1>1, <1>2, <1>3, <1>4, <1>5, <1>6, <1>7, <1>8, <1>9, <1>10, <1>11, <1>12, <1>13 DEF Work

LEMMA PanicWork ==
    ASSUME DatasetTypeOK, WorkInv, NEW c \in Controllers, Panic(c)
    PROVE  WorkInv'
<1>t. /\ worker \in [Controllers -> [Datasets -> Step]]
      /\ alive \in [Controllers -> BOOLEAN]
      /\ reaping \in [Controllers -> Controllers \cup {NoProc}]
  BY DEF DatasetTypeOK
<1> USE DEF docVars, fileVars, Panic, WorkInv
<1>1. OneHandler'
  BY <1>t DEF OneHandler
<1>2. ReapedAreDead'
  BY <1>t DEF ReapedAreDead
<1>3. UploadsAreAlone' /\ \A d \in Datasets : StatusKnowsFiles(d)'
  BY DEF UploadsAreAlone, StatusKnowsFiles, Staged
<1>4. \A b \in Controllers, d \in Datasets : StartedForStatus(b, d)' /\ KnowsFiles(b, d)'
  BY <1>t DEF StartedForStatus, KnowsFiles, TransferSteps, UnpackSteps, ValidateSteps, Staged
<1>5. QED
  BY <1>1, <1>2, <1>3, <1>4

LEMMA UserWork ==
    ASSUME DatasetTypeOK, WorkInv, NEW d \in Datasets, UserStep(d)
    PROVE  WorkInv'
<1>t. /\ worker \in [Controllers -> [Datasets -> Step]]
      /\ lock \in [Datasets -> Controllers \cup {NoProc}]
      /\ status \in [Datasets -> Status] /\ source \in [Datasets -> SourceKinds \cup {"none"}]
      /\ client \in [Datasets -> {"idle", "uploading", "uploaded"}]
      /\ archive \in [Datasets -> Extent] /\ content \in [Datasets -> Extent]
  BY DEF DatasetTypeOK
<1>f. lock[d] = NoProc => \A c \in Controllers : worker[c][d] = "none"
  BY PipelineAssumption DEF WorkInv, OneHandler
<1> USE DEF docVars, fileVars, procVars, boundVars, WorkInv, OneHandler, ReapedAreDead,
        UploadsAreAlone, StartedForStatus, KnowsFiles, StatusKnowsFiles, TransferSteps, UnpackSteps,
        ValidateSteps, Staged
<1>1. ASSUME NEW kind \in SourceKinds, CreateDataset(d, kind) PROVE WorkInv'
  BY <1>1, <1>t, <1>f DEF CreateDataset
<1>2. CASE BeginUpload(d)
  <2>1. lock[d] = NoProc
    BY <1>2 DEF BeginUpload, MayUpload
  <2>2. QED
    BY <1>2, <1>t, <1>f, <2>1 DEF BeginUpload, MayUpload
<1>3. CASE SendUpload(d)
  BY <1>3, <1>t, <1>f DEF SendUpload
<1>4. CASE FinishUpload(d)
  BY <1>4, <1>t, <1>f DEF FinishUpload
<1>5. CASE ArchiveDataset(d)
  BY <1>5, <1>t DEF ArchiveDataset
<1>6. QED
  BY <1>1, <1>2, <1>3, <1>4, <1>5 DEF UserStep

LEMMA ListenWork ==
    ASSUME DatasetTypeOK, WorkInv, NEW c \in Controllers, NEW d \in Datasets,
           NEW step \in {"transfer", "unpack", "infer"}, Listen(c, d, step)
    PROVE  WorkInv'
<1>t. /\ worker \in [Controllers -> [Datasets -> Step]]
      /\ lock \in [Datasets -> Controllers \cup {NoProc}]
  BY DEF DatasetTypeOK
<1>f. /\ \A b \in Controllers : worker[b][d] = "none"
      /\ client[d] = "idle" /\ Wanted(d, step) /\ status[d] # "none"
  BY PipelineAssumption DEF WorkInv, OneHandler, Listen, Lockable, UploadsAreAlone, Wanted
<1>1. /\ lock' = [lock EXCEPT ![d] = c] /\ worker' = [worker EXCEPT ![c][d] = step] /\ alive[c]
      /\ UNCHANGED <<source, status, schema, fileVars, client, procVars, boundVars>>
  BY DEF Listen, Goto
<1> USE DEF fileVars, procVars, WorkInv, OneHandler, ReapedAreDead,
        UploadsAreAlone, StartedForStatus, KnowsFiles, StatusKnowsFiles, TransferSteps, UnpackSteps,
        ValidateSteps, Staged
<1>2. CASE step = "transfer"
  BY <1>1, <1>2, <1>t, <1>f DEF Wanted
<1>3. CASE step = "unpack"
  BY <1>1, <1>3, <1>t, <1>f DEF Wanted
<1>4. CASE step = "infer"
  BY <1>1, <1>4, <1>t, <1>f DEF Wanted
<1>5. QED
  BY <1>2, <1>3, <1>4

LEMMA ReapWork ==
    ASSUME DatasetTypeOK, WorkInv, NEW c \in Controllers, Reap(c)
    PROVE  WorkInv'
<1>t. /\ lock \in [Datasets -> Controllers \cup {NoProc}]
      /\ reaping \in [Controllers -> Controllers \cup {NoProc}]
  BY DEF DatasetTypeOK
<1> USE DEF docVars, fileVars, procVars, WorkInv, OneHandler, ReapedAreDead,
        UploadsAreAlone, StartedForStatus, KnowsFiles, StatusKnowsFiles, Staged
<1>1. ASSUME NEW p \in Controllers, DeclareDead(c, p) PROVE WorkInv'
  BY <1>1, <1>t DEF DeclareDead
<1>2. CASE ReleaseDatasetLockByProcess(c)
  BY <1>2, <1>t DEF ReleaseDatasetLockByProcess
<1>3. QED
  BY <1>1, <1>2 DEF Reap

LEMMA NextWork == DatasetTypeOK /\ WorkInv /\ [Next]_vars => WorkInv'
<1> SUFFICES ASSUME DatasetTypeOK, WorkInv, [Next]_vars PROVE WorkInv'
  OBVIOUS
<1>1. ASSUME NEW c \in Controllers, NEW d \in Datasets, Work(c, d) PROVE WorkInv'
  BY <1>1, GoroutineWork, PanicWork DEF UnpackPanics
<1>2. ASSUME NEW c \in Controllers, Crash(c) PROVE WorkInv'
  BY <1>2, PanicWork DEF Crash
<1>3. CASE UNCHANGED vars
  BY <1>3 DEF vars, docVars, fileVars, procVars, WorkInv, OneHandler, ReapedAreDead,
              UploadsAreAlone, StartedForStatus, KnowsFiles, StatusKnowsFiles, Staged
<1>4. QED
  BY <1>1, <1>2, <1>3, UserWork, ListenWork, ReapWork DEF Next

LEMMA WorkInvHolds == Spec => []WorkInv
BY InitWork, NextWork, DatasetTypes, PTL DEF Spec

\* A dataset is never transferred, unpacked or validated by two controllers at
\* once: LockDataset keeps the listeners apart, and TerminateDeadProcesses takes
\* locks only from controllers that are gone.
THEOREM DatasetLockSafety == Spec => []OneHandler
<1>1. WorkInv => OneHandler
  BY DEF WorkInv
<1>2. QED
  BY <1>1, WorkInvHolds, PTL

\* DatasetValidatorkWorker marks a dataset validated only when all its files are
\* unpacked and its schemas are stored, however uploads, users and crashes
\* interleave with the three workers.
THEOREM ValidatedIsSound == Spec => []ValidatedIsUsable
<1>1. WorkInv => ValidatedIsUsable
  BY DEF WorkInv, StatusKnowsFiles, ValidatedIsUsable
<1>2. QED
  BY <1>1, WorkInvHolds, PTL

\* DatasetUnpackWorker deletes the staged archive only after unpacking all of it.
THEOREM DataIsKept == Spec => []NothingLost
<1>1. WorkInv => NothingLost
  BY DEF WorkInv, StatusKnowsFiles, NothingLost
<1>2. QED
  BY <1>1, WorkInvHolds, PTL

------------------------------------------------------------------------------
(* The pipeline implements DatasetLife: every step is one of its steps, or  *)
(* changes nothing that it shows.                                          *)

\* What DatasetLife shows of the pipeline.
shown == <<source, lock, status, schema, content>>

LEMMA UserLives ==
    ASSUME DatasetTypeOK, WorkInv, NEW d \in Datasets, UserStep(d)
    PROVE  Life!Next \/ UNCHANGED shown
<1>1. ASSUME NEW kind \in SourceKinds, CreateDataset(d, kind) PROVE Life!Create(d, kind)
  BY <1>1 DEF CreateDataset, fileVars, Life!Create
<1>2. CASE BeginUpload(d) \/ SendUpload(d)
  BY <1>2 DEF BeginUpload, SendUpload, docVars, shown
<1>3. CASE FinishUpload(d)
  <2>1. source[d] = "upload" /\ status[d] \in {"created", "archived"} /\ lock[d] = NoProc
    BY <1>3 DEF FinishUpload, WorkInv, UploadsAreAlone
  <2>2. Life!Reach(d, "transferred")
    BY <1>3, <2>1 DEF FinishUpload, fileVars, Life!Reach, Life!Held, Life!Before
  <2>3. QED
    BY <2>2 DEF Life!Next, Life!DatasetStep
<1>4. CASE ArchiveDataset(d)
  <2>1. Life!Archive(d)
    BY <1>4 DEF ArchiveDataset, fileVars, Life!Archive
  <2>2. QED
    BY <2>1 DEF Life!Next, Life!DatasetStep
<1>5. QED
  BY <1>1, <1>2, <1>3, <1>4 DEF UserStep, Life!Next, Life!DatasetStep

LEMMA ListenLives ==
    ASSUME NEW c \in Controllers, NEW d \in Datasets,
           NEW step \in {"transfer", "unpack", "infer"}, Listen(c, d, step)
    PROVE  Life!Next
<1>1. Life!Take(d, c)
  BY DEF Listen, Lockable, Wanted, fileVars, Life!Take, Life!Held
<1>2. QED
  BY <1>1 DEF Life!Next, Life!DatasetStep

LEMMA GoroutineLives ==
    ASSUME DatasetTypeOK, WorkInv, NEW c \in Controllers, NEW d \in Datasets, Work(c, d)
    PROVE  Life!Next \/ UNCHANGED shown
<1>k. StartedForStatus(c, d) /\ KnowsFiles(c, d)
  BY DEF WorkInv
<1>t. lock \in [Datasets -> Controllers \cup {NoProc}]
  BY DEF DatasetTypeOK
<1>h. Life!Held(d)
  <2>1. worker[c][d] # "none"
    BY DEF Work, BeginTransfer, FlushAccessKey, EndTransfer, BeginUnpack, UnpackPanics, EndUnpack,
           Cleanup, Infer, SetSchema, SetStatus, SetError, UnlockDataset, At
  <2>2. QED
    BY <2>1, PipelineAssumption DEF WorkInv, OneHandler, Life!Held
<1>f. ASSUME NEW extent \in {"partial", "complete"}, Life!Fill(d, extent) PROVE Life!Next
  BY <1>f DEF Life!Next, Life!DatasetStep
<1>r. ASSUME NEW s \in {"transferred", "unpacked", "validated"}, Life!Reach(d, s) PROVE Life!Next
  BY <1>r DEF Life!Next, Life!DatasetStep
<1>1. CASE BeginTransfer(c, d)
  <2>1. CASE source[d] = "localdir" /\ content' = [content EXCEPT ![d] = "partial"]
    <3>1. Life!Fill(d, "partial")
      BY <1>1, <2>1, <1>h, <1>k
         DEF BeginTransfer, At, docVars, StartedForStatus, TransferSteps, Life!Fill
    <3>2. QED
      BY <3>1, <1>f
  <2>2. CASE UNCHANGED content
    BY <1>1, <2>2 DEF BeginTransfer, docVars, shown
  <2>3. QED
    BY <1>1, <2>1, <2>2 DEF BeginTransfer, fileVars
<1>2. CASE EndTransfer(c, d)
  <2>1. CASE ~Staged(d) /\ content' = [content EXCEPT ![d] = "complete"]
    <3>1. Life!Fill(d, "complete")
      BY <1>2, <2>1, <1>h, <1>k
         DEF EndTransfer, At, docVars, StartedForStatus, KnowsFiles, TransferSteps, Life!Fill
    <3>2. QED
      BY <3>1, <1>f
  <2>2. CASE UNCHANGED content
    BY <1>2, <2>2 DEF EndTransfer, docVars, shown
  <2>3. QED
    BY <1>2, <2>1, <2>2 DEF EndTransfer, fileVars
<1>3. CASE BeginUnpack(c, d)
  <2>1. CASE source[d] # "localdir" /\ content' = [content EXCEPT ![d] = "partial"]
    <3>1. Life!Fill(d, "partial")
      BY <1>3, <2>1, <1>h, <1>k
         DEF BeginUnpack, At, docVars, StartedForStatus, UnpackSteps, Life!Fill
    <3>2. QED
      BY <3>1, <1>f
  <2>2. CASE UNCHANGED content
    BY <1>3, <2>2 DEF BeginUnpack, docVars, shown
  <2>3. QED
    BY <1>3, <2>1, <2>2 DEF BeginUnpack, Staged
<1>4. CASE EndUnpack(c, d)
  <2>1. CASE content' = [content EXCEPT ![d] = "complete"]
    <3>1. Life!Fill(d, "complete")
      BY <1>4, <2>1, <1>h, <1>k
         DEF EndUnpack, At, docVars, StartedForStatus, KnowsFiles, UnpackSteps, Life!Fill
    <3>2. QED
      BY <3>1, <1>f
  <2>2. CASE UNCHANGED content
    BY <1>4, <2>2 DEF EndUnpack, docVars, shown
  <2>3. QED
    BY <1>4, <2>1, <2>2 DEF EndUnpack
<1>5. CASE FlushAccessKey(c, d) \/ Cleanup(c, d) \/ Infer(c, d) \/ UnpackPanics(c, d)
  BY <1>5 DEF FlushAccessKey, Cleanup, Infer, UnpackPanics, Panic, docVars, fileVars, shown
<1>6. CASE SetSchema(c, d)
  <2>1. Life!Describe(d)
    BY <1>6, <1>h, <1>k DEF SetSchema, At, fileVars, StartedForStatus, KnowsFiles, ValidateSteps, Life!Describe
  <2>2. QED
    BY <2>1 DEF Life!Next, Life!DatasetStep
<1>7. CASE SetStatus(c, d, "setTransferred", "transferred")
  <2>1. Life!Reach(d, "transferred")
    BY <1>7, <1>h, <1>k DEF SetStatus, At, fileVars, StartedForStatus, KnowsFiles, TransferSteps,
                            Life!Reach, Life!Before
  <2>2. QED
    BY <2>1, <1>r
<1>8. CASE SetStatus(c, d, "setUnpacked", "unpacked")
  <2>1. Life!Reach(d, "unpacked")
    BY <1>8, <1>h, <1>k DEF SetStatus, At, fileVars, StartedForStatus, KnowsFiles, UnpackSteps,
                            Life!Reach, Life!Before
  <2>2. QED
    BY <2>1, <1>r
<1>9. CASE SetStatus(c, d, "setValidated", "validated")
  <2>1. Life!Reach(d, "validated")
    BY <1>9, <1>h, <1>k DEF SetStatus, At, fileVars, StartedForStatus, KnowsFiles, ValidateSteps,
                            Life!Reach, Life!Before
  <2>2. QED
    BY <2>1, <1>r
<1>10. CASE SetError(c, d)
  <2>1. Life!Fail(d)
    BY <1>10, <1>h, <1>k DEF SetError, At, fileVars, StartedForStatus, Life!Fail
  <2>2. QED
    BY <2>1 DEF Life!Next, Life!DatasetStep
<1>11. CASE UnlockDataset(c, d)
  <2>1. status[d] # "error"
    BY <1>11, <1>k DEF UnlockDataset, At, StartedForStatus
  <2>2. lock' = [e \in Datasets |-> IF e \in {d} THEN NoProc ELSE lock[e]]
    BY <1>11, <1>t DEF UnlockDataset
  <2>3. Life!Release({d})
    BY <1>11, <2>1, <2>2 DEF UnlockDataset, fileVars, Life!Release
  <2>4. QED
    BY <2>3 DEF Life!Next
<1>12. QED
  BY <1>1, <1>2, <1>3, <1>4, <1>5, <1>6, <1>7, <1>8, <1>9, <1>10, <1>11 DEF Work

LEMMA ReapLives ==
    ASSUME NEW c \in Controllers, Reap(c)
    PROVE  Life!Next \/ UNCHANGED shown
<1>1. ASSUME NEW p \in Controllers, DeclareDead(c, p) PROVE UNCHANGED shown
  BY <1>1 DEF DeclareDead, docVars, fileVars, shown
<1>2. CASE ReleaseDatasetLockByProcess(c)
  <2> DEFINE ds == {d \in Datasets : lock[d] = reaping[c] /\ status[d] # "error"}
  <2>1. Life!Release(ds)
    BY <1>2 DEF ReleaseDatasetLockByProcess, fileVars, Life!Release
  <2>2. QED
    BY <2>1 DEF Life!Next
<1>3. QED
  BY <1>1, <1>2 DEF Reap

\* Listeners, goroutines, clients and the reaper implement DatasetLife, however
\* many controllers crash: UpdateDatasetStatus writes whatever the status is by
\* then, but the goroutine that calls it still has the lock it took for the status
\* before, and has made the files that the new status promises.
THEOREM PipelineImplementsDatasetLife == Spec => DatasetsLiveOnce
<1>1. Init => Life!Init
  BY DEF Init, Life!Init
<1>2. DatasetTypeOK /\ WorkInv /\ [Next]_vars => [Life!Next]_(Life!datasetLife)
  <2> SUFFICES ASSUME DatasetTypeOK, WorkInv, [Next]_vars PROVE Life!Next \/ UNCHANGED shown
    BY DEF shown, Life!datasetLife
  <2>1. ASSUME NEW c \in Controllers, Crash(c) PROVE UNCHANGED shown
    BY <2>1 DEF Crash, Panic, docVars, fileVars, shown
  <2>2. CASE UNCHANGED vars
    BY <2>2 DEF vars, docVars, fileVars, shown
  <2>3. QED
    BY <2>1, <2>2, UserLives, ListenLives, GoroutineLives, ReapLives DEF Next
<1>3. QED
  BY <1>1, <1>2, DatasetTypes, WorkInvHolds, PTL DEF Spec, DatasetsLiveOnce, Life!Spec
==============================================================================
