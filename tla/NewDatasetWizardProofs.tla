------------------------ MODULE NewDatasetWizardProofs -----------------------
(***************************************************************************)
(* Theorems about the dialog that adds a dataset, for all files, ids and   *)
(* kinds of source, and however often the dialog is opened, files are read *)
(* and Finish is pressed.                                                  *)
(*                                                                         *)
(* A call goes through three requests, and what the server has for its id  *)
(* is never taken back; so each state of a call vouches for something in   *)
(* the documents.  While the user waits for what they started, there is at *)
(* most one call that they wait for, nothing is being read meanwhile, and  *)
(* the call is about the fields that the dialog still has.                 *)
(***************************************************************************)
EXTENDS NewDatasetWizard, SequenceLemmas, TLAPS

\* What the state of a call says about the documents ds.
CallOK(c, ds) ==
    /\ c.state # "sent" \/ c.op = "upload" => c.waits
    /\ c.op = "upload" => c.content # "none"
    /\ (c.op = "upload" /\ c.state = "ok") \/ c.op = "update" => ds[c.id].content # "none"
    /\ c.op = "update" /\ c.state = "ok" => ds[c.id].status = "transferred"
    /\ c.op = "create" /\ c.state = "ok" =>
          ds[c.id].status # "none" /\ ds[c.id].source = c.source

\* A call that a patient user waits for, when the schemas of the file f are shown and
\* the source is s.
CallIsCurrent(c, f, s) ==
    c.waits => /\ c.op = "create" => c.shown = f /\ c.source = s
               /\ c.op = "upload" => c.content = "shown"

CallsOK == \A i \in DOMAIN calls : CallOK(calls[i], docs)

NoneRead == loads = <<>>

Reading ==
    /\ NoneRead \/ loads = <<raw>>
    /\ NoneRead /\ raw # None => dumps = raw

OneCall ==
    /\ \A i, j \in DOMAIN calls : calls[i].waits /\ calls[j].waits => i = j
    /\ \A i \in DOMAIN calls : calls[i].waits => NoneRead

CallsAreCurrent == \A i \in DOMAIN calls : CallIsCurrent(calls[i], dumps, source)

DialogInv ==
    /\ CallsOK
    /\ ~careless => Reading /\ OneCall /\ CallsAreCurrent
    /\ TransferredHasContent /\ UploadIsWhatWasShown /\ SuccessIsTrue

------------------------------------------------------------------------------
(* Type correctness.                                                       *)

FieldsOK ==
    /\ step \in 1..4 /\ source \in Sources /\ raw \in Files \cup {None} /\ id \in Ids
    /\ dumps \in Files \cup {None}
FlagsOK ==
    /\ open \in BOOLEAN /\ address \in BOOLEAN /\ error \in BOOLEAN /\ userId \in BOOLEAN
    /\ asking \in BOOLEAN /\ careless \in BOOLEAN
FlightOK == loads \in Seq(Files) /\ calls \in Seq(Call)
ServerOK == docs \in [Ids -> Doc] /\ reported \in SUBSET Ids
BoundsOK == opened \in 0..MaxOpens /\ pressed \in 0..MaxPressed

LEMMA TypeParts == TypeOK <=> FieldsOK /\ FlagsOK /\ FlightOK /\ ServerOK /\ BoundsOK
BY DEF TypeOK, FieldsOK, FlagsOK, FlightOK, ServerOK, BoundsOK

\* A step stays between 1 and 4, and going on keeps the file.
LEMMA SwitchStepTypes ==
    ASSUME FieldsOK, NEW d \in {-1, 1}, SwitchStep(d)
    PROVE  /\ step' \in 1..4 /\ raw' \in Files \cup {None}
           /\ d = 1 => raw' = raw
BY DEF FieldsOK, SwitchStep

LEMMA CallTypes ==
    ASSUME FieldsOK, FlagsOK
    PROVE  /\ CreateDataset(id, source, userId) \in Call
           /\ \A c \in Call : /\ UploadDataset(c.id, c.shown) \in Call
                              /\ UpdateDataset(c.id, c.source) \in Call
                              /\ \A st \in {"ok", "refused"} : [c EXCEPT !.state = st] \in Call
                              /\ [c EXCEPT !.waits = FALSE] \in Call
BY DEF FieldsOK, FlagsOK, CreateDataset, UploadDataset, UpdateDataset, MakeCall, Call, Content

\* A step of a call ends it or puts another in its place.
LEMMA CallForms ==
    ASSUME FieldsOK, FlagsOK, FlightOK, NEW i \in DOMAIN calls, CallStep(i)
    PROVE  \/ calls' = RemoveAt(calls, i)
           \/ \E c \in Call : calls' = [calls EXCEPT ![i] = c]
<1>1. calls[i] \in Call
  BY DEF FlightOK
<1>2. /\ UploadDataset(calls[i].id, calls[i].shown) \in Call
      /\ UpdateDataset(calls[i].id, calls[i].source) \in Call
      /\ [calls[i] EXCEPT !.state = "ok"] \in Call
      /\ [calls[i] EXCEPT !.state = "refused"] \in Call
      /\ [calls[i] EXCEPT !.waits = FALSE] \in Call
  BY <1>1, CallTypes
<1>3. CASE HandleCreate(i)
  BY <1>2, <1>3 DEF HandleCreate
<1>4. CASE HandleUpload(i)
  BY <1>2, <1>4 DEF HandleUpload
<1>5. CASE HandleUpdate(i)
  BY <1>2, <1>5 DEF HandleUpdate
<1>6. CASE Created(i)
  BY <1>2, <1>6 DEF Created
<1>7. CASE Uploaded(i)
  BY <1>2, <1>7 DEF Uploaded
<1>8. CASE Updated(i) \/ Failed(i) \/ Lost(i)
  BY <1>2, <1>8 DEF Updated, Failed, Lost
<1>9. QED
  BY <1>3, <1>4, <1>5, <1>6, <1>7, <1>8 DEF CallStep

LEMMA CallsTypes ==
    ASSUME FieldsOK, FlagsOK, FlightOK, NEW i \in DOMAIN calls, CallStep(i)
    PROVE  calls' \in Seq(Call)
<1>1. calls \in Seq(Call)
  BY DEF FlightOK
<1>2. CASE calls' = RemoveAt(calls, i)
  BY <1>1, <1>2, RemovedSeq
<1>3. ASSUME NEW c \in Call, calls' = [calls EXCEPT ![i] = c] PROVE calls' \in Seq(Call)
  BY <1>1, <1>3
<1>4. QED
  BY <1>2, <1>3, CallForms

LEMMA HandlerTypes ==
    ASSUME FlightOK, ServerOK, NEW i \in DOMAIN calls,
           HandleCreate(i) \/ HandleUpload(i) \/ HandleUpdate(i)
    PROVE  ServerOK'
<1>1. calls[i] \in Call /\ docs \in [Ids -> Doc]
  BY DEF FlightOK, ServerOK
<1>2. /\ calls[i].id \in Ids /\ calls[i].source \in Sources /\ calls[i].content \in Content
      /\ docs[calls[i].id] \in Doc
  BY <1>1 DEF Call
<1>3. /\ [source |-> calls[i].source, status |-> "created", content |-> "none"] \in Doc
      /\ [docs[calls[i].id] EXCEPT !.content = calls[i].content] \in Doc
      /\ [docs[calls[i].id] EXCEPT !.status = "transferred"] \in Doc
  BY <1>2 DEF Doc, Content
<1>4. docs' = docs \/ \E d \in Doc : docs' = [docs EXCEPT ![calls[i].id] = d]
  <2>1. CASE HandleCreate(i)
    BY <1>3, <2>1 DEF HandleCreate
  <2>2. CASE HandleUpload(i)
    BY <1>3, <2>2 DEF HandleUpload
  <2>3. CASE HandleUpdate(i)
    BY <1>3, <2>3 DEF HandleUpdate
  <2>4. QED
    BY <2>1, <2>2, <2>3
<1>5. docs' \in [Ids -> Doc]
  BY <1>1, <1>4
<1>6. reported' = reported
  BY DEF HandleCreate, HandleUpload, HandleUpdate
<1>7. QED
  BY <1>5, <1>6 DEF ServerOK

LEMMA NextTypes == TypeOK /\ [Step]_vars => TypeOK'
<1> SUFFICES ASSUME TypeOK, [Step]_vars PROVE TypeOK'
  OBVIOUS
<1>t. FieldsOK /\ FlagsOK /\ FlightOK /\ ServerOK /\ BoundsOK
  BY TypeParts
<1>n. MaxOpens \in Nat /\ MaxPressed \in Nat
  BY DialogAssumption
<1>p. FieldsOK' /\ FlagsOK' /\ FlightOK' /\ ServerOK' /\ BoundsOK' => TypeOK'
  BY DEF TypeOK, FieldsOK, FlagsOK, FlightOK, ServerOK, BoundsOK
<1>u. /\ UNCHANGED <<loads, calls>> => FlightOK'
      /\ UNCHANGED <<docs, reported>> => ServerOK'
      /\ UNCHANGED bounds => BoundsOK'
      /\ UNCHANGED <<step, source, raw, id, dumps>> => FieldsOK'
  BY <1>t DEF FlightOK, ServerOK, bounds, BoundsOK, FieldsOK
<1>g. GoOn => careless' \in BOOLEAN
  BY DEF GoOn
<1>1. CASE Open
  <2>1. FieldsOK'
    BY <1>1, <1>t DEF Open, FieldsOK
  <2>2. FlagsOK'
    BY <1>1, <1>t, <1>g DEF Open, FlagsOK
  <2>3. BoundsOK'
    BY <1>1, <1>t, <1>n DEF Open, BoundsOK
  <2>4. QED
    BY <1>1, <1>u, <1>p, <2>1, <2>2, <2>3 DEF Open
<1>2. CASE Close
  <2>1. FlagsOK'
    BY <1>2, <1>t, <1>g DEF Close, flight, FlagsOK
  <2>2. QED
    BY <1>2, <1>u, <1>p, <2>1 DEF Close, flight
<1>3. CASE Prev \/ Next
  <2>1. FlagsOK'
    BY <1>3, <1>t, <1>g DEF Prev, Next, flight, FlagsOK
  <2>2. step' \in 1..4 /\ raw' \in Files \cup {None}
    BY <1>3, <1>t, SwitchStepTypes DEF Prev, Next
  <2>3. FieldsOK'
    BY <1>3, <1>t, <2>2 DEF Prev, Next, FieldsOK
  <2>4. QED
    BY <1>3, <1>u, <1>p, <2>1, <2>3 DEF Prev, Next, flight
<1>4. CASE TypeAddress
  <2>1. FlagsOK'
    BY <1>4, <1>t, <1>g DEF TypeAddress, flight, FlagsOK
  <2>2. QED
    BY <1>4, <1>u, <1>p, <2>1 DEF TypeAddress, flight
<1>5. CASE Finish
  <2>1. CreateDataset(id, source, userId) \in Call
    BY <1>t, CallTypes
  <2>2. calls' \in Seq(Call)
    <3>1. calls' = Append(calls, CreateDataset(id, source, userId)) /\ calls \in Seq(Call)
      BY <1>5, <1>t DEF Finish, FlightOK
    <3>2. QED
      BY <2>1, <3>1
  <2>3. FlightOK'
    BY <1>5, <1>t, <2>2 DEF Finish, FlightOK
  <2>4. FlagsOK'
    BY <1>5, <1>t, <1>g DEF Finish, FlagsOK
  <2>5. BoundsOK'
    BY <1>5, <1>t, <1>n DEF Finish, BoundsOK
  <2>6. QED
    BY <1>5, <1>u, <1>p, <2>3, <2>4, <2>5 DEF Finish
<1>6. ASSUME NEW s \in Sources, ChooseSource(s) PROVE TypeOK'
  <2>1. FieldsOK'
    BY <1>6, <1>t DEF ChooseSource, FieldsOK
  <2>2. FlagsOK'
    BY <1>6, <1>t, <1>g DEF ChooseSource, flight, FlagsOK
  <2>3. QED
    BY <1>6, <1>u, <1>p, <2>1, <2>2 DEF ChooseSource, flight
<1>7. ASSUME NEW x \in TypedIds, TypeId(x) PROVE TypeOK'
  <2>1. FieldsOK'
    BY <1>7, <1>t DEF TypeId, FieldsOK, Ids
  <2>2. FlagsOK'
    BY <1>7, <1>t, <1>g DEF TypeId, flight, FlagsOK
  <2>3. QED
    BY <1>7, <1>u, <1>p, <2>1, <2>2 DEF TypeId, flight
<1>8. ASSUME NEW f \in Files, NewDatasetInput(f) PROVE TypeOK'
  <2>1. FieldsOK'
    BY <1>8, <1>t, DialogAssumption DEF NewDatasetInput, FieldsOK, Ids
  <2>2. FlagsOK'
    BY <1>8, <1>t, <1>g DEF NewDatasetInput, FlagsOK
  <2>3. FlightOK'
    BY <1>8, <1>t DEF NewDatasetInput, FlightOK
  <2>4. QED
    BY <1>8, <1>u, <1>p, <2>1, <2>2, <2>3 DEF NewDatasetInput
<1>9. CASE UserKnown
  <2>1. FlagsOK'
    BY <1>9, <1>t DEF UserKnown, FlagsOK
  <2>2. QED
    BY <1>9, <1>u, <1>p, <2>1 DEF UserKnown
<1>10. ASSUME NEW i \in DOMAIN loads, Loaded(i) \/ NotLoaded(i) PROVE TypeOK'
  <2>1. loads \in Seq(Files) /\ loads[i] \in Files /\ RemoveAt(loads, i) \in Seq(Files)
    BY <1>t, RemovedSeq DEF FlightOK
  <2>2. FlightOK'
    BY <1>10, <1>t, <2>1 DEF Loaded, NotLoaded, FlightOK
  <2>3. FlagsOK'
    BY <1>10, <1>t DEF Loaded, NotLoaded, FlagsOK
  <2>4. FieldsOK'
    <3>1. CASE Loaded(i)
      <4>1. step' \in 1..4 /\ raw' \in Files \cup {None}
        BY <1>t, <3>1, SwitchStepTypes DEF Loaded
      <4>2. QED
        BY <1>t, <2>1, <3>1, <4>1 DEF Loaded, FieldsOK
    <3>2. CASE NotLoaded(i)
      BY <1>t, <3>2 DEF NotLoaded, FieldsOK
    <3>3. QED
      BY <1>10, <3>1, <3>2
  <2>5. QED
    BY <1>10, <1>u, <1>p, <2>2, <2>3, <2>4 DEF Loaded, NotLoaded
<1>11. ASSUME NEW i \in DOMAIN calls, CallStep(i) PROVE TypeOK'
  <2>1. calls[i] \in Call /\ calls[i].id \in Ids
    <3>1. calls[i] \in Call
      BY <1>t DEF FlightOK
    <3>2. QED
      BY <3>1 DEF Call
  <2>2. FlightOK'
    <3>1. calls' \in Seq(Call)
      BY <1>11, <1>t, CallsTypes
    <3>2. loads' = loads
      BY <1>11 DEF CallStep, HandleCreate, HandleUpload, HandleUpdate, Created, Uploaded,
                   Updated, Failed, Lost
    <3>3. QED
      BY <1>t, <3>1, <3>2 DEF FlightOK
  <2>3. CASE HandleCreate(i) \/ HandleUpload(i) \/ HandleUpdate(i)
    <3>1. ServerOK'
      BY <1>t, <2>3, HandlerTypes
    <3>2. UNCHANGED <<dialog, asking, bounds, careless>>
      BY <2>3 DEF HandleCreate, HandleUpload, HandleUpdate
    <3>3. FlagsOK'
      BY <1>t, <3>2 DEF dialog, FlagsOK
    <3>4. QED
      BY <1>u, <1>p, <2>2, <3>1, <3>2, <3>3 DEF dialog
  <2>4. CASE Created(i)
    <3>1. FieldsOK'
      <4>1. step' \in 1..4 /\ raw' \in Files \cup {None}
        <5>1. CASE UNCHANGED <<step, raw>>
          BY <1>t, <5>1 DEF FieldsOK
        <5>2. CASE SwitchStep(1)
          BY <1>t, <5>2, SwitchStepTypes
        <5>3. QED
          BY <2>4, <5>1, <5>2 DEF Created
      <4>2. QED
        BY <1>t, <2>4, <4>1 DEF Created, FieldsOK
    <3>2. FlagsOK'
      BY <1>t, <2>4 DEF Created, Sucess, FlagsOK
    <3>3. ServerOK'
      BY <1>t, <2>1, <2>4 DEF Created, Sucess, ServerOK
    <3>4. QED
      BY <1>u, <1>p, <2>2, <2>4, <3>1, <3>2, <3>3 DEF Created
  <2>5. CASE Uploaded(i) \/ Failed(i) \/ Lost(i)
    <3>1. FlagsOK'
      BY <1>t, <2>5 DEF Uploaded, Failed, Lost, dialog, FlagsOK
    <3>2. QED
      BY <1>u, <1>p, <2>2, <2>5, <3>1 DEF Uploaded, Failed, Lost, dialog
  <2>6. CASE Updated(i)
    <3>1. FlagsOK'
      BY <1>t, <2>6 DEF Updated, Sucess, FlagsOK
    <3>2. ServerOK'
      BY <1>t, <2>1, <2>6 DEF Updated, Sucess, ServerOK
    <3>3. QED
      BY <1>u, <1>p, <2>2, <2>6, <3>1, <3>2 DEF Updated
  <2>7. QED
    BY <1>11, <2>3, <2>4, <2>5, <2>6 DEF CallStep
<1>12. CASE UNCHANGED vars
  BY <1>12, <1>t, <1>u, <1>p DEF vars, dialog, flight, FlagsOK
<1>13. QED
  BY <1>1, <1>2, <1>3, <1>4, <1>5, <1>6, <1>7, <1>8, <1>9, <1>10, <1>11, <1>12 DEF Step, User

LEMMA InitTypes == Init => TypeOK
<1> SUFFICES ASSUME Init PROVE TypeOK
  OBVIOUS
<1>1. FieldsOK
  BY DialogAssumption DEF Init, FieldsOK, Ids
<1>2. FlagsOK
  BY DEF Init, FlagsOK
<1>3. FlightOK
  <2>1. loads = <<>> /\ calls = <<>>
    BY DEF Init
  <2>2. <<>> \in Seq(Files) /\ <<>> \in Seq(Call)
    OBVIOUS
  <2>3. QED
    BY <2>1, <2>2 DEF FlightOK
<1>4. ServerOK
  BY DEF Init, ServerOK, NoDoc, Doc, Content
<1>5. BoundsOK
  BY DialogAssumption DEF Init, BoundsOK
<1>6. QED
  BY <1>1, <1>2, <1>3, <1>4, <1>5, TypeParts

\* The dialog is always at one of its four steps with fields of the kind that the step
\* shows, calls and documents are well formed and no bound is passed, whichever
\* callback comes at which moment.
THEOREM DialogTypes == Spec => []TypeOK
BY InitTypes, NextTypes, PTL DEF Spec

------------------------------------------------------------------------------
(* The documents and the calls.                                            *)

\* No handler takes back what an earlier one did.
Grows(ds, es) ==
    \A x \in Ids :
        /\ ds[x].content # "none" => es[x].content # "none"
        /\ ds[x].status # "none" => es[x].status # "none" /\ es[x].source = ds[x].source
        /\ ds[x].status = "transferred" => es[x].status = "transferred"

LEMMA OldCallOK ==
    ASSUME NEW ds, NEW es, NEW c \in Call, CallOK(c, ds), Grows(ds, es)
    PROVE  CallOK(c, es)
<1>1. c.id \in Ids
  BY DEF Call
<1>2. QED
  BY <1>1 DEF CallOK, Grows

LEMMA DocsGrow ==
    ASSUME FlightOK, ServerOK, CallsOK, NEW i \in DOMAIN calls, CallStep(i)
    PROVE  Grows(docs, docs')
<1>1. calls[i] \in Call /\ docs \in [Ids -> Doc] /\ CallOK(calls[i], docs)
  BY DEF FlightOK, ServerOK, CallsOK
<1>2. calls[i].id \in Ids
  BY <1>1 DEF Call
<1>3. CASE HandleCreate(i)
  <2>1. \/ docs' = docs
        \/ /\ docs[calls[i].id] = NoDoc
           /\ \E d \in Doc : docs' = [docs EXCEPT ![calls[i].id] = d]
    <3>1. calls[i].source \in Sources
      BY <1>1 DEF Call
    <3>2. [source |-> calls[i].source, status |-> "created", content |-> "none"] \in Doc
      BY <3>1 DEF Doc, Content
    <3>3. QED
      BY <1>3, <3>2 DEF HandleCreate
  <2>2. QED
    BY <1>1, <1>2, <2>1 DEF Grows, NoDoc
<1>4. CASE HandleUpload(i)
  <2>1. \/ docs' = docs
        \/ docs' = [docs EXCEPT ![calls[i].id].content = calls[i].content]
    BY <1>4 DEF HandleUpload
  <2>2. calls[i].content # "none"
    BY <1>1, <1>4 DEF HandleUpload, CallOK
  <2>3. QED
    BY <1>1, <1>2, <2>1, <2>2 DEF Grows, Doc
<1>5. CASE HandleUpdate(i)
  <2>1. docs' = [docs EXCEPT ![calls[i].id].status = "transferred"]
    BY <1>5 DEF HandleUpdate
  <2>2. QED
    BY <1>1, <1>2, <2>1 DEF Grows, Doc
<1>6. CASE UNCHANGED docs
  BY <1>6 DEF Grows
<1>7. QED
  BY <1>3, <1>4, <1>5, <1>6 DEF CallStep, Created, Uploaded, Updated, Failed, Lost

\* The call that a step puts in the place of another vouches for its own state, and is
\* waited for only if the other was; for a patient user it is about the file shown.
Follows(c, i) ==
    /\ CallOK(c, docs')
    /\ c.waits => calls[i].waits
    /\ Reading /\ OneCall /\ CallsAreCurrent => CallIsCurrent(c, dumps, source)

LEMMA CallFollows ==
    ASSUME TypeOK, CallsOK, NEW i \in DOMAIN calls, CallStep(i)
    PROVE  \/ calls' = RemoveAt(calls, i)
           \/ \E c \in Call : calls' = [calls EXCEPT ![i] = c] /\ Follows(c, i)
<1>t. FieldsOK /\ FlagsOK /\ FlightOK /\ ServerOK
  BY TypeParts
<1>1. calls[i] \in Call /\ docs \in [Ids -> Doc] /\ CallOK(calls[i], docs)
  BY <1>t DEF FlightOK, ServerOK, CallsOK
<1>2. calls[i].id \in Ids /\ calls[i].waits \in BOOLEAN
  BY <1>1 DEF Call
<1>3. /\ UploadDataset(calls[i].id, calls[i].shown) \in Call
      /\ UpdateDataset(calls[i].id, calls[i].source) \in Call
      /\ [calls[i] EXCEPT !.state = "ok"] \in Call
      /\ [calls[i] EXCEPT !.state = "refused"] \in Call
      /\ [calls[i] EXCEPT !.waits = FALSE] \in Call
  BY <1>1, <1>t, CallTypes
<1>4. Grows(docs, docs')
  BY <1>t, DocsGrow
<1>5. CallsAreCurrent => CallIsCurrent(calls[i], dumps, source)
  BY DEF CallsAreCurrent
<1>6. ASSUME NEW st \in {"ok", "refused"}, calls[i].waits,
             CallOK([calls[i] EXCEPT !.state = st], docs')
      PROVE  Follows([calls[i] EXCEPT !.state = st], i)
  <2>1. /\ [calls[i] EXCEPT !.state = st].waits = calls[i].waits
        /\ [calls[i] EXCEPT !.state = st].op = calls[i].op
        /\ [calls[i] EXCEPT !.state = st].shown = calls[i].shown
        /\ [calls[i] EXCEPT !.state = st].source = calls[i].source
        /\ [calls[i] EXCEPT !.state = st].content = calls[i].content
    BY <1>1 DEF Call
  <2>2. QED
    BY <1>5, <1>6, <2>1 DEF Follows, CallIsCurrent
<1>7. CASE HandleCreate(i)
  <2> DEFINE new == [source |-> calls[i].source, status |-> "created", content |-> "none"]
             ok == calls[i].known /\ docs[calls[i].id] = NoDoc
  <2>1. calls[i].op = "create" /\ docs' = IF ok THEN [docs EXCEPT ![calls[i].id] = new] ELSE docs
    BY <1>7 DEF HandleCreate
  <2>2. ASSUME ok, calls[i].waits PROVE CallOK([calls[i] EXCEPT !.state = "ok"], docs')
    <3>1. docs'[calls[i].id] = new
      BY <1>1, <1>2, <2>1, <2>2
    <3>2. QED
      BY <1>1, <2>1, <2>2, <3>1 DEF CallOK, Call
  <2>3. ASSUME calls[i].waits PROVE CallOK([calls[i] EXCEPT !.state = "refused"], docs')
    BY <1>1, <2>1, <2>3 DEF CallOK, Call
  <2>4. \/ calls' = RemoveAt(calls, i)
        \/ ok /\ calls[i].waits /\ calls' = [calls EXCEPT ![i] = [calls[i] EXCEPT !.state = "ok"]]
        \/ calls[i].waits /\ calls' = [calls EXCEPT ![i] = [calls[i] EXCEPT !.state = "refused"]]
    BY <1>7 DEF HandleCreate
  <2>5. QED
    BY <1>3, <1>6, <2>2, <2>3, <2>4
<1>8. CASE HandleUpload(i)
  <2>1. calls[i].op = "upload" /\ calls[i].content # "none" /\ calls[i].waits
    BY <1>1, <1>8 DEF HandleUpload, CallOK
  <2>2. ASSUME docs' = [docs EXCEPT ![calls[i].id].content = calls[i].content]
        PROVE  CallOK([calls[i] EXCEPT !.state = "ok"], docs')
    <3>1. docs'[calls[i].id].content = calls[i].content
      BY <1>1, <1>2, <2>2 DEF Doc
    <3>2. QED
      BY <1>1, <2>1, <3>1 DEF CallOK, Call
  <2>3. CallOK([calls[i] EXCEPT !.state = "refused"], docs')
    BY <1>1, <2>1 DEF CallOK, Call
  <2>4. QED
    BY <1>3, <1>6, <1>8, <2>1, <2>2, <2>3 DEF HandleUpload
<1>9. CASE HandleUpdate(i)
  <2>1. calls[i].op = "update" /\ docs[calls[i].id].content # "none"
    BY <1>1, <1>9 DEF HandleUpdate, CallOK
  <2>2. docs'[calls[i].id].status = "transferred"
    BY <1>1, <1>2, <1>9 DEF HandleUpdate, Doc
  <2>3. docs'[calls[i].id].content # "none"
    BY <1>2, <1>4, <2>1 DEF Grows
  <2>4. calls[i].waits => CallOK([calls[i] EXCEPT !.state = "ok"], docs')
    BY <1>1, <2>1, <2>2, <2>3 DEF CallOK, Call
  <2>5. QED
    BY <1>3, <1>6, <1>9, <2>4 DEF HandleUpdate
<1>10. CASE Created(i)
  <2> DEFINE c == UploadDataset(calls[i].id, calls[i].shown)
  <2>1. calls[i].op = "create" /\ calls[i].waits
    BY <1>1, <1>10 DEF Created, CallOK
  <2>2. /\ c.op = "upload" /\ c.state = "sent" /\ c.waits = TRUE
        /\ c.content = IF raw = calls[i].shown THEN "shown" ELSE "other"
    BY DEF UploadDataset, MakeCall
  <2>3. \/ calls' = RemoveAt(calls, i)
        \/ SwitchStep(1) /\ raw' # None /\ calls' = [calls EXCEPT ![i] = c]
    BY <1>10 DEF Created
  <2>4. SwitchStep(1) => raw' = raw
    BY <1>t, SwitchStepTypes
  <2>5. c \in Call
    BY <1>3
  <2> HIDE DEF c
  <2>6. CallOK(c, docs')
    BY <2>2 DEF CallOK
  <2>7. ASSUME raw # None, Reading, OneCall, CallsAreCurrent PROVE c.content = "shown"
    <3>1. dumps = raw
      BY <2>1, <2>7 DEF Reading, OneCall
    <3>2. calls[i].shown = dumps
      BY <1>5, <2>1, <2>7 DEF CallIsCurrent
    <3>3. QED
      BY <2>2, <3>1, <3>2
  <2>8. raw # None => Follows(c, i)
    BY <2>1, <2>2, <2>6, <2>7 DEF Follows, CallIsCurrent
  <2>9. QED
    BY <2>3, <2>4, <2>5, <2>8
<1>11. CASE Uploaded(i)
  <2> DEFINE c == UpdateDataset(calls[i].id, calls[i].source)
  <2>1. calls[i].waits /\ docs[calls[i].id].content # "none" /\ docs' = docs
    BY <1>1, <1>11 DEF Uploaded, CallOK
  <2>2. c.op = "update" /\ c.state = "sent" /\ c.waits = TRUE /\ c.id = calls[i].id
    BY DEF UpdateDataset, MakeCall
  <2>3. calls' = [calls EXCEPT ![i] = c] /\ c \in Call
    BY <1>3, <1>11 DEF Uploaded
  <2> HIDE DEF c
  <2>4. Follows(c, i)
    BY <2>1, <2>2 DEF Follows, CallOK, CallIsCurrent
  <2>5. QED
    BY <2>3, <2>4
<1>12. CASE Failed(i)
  <2> DEFINE c == [calls[i] EXCEPT !.waits = FALSE]
  <2>1. \/ calls' = RemoveAt(calls, i)
        \/ /\ calls[i].state = "sent" /\ calls[i].op # "upload"
           /\ calls' = [calls EXCEPT ![i] = c]
    BY <1>12 DEF Failed
  <2>2. /\ c.op = calls[i].op /\ c.state = calls[i].state /\ c.waits = FALSE
        /\ c.id = calls[i].id
    BY <1>1 DEF Call
  <2>3. c \in Call /\ docs' = docs
    BY <1>3, <1>12 DEF Failed
  <2> HIDE DEF c
  <2>4. calls[i].state = "sent" /\ calls[i].op # "upload" => Follows(c, i)
    BY <1>1, <2>2, <2>3 DEF Follows, CallOK, CallIsCurrent
  <2>5. QED
    BY <2>1, <2>3, <2>4
<1>13. CASE Updated(i) \/ Lost(i)
  BY <1>13 DEF Updated, Lost
<1>14. QED
  BY <1>7, <1>8, <1>9, <1>10, <1>11, <1>12, <1>13 DEF CallStep

\* The calls that a step of one of them leaves.
LEMMA CallsMove ==
    ASSUME TypeOK, CallsOK, NEW i \in DOMAIN calls, CallStep(i)
    PROVE  /\ CallsOK'
           /\ \A k \in DOMAIN calls' :
                 \/ \E l \in DOMAIN calls : calls'[k] = calls[l]
                 \/ Follows(calls'[k], i)
           /\ (\A j, k \in DOMAIN calls : calls[j].waits /\ calls[k].waits => j = k) =>
                 \A j, k \in DOMAIN calls' : calls'[j].waits /\ calls'[k].waits => j = k
           /\ \A k \in DOMAIN calls' : calls'[k].waits => \E l \in DOMAIN calls : calls[l].waits
<1>t. FlightOK /\ ServerOK
  BY TypeParts
<1>1. calls \in Seq(Call)
  BY <1>t DEF FlightOK
<1>2. ASSUME NEW l \in DOMAIN calls PROVE CallOK(calls[l], docs')
  <2>1. calls[l] \in Call /\ CallOK(calls[l], docs) /\ Grows(docs, docs')
    BY <1>1, <1>t, DocsGrow DEF CallsOK
  <2>2. QED
    BY <2>1, OldCallOK
<1>3. CASE calls' = RemoveAt(calls, i)
  <2>1. \A k \in DOMAIN calls' : /\ Former(k, i) \in DOMAIN calls
                                 /\ calls'[k] = calls[Former(k, i)]
    BY <1>1, <1>3, RemovedAt
  <2>2. DOMAIN calls' \subseteq Int /\ i \in Int
    BY <1>1, <1>3, RemovedAt
  <2>3. \A k \in DOMAIN calls' : CallOK(calls'[k], docs')
    BY <1>2, <2>1
  <2>4. \A j, k \in DOMAIN calls' : Former(j, i) = Former(k, i) => j = k
    BY <2>2, FormerIsOneToOne
  <2>5. QED
    BY <2>1, <2>3, <2>4, Zenon DEF CallsOK
<1>4. ASSUME NEW c \in Call, calls' = [calls EXCEPT ![i] = c], Follows(c, i)
      PROVE  /\ CallsOK'
             /\ \A k \in DOMAIN calls' :
                   \/ \E l \in DOMAIN calls : calls'[k] = calls[l]
                   \/ Follows(calls'[k], i)
             /\ \A k \in DOMAIN calls' : calls'[k].waits => calls[k].waits
             /\ DOMAIN calls' = DOMAIN calls
  <2>1. DOMAIN calls' = DOMAIN calls /\ calls'[i] = c
    BY <1>1, <1>4
  <2>2. \A k \in DOMAIN calls : k # i => calls'[k] = calls[k]
    BY <1>1, <1>4
  <2>3. CallOK(c, docs') /\ (c.waits => calls[i].waits)
    BY <1>4 DEF Follows
  <2>4. \A k \in DOMAIN calls' : CallOK(calls'[k], docs')
    BY <1>2, <2>1, <2>2, <2>3
  <2>5. \A k \in DOMAIN calls' :
           \/ \E l \in DOMAIN calls : calls'[k] = calls[l]
           \/ Follows(calls'[k], i)
    BY <1>4, <2>1, <2>2
  <2>6. \A k \in DOMAIN calls' : calls'[k].waits => calls[k].waits
    BY <2>1, <2>2, <2>3
  <2>7. QED
    BY <2>1, <2>4, <2>5, <2>6 DEF CallsOK
<1>5. QED
  BY <1>3, <1>4, CallFollows

------------------------------------------------------------------------------
(* Every part of the invariant is preserved.                               *)

\* A step is one of the user's, after which they count as patient only if nothing was
\* under way, or that of something under way.
Quiet == NoneRead /\ \A i \in DOMAIN calls : ~calls[i].waits

LEMMA PatientUser ==
    ASSUME GoOn, ~careless'
    PROVE  ~careless /\ Quiet
BY DEF GoOn, Waiting, Quiet, NoneRead

LEMMA FinishedCall ==
    ASSUME TypeOK, Finish
    PROVE  LET n == Len(calls) + 1
               c == CreateDataset(id, source, userId)
           IN  /\ n \notin DOMAIN calls /\ DOMAIN calls' = DOMAIN calls \cup {n}
               /\ calls'[n] = c
               /\ \A k \in DOMAIN calls : calls'[k] = calls[k]
               /\ c.op = "create" /\ c.state = "sent" /\ c.waits = TRUE /\ c.shown = dumps
               /\ c.source = source
<1> DEFINE c == CreateDataset(id, source, userId)
<1>1. /\ c.op = "create" /\ c.state = "sent" /\ c.waits = TRUE /\ c.shown = dumps
      /\ c.source = source
  BY DEF CreateDataset, MakeCall
<1>2. calls' = Append(calls, c) /\ calls \in Seq(Call) /\ c \in Call
  BY TypeParts, CallTypes DEF Finish, FlightOK
<1> HIDE DEF c
<1>3. /\ Len(calls) + 1 \notin DOMAIN calls
      /\ DOMAIN calls' = DOMAIN calls \cup {Len(calls) + 1}
      /\ calls'[Len(calls) + 1] = c
      /\ \A k \in DOMAIN calls : calls'[k] = calls[k]
  BY <1>2
<1>4. QED
  BY <1>1, <1>3 DEF c

LEMMA CallsOKStep == TypeOK /\ CallsOK /\ [Step]_vars => CallsOK'
<1> SUFFICES ASSUME TypeOK, CallsOK, [Step]_vars PROVE CallsOK'
  OBVIOUS
<1>1. CASE UNCHANGED <<calls, docs>>
  BY <1>1 DEF CallsOK
<1>2. CASE Finish
  <2>1. docs' = docs
    BY <1>2 DEF Finish
  <2>2. CallOK(CreateDataset(id, source, userId), docs)
    BY DEF CreateDataset, MakeCall, CallOK
  <2>3. QED
    BY <1>2, <2>1, <2>2, FinishedCall DEF CallsOK
<1>3. ASSUME NEW i \in DOMAIN calls, CallStep(i) PROVE CallsOK'
  BY <1>3, CallsMove
<1>4. QED
  BY <1>1, <1>2, <1>3 DEF Step, User, vars, flight, Open, Close, Prev, Next, TypeAddress,
                          ChooseSource, TypeId, NewDatasetInput, UserKnown, Loaded, NotLoaded

LEMMA PatienceStep ==
    ASSUME TypeOK, DialogInv, [Step]_vars, ~careless'
    PROVE  Reading' /\ OneCall' /\ CallsAreCurrent'
<1>t. FieldsOK /\ FlagsOK /\ FlightOK
  BY TypeParts
<1>i. CallsOK /\ (~careless => Reading /\ OneCall /\ CallsAreCurrent)
  BY DEF DialogInv
<1>q. ASSUME Quiet, UNCHANGED calls PROVE OneCall' /\ CallsAreCurrent'
  BY <1>q DEF Quiet, OneCall, CallsAreCurrent, CallIsCurrent
<1>r. ASSUME NoneRead, Reading, UNCHANGED <<loads, dumps>>, raw' \in {raw, None} PROVE Reading'
  BY <1>r DEF Reading, NoneRead
<1>1. CASE Open \/ Close \/ Prev \/ Next \/ TypeAddress
  <2>1. GoOn /\ UNCHANGED <<loads, calls, dumps>>
    BY <1>1 DEF Open, Close, Prev, Next, TypeAddress, flight
  <2>2. raw' \in {raw, None}
    BY <1>1 DEF Open, Close, Prev, Next, TypeAddress, SwitchStep
  <2>3. ~careless /\ Quiet /\ NoneRead
    BY <2>1, PatientUser DEF Quiet
  <2>4. QED
    BY <1>i, <1>q, <1>r, <2>1, <2>2, <2>3
<1>2. ASSUME NEW s \in Sources, ChooseSource(s) PROVE Reading' /\ OneCall' /\ CallsAreCurrent'
  <2>1. GoOn /\ UNCHANGED <<loads, calls, dumps, raw>>
    BY <1>2 DEF ChooseSource, flight
  <2>2. ~careless /\ Quiet /\ NoneRead
    BY <2>1, PatientUser DEF Quiet
  <2>3. QED
    BY <1>i, <1>q, <1>r, <2>1, <2>2
<1>3. ASSUME NEW x \in TypedIds, TypeId(x) PROVE Reading' /\ OneCall' /\ CallsAreCurrent'
  <2>1. GoOn /\ UNCHANGED <<loads, calls, dumps, raw>>
    BY <1>3 DEF TypeId, flight
  <2>2. ~careless /\ Quiet /\ NoneRead
    BY <2>1, PatientUser DEF Quiet
  <2>3. QED
    BY <1>i, <1>q, <1>r, <2>1, <2>2
<1>4. ASSUME NEW f \in Files, NewDatasetInput(f) PROVE Reading' /\ OneCall' /\ CallsAreCurrent'
  <2>1. GoOn /\ UNCHANGED calls /\ loads' = Append(loads, f) /\ raw' = f
    BY <1>4 DEF NewDatasetInput
  <2>2. Quiet /\ loads = <<>>
    BY <2>1, PatientUser DEF Quiet, NoneRead
  <2>3. loads' = <<f>> /\ loads' # <<>>
    BY <2>1, <2>2
  <2>4. Reading'
    BY <2>1, <2>3 DEF Reading, NoneRead
  <2>5. QED
    BY <1>q, <2>1, <2>2, <2>4
<1>5. CASE Finish
  <2>1. GoOn /\ UNCHANGED <<loads, dumps, raw, source>>
    BY <1>5 DEF Finish
  <2>2. ~careless /\ Quiet /\ NoneRead
    BY <2>1, PatientUser DEF Quiet
  <2>3. NoneRead'
    BY <2>1, <2>2 DEF NoneRead
  <2>4. \A k \in DOMAIN calls' : k \in DOMAIN calls => ~calls'[k].waits
    BY <1>5, <2>2, FinishedCall DEF Quiet
  <2>5. OneCall'
    BY <1>5, <2>3, <2>4, FinishedCall DEF OneCall
  <2>6. CallIsCurrent(CreateDataset(id, source, userId), dumps, source)
    BY <1>5, FinishedCall DEF CallIsCurrent
  <2>7. CallsAreCurrent'
    BY <1>5, <2>1, <2>4, <2>6, FinishedCall DEF CallsAreCurrent, CallIsCurrent
  <2>8. QED
    BY <1>i, <1>r, <2>1, <2>2, <2>5, <2>7
<1>6. CASE UserKnown \/ UNCHANGED vars
  <2>1. UNCHANGED <<raw, dumps, source, loads, calls, careless>>
    BY <1>6 DEF UserKnown, vars, dialog, flight
  <2>2. QED
    BY <1>i, <2>1 DEF Reading, OneCall, CallsAreCurrent, NoneRead
<1>7. ASSUME NEW i \in DOMAIN loads, Loaded(i) PROVE Reading' /\ OneCall' /\ CallsAreCurrent'
  <2>1. /\ ~careless /\ UNCHANGED calls /\ dumps' = loads[i] /\ SwitchStep(1)
        /\ loads' = RemoveAt(loads, i)
    BY <1>7 DEF Loaded
  <2>2. raw' = raw
    BY <1>t, <2>1, SwitchStepTypes
  <2>3. loads = <<raw>>
    BY <1>i, <1>7, <2>1 DEF Reading, NoneRead
  <2>4. dumps' = raw
    BY <1>7, <2>1, <2>3
  <2>5. loads' = <<>>
    <3>1. loads \in Seq(Files) /\ Len(loads) = 1
      BY <1>t, <2>3 DEF FlightOK
    <3>2. loads' \in Seq(Files) /\ DOMAIN loads' = 1 .. Len(loads) - 1
      BY <1>7, <2>1, <3>1, RemovedAt
    <3>3. QED
      BY <3>1, <3>2
  <2>6. Reading'
    BY <2>2, <2>4, <2>5 DEF Reading, NoneRead
  <2>7. \A k \in DOMAIN calls : ~calls[k].waits
    BY <1>i, <1>7, <2>1 DEF OneCall, NoneRead
  <2>8. OneCall' /\ CallsAreCurrent'
    BY <2>1, <2>7 DEF OneCall, CallsAreCurrent, CallIsCurrent
  <2>9. QED
    BY <2>6, <2>8
<1>8. ASSUME NEW i \in DOMAIN loads, NotLoaded(i) PROVE FALSE
  BY <1>8 DEF NotLoaded
<1>9. ASSUME NEW i \in DOMAIN calls, CallStep(i) PROVE Reading' /\ OneCall' /\ CallsAreCurrent'
  <2>1. UNCHANGED <<loads, dumps, source, careless>>
    BY <1>9 DEF CallStep, HandleCreate, HandleUpload, HandleUpdate, Created, Uploaded, Updated,
                Failed, Lost, dialog
  <2>2. raw' = raw
    BY <1>9, <1>t, SwitchStepTypes
       DEF CallStep, HandleCreate, HandleUpload, HandleUpdate, Created, Uploaded, Updated,
           Failed, Lost, dialog
  <2>3. Reading /\ OneCall /\ CallsAreCurrent
    BY <1>i, <2>1
  <2>4. Reading'
    BY <2>1, <2>2, <2>3 DEF Reading, NoneRead
  <2>5. \A j, k \in DOMAIN calls' : calls'[j].waits /\ calls'[k].waits => j = k
    BY <1>9, <1>i, <2>3, CallsMove DEF OneCall
  <2>6. \A k \in DOMAIN calls' : calls'[k].waits => loads' = <<>>
    BY <1>9, <1>i, <2>1, <2>3, CallsMove DEF OneCall, NoneRead
  <2>7. \A k \in DOMAIN calls' : CallIsCurrent(calls'[k], dumps, source)
    BY <1>9, <1>i, <2>3, CallsMove DEF CallsAreCurrent, Follows
  <2>8. QED
    BY <2>1, <2>4, <2>5, <2>6, <2>7 DEF OneCall, CallsAreCurrent, NoneRead
<1>10. QED
  BY <1>1, <1>2, <1>3, <1>4, <1>5, <1>6, <1>7, <1>8, <1>9 DEF Step, User

\* What the handlers make of the documents, and which ids are reported.
LEMMA DocsStep ==
    ASSUME TypeOK, DialogInv, [Step]_vars
    PROVE  /\ Grows(docs, docs')
           /\ \A x \in Ids :
                 /\ docs'[x].status = "transferred" =>
                       docs[x].status = "transferred" \/ docs'[x].content # "none"
                 /\ ~careless /\ docs'[x].content = "other" => docs[x].content = "other"
           /\ ~careless => \A x \in reported' :
                 \/ x \in reported
                 \/ /\ docs[x].status # "none"
                    /\ docs[x].source = "upload" => docs[x].status = "transferred"
           /\ careless => careless'
<1>t. FlightOK /\ ServerOK /\ FlagsOK
  BY TypeParts
<1>i. CallsOK /\ (~careless => CallsAreCurrent)
  BY DEF DialogInv
<1>1. CASE UNCHANGED <<docs, reported>> /\ (careless => careless')
  BY <1>1 DEF Grows, DialogInv
<1>2. ASSUME NEW i \in DOMAIN calls, CallStep(i), ~UNCHANGED <<docs, reported>>
      PROVE  /\ Grows(docs, docs')
             /\ \A x \in Ids :
                   /\ docs'[x].status = "transferred" =>
                         docs[x].status = "transferred" \/ docs'[x].content # "none"
                   /\ ~careless /\ docs'[x].content = "other" => docs[x].content = "other"
             /\ ~careless => \A x \in reported' :
                   \/ x \in reported
                   \/ /\ docs[x].status # "none"
                      /\ docs[x].source = "upload" => docs[x].status = "transferred"
             /\ careless => careless'
  <2>1. Grows(docs, docs')
    BY <1>2, <1>i, <1>t, DocsGrow
  <2>2. /\ calls[i] \in Call /\ docs \in [Ids -> Doc] /\ CallOK(calls[i], docs)
        /\ ~careless => CallIsCurrent(calls[i], dumps, source)
    BY <1>t, <1>i DEF FlightOK, ServerOK, CallsOK, CallsAreCurrent
  <2>3. calls[i].id \in Ids
    BY <2>2 DEF Call
  <2>4. careless => careless'
    BY <1>2 DEF CallStep, HandleCreate, HandleUpload, HandleUpdate, Created, Uploaded, Updated,
                Failed, Lost
  <2>5. CASE HandleCreate(i)
    <3>1. /\ reported' = reported
          /\ \/ docs' = docs
             \/ docs' = [docs EXCEPT ![calls[i].id] =
                           [source |-> calls[i].source, status |-> "created", content |-> "none"]]
      BY <2>5 DEF HandleCreate
    <3>2. QED
      BY <2>1, <2>2, <2>3, <2>4, <3>1
  <2>6. CASE HandleUpload(i)
    <3>1. /\ reported' = reported
          /\ \/ docs' = docs
             \/ docs' = [docs EXCEPT ![calls[i].id].content = calls[i].content]
      BY <2>6 DEF HandleUpload
    <3>2. ~careless => calls[i].content = "shown"
      BY <2>2, <2>6 DEF HandleUpload, CallOK, CallIsCurrent
    <3>3. QED
      BY <2>1, <2>2, <2>3, <2>4, <3>1, <3>2 DEF Doc
  <2>7. CASE HandleUpdate(i)
    <3>1. /\ reported' = reported
          /\ docs' = [docs EXCEPT ![calls[i].id].status = "transferred"]
      BY <2>7 DEF HandleUpdate
    <3>2. docs[calls[i].id].content # "none"
      BY <2>2, <2>7 DEF HandleUpdate, CallOK
    <3>3. QED
      BY <2>1, <2>2, <2>3, <2>4, <3>1, <3>2 DEF Doc
  <2>8. CASE Created(i)
    <3>1. docs' = docs /\ reported' = reported \cup {calls[i].id} /\ source # "upload"
      BY <1>2, <2>8 DEF Created, Sucess
    <3>2. /\ docs[calls[i].id].status # "none" /\ docs[calls[i].id].source = calls[i].source
          /\ ~careless => calls[i].source = source
      BY <2>2, <2>8 DEF Created, CallOK, CallIsCurrent
    <3>3. QED
      BY <2>1, <2>4, <3>1, <3>2
  <2>9. CASE Updated(i)
    <3>1. docs' = docs /\ reported' = reported \cup {calls[i].id}
      BY <2>9 DEF Updated, Sucess
    <3>2. docs[calls[i].id].status = "transferred"
      BY <2>2, <2>9 DEF Updated, CallOK
    <3>3. QED
      BY <2>1, <2>4, <3>1, <3>2
  <2>10. CASE Uploaded(i) \/ Failed(i) \/ Lost(i)
    BY <1>2, <2>10 DEF Uploaded, Failed, Lost
  <2>11. QED
    BY <1>2, <2>5, <2>6, <2>7, <2>8, <2>9, <2>10 DEF CallStep
<1>3. GoOn => (careless => careless')
  BY DEF GoOn
<1>4. ASSUME NEW i \in DOMAIN calls, CallStep(i) PROVE careless => careless'
  BY <1>4 DEF CallStep, HandleCreate, HandleUpload, HandleUpdate, Created, Uploaded, Updated,
              Failed, Lost
<1>5. \/ UNCHANGED <<docs, reported>> /\ (careless => careless')
      \/ \E i \in DOMAIN calls : CallStep(i)
  BY <1>3 DEF Step, User, vars, Open, Close, Prev, Next, TypeAddress, Finish, ChooseSource,
              TypeId, NewDatasetInput, UserKnown, Loaded, NotLoaded
<1>6. QED
  BY <1>1, <1>2, <1>4, <1>5

LEMMA DialogStep == TypeOK /\ DialogInv /\ [Step]_vars => DialogInv'
<1> SUFFICES ASSUME TypeOK, DialogInv, [Step]_vars PROVE DialogInv'
  OBVIOUS
<1>1. CallsOK'
  BY CallsOKStep DEF DialogInv
<1>2. ~careless' => Reading' /\ OneCall' /\ CallsAreCurrent'
  BY PatienceStep
<1>3. TransferredHasContent'
  <2>1. \A x \in Ids : docs[x].status = "transferred" => docs[x].content # "none"
    BY DEF DialogInv, TransferredHasContent
  <2>2. \A x \in Ids : docs[x].content # "none" => docs'[x].content # "none"
    BY DocsStep DEF Grows
  <2>3. \A x \in Ids : docs'[x].status = "transferred" =>
                          docs[x].status = "transferred" \/ docs'[x].content # "none"
    BY DocsStep
  <2>4. QED
    BY <2>1, <2>2, <2>3 DEF TransferredHasContent
<1>4. UploadIsWhatWasShown'
  BY DocsStep DEF DialogInv, UploadIsWhatWasShown
<1>5. SuccessIsTrue'
  <2> SUFFICES ASSUME ~careless', NEW x \in reported'
               PROVE  /\ docs'[x].status # "none"
                      /\ docs'[x].source = "upload" => docs'[x].status = "transferred"
    BY DEF SuccessIsTrue
  <2>1. ~careless
    BY DocsStep
  <2>2. /\ docs[x].status # "none"
        /\ docs[x].source = "upload" => docs[x].status = "transferred"
    BY <2>1, DocsStep DEF DialogInv, SuccessIsTrue
  <2>3. x \in Ids
    BY NextTypes, TypeParts DEF TypeOK
  <2>4. QED
    BY <2>2, <2>3, DocsStep DEF Grows
<1>6. QED
  BY <1>1, <1>2, <1>3, <1>4, <1>5 DEF DialogInv

LEMMA DialogInit == Init => DialogInv
<1> SUFFICES ASSUME Init PROVE DialogInv
  OBVIOUS
<1>1. calls = <<>> /\ loads = <<>> /\ raw = None /\ reported = {}
  BY DEF Init
<1>2. \A x \in Ids : docs[x].status = "none" /\ docs[x].content = "none"
  BY DEF Init, NoDoc
<1>3. CallsOK /\ Reading /\ OneCall /\ CallsAreCurrent
  BY <1>1 DEF CallsOK, Reading, OneCall, CallsAreCurrent, NoneRead
<1>4. TransferredHasContent /\ UploadIsWhatWasShown /\ SuccessIsTrue
  BY <1>1, <1>2 DEF TransferredHasContent, UploadIsWhatWasShown, SuccessIsTrue
<1>5. QED
  BY <1>3, <1>4 DEF DialogInv

LEMMA DialogHolds == Spec => []DialogInv
BY DialogInit, DialogStep, DialogTypes, PTL DEF Spec

\* A dataset's status is set to transferred only when its data is complete on the
\* server, whatever the user does and whichever calls fail, time out or are late:
\* updateDataset is called by the callback of an upload that ended.
THEOREM TransferredIsComplete == Spec => []TransferredHasContent
<1>1. DialogInv => TransferredHasContent
  BY DEF DialogInv
<1>2. QED
  BY <1>1, DialogHolds, PTL

\* A user who waits for what they started uploads the file whose schemas the dialog
\* showed when they pressed Finish, although the callback of createDataset reads the
\* field again.
THEOREM UploadsAreShown == Spec => []UploadIsWhatWasShown
<1>1. DialogInv => UploadIsWhatWasShown
  BY DEF DialogInv
<1>2. QED
  BY <1>1, DialogHolds, PTL

\* The message "Dataset Created" is true of the dataset, for a user who waits, also
\* when calls failed or timed out before.
THEOREM SuccessIsReported == Spec => []SuccessIsTrue
<1>1. DialogInv => SuccessIsTrue
  BY DEF DialogInv
<1>2. QED
  BY <1>1, DialogHolds, PTL
==============================================================================
