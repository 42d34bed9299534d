----------------------------- MODULE DatasetLife -----------------------------
(***************************************************************************)
(* What becomes of datasets, as their users see it: a dataset is created,  *)
(* transferred, unpacked and validated, in this order, by whoever holds    *)
(* it; its files are written before the status that promises them and left *)
(* alone afterwards; it may fail on the way, and it may be archived at any *)
(* time.  Nothing is said about controllers, crashes, staged archives and  *)
(* the steps this takes.                                                   *)
(***************************************************************************)
CONSTANTS
    Datasets, SourceKinds, Procs,
    NoProc        \* the holder of a dataset that nobody holds

VARIABLES source, holder, status, schema, content   \* of each dataset

datasetLife == <<source, holder, status, schema, content>>

\* The status before a status.
Before(s) ==
    CASE s = "transferred" -> "created"
      [] s = "unpacked"    -> "transferred"
      [] s = "validated"   -> "unpacked"

------------------------------------------------------------------------------
Init ==
    /\ source = [d \in Datasets |-> "none"]
    /\ holder = [d \in Datasets |-> NoProc]
    /\ status = [d \in Datasets |-> "none"]
    /\ schema = [d \in Datasets |-> FALSE]
    /\ content = [d \in Datasets |-> "absent"]

Held(d) == holder[d] # NoProc

Create(d, kind) ==
    /\ status[d] = "none"
    /\ source' = [source EXCEPT ![d] = kind]
    /\ status' = [status EXCEPT ![d] = "created"]
    /\ UNCHANGED <<holder, schema, content>>

\* There is something to do for a dataset that waits for its next status; the
\* transfer of an upload is its user's.
Take(d, p) ==
    /\ ~Held(d)
    /\ \/ status[d] = "created" /\ source[d] # "upload"
       \/ status[d] \in {"transferred", "unpacked"}
    /\ holder' = [holder EXCEPT ![d] = p]
    /\ UNCHANGED <<source, status, schema, content>>

\* A process lets go of one dataset, or all datasets of a dead process are
\* released.  One that has failed is kept, so that nobody takes it again.
Release(ds) ==
    /\ \A d \in ds : status[d] # "error"
    /\ holder' = [d \in Datasets |-> IF d \in ds THEN NoProc ELSE holder[d]]
    /\ UNCHANGED <<source, status, schema, content>>

\* Files are written while a local directory is transferred, and else while the
\* dataset is unpacked.
Fill(d, extent) ==
    /\ Held(d)
    /\ status[d] \in {"archived", IF source[d] = "localdir" THEN "created" ELSE "transferred"}
    /\ content' = [content EXCEPT ![d] = extent]
    /\ UNCHANGED <<source, holder, status, schema>>

Describe(d) ==
    /\ Held(d)
    /\ status[d] \in {"archived", "unpacked"}
    /\ content[d] = "complete"
    /\ schema' = [schema EXCEPT ![d] = TRUE]
    /\ UNCHANGED <<source, holder, status, content>>

\* The next status, also of a dataset that was archived on the way to it.
Reach(d, s) ==
    /\ status[d] \in {"archived", Before(s)}
    /\ Held(d) <=> ~(s = "transferred" /\ source[d] = "upload")
    /\ s = "transferred" /\ source[d] = "localdir" => content[d] = "complete"
    /\ s \in {"unpacked", "validated"} => content[d] = "complete"
    /\ s = "validated" => schema[d]
    /\ status' = [status EXCEPT ![d] = s]
    /\ UNCHANGED <<source, holder, schema, content>>

Fail(d) ==
    /\ Held(d)
    /\ status[d] \in {"created", "transferred", "unpacked", "archived"}
    /\ status' = [status EXCEPT ![d] = "error"]
    /\ UNCHANGED <<source, holder, schema, content>>

Archive(d) ==
    /\ status[d] # "none"
    /\ status' = [status EXCEPT ![d] = "archived"]
    /\ UNCHANGED <<source, holder, schema, content>>

DatasetStep(d) ==
    \/ \E kind \in SourceKinds : Create(d, kind)
    \/ \E p \in Procs : Take(d, p)
    \/ \E extent \in {"partial", "complete"} : Fill(d, extent)
    \/ Describe(d)
    \/ \E s \in {"transferred", "unpacked", "validated"} : Reach(d, s)
    \/ Fail(d)
    \/ Archive(d)

Next == (\E ds \in SUBSET Datasets : Release(ds)) \/ \E d \in Datasets : DatasetStep(d)

Spec == Init /\ [][Next]_datasetLife
==============================================================================
