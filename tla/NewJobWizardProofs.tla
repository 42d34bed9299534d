-------------------------- MODULE NewJobWizardProofs -------------------------
(***************************************************************************)
(* Theorems about the dialog that starts a job, for all datasets,          *)
(* objectives, models and ways in which they fit, and however often the    *)
(* dialog is opened and Finish is pressed.                                 *)
(***************************************************************************)
EXTENDS NewJobWizard, SequenceLemmas, TLAPS

------------------------------------------------------------------------------
(* Lemmas about the bag of queries.                                        *)

LEMMA AddToBag ==
    ASSUME NEW B, NEW x, IsABag(B)
    PROVE  IsABag(BagAdd(B, x)) /\ BagToSet(BagAdd(B, x)) = BagToSet(B) \cup {x}
BY DEF IsABag, BagAdd, BagToSet

LEMMA RemoveFromBag ==
    ASSUME NEW B, NEW x, IsABag(B)
    PROVE  IsABag(BagRemove(B, x)) /\ BagToSet(BagRemove(B, x)) \subseteq BagToSet(B)
<1>1. CASE x \notin DOMAIN B
  BY <1>1 DEF BagRemove
<1>2. CASE x \in DOMAIN B /\ B[x] = 1
  BY <1>2 DEF IsABag, BagRemove, BagToSet
<1>3. CASE x \in DOMAIN B /\ B[x] # 1
  BY <1>3 DEF IsABag, BagRemove, BagToSet
<1>4. QED
  BY <1>1, <1>2, <1>3

\* A bag of one query is empty once the query is answered.
LEMMA OnlyQuery ==
    ASSUME NEW q
    PROVE  /\ BagAdd(EmptyBag, q) # EmptyBag
           /\ BagToSet(BagAdd(EmptyBag, q)) = {q}
           /\ BagRemove(BagAdd(EmptyBag, q), q) = EmptyBag
<1>1. DOMAIN EmptyBag = {} /\ EmptyBag = [e \in {} |-> 1]
  BY DEF EmptyBag, SetToBag
<1>2. BagAdd(EmptyBag, q) = [e \in {q} |-> 1]
  BY <1>1 DEF BagAdd
<1>3. BagRemove([e \in {q} |-> 1], q) = [e \in {} |-> 1]
  BY DEF BagRemove
<1>4. QED
  BY <1>1, <1>2, <1>3 DEF BagToSet

LEMMA EmptyIsABag == IsABag(EmptyBag) /\ BagToSet(EmptyBag) = {}
BY DEF EmptyBag, SetToBag, IsABag, BagToSet

------------------------------------------------------------------------------
(* Type correctness.                                                       *)

Post == [job : Job, made : BOOLEAN, waits : BOOLEAN]

\* The parts of a state that a step leaves alone keep their types.
ServerOK == validated \in SUBSET Datasets /\ jobs \in SUBSET Job
ListsOK ==
    /\ datasets \in SUBSET Datasets /\ dataset \in Datasets \cup {None}
    /\ objectives \in SUBSET Objectives /\ objective \in Objectives \cup {None}
    /\ models \in SUBSET Models /\ chosen \in SUBSET Models
RequestsOK == IsABag(requests) /\ BagToSet(requests) \subseteq Query
PostsOK == posts \in Seq(Post)

LEMMA TypeParts ==
    TypeOK <=> /\ ServerOK /\ ListsOK /\ RequestsOK /\ PostsOK
               /\ open \in BOOLEAN /\ step \in 1..4 /\ hasty \in BOOLEAN
               /\ opened \in 0..MaxOpens /\ pressed \in 0..MaxPosts
BY DEF TypeOK, ServerOK, ListsOK, RequestsOK, PostsOK, Post

LEMMA AnswerTypes ==
    ASSUME ServerOK, NEW q \in Query
    PROVE  /\ q.type = "datasets" => Answer(q) \in SUBSET Datasets
           /\ q.type = "objectives" => Answer(q) \in SUBSET Objectives
           /\ q.type = "models" => Answer(q) \in SUBSET Models
           /\ q.type \in {"datasets", "objectives", "models"}
BY DEF Query, Answer, Applicable, ServerOK

LEMMA InitStepTypes ==
    ASSUME RequestsOK, ListsOK, NEW s \in 1..4, InitStep(s)
    PROVE  step' \in 1..4 /\ RequestsOK'
<1>1. /\ [type |-> "datasets", dataset |-> None] \in Query
      /\ [type |-> "objectives", dataset |-> dataset] \in Query
      /\ [type |-> "models", dataset |-> dataset] \in Query
  BY DEF Query, ListsOK
<1>2. \/ requests' = requests
      \/ \E q \in Query : requests' = BagAdd(requests, q)
  BY <1>1 DEF InitStep
<1>3. QED
  BY <1>2, AddToBag DEF RequestsOK, InitStep

\* A post that is sent, made, given up or answered: those that are left have the jobs
\* that the posts had before.
LEMMA PostsMove ==
    ASSUME PostsOK, NEW i \in DOMAIN posts,
           CreateJob(i) \/ Created(i) \/ PostFails(i) \/ PostLost(i)
    PROVE  /\ PostsOK'
           /\ \A k \in DOMAIN posts' : \E l \in DOMAIN posts : posts'[k].job = posts[l].job
<1>1. \/ posts' = RemoveAt(posts, i)
      \/ posts' = [posts EXCEPT ![i].made = TRUE]
      \/ posts' = [posts EXCEPT ![i].waits = FALSE]
  BY DEF CreateJob, Created, PostFails, PostLost
<1>2. posts \in Seq(Post) /\ posts[i] \in Post
  BY DEF PostsOK
<1>3. CASE posts' = RemoveAt(posts, i)
  <2>1. /\ RemoveAt(posts, i) \in Seq(Post)
        /\ \A k \in DOMAIN RemoveAt(posts, i) :
              \E l \in DOMAIN posts : RemoveAt(posts, i)[k] = posts[l]
    BY <1>2, RemovedSeq
  <2>2. QED
    BY <1>3, <2>1, Zenon DEF PostsOK
<1>4. ASSUME NEW p \in Post, p.job = posts[i].job, posts' = [posts EXCEPT ![i] = p]
      PROVE  /\ PostsOK'
             /\ \A k \in DOMAIN posts' : \E l \in DOMAIN posts : posts'[k].job = posts[l].job
  <2>1. posts' \in Seq(Post)
    BY <1>2, <1>4
  <2>2. DOMAIN posts' = DOMAIN posts
    BY <1>4
  <2>3. \A k \in DOMAIN posts' : posts'[k].job = posts[k].job
    BY <1>4, <2>2
  <2>4. QED
    BY <2>1, <2>2, <2>3, Zenon DEF PostsOK
<1>5. CASE posts' = [posts EXCEPT ![i].made = TRUE]
  <2>1. /\ [posts[i] EXCEPT !.made = TRUE] \in Post
        /\ [posts[i] EXCEPT !.made = TRUE].job = posts[i].job
    BY <1>2 DEF Post
  <2>2. QED
    BY <1>4, <1>5, <2>1
<1>6. CASE posts' = [posts EXCEPT ![i].waits = FALSE]
  <2>1. /\ [posts[i] EXCEPT !.waits = FALSE] \in Post
        /\ [posts[i] EXCEPT !.waits = FALSE].job = posts[i].job
    BY <1>2 DEF Post
  <2>2. QED
    BY <1>4, <1>6, <2>1
<1>7. QED
  BY <1>1, <1>3, <1>5, <1>6

LEMMA NextTypes == TypeOK /\ [Step]_vars => TypeOK'
<1> SUFFICES ASSUME TypeOK, [Step]_vars PROVE TypeOK'
  OBVIOUS
<1>t. /\ ServerOK /\ ListsOK /\ RequestsOK /\ PostsOK
      /\ open \in BOOLEAN /\ step \in 1..4 /\ hasty \in BOOLEAN
      /\ opened \in 0..MaxOpens /\ pressed \in 0..MaxPosts
  BY TypeParts
<1>n. MaxOpens \in Nat /\ MaxPosts \in Nat
  BY WizardAssumption
<1>u. /\ UNCHANGED server => ServerOK'
      /\ UNCHANGED lists => ListsOK'
      /\ UNCHANGED requests => RequestsOK'
      /\ UNCHANGED posts => PostsOK'
  BY <1>t DEF server, lists, ServerOK, ListsOK, RequestsOK, PostsOK
<1>g. GoOn => hasty' \in BOOLEAN
  BY <1>t DEF GoOn
<1>p. TypeOK' <=> /\ ServerOK' /\ ListsOK' /\ RequestsOK' /\ PostsOK'
                  /\ open' \in BOOLEAN /\ step' \in 1..4 /\ hasty' \in BOOLEAN
                  /\ opened' \in 0..MaxOpens /\ pressed' \in 0..MaxPosts
  BY DEF TypeOK, ServerOK, ListsOK, RequestsOK, PostsOK, Post
<1>1. CASE Open
  <2>1. step' \in 1..4 /\ RequestsOK'
    BY <1>1, <1>t, InitStepTypes DEF Open
  <2>2. opened' \in 0..MaxOpens
    BY <1>1, <1>t, <1>n DEF Open
  <2>3. QED
    BY <1>1, <1>t, <1>u, <1>g, <1>p, <2>1, <2>2 DEF Open
<1>2. CASE Close
  BY <1>2, <1>t, <1>u, <1>p DEF Close
<1>3. CASE Prev \/ Next
  <2>1. PICK s \in 1..4 : InitStep(s)
    BY <1>3, <1>t DEF Prev, Next
  <2>2. step' \in 1..4 /\ RequestsOK'
    BY <1>t, <2>1, InitStepTypes
  <2>3. QED
    BY <1>3, <1>t, <1>u, <1>g, <1>p, <2>2 DEF Prev, Next
<1>4. ASSUME NEW d \in Datasets, SelectDataset(d) PROVE TypeOK'
  <2>1. ListsOK'
    BY <1>4, <1>t DEF SelectDataset, ListsOK
  <2>2. QED
    BY <1>4, <1>t, <1>u, <1>g, <1>p, <2>1 DEF SelectDataset
<1>5. ASSUME NEW o \in Objectives, SelectObjective(o) PROVE TypeOK'
  <2>1. ListsOK'
    BY <1>5, <1>t DEF SelectObjective, ListsOK
  <2>2. QED
    BY <1>5, <1>t, <1>u, <1>g, <1>p, <2>1 DEF SelectObjective
<1>6. ASSUME NEW ms \in SUBSET Models, SelectModels(ms) PROVE TypeOK'
  <2>1. ListsOK'
    BY <1>6, <1>t DEF SelectModels, ListsOK
  <2>2. QED
    BY <1>6, <1>t, <1>u, <1>g, <1>p, <2>1 DEF SelectModels
<1>7. CASE Finish
  <2> DEFINE job == [dataset |-> dataset, objective |-> objective, models |-> chosen,
                     hasty |-> hasty \/ requests # EmptyBag, listed |-> objectives # {}]
  <2>1. job \in Job
    BY <1>t DEF Job, ListsOK
  <2>2. [job |-> job, made |-> FALSE, waits |-> TRUE] \in Post
    BY <2>1 DEF Post
  <2>3. posts' = Append(posts, [job |-> job, made |-> FALSE, waits |-> TRUE])
    BY <1>7 DEF Finish
  <2> HIDE DEF job
  <2>4. PostsOK'
    BY <1>t, <2>2, <2>3 DEF PostsOK
  <2>5. pressed' \in 0..MaxPosts
    BY <1>7, <1>t, <1>n DEF Finish
  <2>6. QED
    BY <1>7, <1>t, <1>u, <1>p, <2>4, <2>5 DEF Finish
<1>8. ASSUME NEW q \in BagToSet(requests), Arrive(q) PROVE TypeOK'
  <2>1. q \in Query
    BY <1>t DEF RequestsOK
  <2>2. RequestsOK'
    BY <1>8, <1>t, RemoveFromBag DEF RequestsOK, Arrive
  <2>3. CASE q.type = "datasets" /\ DatasetsArrive(Answer(q))
    <3>1. ListsOK'
      BY <1>t, <2>1, <2>3, AnswerTypes DEF DatasetsArrive, ListsOK
    <3>2. QED
      BY <1>8, <1>t, <1>u, <1>p, <2>2, <3>1 DEF Arrive
  <2>4. CASE q.type = "objectives" /\ ObjectivesArrive(Answer(q))
    <3>1. ListsOK'
      BY <1>t, <2>1, <2>4, AnswerTypes DEF ObjectivesArrive, ListsOK
    <3>2. QED
      BY <1>8, <1>t, <1>u, <1>p, <2>2, <3>1 DEF Arrive
  <2>5. CASE q.type = "models" /\ ModelsArrive(Answer(q))
    <3>1. ListsOK'
      BY <1>t, <2>1, <2>5, AnswerTypes DEF ModelsArrive, ListsOK
    <3>2. QED
      BY <1>8, <1>t, <1>u, <1>p, <2>2, <3>1 DEF Arrive
  <2>6. QED
    BY <1>8, <1>t, <2>1, <2>3, <2>4, <2>5, AnswerTypes DEF Arrive
<1>9. ASSUME NEW q \in BagToSet(requests), QueryFails(q) PROVE TypeOK'
  <2>1. RequestsOK'
    BY <1>9, <1>t, RemoveFromBag DEF RequestsOK, QueryFails
  <2>2. QED
    BY <1>9, <1>t, <1>u, <1>p, <2>1 DEF QueryFails
<1>10. ASSUME NEW i \in DOMAIN posts,
              CreateJob(i) \/ Created(i) \/ PostFails(i) \/ PostLost(i)
       PROVE  TypeOK'
  <2>1. posts[i] \in Post
    BY <1>t DEF PostsOK
  <2>2. posts[i].job \in Job
    BY <2>1 DEF Post
  <2>3. PostsOK'
    BY <1>10, <1>t, PostsMove
  <2>4. ServerOK'
    BY <1>10, <1>t, <2>2 DEF CreateJob, Created, PostFails, PostLost, server, ServerOK
  <2>5. QED
    BY <1>10, <1>t, <1>u, <1>p, <2>3, <2>4 DEF CreateJob, Created, PostFails, PostLost
<1>11. CASE UNCHANGED vars
  BY <1>11, <1>t, <1>u, <1>p DEF vars
<1>12. QED
  BY <1>1, <1>2, <1>3, <1>4, <1>5, <1>6, <1>7, <1>8, <1>9, <1>10, <1>11 DEF Step, User, Network

LEMMA InitTypes == Init => TypeOK
<1> SUFFICES ASSUME Init PROVE TypeOK
  OBVIOUS
<1>1. MaxOpens \in Nat /\ MaxPosts \in Nat
  BY WizardAssumption
<1>2. ServerOK /\ ListsOK
  BY DEF Init, ServerOK, ListsOK, Job
<1>3. RequestsOK
  BY EmptyIsABag DEF Init, RequestsOK
<1>4. PostsOK
  <2>1. <<>> \in Seq(Post)
    OBVIOUS
  <2>2. QED
    BY <2>1 DEF Init, PostsOK
<1>5. /\ open \in BOOLEAN /\ step \in 1..4 /\ hasty \in BOOLEAN
      /\ opened \in 0..MaxOpens /\ pressed \in 0..MaxPosts
  <2>1. open \in BOOLEAN /\ hasty \in BOOLEAN
    BY DEF Init
  <2>2. step = 1 /\ opened = 0 /\ pressed = 0
    BY DEF Init
  <2>3. step \in 1..4 /\ opened \in 0..MaxOpens /\ pressed \in 0..MaxPosts
    BY <1>1, <2>2
  <2>4. QED
    BY <2>1, <2>3
<1>6. QED
  BY <1>2, <1>3, <1>4, <1>5, TypeParts

\* The dialog's lists hold what its steps show, its queries and posts are well formed
\* and no bound is passed, whatever the user does and in whatever order answers come.
THEOREM WizardTypes == Spec => []TypeOK
BY InitTypes, NextTypes, PTL DEF Spec

------------------------------------------------------------------------------
(* What is selected is shown.  With the types, the property is inductive   *)
(* as it stands: each list comes with its selection in one step.           *)

LEMMA SelectionStep == TypeOK /\ SelectionIsShown /\ [Step]_vars => SelectionIsShown'
<1> SUFFICES ASSUME TypeOK, SelectionIsShown, [Step]_vars PROVE SelectionIsShown'
  OBVIOUS
<1>t. ServerOK /\ RequestsOK
  BY TypeParts
<1>u. UNCHANGED lists => SelectionIsShown'
  BY DEF lists, SelectionIsShown
<1>1. CASE Open \/ Close \/ Prev \/ Next \/ Finish
  BY <1>1, <1>u DEF Open, Close, Prev, Next, Finish
<1>2. ASSUME NEW d \in Datasets, SelectDataset(d) PROVE SelectionIsShown'
  BY <1>2 DEF SelectDataset, SelectionIsShown
<1>3. ASSUME NEW o \in Objectives, SelectObjective(o) PROVE SelectionIsShown'
  BY <1>3 DEF SelectObjective, SelectionIsShown
<1>4. ASSUME NEW ms \in SUBSET Models, SelectModels(ms) PROVE SelectionIsShown'
  BY <1>4 DEF SelectModels, SelectionIsShown
<1>5. ASSUME NEW q \in BagToSet(requests), Arrive(q) PROVE SelectionIsShown'
  <2>1. q \in Query
    BY <1>t DEF RequestsOK
  <2>2. CASE DatasetsArrive(Answer(q))
    BY <2>2 DEF DatasetsArrive, SelectionIsShown
  <2>3. CASE ObjectivesArrive(Answer(q))
    BY <2>3 DEF ObjectivesArrive, SelectionIsShown
  <2>4. CASE ModelsArrive(Answer(q))
    BY <2>4 DEF ModelsArrive, SelectionIsShown
  <2>5. QED
    BY <1>5, <1>t, <2>1, <2>2, <2>3, <2>4, AnswerTypes DEF Arrive
<1>6. ASSUME NEW q \in BagToSet(requests), QueryFails(q) PROVE SelectionIsShown'
  BY <1>6, <1>u DEF QueryFails
<1>7. ASSUME NEW i \in DOMAIN posts,
             CreateJob(i) \/ Created(i) \/ PostFails(i) \/ PostLost(i)
      PROVE  SelectionIsShown'
  BY <1>7, <1>u DEF CreateJob, Created, PostFails, PostLost
<1>8. CASE UNCHANGED vars
  BY <1>8, <1>u DEF vars
<1>9. QED
  BY <1>1, <1>2, <1>3, <1>4, <1>5, <1>6, <1>7, <1>8 DEF Step, User, Network

\* However the answers of the steps and openings of the dialog are interleaved with
\* what the user selects, loadDatasets, loadObjectives and loadModels leave a
\* selection that the list on the page contains.
THEOREM SelectionsAreShown == Spec => []SelectionIsShown
<1>1. Init => SelectionIsShown
  BY DEF Init, SelectionIsShown
<1>2. QED
  BY <1>1, SelectionStep, WizardTypes, PTL DEF Spec

------------------------------------------------------------------------------
(* The patient user.  While they have not been hasty there is at most one  *)
(* query in flight, that of the step on the page, asked with the dataset   *)
(* that is still selected; so the lists of the steps behind them belong    *)
(* to that dataset.                                                        *)

JobFits(job) == ~job.hasty /\ job.listed /\ job.dataset # None => Suits(job)

QueryOf(s) ==
    CASE s = 1 -> [type |-> "datasets", dataset |-> None]
      [] s = 2 -> [type |-> "objectives", dataset |-> dataset]
      [] s = 3 -> [type |-> "models", dataset |-> dataset]

OneQuery ==
    \/ requests = EmptyBag
    \/ step \in 1..3 /\ requests = BagAdd(EmptyBag, QueryOf(step))

ListsBelong ==
    /\ (step = 2 /\ requests = EmptyBag) \/ step \in {3, 4} =>
          objectives = Applicable(Objectives, dataset)
    /\ (step = 3 /\ requests = EmptyBag) \/ step = 4 =>
          models = Applicable(Models, dataset)

JobsFit ==
    /\ \A job \in jobs : JobFits(job)
    /\ \A i \in DOMAIN posts : JobFits(posts[i].job)

PatientInv == (~hasty => OneQuery /\ ListsBelong) /\ JobsFit

\* A step to s that a patient user takes asks the one query of s.
LEMMA PatientInitStep ==
    ASSUME TypeOK, NEW s \in 1..4, InitStep(s), requests = EmptyBag, UNCHANGED dataset
    PROVE  /\ OneQuery'
           /\ step' = s
           /\ s = 4 => requests' = EmptyBag
           /\ s # 4 => requests' # EmptyBag
<1>1. step' = s
  BY DEF InitStep
<1>2. CASE s = 4
  BY <1>1, <1>2 DEF InitStep, OneQuery
<1>3. CASE s \in 1..3
  <2>1. requests' = BagAdd(EmptyBag, QueryOf(s))
    BY <1>3 DEF InitStep, QueryOf
  <2>2. QueryOf(s)' = QueryOf(s)
    BY DEF QueryOf
  <2>3. QueryOf(step)' = QueryOf(s)
    BY <1>1, <1>3, <2>2 DEF QueryOf
  <2>4. requests' = BagAdd(EmptyBag, QueryOf(step)')
    BY <2>1, <2>3
  <2>5. QED
    BY <1>1, <1>3, <2>1, <2>4, OnlyQuery DEF OneQuery
<1>4. QED
  BY <1>2, <1>3

\* A job that is finished with the lists of its dataset on the page fits it.
LEMMA FinishedJobFits ==
    ASSUME TypeOK, SelectionIsShown, ~hasty => OneQuery /\ ListsBelong, Finish
    PROVE  \A i \in DOMAIN posts' :
              JobFits(posts'[i].job) \/ \E l \in DOMAIN posts : posts'[i].job = posts[l].job
<1> DEFINE job == [dataset |-> dataset, objective |-> objective, models |-> chosen,
                   hasty |-> hasty \/ requests # EmptyBag, listed |-> objectives # {}]
           post == [job |-> job, made |-> FALSE, waits |-> TRUE]
<1>1. posts' = Append(posts, post) /\ step = 4
  BY DEF Finish
<1>2. /\ job.dataset = dataset /\ job.objective = objective /\ job.models = chosen
      /\ job.hasty = (hasty \/ requests # EmptyBag) /\ job.listed = (objectives # {})
      /\ post.job = job
  OBVIOUS
<1>3. JobFits(job)
  <2> SUFFICES ASSUME ~hasty, objectives # {}, dataset # None
               PROVE  /\ <<dataset, objective>> \in Fits
                      /\ \A m \in chosen : <<dataset, m>> \in Fits
    BY <1>2 DEF JobFits, Suits
  <2>1. objectives = Applicable(Objectives, dataset) /\ models = Applicable(Models, dataset)
    BY <1>1 DEF ListsBelong
  <2>2. objective \in objectives /\ chosen \subseteq models
    BY DEF SelectionIsShown
  <2>3. QED
    BY <2>1, <2>2 DEF Applicable
<1>4. posts \in Seq(Post)
  BY TypeParts DEF PostsOK
<1> HIDE DEF job
<1>5. ASSUME NEW i \in DOMAIN posts'
      PROVE  posts'[i] = post \/ \E l \in DOMAIN posts : posts'[i] = posts[l]
  BY <1>1, <1>4
<1>6. QED
  BY <1>2, <1>3, <1>5

LEMMA PatientStep ==
    TypeOK /\ SelectionIsShown /\ PatientInv /\ [Step]_vars => PatientInv'
<1> SUFFICES ASSUME TypeOK, SelectionIsShown, PatientInv, [Step]_vars PROVE PatientInv'
  OBVIOUS
<1>t. /\ RequestsOK /\ PostsOK /\ ServerOK /\ step \in 1..4
      /\ hasty \in BOOLEAN
  BY TypeParts
<1>j. UNCHANGED <<jobs, posts>> => JobsFit'
  BY DEF PatientInv, JobsFit
<1>b. UNCHANGED <<step, dataset, requests, objectives, models>> =>
         (OneQuery => OneQuery') /\ (ListsBelong => ListsBelong')
  BY DEF OneQuery, ListsBelong, QueryOf
<1>g. GoOn /\ ~hasty' => ~hasty /\ requests = EmptyBag /\ OneQuery /\ ListsBelong
  BY DEF GoOn, PatientInv
<1>1. CASE Open \/ Prev \/ Next
  <2>1. GoOn /\ UNCHANGED <<jobs, posts, dataset, objectives, models>>
    BY <1>1 DEF Open, Prev, Next, lists, server
  <2>2. PICK s \in 1..4 : InitStep(s) /\ (s = 1 \/ s = step + 1 \/ s = step - 1)
    BY <1>1, <1>t DEF Open, Prev, Next
  <2>3. ASSUME ~hasty' PROVE OneQuery' /\ ListsBelong'
    <3>1. requests = EmptyBag /\ ListsBelong
      BY <1>g, <2>1, <2>3
    <3>2. OneQuery' /\ step' = s /\ (s = 4 => requests' = EmptyBag) /\ (s # 4 => requests' # EmptyBag)
      BY <2>1, <2>2, <3>1, PatientInitStep
    <3>3. s \in {3, 4} => objectives = Applicable(Objectives, dataset)
      BY <1>t, <2>2, <3>1 DEF ListsBelong
    <3>4. s = 4 => models = Applicable(Models, dataset)
      BY <1>t, <2>2, <3>1 DEF ListsBelong
    <3>5. QED
      BY <2>1, <3>2, <3>3, <3>4 DEF ListsBelong, Applicable
  <2>4. QED
    BY <1>j, <2>1, <2>3 DEF PatientInv
<1>2. CASE Close
  BY <1>2, <1>j, <1>b DEF Close, lists, server, PatientInv
<1>3. ASSUME NEW d \in Datasets, SelectDataset(d) PROVE PatientInv'
  <2>1. ASSUME ~hasty' PROVE OneQuery' /\ ListsBelong'
    BY <1>3, <1>g, <2>1 DEF SelectDataset, OneQuery, ListsBelong
  <2>2. QED
    BY <1>3, <1>j, <2>1 DEF SelectDataset, server, PatientInv
<1>4. ASSUME NEW o \in Objectives, SelectObjective(o) PROVE PatientInv'
  BY <1>4, <1>g, <1>j, <1>b DEF SelectObjective, server, PatientInv
<1>5. ASSUME NEW ms \in SUBSET Models, SelectModels(ms) PROVE PatientInv'
  BY <1>5, <1>g, <1>j, <1>b DEF SelectModels, server, PatientInv
<1>6. CASE Finish
  <2>1. ~hasty' => OneQuery' /\ ListsBelong'
    BY <1>6, <1>b DEF Finish, lists, PatientInv
  <2>2. \A i \in DOMAIN posts' : JobFits(posts'[i].job)
    BY <1>6, FinishedJobFits DEF PatientInv, JobsFit
  <2>3. JobsFit'
    BY <1>6, <2>2 DEF Finish, server, PatientInv, JobsFit
  <2>4. QED
    BY <2>1, <2>3 DEF PatientInv
<1>7. ASSUME NEW q \in BagToSet(requests), Arrive(q) PROVE PatientInv'
  <2>1. ASSUME ~hasty' PROVE OneQuery' /\ ListsBelong'
    <3>1. ~hasty /\ OneQuery /\ ListsBelong /\ step' = step
      BY <1>7, <2>1 DEF Arrive, PatientInv
    <3>2. step \in 1..3 /\ requests = BagAdd(EmptyBag, QueryOf(step))
      <4>1. requests # EmptyBag
        BY EmptyIsABag
      <4>2. QED
        BY <3>1, <4>1 DEF OneQuery
    <3>3. q = QueryOf(step) /\ requests' = EmptyBag
      BY <1>7, <3>2, OnlyQuery DEF Arrive
    <3>4. OneQuery'
      BY <3>3 DEF OneQuery
    <3>5. CASE step = 1
      BY <3>1, <3>4, <3>5 DEF ListsBelong
    <3>6. CASE step = 2
      <4>1. q.type = "objectives" /\ q.dataset = dataset
        BY <3>3, <3>6 DEF QueryOf
      <4>2. objectives' = Applicable(Objectives, dataset) /\ dataset' = dataset
        BY <1>7, <4>1 DEF Arrive, ObjectivesArrive, Answer
      <4>3. QED
        BY <3>1, <3>4, <3>6, <4>2 DEF ListsBelong, Applicable
    <3>7. CASE step = 3
      <4>1. q.type = "models" /\ q.dataset = dataset
        BY <3>3, <3>7 DEF QueryOf
      <4>2. /\ models' = Applicable(Models, dataset)
            /\ dataset' = dataset /\ objectives' = objectives
        BY <1>7, <4>1 DEF Arrive, ModelsArrive, Answer
      <4>3. objectives = Applicable(Objectives, dataset)
        BY <3>1, <3>7 DEF ListsBelong
      <4>4. QED
        BY <3>1, <3>4, <3>7, <4>2, <4>3 DEF ListsBelong, Applicable
    <3>8. QED
      BY <3>2, <3>4, <3>5, <3>6, <3>7
  <2>2. QED
    BY <1>7, <1>j, <2>1 DEF Arrive, server, PatientInv
<1>8. ASSUME NEW q \in BagToSet(requests), QueryFails(q) PROVE PatientInv'
  BY <1>8, <1>j DEF QueryFails, server, PatientInv
<1>9. ASSUME NEW i \in DOMAIN posts,
             CreateJob(i) \/ Created(i) \/ PostFails(i) \/ PostLost(i)
      PROVE  PatientInv'
  <2>1. ~hasty' => OneQuery' /\ ListsBelong'
    BY <1>9, <1>b DEF CreateJob, Created, PostFails, PostLost, lists, PatientInv
  <2>2. \A k \in DOMAIN posts' : \E l \in DOMAIN posts : posts'[k].job = posts[l].job
    BY <1>9, <1>t, PostsMove
  <2>3. \A k \in DOMAIN posts' : JobFits(posts'[k].job)
    BY <2>2 DEF PatientInv, JobsFit
  <2>4. jobs' \subseteq jobs \cup {posts[i].job}
    BY <1>9 DEF CreateJob, Created, PostFails, PostLost, server
  <2>5. QED
    BY <2>1, <2>3, <2>4 DEF PatientInv, JobsFit
<1>10. CASE UNCHANGED vars
  BY <1>10, <1>j, <1>b DEF vars, lists, server, PatientInv
<1>11. QED
  BY <1>1, <1>2, <1>3, <1>4, <1>5, <1>6, <1>7, <1>8, <1>9, <1>10 DEF Step, User, Network

\* A job that a user starts who waits for every list has an objective and models
\* that fit its dataset, on whatever path through the steps and openings of the
\* dialog: initStep asks again for what a new dataset could change.
THEOREM PatientJobsFit == Spec => []PatientJobFits
<1>1. Init => PatientInv
  <2> SUFFICES ASSUME Init PROVE PatientInv
    OBVIOUS
  <2>1. requests = EmptyBag /\ step = 1 /\ jobs = {} /\ posts = <<>>
    BY DEF Init
  <2>2. OneQuery /\ ListsBelong
    BY <2>1 DEF OneQuery, ListsBelong
  <2>3. JobsFit
    BY <2>1 DEF JobsFit
  <2>4. QED
    BY <2>2, <2>3 DEF PatientInv
<1>2. PatientInv => PatientJobFits
  BY DEF PatientInv, JobsFit, JobFits, PatientJobFits
<1>3. QED
  BY <1>1, <1>2, PatientStep, WizardTypes, SelectionsAreShown, PTL DEF Spec
==============================================================================
