------------------------ MODULE SchemaInferenceProofs ------------------------
(***************************************************************************)
(* Theorems about the links of a dataset and about inferSchema.            *)
(*                                                                         *)
(* First, that the directed search of Links.isCyclic returns the right     *)
(* verdict, and that both searches implement CycleDecision, for every set  *)
(* of instances, every graph on it and every order in which vertices are   *)
(* taken.  The directed search visits a vertex for the first time when it  *)
(* is on top of the stack, and leaves it when it is on top again.  In      *)
(* between it is an ancestor.  The same vertex may be on the stack several *)
(* times, and may even be visited again after it was left.  The argument   *)
(* therefore keeps a set F of vertices that is closed under successors and *)
(* has no cycle: everything that was ever left is in it.                   *)
(*                                                                         *)
(* Then, for every set of datasets that are read and of schemas that       *)
(* datasets are generated from: what inferSchema returns describes the     *)
(* samples it was inferred from.                                           *)
(***************************************************************************)
EXTENDS SchemaGeneration, SequenceLemmas, FiniteSetTheorems, TLAPS

------------------------------------------------------------------------------
(* The searches for cycles of links.                                       *)

Closed(g, F) == \A p \in F, q \in Instances : <<p, q>> \in g => q \in F

\* Each vertex of S has a successor in S.
Circular(g, S) == \A p \in S : \E q \in S : <<p, q>> \in g

\* z can be reached from p: it is in every closed set that p is in.
Reaches(g, p, z) == \A C \in SUBSET Instances : p \in C /\ Closed(g, C) => z \in C

\* The topmost position of an ancestor on the stack s.
OpenAt(s, A, i) ==
    /\ i \in 1..Len(s) /\ s[i] \in A
    /\ \A j \in 1..Len(s) : j > i => s[j] # s[i]

\* F is closed and without a cycle.
Searched(g, F) ==
    /\ Closed(g, F)
    /\ \A S \in SUBSET F : Circular(g, S) => S = {}

\* What has been visited is an ancestor or in F; what is to be pushed was not visited.
Visited(g, F, N, A, T) ==
    /\ Endpoints(g) \ N \subseteq F \cup A
    /\ A \cap N = {} /\ T \subseteq N

\* Ancestors are on the stack, and what is above one of them can be reached from it.
OnPath(g, A, s, T) ==
    /\ \A a \in A : \E i \in 1..Len(s) : OpenAt(s, A, i) /\ s[i] = a
    /\ \A i \in 1..Len(s) : OpenAt(s, A, i) =>
        /\ \A j \in 1..Len(s) : j > i => Reaches(g, s[i], s[j])
        /\ \A y \in T : Reaches(g, s[i], y)

\* A successor of an ancestor is in F, or above it on the stack, or to be pushed.
Pending(g, F, A, s, T) ==
    \A i \in 1..Len(s) : OpenAt(s, A, i) =>
        \A y \in Instances : <<s[i], y>> \in g =>
            y \in F \/ y \in T \/ \E j \in 1..Len(s) : j > i /\ s[j] = y

Searching(g, F, N, A, s, T) ==
    /\ Searched(g, F) /\ Visited(g, F, N, A, T)
    /\ OnPath(g, A, s, T) /\ Pending(g, F, A, s, T)

\* The inductive invariant.
SearchInv ==
    /\ CycleTypeOK /\ DirectedVerdict
    /\ running => verdict = "none"
    /\ Directed => \E F \in SUBSET Instances : Searching(links, F, nodes, ancestors, stack, todo)

------------------------------------------------------------------------------
(* Reachability and cycles.                                                *)

\* A vertex reaches itself.
LEMMA ReachesSelf ==
    ASSUME NEW g, NEW p PROVE Reaches(g, p, p)
BY DEF Reaches

\* A way can be prolonged by a link.
LEMMA ReachesLink ==
    ASSUME NEW g, NEW p, NEW q \in Instances, NEW z \in Instances,
           Reaches(g, p, q), <<q, z>> \in g
    PROVE  Reaches(g, p, z)
BY DEF Reaches, Closed

\* On a way from p to another vertex z there is a first link.
LEMMA FirstLink ==
    ASSUME NEW g, NEW p \in Instances, NEW z, Reaches(g, p, z), p # z
    PROVE  \E q \in Instances : <<p, q>> \in g /\ Reaches(g, q, z)
<1> SUFFICES ASSUME \A q \in Instances : <<p, q>> \in g => ~Reaches(g, q, z)
             PROVE  FALSE
    OBVIOUS
<1> DEFINE C == {p} \cup {r \in Instances : ~Reaches(g, r, z)}
<1>1. z \notin {r \in Instances : ~Reaches(g, r, z)}
    BY ReachesSelf
<1>2. C \in SUBSET Instances /\ p \in C /\ z \notin C
    BY <1>1
<1>3. ASSUME NEW r \in Instances, ~Reaches(g, r, z), NEW q \in Instances, <<r, q>> \in g
      PROVE  ~Reaches(g, q, z)
    <2> SUFFICES ASSUME Reaches(g, q, z) PROVE Reaches(g, r, z)
        BY <1>3
    <2> QED BY <1>3 DEF Reaches, Closed
<1>4. Closed(g, C)
    BY <1>3 DEF Closed
<1> QED BY <1>2, <1>4 DEF Reaches

\* A link from z back to a vertex that z can be reached from closes a cycle.
LEMMA BackLink ==
    ASSUME NEW g, NEW b \in Instances, NEW z \in Instances,
           Reaches(g, b, z), <<z, b>> \in g
    PROVE  Decision!DirectedCycle(g)
<1> DEFINE S == {p \in Instances : Reaches(g, b, p) /\ Reaches(g, p, z)}
<1>1. S \in SUBSET Instances /\ b \in S /\ z \in S
    BY ReachesSelf
<1>2. ASSUME NEW p \in S PROVE \E q \in S : <<p, q>> \in g
    <2>1. CASE p = z BY <2>1, <1>1
    <2>2. CASE p # z
        <3>1. PICK q \in Instances : <<p, q>> \in g /\ Reaches(g, q, z)
            BY <2>2, FirstLink
        <3>2. Reaches(g, b, q)
            BY <3>1, ReachesLink
        <3> QED BY <3>1, <3>2
    <2> QED BY <2>1, <2>2
<1> QED BY <1>1, <1>2 DEF Decision!DirectedCycle

\* A searched set without a cycle grows by a vertex whose successors are in it.
LEMMA SearchedGrows ==
    ASSUME NEW g, NEW F \in SUBSET Instances, NEW x \in Instances, Searched(g, F),
           \A y \in Instances : <<x, y>> \in g => y \in F
    PROVE  Searched(g, F \cup {x})
<1>1. Closed(g, F \cup {x})
    BY DEF Searched, Closed
<1>2. ASSUME NEW S \in SUBSET (F \cup {x}), Circular(g, S) PROVE S = {}
    <2>1. S \cap F = {}
        <3>1. Circular(g, S \cap F)
            BY <1>2 DEF Circular, Searched, Closed
        <3> QED BY <3>1 DEF Searched
    <2>2. x \notin S
        BY <1>2, <2>1 DEF Circular
    <2> QED BY <2>1, <2>2
<1> QED BY <1>1, <1>2 DEF Searched

\* A graph whose vertices are all in a searched set has no cycle.
LEMMA NoCycle ==
    ASSUME NEW g, NEW F \in SUBSET Instances, Searched(g, F), Endpoints(g) \subseteq F
    PROVE  ~Decision!DirectedCycle(g)
<1> SUFFICES ASSUME NEW S \in SUBSET Instances, S # {}, \A a \in S : \E b \in S : <<a, b>> \in g
             PROVE  FALSE
    BY DEF Decision!DirectedCycle
<1>1. S \subseteq F
    BY DEF Endpoints
<1> QED BY <1>1 DEF Searched, Circular

------------------------------------------------------------------------------
(* The steps of the search.                                                *)

\* What Front and Last are for a stack that is not empty.
LEMMA FrontOfStack ==
    ASSUME NEW s \in Seq(Instances), s # <<>>
    PROVE  /\ Len(s) \in Nat \ {0} /\ Last(s) = s[Len(s)] /\ Last(s) \in Instances
           /\ Front(s) \in Seq(Instances) /\ Len(Front(s)) = Len(s) - 1
           /\ \A i \in 1..(Len(s) - 1) : Front(s)[i] = s[i]
<1>1. Len(s) \in Nat \ {0} /\ Last(s) = s[Len(s)] /\ Last(s) \in Instances
    BY DEF Last
<1>2. Front(s) = [i \in 1..(Len(s) - 1) |-> s[i]]
    BY <1>1 DEF Front
<1>3. Front(s) \in Seq(Instances) /\ Len(Front(s)) = Len(s) - 1
    BY <1>1, <1>2
<1> QED BY <1>1, <1>2, <1>3

\* The call, and the choice of a root: nobody is an ancestor.
LEMMA SearchStarts ==
    ASSUME NEW g, NEW F \in SUBSET Instances, NEW N, NEW s \in Seq(Instances),
           Searched(g, F), Endpoints(g) \ N \subseteq F
    PROVE  Searching(g, F, N, {}, s, {})
BY DEF Searching, Visited, OnPath, Pending, OpenAt

\* A vertex that is visited has a link to an ancestor only if there is a cycle.
LEMMA VisitFindsCycle ==
    ASSUME NEW g, NEW F \in SUBSET Instances, NEW N, NEW A \in SUBSET Instances,
           NEW s \in Seq(Instances), s # <<>>, Searching(g, F, N, A, s, {}),
           Last(s) \notin A,
           NEW b \in A \cup {Last(s)}, <<Last(s), b>> \in g
    PROVE  Decision!DirectedCycle(g)
<1>1. CASE b = Last(s)
    BY <1>1, ReachesSelf, BackLink, FrontOfStack
<1>2. CASE b \in A
    <2>1. PICK i \in 1..Len(s) : OpenAt(s, A, i) /\ s[i] = b
        BY <1>2 DEF Searching, OnPath
    <2>2. Len(s) \in 1..Len(s) /\ Len(s) > i
        BY <1>2, <2>1, FrontOfStack
    <2>3. Reaches(g, b, Last(s))
        BY <2>1, <2>2, FrontOfStack DEF Searching, OnPath
    <2> QED BY <1>2, <2>3, BackLink, FrontOfStack
<1> QED BY <1>1, <1>2

\* Otherwise it becomes an ancestor, and its unvisited successors are to be pushed.
LEMMA VisitGoesOn ==
    ASSUME NEW g, NEW F \in SUBSET Instances, NEW N, NEW A \in SUBSET Instances,
           NEW s \in Seq(Instances), s # <<>>, Searching(g, F, N, A, s, {}),
           Last(s) \notin A,
           \A b \in A \cup {Last(s)} : <<Last(s), b>> \notin g
    PROVE  Searching(g, F, N \ {Last(s)}, A \cup {Last(s)}, s,
                     {y \in Instances : <<Last(s), y>> \in g} \cap (N \ {Last(s)}))
<1> DEFINE x == Last(s)
           B == A \cup {x}
           M == N \ {x}
           T == {y \in Instances : <<x, y>> \in g} \cap M
<1>1. Visited(g, F, M, B, T)
    BY DEF Searching, Visited
<1>2. OpenAt(s, B, Len(s))
    BY FrontOfStack DEF OpenAt
<1>3. ASSUME NEW i \in 1..Len(s), OpenAt(s, B, i)
      PROVE  i = Len(s) \/ OpenAt(s, A, i)
    BY <1>3, FrontOfStack DEF OpenAt
<1>4. ASSUME NEW i \in 1..Len(s), OpenAt(s, A, i)
      PROVE  OpenAt(s, B, i) /\ Len(s) > i
    BY <1>4, FrontOfStack DEF OpenAt
<1>5. OnPath(g, B, s, T)
    <2>1. ASSUME NEW a \in B PROVE \E i \in 1..Len(s) : OpenAt(s, B, i) /\ s[i] = a
        <3>1. CASE a = x BY <3>1, <1>2, FrontOfStack
        <3>2. CASE a \in A BY <3>2, <1>4 DEF Searching, OnPath
        <3> QED BY <3>1, <3>2
    <2>2. ASSUME NEW i \in 1..Len(s), OpenAt(s, B, i)
          PROVE  /\ \A j \in 1..Len(s) : j > i => Reaches(g, s[i], s[j])
                 /\ \A y \in T : Reaches(g, s[i], y)
        <3>1. CASE i = Len(s)
            <4>1. \A j \in 1..Len(s) : ~(j > i)
                BY <3>1, FrontOfStack
            <4>2. ASSUME NEW y \in T PROVE Reaches(g, s[i], y)
                BY <3>1, FrontOfStack, ReachesSelf, ReachesLink
            <4> QED BY <4>1, <4>2
        <3>2. CASE OpenAt(s, A, i)
            <4>1. \A j \in 1..Len(s) : j > i => Reaches(g, s[i], s[j])
                BY <3>2 DEF Searching, OnPath
            <4>2. Reaches(g, s[i], x)
                BY <3>2, <4>1, <1>4, FrontOfStack
            <4>3. ASSUME NEW y \in T PROVE Reaches(g, s[i], y)
                BY <4>2, FrontOfStack, ReachesLink
            <4> QED BY <4>1, <4>3
        <3> QED BY <3>1, <3>2, <2>2, <1>3
    <2> QED BY <2>1, <2>2 DEF OnPath
<1>6. Pending(g, F, B, s, T)
    <2> SUFFICES ASSUME NEW i \in 1..Len(s), OpenAt(s, B, i),
                        NEW y \in Instances, <<s[i], y>> \in g
                 PROVE  y \in F \/ y \in T \/ \E j \in 1..Len(s) : j > i /\ s[j] = y
        BY DEF Pending
    <2>1. CASE i = Len(s)
        <3>1. y \in Endpoints(g) /\ s[i] = x /\ x \in Instances
            BY <2>1, FrontOfStack DEF Endpoints
        <3>2. y \notin B
            BY <3>1
        <3> QED BY <3>1, <3>2 DEF Searching, Visited
    <2>2. CASE OpenAt(s, A, i)
        BY <2>2 DEF Searching, Pending
    <2> QED BY <2>1, <2>2, <1>3
<1> QED BY <1>1, <1>5, <1>6 DEF Searching

\* A vertex that is pushed is above every ancestor, and is none itself.
LEMMA PushGoesOn ==
    ASSUME NEW g, NEW F \in SUBSET Instances, NEW N, NEW A \in SUBSET Instances,
           NEW s \in Seq(Instances), NEW T \in SUBSET Instances,
           Searching(g, F, N, A, s, T), NEW y \in T
    PROVE  Searching(g, F, N, A, Append(s, y), T \ {y})
<1> DEFINE t == Append(s, y)
           U == T \ {y}
<1>1. /\ Len(s) \in Nat /\ Len(t) = Len(s) + 1 /\ t[Len(t)] = y
      /\ \A i \in 1..Len(s) : t[i] = s[i]
    OBVIOUS
<1>2. Visited(g, F, N, A, U) /\ y \notin A
    BY DEF Searching, Visited
<1>3. ASSUME NEW i \in 1..Len(t)
      PROVE  OpenAt(t, A, i) <=> i \in 1..Len(s) /\ OpenAt(s, A, i)
    <2>1. CASE i = Len(t) BY <2>1, <1>1, <1>2 DEF OpenAt
    <2>2. CASE i \in 1..Len(s)
        <3>1. OpenAt(t, A, i) => OpenAt(s, A, i) BY <2>2, <1>1 DEF OpenAt
        <3>2. ASSUME OpenAt(s, A, i) PROVE OpenAt(t, A, i)
            <4>1. ASSUME NEW j \in 1..Len(t), j > i PROVE t[j] # t[i]
                <5>1. CASE j = Len(t) BY <5>1, <3>2, <2>2, <1>1, <1>2 DEF OpenAt
                <5>2. CASE j \in 1..Len(s) BY <5>2, <4>1, <3>2, <2>2, <1>1 DEF OpenAt
                <5> QED BY <5>1, <5>2, <1>1
            <4> QED BY <4>1, <3>2, <2>2, <1>1 DEF OpenAt
        <3> QED BY <3>1, <3>2, <2>2
    <2> QED BY <2>1, <2>2, <1>1
<1>4. OnPath(g, A, t, U)
    <2>1. ASSUME NEW a \in A PROVE \E i \in 1..Len(t) : OpenAt(t, A, i) /\ t[i] = a
        <3>1. PICK i \in 1..Len(s) : OpenAt(s, A, i) /\ s[i] = a
            BY DEF Searching, OnPath
        <3>2. i \in 1..Len(t) /\ t[i] = a BY <3>1, <1>1
        <3> QED BY <3>1, <3>2, <1>3
    <2>2. ASSUME NEW i \in 1..Len(t), OpenAt(t, A, i)
          PROVE  /\ \A j \in 1..Len(t) : j > i => Reaches(g, t[i], t[j])
                 /\ \A z \in U : Reaches(g, t[i], z)
        <3>1. i \in 1..Len(s) /\ OpenAt(s, A, i) /\ t[i] = s[i]
            BY <2>2, <1>3, <1>1
        <3>2. /\ \A j \in 1..Len(s) : j > i => Reaches(g, s[i], s[j])
              /\ \A z \in T : Reaches(g, s[i], z)
            BY <3>1 DEF Searching, OnPath
        <3>3. ASSUME NEW j \in 1..Len(t), j > i PROVE Reaches(g, t[i], t[j])
            <4>1. CASE j = Len(t) BY <4>1, <3>1, <3>2, <1>1
            <4>2. CASE j \in 1..Len(s) BY <4>2, <3>3, <3>1, <3>2, <1>1
            <4> QED BY <4>1, <4>2, <1>1
        <3> QED BY <3>1, <3>2, <3>3
    <2> QED BY <2>1, <2>2 DEF OnPath
<1>5. Pending(g, F, A, t, U)
    <2> SUFFICES ASSUME NEW i \in 1..Len(t), OpenAt(t, A, i),
                        NEW z \in Instances, <<t[i], z>> \in g
                 PROVE  z \in F \/ z \in U \/ \E j \in 1..Len(t) : j > i /\ t[j] = z
        BY DEF Pending
    <2>1. i \in 1..Len(s) /\ OpenAt(s, A, i) /\ t[i] = s[i]
        BY <1>3, <1>1
    <2>2. z \in F \/ z \in T \/ \E j \in 1..Len(s) : j > i /\ s[j] = z
        BY <2>1 DEF Searching, Pending
    <2>3. CASE z = y BY <2>3, <2>1, <1>1
    <2>4. CASE \E j \in 1..Len(s) : j > i /\ s[j] = z BY <2>4, <1>1
    <2> QED BY <2>2, <2>3, <2>4
<1> QED BY <1>2, <1>4, <1>5 DEF Searching

\* All successors of a vertex that is left are in F, which it joins.
LEMMA LeaveGoesOn ==
    ASSUME NEW g, NEW F \in SUBSET Instances, NEW N, NEW A \in SUBSET Instances,
           NEW s \in Seq(Instances), s # <<>>, Searching(g, F, N, A, s, {}),
           Last(s) \in A
    PROVE  Searching(g, F \cup {Last(s)}, N, A \ {Last(s)}, Front(s), {})
<1> DEFINE x == Last(s)
           t == Front(s)
           B == A \ {x}
           G == F \cup {x}
<1>1. /\ Len(s) \in Nat \ {0} /\ x = s[Len(s)] /\ x \in Instances
      /\ t \in Seq(Instances) /\ Len(t) = Len(s) - 1
      /\ \A i \in 1..Len(t) : i \in 1..Len(s) /\ t[i] = s[i]
      /\ \A j \in 1..Len(s) : j = Len(s) \/ j \in 1..Len(t)
    <2>1. Len(t) = Len(s) - 1 /\ Len(s) \in Nat \ {0} BY FrontOfStack
    <2>2. 1..Len(t) \subseteq 1..Len(s) BY <2>1
    <2>3. \A j \in 1..Len(s) : j = Len(s) \/ j \in 1..Len(t) BY <2>1
    <2> QED BY <2>1, <2>2, <2>3, FrontOfStack
<1> HIDE DEF t
<1>2. OpenAt(s, A, Len(s))
    BY <1>1 DEF OpenAt
<1>3. Searched(g, G)
    <2>1. ASSUME NEW y \in Instances, <<x, y>> \in g PROVE y \in F
        BY <2>1, <1>1, <1>2 DEF Searching, Pending
    <2> QED BY <2>1, <1>1, SearchedGrows DEF Searching
<1>4. Visited(g, G, N, B, {})
    BY DEF Searching, Visited
<1>5. ASSUME NEW i \in 1..Len(t)
      PROVE  OpenAt(t, B, i) <=> OpenAt(s, A, i)
    <2>1. ASSUME OpenAt(t, B, i) PROVE OpenAt(s, A, i)
        <3>1. ASSUME NEW j \in 1..Len(s), j > i PROVE s[j] # s[i]
            <4>1. CASE j = Len(s) BY <4>1, <2>1, <1>1 DEF OpenAt
            <4>2. CASE j \in 1..Len(t) BY <4>2, <3>1, <2>1, <1>1 DEF OpenAt
            <4> QED BY <4>1, <4>2, <1>1
        <3> QED BY <3>1, <2>1, <1>1 DEF OpenAt
    <2>2. ASSUME OpenAt(s, A, i) PROVE OpenAt(t, B, i)
        <3>1. s[i] # x BY <2>2, <1>1 DEF OpenAt
        <3> QED BY <3>1, <2>2, <1>1 DEF OpenAt
    <2> QED BY <2>1, <2>2
<1>6. OnPath(g, B, t, {})
    <2>1. ASSUME NEW a \in B PROVE \E i \in 1..Len(t) : OpenAt(t, B, i) /\ t[i] = a
        <3>1. PICK i \in 1..Len(s) : OpenAt(s, A, i) /\ s[i] = a
            BY DEF Searching, OnPath
        <3>2. i \in 1..Len(t) /\ t[i] = a BY <3>1, <1>1
        <3> QED BY <3>1, <3>2, <1>5
    <2>2. ASSUME NEW i \in 1..Len(t), OpenAt(t, B, i)
          PROVE  \A j \in 1..Len(t) : j > i => Reaches(g, t[i], t[j])
        <3>1. i \in 1..Len(s) /\ OpenAt(s, A, i) BY <2>2, <1>5, <1>1
        <3>2. \A j \in 1..Len(s) : j > i => Reaches(g, s[i], s[j])
            BY <3>1 DEF Searching, OnPath
        <3> QED BY <3>2, <1>1
    <2> QED BY <2>1, <2>2 DEF OnPath
<1>7. Pending(g, G, B, t, {})
    <2> SUFFICES ASSUME NEW i \in 1..Len(t), OpenAt(t, B, i),
                        NEW z \in Instances, <<t[i], z>> \in g
                 PROVE  z \in G \/ \E j \in 1..Len(t) : j > i /\ t[j] = z
        BY DEF Pending
    <2>1. i \in 1..Len(s) /\ OpenAt(s, A, i) /\ t[i] = s[i]
        BY <1>5, <1>1
    <2>2. CASE z \in F BY <2>2
    <2>3. CASE \E j \in 1..Len(s) : j > i /\ s[j] = z
        <3>1. PICK j \in 1..Len(s) : j > i /\ s[j] = z BY <2>3
        <3>2. CASE j = Len(s) BY <3>1, <3>2, <1>1
        <3>3. CASE j \in 1..Len(t) BY <3>1, <3>3, <1>1
        <3> QED BY <3>2, <3>3, <1>1
    <2> QED BY <2>1, <2>2, <2>3 DEF Searching, Pending
<1> QED BY <1>3, <1>4, <1>6, <1>7 DEF Searching, t

------------------------------------------------------------------------------
(* The invariant.                                                          *)

\* Before the first call nothing is running.
LEMMA SearchInvInit == CycleInit => SearchInv
<1> SUFFICES ASSUME CycleInit PROVE SearchInv
    OBVIOUS
<1>1. <<>> \in Seq(Instances) /\ <<>> \in Seq(Instances \X Instances)
    OBVIOUS
<1>2. CycleTypeOK
    BY <1>1 DEF CycleInit, CycleTypeOK, Graphs
<1>3. verdict = "none" /\ ~running
    BY DEF CycleInit
<1> QED BY <1>2, <1>3 DEF SearchInv, DirectedVerdict, Directed

\* Types are kept by every step.
LEMMA CycleTypeStep ==
    ASSUME CycleTypeOK, [CycleNext]_cycleVars PROVE CycleTypeOK'
<1> USE DEF CycleTypeOK, Graphs
<1>1. CASE Exhausted BY <1>1 DEF Exhausted, Return
<1>2. CASE Visit
    <2>1. Last(stack) \in Instances BY <1>2, FrontOfStack DEF Visit
    <2>2. Adjacent(Last(stack)) \subseteq Instances BY DEF Adjacent
    <2> QED BY <1>2, <2>1, <2>2 DEF Visit, Return
<1>3. CASE Leave
    <2>1. Front(stack) \in Seq(Instances) BY <1>3, FrontOfStack DEF Leave
    <2> QED BY <1>3, <2>1 DEF Leave
<1>4. CASE VisitPair
    <2>1. pairs \in Seq(Instances \X Instances) /\ pairs # <<>> BY <1>4 DEF VisitPair
    <2>2. Len(pairs) \in Nat \ {0} BY <2>1
    <2>3. Last(pairs) \in Instances \X Instances BY <2>1, <2>2 DEF Last
    <2>4. Front(pairs) \in Seq(Instances \X Instances) BY <2>1, <2>2 DEF Front
    <2>5. Last(pairs)[2] \in Instances BY <2>3
    <2>6. {Last(pairs)[2]} \X (Adjacent(Last(pairs)[2]) \ {Last(pairs)[1]})
              \subseteq Instances \X Instances
        BY <2>5 DEF Adjacent
    <2> QED BY <1>4, <2>4, <2>5, <2>6 DEF VisitPair, Return
<1>5. ASSUME NEW x \in Instances, Root(x) PROVE CycleTypeOK' BY <1>5 DEF Root
<1>6. ASSUME NEW x \in Instances, Push(x) PROVE CycleTypeOK' BY <1>6 DEF Push
<1>7. ASSUME NEW x \in Instances, RootPairs(x) PROVE CycleTypeOK' BY <1>7 DEF RootPairs, Adjacent
<1>8. ASSUME NEW p \in Instances \X Instances, PushPair(p) PROVE CycleTypeOK' BY <1>8 DEF PushPair
<1>9. ASSUME NEW g \in Graphs, NEW u \in BOOLEAN, IsCyclic(g, u) PROVE CycleTypeOK'
    BY <1>9 DEF IsCyclic, Endpoints
<1>10. CASE UNCHANGED cycleVars BY <1>10 DEF cycleVars, searchVars
<1> QED BY <1>1, <1>2, <1>3, <1>4, <1>5, <1>6, <1>7, <1>8, <1>9, <1>10 DEF CycleNext, SearchStep

\* Every step keeps the invariant: those of the directed search by the lemmas above.
LEMMA SearchInvStep ==
    ASSUME SearchInv, [CycleNext]_cycleVars PROVE SearchInv'
<1>0. CycleTypeOK /\ CycleTypeOK'
    BY CycleTypeStep DEF SearchInv
<1>a. /\ stack \in Seq(Instances) /\ ancestors \in SUBSET Instances /\ todo \in SUBSET Instances
    BY <1>0 DEF CycleTypeOK
<1>1. CASE Exhausted
    <2>1. CASE undirected
        BY <1>0, <1>1, <2>1 DEF Exhausted, Return, SearchInv, DirectedVerdict, Directed
    <2>2. CASE ~undirected
        <3>1. PICK F \in SUBSET Instances : Searching(links, F, nodes, ancestors, stack, todo)
            BY <1>1, <2>2 DEF Exhausted, SearchInv, Directed
        <3>2. ancestors = {}
            BY <3>1, <1>1 DEF Exhausted, Searching, OnPath, OpenAt
        <3>3. Endpoints(links) \subseteq F
            BY <3>1, <3>2, <1>1 DEF Exhausted, Searching, Visited
        <3>4. ~Decision!DirectedCycle(links)
            BY <3>1, <3>3, NoCycle DEF Searching
        <3> QED BY <1>0, <1>1, <3>4 DEF Exhausted, Return, SearchInv, DirectedVerdict, Directed
    <2> QED BY <2>1, <2>2
<1>2. CASE Visit
    <2>1. PICK F \in SUBSET Instances : Searching(links, F, nodes, ancestors, stack, {})
        BY <1>2 DEF Visit, SearchInv, Directed
    <2>2. stack # <<>> /\ Last(stack) \notin ancestors /\ Last(stack) \in Instances
        BY <1>2, <1>a, FrontOfStack DEF Visit
    <2>3. CASE Adjacent(Last(stack)) \cap (ancestors \cup {Last(stack)}) # {}
        <3>1. PICK b \in ancestors \cup {Last(stack)} : <<Last(stack), b>> \in links
            BY <2>3 DEF Adjacent
        <3>2. Decision!DirectedCycle(links)
            BY <1>a, <2>1, <2>2, <3>1, VisitFindsCycle
        <3>3. verdict' = "cyclic" /\ running' = FALSE /\ links' = links /\ undirected' = undirected
            BY <1>2, <2>3 DEF Visit, Return
        <3> QED BY <1>0, <3>2, <3>3 DEF SearchInv, DirectedVerdict, Directed
    <2>4. CASE Adjacent(Last(stack)) \cap (ancestors \cup {Last(stack)}) = {}
        <3>1. \A b \in ancestors \cup {Last(stack)} : <<Last(stack), b>> \notin links
            BY <1>a, <2>2, <2>4 DEF Adjacent
        <3>2. Searching(links, F, nodes \ {Last(stack)}, ancestors \cup {Last(stack)}, stack,
                        {y \in Instances : <<Last(stack), y>> \in links} \cap (nodes \ {Last(stack)}))
            BY <1>a, <2>1, <2>2, <3>1, VisitGoesOn
        <3>3. /\ nodes' = nodes \ {Last(stack)} /\ ancestors' = ancestors \cup {Last(stack)}
              /\ todo' = {y \in Instances : <<Last(stack), y>> \in links} \cap (nodes \ {Last(stack)})
              /\ stack' = stack /\ UNCHANGED <<links, undirected, running, verdict>>
            BY <1>2, <2>4 DEF Visit, Adjacent
        <3>4. Searching(links', F, nodes', ancestors', stack', todo')
            BY <3>2, <3>3
        <3> QED BY <1>0, <3>3, <3>4 DEF SearchInv, DirectedVerdict
    <2> QED BY <2>3, <2>4
<1>3. CASE Leave
    <2>1. PICK F \in SUBSET Instances : Searching(links, F, nodes, ancestors, stack, {})
        BY <1>3 DEF Leave, SearchInv, Directed
    <2>2. stack # <<>> /\ Last(stack) \in ancestors /\ todo = {} BY <1>3 DEF Leave
    <2>3. Searching(links, F \cup {Last(stack)}, nodes, ancestors \ {Last(stack)}, Front(stack), {})
        BY <1>a, <2>1, <2>2, LeaveGoesOn
    <2>4. Searching(links', F \cup {Last(stack)}, nodes', ancestors', stack', todo')
        BY <1>3, <2>2, <2>3 DEF Leave
    <2>5. F \cup {Last(stack)} \in SUBSET Instances BY <1>a, <2>2
    <2> QED BY <1>0, <1>3, <2>4, <2>5 DEF Leave, SearchInv, DirectedVerdict
<1>4. CASE VisitPair
    BY <1>0, <1>4 DEF VisitPair, Return, Undirected, SearchInv, DirectedVerdict, Directed
<1>5. ASSUME NEW x \in Instances, Root(x) PROVE SearchInv'
    <2>1. PICK F \in SUBSET Instances : Searching(links, F, nodes, ancestors, stack, todo)
        BY <1>5 DEF Root, SearchInv, Directed
    <2>2. ancestors = {}
        BY <2>1, <1>5 DEF Root, Searching, OnPath, OpenAt
    <2>3. Searched(links, F) /\ Endpoints(links) \ nodes \subseteq F
        BY <2>1, <2>2 DEF Searching, Visited
    <2>4. Searching(links, F, nodes, {}, <<x>>, {})
        <3>1. <<x>> \in Seq(Instances) OBVIOUS
        <3> QED BY <2>3, <3>1, SearchStarts
    <2>5. Searching(links', F, nodes', ancestors', stack', todo')
        BY <1>5, <2>4 DEF Root
    <2> QED BY <1>0, <1>5, <2>5 DEF Root, SearchInv, DirectedVerdict
<1>6. ASSUME NEW x \in Instances, Push(x) PROVE SearchInv'
    <2>1. PICK F \in SUBSET Instances : Searching(links, F, nodes, ancestors, stack, todo)
        BY <1>6 DEF Push, SearchInv
    <2>2. Searching(links, F, nodes, ancestors, Append(stack, x), todo \ {x})
        BY <1>a, <1>6, <2>1, PushGoesOn DEF Push
    <2>3. Searching(links', F, nodes', ancestors', stack', todo')
        BY <1>6, <2>2 DEF Push
    <2> QED BY <1>0, <1>6, <2>3 DEF Push, SearchInv, DirectedVerdict
<1>7. ASSUME NEW x \in Instances, RootPairs(x) PROVE SearchInv'
    BY <1>0, <1>7 DEF RootPairs, Undirected, SearchInv, DirectedVerdict, Directed
<1>8. ASSUME NEW p \in Instances \X Instances, PushPair(p) PROVE SearchInv'
    BY <1>0, <1>8 DEF PushPair, Undirected, SearchInv, DirectedVerdict, Directed
<1>9. ASSUME NEW g \in Graphs, NEW u \in BOOLEAN, IsCyclic(g, u) PROVE SearchInv'
    <2>1. Searched(g, {})
        BY DEF Searched, Closed
    <2>2. Searching(g, {}, Endpoints(g), {}, <<>>, {})
        <3>1. <<>> \in Seq(Instances) /\ {} \in SUBSET Instances OBVIOUS
        <3>2. Endpoints(g) \ Endpoints(g) \subseteq {} OBVIOUS
        <3> QED BY <2>1, <3>1, <3>2, SearchStarts
    <2>3. Searching(links', {}, nodes', ancestors', stack', todo')
        BY <1>9, <2>2 DEF IsCyclic
    <2> QED BY <1>0, <1>9, <2>3 DEF IsCyclic, SearchInv, DirectedVerdict
<1>10. CASE UNCHANGED cycleVars
    BY <1>0, <1>10 DEF cycleVars, searchVars, SearchInv, DirectedVerdict, Directed
<1> QED BY <1>1, <1>2, <1>3, <1>4, <1>5, <1>6, <1>7, <1>8, <1>9, <1>10 DEF CycleNext, SearchStep

\* The invariant holds in every state of every search.
LEMMA SearchInvariant == CycleSpec => []SearchInv
BY SearchInvInit, SearchInvStep, PTL DEF CycleSpec

\* Links.isCyclic, called for a directed graph, returns true only if the graph has a
\* cycle and false only if it has none, for every set of instances and whatever
\* the order in which the vertices are visited.
THEOREM DirectedSearchIsRight == CycleSpec => []DirectedVerdict
<1>1. SearchInv => DirectedVerdict
    BY DEF SearchInv
<1> QED BY <1>1, SearchInvariant, PTL

\* The variables of Links.isCyclic keep their types.
THEOREM CycleTypes == CycleSpec => []CycleTypeOK
<1>1. SearchInv => CycleTypeOK
    BY DEF SearchInv
<1> QED BY <1>1, SearchInvariant, PTL

------------------------------------------------------------------------------
(***************************************************************************)
(* Links.isCyclic implements CycleDecision, for undirected graphs too.     *)
(*                                                                         *)
(* The undirected search removes a vertex from nodes when it reaches it    *)
(* and keeps a stack of pairs <<parent, x>> still to be followed.  Two     *)
(* facts are needed of a state.  If a pair leads to a vertex that was      *)
(* reached before, there is a cycle: the pair is not one of the links H    *)
(* that the vertices K of this component were reached by, and those links  *)
(* already join any two of them.  And if there is a cycle among the        *)
(* vertices reached so far, then some pair on the stack leads to one of    *)
(* them, so that the cycle is noticed before the search ends.              *)
(***************************************************************************)

On(s) == {s[i] : i \in 1..Len(s)}

\* Every pair is waiting once.
Once(s, T) ==
    /\ \A i, j \in 1..Len(s) : s[i] = s[j] => i = j
    /\ On(s) \cap T = {}

\* Every vertex of S has a loop or two neighbours in S.
Meshed(g, S) ==
    \A a \in S : \/ <<a, a>> \in g
                 \/ \E b, c \in S \ {a} : b # c /\ {<<a, b>>, <<a, c>>} \subseteq g

\* The vertices of P lie on a path from a to b along the links H.
Path(H, P, a, b) ==
    /\ a \in P /\ b \in P
    /\ \A c \in P : \E d \in P :
        /\ <<c, d>> \in H
        /\ c \in {a, b} \/ \E e \in P : e # d /\ <<c, e>> \in H

Symmetric(g) == \A a, b \in Instances : <<a, b>> \in g => <<b, a>> \in g

\* H joins the vertices K of the component.
Joined(g, K, H) ==
    /\ \A a, b \in Instances : <<a, b>> \in H =>
        a \in K /\ b \in K /\ a # b /\ <<a, b>> \in g /\ <<b, a>> \in H
    /\ \A a, b \in K : a # b => \E P \in SUBSET K : Path(H, P, a, b)

\* The pairs Q wait: they are links from K, and none of H.
Waiting(g, K, H, Q) ==
    \A a, b \in Instances : <<a, b>> \in Q => <<a, b>> \in g /\ a \in K /\ <<a, b>> \notin H

\* A link from a vertex that was reached to one that was not is waiting, and earlier
\* components are complete.
Frontier(g, K, N, Q) ==
    /\ N \subseteq Endpoints(g) /\ K \subseteq Endpoints(g) \ N
    /\ \A z \in Endpoints(g) \ N, w \in N : <<z, w>> \in g => <<z, w>> \in Q
    /\ \A z \in (Endpoints(g) \ N) \ K, w \in Instances :
        <<z, w>> \in g => w \notin N /\ w \notin K

\* A cycle among the vertices that were reached is going to be noticed.
Noticed(g, N, Q) ==
    \/ \A S \in SUBSET (Endpoints(g) \ N) : Meshed(g, S) => S = {}
    \/ \E a \in Instances, b \in Endpoints(g) \ N : <<a, b>> \in Q

Exploring(g, K, H, N, Q) ==
    /\ Symmetric(g) /\ Joined(g, K, H) /\ Waiting(g, K, H, Q)
    /\ Frontier(g, K, N, Q) /\ Noticed(g, N, Q)

\* isCyclic returns the right verdict for an undirected graph.
UndirectedVerdict ==
    undirected =>
        /\ verdict = "cyclic" => Decision!UndirectedCycle(links)
        /\ verdict = "acyclic" => ~Decision!UndirectedCycle(links)

\* The inductive invariant.
ExploreInv ==
    /\ SearchInv /\ UndirectedVerdict
    /\ Undirected =>
        /\ Once(pairs, pairsTodo)
        /\ \E K \in SUBSET Instances, H \in Graphs :
              Exploring(links, K, H, nodes, On(pairs) \cup pairsTodo)

------------------------------------------------------------------------------
(* The stack of pairs.                                                     *)

\* What Front and Last are for a stack of pairs on which none is twice.
LEMMA FrontOfPairs ==
    ASSUME NEW s \in Seq(Instances \X Instances), s # <<>>, Once(s, {})
    PROVE  /\ Last(s) \in On(s) /\ Last(s) \in Instances \X Instances
           /\ On(Front(s)) = On(s) \ {Last(s)}
           /\ \A i, j \in 1..Len(Front(s)) : Front(s)[i] = Front(s)[j] => i = j
<1>1. Len(s) \in Nat \ {0} /\ Last(s) = s[Len(s)] /\ Last(s) \in Instances \X Instances
    BY DEF Last
<1>2. Front(s) = [i \in 1..(Len(s) - 1) |-> s[i]]
    BY <1>1 DEF Front
<1>3. Len(Front(s)) = Len(s) - 1
    BY <1>1, <1>2
<1>4. /\ \A i \in 1..(Len(s) - 1) : Front(s)[i] = s[i] /\ i \in 1..Len(s) /\ i # Len(s)
      /\ \A i \in 1..Len(s) : i = Len(s) \/ i \in 1..(Len(s) - 1)
      /\ Len(s) \in 1..Len(s)
    BY <1>1, <1>2
<1>5. Last(s) \in On(s)
    BY <1>1, <1>4 DEF On
<1>6. On(Front(s)) = On(s) \ {Last(s)}
    <2>1. ASSUME NEW i \in 1..(Len(s) - 1) PROVE s[i] \in On(s) /\ s[i] # Last(s)
        BY <1>1, <1>4 DEF On, Once
    <2>2. ASSUME NEW q \in On(s), q # Last(s) PROVE \E i \in 1..(Len(s) - 1) : q = s[i]
        BY <2>2, <1>1, <1>4 DEF On
    <2>3. On(Front(s)) = {s[i] : i \in 1..(Len(s) - 1)}
        BY <1>3, <1>4 DEF On
    <2> QED BY <2>1, <2>2, <2>3
<1>7. \A i, j \in 1..Len(Front(s)) : Front(s)[i] = Front(s)[j] => i = j
    BY <1>3, <1>4 DEF Once
<1> QED BY <1>1, <1>5, <1>6, <1>7

\* A pair that is pushed goes on waiting.
LEMMA PushedPair ==
    ASSUME NEW s \in Seq(Instances \X Instances), NEW T \in Graphs, Once(s, T), NEW q \in T
    PROVE  /\ Once(Append(s, q), T \ {q})
           /\ On(Append(s, q)) \cup (T \ {q}) = On(s) \cup T
<1> DEFINE t == Append(s, q)
<1>1. q \in Instances \X Instances
    BY DEF Graphs
<1>2. /\ Len(s) \in Nat /\ Len(t) = Len(s) + 1 /\ t[Len(s) + 1] = q
      /\ \A i \in 1..Len(s) : t[i] = s[i]
    BY <1>1
<1>3. /\ \A i \in 1..Len(t) : i = Len(s) + 1 \/ i \in 1..Len(s)
      /\ \A i \in 1..Len(s) : i \in 1..Len(t)
      /\ Len(s) + 1 \in 1..Len(t)
    BY <1>2
<1> HIDE DEF t
<1>4. On(t) = On(s) \cup {q}
    BY <1>2, <1>3 DEF On
<1>5. \A i \in 1..Len(s) : s[i] # q
    BY DEF Once, On
<1>6. \A i, j \in 1..Len(t) : t[i] = t[j] => i = j
    BY <1>2, <1>3, <1>5 DEF Once
<1> QED BY <1>4, <1>6 DEF Once, t

------------------------------------------------------------------------------
(* The steps of the undirected search, on the sets K, H, N and Q.          *)

\* At the call nothing was reached and nothing waits.
LEMMA ExploreStarts ==
    ASSUME NEW g, Symmetric(g) PROVE Exploring(g, {}, {}, Endpoints(g), {})
<1>1. Joined(g, {}, {}) /\ Waiting(g, {}, {}, {}) /\ Frontier(g, {}, Endpoints(g), {})
    BY DEF Joined, Waiting, Frontier
<1>2. Noticed(g, Endpoints(g), {})
    BY DEF Noticed
<1> QED BY <1>1, <1>2 DEF Exploring

\* When nothing waits, a new component begins at x.
LEMMA ExploreRoot ==
    ASSUME NEW g, NEW K \in SUBSET Instances, NEW H, NEW N, Exploring(g, K, H, N, {}),
           NEW x \in Instances, x \in N
    PROVE  Exploring(g, {x}, {}, N \ {x}, {x} \X {y \in Instances : <<x, y>> \in g})
<1> DEFINE R == {x} \X {y \in Instances : <<x, y>> \in g}
           M == N \ {x}
<1>0. /\ N \subseteq Endpoints(g) /\ Endpoints(g) \subseteq Instances
      /\ \A z \in Endpoints(g) \ N, w \in N : <<z, w>> \notin g
    BY DEF Exploring, Frontier, Endpoints
<1>1. Joined(g, {x}, {}) /\ Waiting(g, {x}, {}, R)
    BY DEF Joined, Waiting
<1>2. Frontier(g, {x}, M, R)
    BY <1>0 DEF Frontier
<1>3. Noticed(g, M, R)
    <2>1. CASE <<x, x>> \in g
        <3>1. <<x, x>> \in R /\ x \in Endpoints(g) \ M BY <2>1, <1>0
        <3> QED BY <3>1 DEF Noticed
    <2>2. CASE <<x, x>> \notin g
        <3>1. \A S \in SUBSET (Endpoints(g) \ N) : Meshed(g, S) => S = {}
            BY DEF Exploring, Noticed
        <3>2. ASSUME NEW b \in Endpoints(g) \ N PROVE <<x, b>> \notin g
            BY <1>0 DEF Exploring, Symmetric
        <3>3. ASSUME NEW S \in SUBSET (Endpoints(g) \ M), Meshed(g, S) PROVE S = {}
            <4>1. x \notin S BY <2>2, <3>2, <3>3 DEF Meshed
            <4> QED BY <3>1, <3>3, <4>1
        <3> QED BY <3>3 DEF Noticed
    <2> QED BY <2>1, <2>2
<1> QED BY <1>1, <1>2, <1>3 DEF Exploring

\* A pair that leads to a vertex that was reached before closes a cycle with a path in K.
LEMMA ExploreFindsCycle ==
    ASSUME NEW g, NEW K \in SUBSET Instances, NEW H, NEW N, NEW Q, Exploring(g, K, H, N, Q),
           NEW p \in Instances, NEW x \in Instances, <<p, x>> \in Q, x \notin N
    PROVE  Decision!UndirectedCycle(g)
<1>1. p \in K /\ <<p, x>> \in g /\ <<x, p>> \in g /\ <<p, x>> \notin H /\ <<x, p>> \notin H
    BY DEF Exploring, Waiting, Symmetric, Joined
<1>2. x \in K
    BY <1>1 DEF Exploring, Frontier, Endpoints
<1>3. CASE p = x
    <2>1. {x} \in SUBSET Instances /\ {x} # {} /\ \A a \in {x} : <<a, a>> \in g
        BY <1>1, <1>3
    <2> QED BY <2>1 DEF Decision!UndirectedCycle
<1>4. CASE p # x
    <2>1. PICK P \in SUBSET K : Path(H, P, p, x)
        BY <1>1, <1>2, <1>4 DEF Exploring, Joined
    <2>2. \A a, b \in P : <<a, b>> \in H => a # b /\ <<a, b>> \in g
        BY DEF Exploring, Joined
    <2>3. ASSUME NEW a \in P
          PROVE  \E b, c \in P \ {a} : b # c /\ {<<a, b>>, <<a, c>>} \subseteq g
        <3>1. PICK d \in P : /\ <<a, d>> \in H
                             /\ a \in {p, x} \/ \E e \in P : e # d /\ <<a, e>> \in H
            BY <2>1 DEF Path
        <3>2. d # a /\ <<a, d>> \in g BY <3>1, <2>2
        <3>3. p \in P /\ x \in P BY <2>1 DEF Path
        <3>4. CASE a = p BY <3>1, <3>2, <3>3, <3>4, <1>1, <1>4
        <3>5. CASE a = x BY <3>1, <3>2, <3>3, <3>5, <1>1, <1>4
        <3>6. CASE \E e \in P : e # d /\ <<a, e>> \in H BY <3>2, <3>6, <2>2
        <3> QED BY <3>1, <3>4, <3>5, <3>6
    <2>4. P \in SUBSET Instances /\ P # {} BY <2>1 DEF Path
    <2> QED BY <2>3, <2>4 DEF Decision!UndirectedCycle
<1> QED BY <1>3, <1>4

\* A vertex x that is reached from p joins the component by the link to p.
LEMMA JoinedGrows ==
    ASSUME NEW g, NEW K \in SUBSET Instances, NEW H \in Graphs, Joined(g, K, H), Symmetric(g),
           NEW p \in K, NEW x \in Instances, x \notin K, <<p, x>> \in g
    PROVE  Joined(g, K \cup {x}, H \cup {<<p, x>>, <<x, p>>})
<1> DEFINE L == K \cup {x}
           J == H \cup {<<p, x>>, <<x, p>>}
<1>1. \A a, b \in Instances : <<a, b>> \in J =>
          a \in L /\ b \in L /\ a # b /\ <<a, b>> \in g /\ <<b, a>> \in J
    BY DEF Joined, Symmetric
<1>2. ASSUME NEW a \in K, NEW b \in K, a # b PROVE \E P \in SUBSET L : Path(J, P, a, b)
    <2>1. PICK P \in SUBSET K : Path(H, P, a, b) BY <1>2 DEF Joined
    <2>2. Path(J, P, a, b) BY <2>1 DEF Path
    <2> QED BY <2>2
<1>3. ASSUME NEW a \in K PROVE \E P \in SUBSET L : Path(J, P, a, x)
    <2>1. CASE a = p
        <3>1. Path(J, {p, x}, p, x) BY DEF Path
        <3> QED BY <2>1, <3>1
    <2>2. CASE a # p
        <3>1. PICK P \in SUBSET K : Path(H, P, a, p) BY <2>2 DEF Joined
        <3>2. p \in P /\ a \in P BY <3>1 DEF Path
        <3>3. ASSUME NEW c \in P \cup {x}
              PROVE  \E d \in P \cup {x} :
                         /\ <<c, d>> \in J
                         /\ c \in {a, x} \/ \E e \in P \cup {x} : e # d /\ <<c, e>> \in J
            <4>1. CASE c = x BY <4>1, <3>2
            <4>2. CASE c \in P
                <5>1. PICK d \in P : /\ <<c, d>> \in H
                                     /\ c \in {a, p} \/ \E e \in P : e # d /\ <<c, e>> \in H
                    BY <3>1, <4>2 DEF Path
                <5>2. d # x OBVIOUS
                <5>3. CASE c = p BY <5>1, <5>2, <5>3
                <5>4. CASE c # p BY <5>1, <5>4
                <5> QED BY <5>3, <5>4
            <4> QED BY <4>1, <4>2
        <3>4. Path(J, P \cup {x}, a, x) BY <3>2, <3>3 DEF Path
        <3> QED BY <3>4
    <2> QED BY <2>1, <2>2
<1>4. ASSUME NEW a \in L, NEW b \in L, a # b PROVE \E P \in SUBSET L : Path(J, P, a, b)
    <2>1. CASE a = x
        <3>1. PICK P \in SUBSET L : Path(J, P, b, x) BY <1>3, <1>4, <2>1
        <3>2. Path(J, P, x, b) BY <3>1 DEF Path
        <3> QED BY <2>1, <3>2
    <2>2. CASE b = x BY <1>3, <1>4, <2>2
    <2>3. CASE a \in K /\ b \in K BY <1>2, <1>4, <2>3
    <2> QED BY <2>1, <2>2, <2>3
<1> QED BY <1>1, <1>4 DEF Joined

\* A vertex that is reached for the first time leaves the search in good order: a
\* second way to it, if there is one, is waiting now.
LEMMA ExploreVisit ==
    ASSUME NEW g, NEW K \in SUBSET Instances, NEW H \in Graphs, NEW N, NEW Q,
           Exploring(g, K, H, N, Q),
           NEW p \in Instances, NEW x \in Instances, <<p, x>> \in Q, x \in N
    PROVE  Exploring(g, K \cup {x}, H \cup {<<p, x>>, <<x, p>>}, N \ {x},
                     (Q \ {<<p, x>>}) \cup ({x} \X ({y \in Instances : <<x, y>> \in g} \ {p})))
<1> DEFINE L == K \cup {x}
           J == H \cup {<<p, x>>, <<x, p>>}
           M == N \ {x}
           R == (Q \ {<<p, x>>}) \cup ({x} \X ({y \in Instances : <<x, y>> \in g} \ {p}))
<1>1. p \in K /\ <<p, x>> \in g /\ x \notin K /\ x # p /\ p \notin N
    BY DEF Exploring, Waiting, Frontier
<1>2. Joined(g, L, J)
    BY <1>1, JoinedGrows DEF Exploring
<1>3. \A b \in Instances : <<x, b>> \in R <=> <<x, b>> \in Q \/ (<<x, b>> \in g /\ b # p)
    BY <1>1
<1>4. \A a, b \in Instances : a # x => (<<a, b>> \in R <=> <<a, b>> \in Q /\ ~(a = p /\ b = x))
    OBVIOUS
<1> HIDE DEF R
<1>5. Waiting(g, L, J, R)
    <2> SUFFICES ASSUME NEW a \in Instances, NEW b \in Instances, <<a, b>> \in R
                 PROVE  <<a, b>> \in g /\ a \in L /\ <<a, b>> \notin J
        BY DEF Waiting
    <2>1. CASE a = x
        <3>1. <<x, b>> \notin Q /\ <<x, b>> \notin H
            BY <1>1 DEF Exploring, Waiting, Joined
        <3> QED BY <1>1, <1>3, <2>1, <3>1
    <2>2. CASE a # x
        <3>1. <<a, b>> \in Q /\ ~(a = p /\ b = x) BY <1>4, <2>2
        <3> QED BY <2>2, <3>1 DEF Exploring, Waiting
    <2> QED BY <2>1, <2>2
<1>6. Frontier(g, L, M, R)
    <2>1. M \subseteq Endpoints(g) /\ L \subseteq Endpoints(g) \ M
        BY <1>1 DEF Exploring, Frontier
    <2>2. Endpoints(g) \subseteq Instances BY DEF Endpoints
    <2>3. ASSUME NEW z \in Endpoints(g) \ M, NEW w \in M, <<z, w>> \in g PROVE <<z, w>> \in R
        <3>1. CASE z = x BY <1>1, <1>3, <2>1, <2>2, <2>3, <3>1
        <3>2. CASE z # x
            <4>1. <<z, w>> \in Q BY <2>3, <3>2 DEF Exploring, Frontier
            <4> QED BY <1>4, <2>1, <2>2, <3>2, <4>1
        <3> QED BY <3>1, <3>2
    <2>4. ASSUME NEW z \in (Endpoints(g) \ M) \ L, NEW w \in Instances, <<z, w>> \in g
          PROVE  w \notin M /\ w \notin L
        BY <2>4 DEF Exploring, Frontier
    <2> QED BY <2>1, <2>3, <2>4 DEF Frontier
<1>7. Noticed(g, M, R)
    <2>0. x \in Endpoints(g) \ M /\ Endpoints(g) \subseteq Instances
        BY DEF Exploring, Frontier, Endpoints
    <2>1. CASE \E a \in Instances, b \in Endpoints(g) \ N : <<a, b>> \in Q
        <3>1. PICK a \in Instances, b \in Endpoints(g) \ N : <<a, b>> \in Q BY <2>1
        <3>2. b # x /\ b \in Endpoints(g) \ M /\ b \in Instances BY <2>0
        <3>3. <<a, b>> \in R BY <1>3, <1>4, <3>1, <3>2
        <3> QED BY <3>2, <3>3 DEF Noticed
    <2>2. CASE \E b \in Endpoints(g) \ M : b # p /\ <<x, b>> \in g
        BY <1>3, <2>0, <2>2 DEF Noticed
    <2>3. CASE /\ \A b \in Endpoints(g) \ M : b = p \/ <<x, b>> \notin g
               /\ \A S \in SUBSET (Endpoints(g) \ N) : Meshed(g, S) => S = {}
        <3>1. ASSUME NEW S \in SUBSET (Endpoints(g) \ M), Meshed(g, S) PROVE S = {}
            <4>1. x \notin S BY <1>1, <2>0, <2>3, <3>1 DEF Meshed
            <4> QED BY <2>3, <3>1, <4>1
        <3> QED BY <3>1 DEF Noticed
    <2> QED BY <2>1, <2>2, <2>3 DEF Exploring, Noticed
<1> QED BY <1>2, <1>5, <1>6, <1>7 DEF Exploring, R

\* When every vertex was reached and nothing waits, there is no cycle.
LEMMA ExploreEnds ==
    ASSUME NEW g, NEW K, NEW H, Exploring(g, K, H, {}, {})
    PROVE  ~Decision!UndirectedCycle(g)
<1> SUFFICES ASSUME NEW S \in SUBSET Instances, S # {}, Meshed(g, S) PROVE FALSE
    BY DEF Decision!UndirectedCycle, Meshed
<1>1. S \subseteq Endpoints(g)
    BY DEF Meshed, Endpoints
<1> QED BY <1>1 DEF Exploring, Noticed

------------------------------------------------------------------------------
(* The invariant.                                                          *)

\* Before the first call nothing is running.
LEMMA ExploreInvInit == CycleInit => ExploreInv
BY SearchInvInit DEF CycleInit, ExploreInv, UndirectedVerdict, Undirected

\* A pair is taken off the stack: the search has found a cycle or goes on.
LEMMA VisitPairStep ==
    ASSUME ExploreInv, SearchInv', VisitPair PROVE ExploreInv'
<1>0. /\ pairs \in Seq(Instances \X Instances) /\ pairs # <<>> /\ pairsTodo = {} /\ Undirected
      /\ verdict = "none"
    BY DEF ExploreInv, SearchInv, CycleTypeOK, VisitPair, Undirected
<1>1. PICK K \in SUBSET Instances, H \in Graphs : Exploring(links, K, H, nodes, On(pairs))
    BY <1>0 DEF ExploreInv
<1>2. /\ Last(pairs) \in On(pairs) /\ Last(pairs) \in Instances \X Instances
      /\ On(Front(pairs)) = On(pairs) \ {Last(pairs)}
      /\ \A i, j \in 1..Len(Front(pairs)) : Front(pairs)[i] = Front(pairs)[j] => i = j
    BY <1>0, FrontOfPairs DEF ExploreInv
<1> DEFINE p == Last(pairs)[1]
           x == Last(pairs)[2]
<1>3. p \in Instances /\ x \in Instances /\ Last(pairs) = <<p, x>>
    BY <1>2
<1> HIDE DEF p, x
<1>4. pairs' = Front(pairs) /\ links' = links /\ undirected' = undirected
    BY DEF VisitPair, Return
<1>5. CASE x \notin nodes
    <2>1. verdict' = "cyclic" /\ running' = FALSE
        BY <1>5 DEF VisitPair, Return, x
    <2>2. Decision!UndirectedCycle(links)
        BY <1>1, <1>2, <1>3, <1>5, ExploreFindsCycle
    <2> QED BY <1>4, <2>1, <2>2 DEF ExploreInv, UndirectedVerdict, Undirected
<1>6. CASE x \in nodes
    <2> DEFINE T == {x} \X ({y \in Instances : <<x, y>> \in links} \ {p})
    <2>1. nodes' = nodes \ {x} /\ pairsTodo' = T /\ verdict' = verdict
        BY <1>6 DEF VisitPair, Adjacent, p, x
    <2>2. Exploring(links, K \cup {x}, H \cup {<<p, x>>, <<x, p>>}, nodes \ {x},
                    (On(pairs) \ {<<p, x>>}) \cup T)
        BY <1>1, <1>2, <1>3, <1>6, ExploreVisit
    <2>3. Exploring(links', K \cup {x}, H \cup {<<p, x>>, <<x, p>>}, nodes',
                    On(pairs') \cup pairsTodo')
        BY <1>2, <1>3, <1>4, <2>1, <2>2
    <2>4. K \cup {x} \in SUBSET Instances /\ H \cup {<<p, x>>, <<x, p>>} \in Graphs
        BY <1>3, <1>1 DEF Graphs, Exploring
    <2>5. On(pairs') \cap pairsTodo' = {}
        <3>1. ASSUME NEW y \in Instances PROVE <<x, y>> \notin On(pairs)
            BY <1>1, <1>3, <1>6 DEF Exploring, Waiting, Frontier
        <3> QED BY <1>2, <1>4, <2>1, <3>1
    <2>6. Once(pairs', pairsTodo')
        BY <1>2, <1>4, <2>5 DEF Once
    <2>7. UndirectedVerdict'
        BY <1>0, <2>1 DEF UndirectedVerdict
    <2> QED BY <2>3, <2>4, <2>6, <2>7 DEF ExploreInv
<1> QED BY <1>5, <1>6

\* Every step keeps the invariant: those of the undirected search by the lemmas above.
LEMMA ExploreInvStep ==
    ASSUME ExploreInv, [CycleNext]_cycleVars PROVE ExploreInv'
<1>0. SearchInv /\ SearchInv' /\ CycleTypeOK
    BY SearchInvStep DEF ExploreInv, SearchInv
<1>a. pairs \in Seq(Instances \X Instances) /\ pairsTodo \in Graphs
    BY <1>0 DEF CycleTypeOK
<1>1. CASE Exhausted
    <2>1. /\ verdict' = "acyclic" /\ running' = FALSE /\ links' = links
          /\ undirected' = undirected
        BY <1>1 DEF Exhausted, Return
    <2>2. ASSUME undirected PROVE ~Decision!UndirectedCycle(links)
        <3>1. On(pairs) = {} /\ pairsTodo = {} /\ nodes = {}
            BY <1>1 DEF Exhausted, On
        <3>2. PICK K \in SUBSET Instances, H \in Graphs :
                  Exploring(links, K, H, nodes, On(pairs) \cup pairsTodo)
            BY <1>1, <2>2 DEF ExploreInv, Undirected, Exhausted
        <3>3. Exploring(links, K, H, {}, {}) BY <3>1, <3>2
        <3> QED BY <3>3, ExploreEnds
    <2> QED BY <1>0, <2>1, <2>2 DEF ExploreInv, UndirectedVerdict, Undirected
<1>2. CASE Visit \/ Leave \/ \E x \in Instances : Root(x) \/ Push(x)
    <2>1. ~undirected /\ undirected' = undirected
        BY <1>2 DEF Visit, Leave, Root, Push, Directed, Return
    <2> QED BY <1>0, <2>1 DEF ExploreInv, UndirectedVerdict, Undirected
<1>3. CASE VisitPair
    BY <1>0, <1>3, VisitPairStep
<1>4. ASSUME NEW x \in Instances, RootPairs(x) PROVE ExploreInv'
    <2>1. /\ On(pairs) = {} /\ pairsTodo = {} /\ pairs' = pairs /\ nodes' = nodes \ {x}
          /\ x \in nodes /\ pairsTodo' = {x} \X {y \in Instances : <<x, y>> \in links}
          /\ UNCHANGED <<links, undirected, running, verdict>> /\ Undirected
        BY <1>4 DEF RootPairs, Adjacent, On
    <2>2. PICK K \in SUBSET Instances, H \in Graphs : Exploring(links, K, H, nodes, {})
        BY <2>1 DEF ExploreInv
    <2>3. Exploring(links, {x}, {}, nodes \ {x}, {x} \X {y \in Instances : <<x, y>> \in links})
        BY <2>1, <2>2, ExploreRoot
    <2>4. Exploring(links', {x}, {}, nodes', On(pairs') \cup pairsTodo')
        BY <2>1, <2>3
    <2>5. {x} \in SUBSET Instances /\ {} \in Graphs
        BY DEF Graphs
    <2>6. Once(pairs', pairsTodo')
        BY <2>1 DEF ExploreInv, Once
    <2>7. UndirectedVerdict'
        BY <2>1 DEF ExploreInv, UndirectedVerdict
    <2> QED BY <1>0, <2>4, <2>5, <2>6, <2>7 DEF ExploreInv
<1>5. ASSUME NEW q \in Instances \X Instances, PushPair(q) PROVE ExploreInv'
    <2>1. /\ q \in pairsTodo /\ pairs' = Append(pairs, q) /\ pairsTodo' = pairsTodo \ {q}
          /\ UNCHANGED <<links, undirected, running, nodes, verdict>> /\ Undirected
        BY <1>5 DEF PushPair
    <2>2. Once(pairs', pairsTodo') /\ On(pairs') \cup pairsTodo' = On(pairs) \cup pairsTodo
        BY <1>a, <2>1, PushedPair DEF ExploreInv
    <2>3. PICK K \in SUBSET Instances, H \in Graphs :
              Exploring(links, K, H, nodes, On(pairs) \cup pairsTodo)
        BY <2>1 DEF ExploreInv
    <2>4. Exploring(links', K, H, nodes', On(pairs') \cup pairsTodo')
        BY <2>1, <2>2, <2>3
    <2>5. UndirectedVerdict'
        BY <2>1 DEF ExploreInv, UndirectedVerdict
    <2> QED BY <1>0, <2>2, <2>4, <2>5 DEF ExploreInv
<1>6. ASSUME NEW g \in Graphs, NEW u \in BOOLEAN, u => IsUndirected(g), IsCyclic(g, u)
      PROVE  ExploreInv'
    <2>1. /\ links' = g /\ undirected' = u /\ nodes' = Endpoints(g) /\ verdict' = "none"
          /\ pairs' = <<>> /\ pairsTodo' = {}
        BY <1>6 DEF IsCyclic
    <2>2. ASSUME u PROVE Exploring(g, {}, {}, Endpoints(g), {})
        <3>1. ASSUME NEW a \in Instances, NEW b \in Instances, <<a, b>> \in g
              PROVE  <<b, a>> \in g
            BY <1>6, <2>2, <3>1 DEF IsUndirected
        <3> QED BY <3>1, ExploreStarts DEF Symmetric
    <2>3. On(<<>>) = {} /\ Once(<<>>, {})
        BY DEF On, Once
    <2>4. {} \in SUBSET Instances /\ {} \in Graphs
        BY DEF Graphs
    <2>5. ASSUME u PROVE Exploring(links', {}, {}, nodes', On(pairs') \cup pairsTodo')
        BY <2>1, <2>2, <2>3, <2>5
    <2>6. UndirectedVerdict' /\ Once(pairs', pairsTodo')
        BY <2>1, <2>3 DEF UndirectedVerdict
    <2> QED BY <1>0, <2>1, <2>4, <2>5, <2>6 DEF ExploreInv, Undirected
<1>7. CASE UNCHANGED cycleVars
    BY <1>0, <1>7 DEF cycleVars, searchVars, ExploreInv, UndirectedVerdict, Undirected
<1> QED BY <1>1, <1>2, <1>3, <1>4, <1>5, <1>6, <1>7 DEF CycleNext, SearchStep

\* The invariant holds in every state of every search.
LEMMA ExploreInvariant == CycleSpec => []ExploreInv
BY ExploreInvInit, ExploreInvStep, PTL DEF CycleSpec

\* Links.isCyclic, called for an undirected graph, returns true only if the graph has
\* a cycle of at least three links or a loop, and false only if it has none.
THEOREM UndirectedSearchIsRight == CycleSpec => []UndirectedVerdict
<1>1. ExploreInv => UndirectedVerdict
    BY DEF ExploreInv
<1> QED BY <1>1, ExploreInvariant, PTL

\* A call of isCyclic asks, the step that returns answers, and all others stutter.
LEMMA StepDecides ==
    ASSUME ExploreInv, ExploreInv', [CycleNext]_cycleVars
    PROVE  [Decision!Ask \/ Decision!Answer]_<<links, undirected, verdict>>
<1>0. /\ undirected \in BOOLEAN
      /\ running => verdict = "none" /\ DirectedVerdict' /\ UndirectedVerdict'
    BY DEF ExploreInv, SearchInv, CycleTypeOK
<1>1. ASSUME NEW v \in {"cyclic", "acyclic"}, running, Return(v)
      PROVE  Decision!Answer
    <2>1. verdict = "none" /\ verdict' = v /\ UNCHANGED <<links, undirected>>
        BY <1>0, <1>1 DEF Return
    <2>2. v = IF Decision!Cyclic(links, undirected) THEN "cyclic" ELSE "acyclic"
        <3>1. CASE undirected
            <4>1. /\ v = "cyclic" => Decision!UndirectedCycle(links)
                  /\ v = "acyclic" => ~Decision!UndirectedCycle(links)
                BY <1>0, <1>1, <2>1, <3>1 DEF UndirectedVerdict
            <4> QED BY <3>1, <4>1 DEF Decision!Cyclic
        <3>2. CASE ~undirected
            <4>1. /\ v = "cyclic" => Decision!DirectedCycle(links)
                  /\ v = "acyclic" => ~Decision!DirectedCycle(links)
                BY <1>0, <1>1, <2>1, <3>2 DEF DirectedVerdict
            <4> QED BY <3>2, <4>1 DEF Decision!Cyclic
        <3> QED BY <3>1, <3>2
    <2> QED BY <2>1, <2>2 DEF Decision!Answer
<1>2. CASE Exhausted
    BY <1>1, <1>2 DEF Exhausted
<1>3. CASE Visit
    BY <1>1, <1>3 DEF Visit, Directed
<1>4. CASE VisitPair
    BY <1>1, <1>4 DEF VisitPair, Undirected
<1>5. CASE Leave \/ \E x \in Instances : Root(x) \/ Push(x) \/ RootPairs(x)
    BY <1>5 DEF Leave, Root, Push, RootPairs
<1>6. CASE \E q \in Instances \X Instances : PushPair(q)
    BY <1>6 DEF PushPair
<1>7. ASSUME NEW g \in Graphs, NEW u \in BOOLEAN, IsCyclic(g, u) PROVE Decision!Ask
    BY <1>7 DEF IsCyclic, Decision!Ask, Graphs
<1>8. CASE UNCHANGED cycleVars
    BY <1>8 DEF cycleVars
<1> QED BY <1>2, <1>3, <1>4, <1>5, <1>6, <1>7, <1>8 DEF CycleNext, SearchStep

\* Links.isCyclic implements its abstract specification: every call is answered once,
\* and the answer is whether the graph has a cycle, directed or not.
THEOREM SearchImplementsDecision == CycleSpec => ImplementsDecision
<1>1. CycleInit => Decision!Init
    BY DEF CycleInit, Decision!Init
<1> QED BY <1>1, ExploreInvariant, StepDecides, PTL
        DEF CycleSpec, ImplementsDecision, Decision!Spec

------------------------------------------------------------------------------
(* Reading.                                                                *)

\* The files of a kind.
LEMMA OfKindParts ==
    ASSUME NEW S, NEW s \in Seq(S), NEW type
    PROVE  /\ OfKind(s, type) \in Seq(S)
           /\ ToSet(OfKind(s, type)) = {f \in ToSet(s) : f.type = type}
           /\ DistinctNames(s) => DistinctNames(OfKind(s, type))
<1> DEFINE P == {i \in DOMAIN s : s[i].type = type}
<1>1. /\ Picked(s, P) \in Seq(S)
      /\ ToSet(Picked(s, P)) = {s[i] : i \in {i \in DOMAIN s : i \in P}}
      /\ DistinctNames(s) => DistinctNames(Picked(s, P))
  <2> HIDE DEF P
  <2>1. QED
    BY PickedParts
<1>2. {s[i] : i \in {i \in DOMAIN s : i \in P}} = {f \in ToSet(s) : f.type = type}
  BY DEF ToSet
<1>3. QED
  BY <1>1, <1>2 DEF OfKind

\* The files that are not links.
LEMMA NodeFilesParts ==
    ASSUME NEW S, NEW s \in Seq(S)
    PROVE  /\ NodeFilesOf(s) \in Seq(S)
           /\ ToSet(NodeFilesOf(s)) = {f \in ToSet(s) : f.type # "links"}
<1> DEFINE P == {i \in DOMAIN s : s[i].type # "links"}
<1>1. /\ Picked(s, P) \in Seq(S)
      /\ ToSet(Picked(s, P)) = {s[i] : i \in {i \in DOMAIN s : i \in P}}
  <2> HIDE DEF P
  <2>1. QED
    BY PickedParts
<1>2. {s[i] : i \in {i \in DOMAIN s : i \in P}} = {f \in ToSet(s) : f.type # "links"}
  BY DEF ToSet
<1>3. QED
  BY <1>1, <1>2 DEF NodeFilesOf

\* loadDirectory: the children are files of the directory, with different names.
LEMMA LoadDirectoryParts ==
    ASSUME NEW S, NEW files \in Seq(S)
    PROVE  /\ LoadDirectory(files) \in Seq(S)
           /\ ToSet(LoadDirectory(files)) \subseteq ToSet(files)
           /\ DistinctNames(LoadDirectory(files))
<1> DEFINE Same(i) == {j \in DOMAIN files : files[j].name = files[i].name}
           firsts == {i \in DOMAIN files : \A j \in 1..(i - 1) : files[j].name # files[i].name}
           s == [i \in DOMAIN files |-> files[Max(Same(i))]]
<1>0. DOMAIN files = 1 .. Len(files) /\ Len(files) \in Nat /\ \A i \in DOMAIN files : files[i] \in S
  OBVIOUS
<1>1. ASSUME NEW i \in DOMAIN files
      PROVE  Max(Same(i)) \in DOMAIN files /\ files[Max(Same(i))].name = files[i].name
  <2>1. Same(i) \in SUBSET (0 .. Len(files)) /\ i \in Same(i)
    BY <1>0
  <2>2. Max(Same(i)) \in Same(i)
    <3> HIDE DEF Same
    <3>1. QED
      BY <1>0, <2>1, MaxProperties
  <2>3. QED
    BY <2>2
<1>2. /\ s \in Seq(S) /\ DOMAIN s = DOMAIN files
      /\ \A i \in DOMAIN files : s[i].name = files[i].name /\ s[i] \in ToSet(files)
  <2> HIDE DEF Same
  <2>1. \A i \in 1 .. Len(files) : files[Max(Same(i))] \in S
    BY <1>0, <1>1
  <2>2. [i \in 1 .. Len(files) |-> files[Max(Same(i))]] \in Seq(S)
    BY <1>0, <2>1, IsASeq
  <2>3. QED
    BY <1>0, <1>1, <2>2 DEF ToSet
<1>3. LoadDirectory(files) = Picked(s, firsts)
  BY DEF LoadDirectory
<1> HIDE DEF s, firsts
<1>4. PICK h : PickedUpTo(s, firsts, Len(s), Picked(s, firsts), h)
  BY <1>2, PickedPlaces
<1> DEFINE q == Picked(s, firsts)
<1>5. q \in Seq(S) /\ ToSet(q) \subseteq ToSet(files)
  <2>1. ToSet(q) = {s[i] : i \in {i \in DOMAIN s : i \in firsts}} /\ q \in Seq(S)
    BY <1>2, PickedParts
  <2>2. QED
    BY <1>2, <2>1
<1>6. DistinctNames(q)
  <2>1. /\ \A m \in DOMAIN q : h[m] \in DOMAIN s /\ h[m] \in firsts /\ q[m] = s[h[m]]
        /\ \A a, b \in DOMAIN q : h[a] = h[b] => a = b
    BY <1>2, <1>4, <1>5 DEF PickedUpTo
  <2>2. ASSUME NEW i \in DOMAIN files, NEW j \in DOMAIN files, i \in firsts, j \in firsts,
               files[i].name = files[j].name
        PROVE  i = j
    <3>1. CASE i < j
      <4>1. i \in 1 .. j - 1
        BY <1>0, <3>1
      <4>2. QED
        BY <2>2, <4>1 DEF firsts
    <3>2. CASE j < i
      <4>1. j \in 1 .. i - 1
        BY <1>0, <3>2
      <4>2. QED
        BY <2>2, <4>1 DEF firsts
    <3>3. QED
      BY <1>0, <3>1, <3>2
  <2>3. QED
    BY <1>2, <2>1, <2>2 DEF DistinctNames
<1>7. QED
  BY <1>3, <1>5, <1>6

------------------------------------------------------------------------------
(* What is read.                                                           *)

\* A file that its reader has accepted.
FileRead(f) ==
    /\ f.type \in {"directory", "tensor", "category", "class", "links"}
    /\ f.type = "directory" => f.files \in Seq(ToSet(f.files))
    /\ f.type \in {"category", "class"} => f.categories \in Seq(ToSet(f.categories))
    /\ f.type = "class" => IsInjective(f.categories)
    /\ f.type = "tensor" => /\ f.shape \in Seq(Nat) /\ f.shape # <<>>
                            /\ f.subtype = "csv" => Len(f.shape) = 2
    /\ f.type = "links" => f.links \in Graphs /\ IsFiniteSet(f.links)

\* The dataset has been read, with everything below it, or is as if it had been.
TreeOK ==
    /\ dataset \in Seq(ToSet(dataset))
    /\ DistinctNames(ClassFiles)
    /\ \A f \in AllFiles(dataset) : FileRead(f)

\* A file that is readable is read.
LEMMA ReadableIsRead ==
    ASSUME NEW f, FileOK(f), Readable(f)
    PROVE  FileRead(f)
BY DEF FileOK, Readable, TensorReadable, ClassReadable, LinksReadable, FileRead

\* Reading a readable directory.
LEMMA ReadGivesTree ==
    ASSUME dataset \in Datasets, \A f \in AllFiles(dataset) : Readable(f),
           dataset' = LoadDirectory(dataset)
    PROVE  TreeOK'
<1>1. dataset \in Seq(ToSet(dataset)) /\ \A f \in AllFiles(dataset) : FileRead(f)
  BY DatasetsAssumption, ReadableIsRead
<1> DEFINE d == LoadDirectory(dataset)
<1>2. d \in Seq(ToSet(dataset)) /\ ToSet(d) \subseteq ToSet(dataset) /\ DistinctNames(d)
  BY <1>1, LoadDirectoryParts
<1> HIDE DEF d
<1>3. d \in Seq(ToSet(d))
  <2>1. Len(d) \in Nat /\ d = [i \in 1 .. Len(d) |-> d[i]] /\ DOMAIN d = 1 .. Len(d)
    BY <1>2
  <2>2. \A i \in 1 .. Len(d) : d[i] \in ToSet(d)
    BY <2>1 DEF ToSet
  <2>3. QED
    BY <2>1, <2>2, IsASeq
<1>4. AllFiles(d) \subseteq AllFiles(dataset)
  BY <1>2 DEF AllFiles, FilesIn
<1>5. DistinctNames(OfKind(d, "class"))
  BY <1>2, OfKindParts
<1>6. dataset' = d
  BY DEF d
<1>7. QED
  BY <1>1, <1>3, <1>4, <1>5, <1>6 DEF TreeOK, ClassFiles, FileRead

\* A sequence is one of its elements.
LEMMA SeqOfItsElements ==
    ASSUME NEW S, NEW s \in Seq(S)
    PROVE  s \in Seq(ToSet(s)) /\ DOMAIN s = 1 .. Len(s) /\ Len(s) \in Nat
<1>1. Len(s) \in Nat /\ s = [i \in 1 .. Len(s) |-> s[i]] /\ DOMAIN s = 1 .. Len(s)
  OBVIOUS
<1>2. \A i \in 1 .. Len(s) : s[i] \in ToSet(s)
  BY <1>1 DEF ToSet
<1>3. QED
  BY <1>1, <1>2, IsASeq

\* The samples are directories of the dataset.
LEMMA SampleParts ==
    ASSUME TreeOK
    PROVE  /\ Samples \in Seq(ToSet(dataset))
           /\ DOMAIN Samples = 1 .. Len(Samples) /\ Len(Samples) \in Nat
           /\ \A i \in DOMAIN Samples : Samples[i] \in ToSet(dataset) /\ Samples[i].type = "directory"
<1>1. dataset \in Seq(ToSet(dataset))
  BY DEF TreeOK
<1>2. Samples \in Seq(ToSet(dataset)) /\ ToSet(Samples) = {f \in ToSet(dataset) : f.type = "directory"}
  BY <1>1, OfKindParts DEF Samples
<1>3. QED
  BY <1>2 DEF ToSet

\* The files in a directory, once they are loaded.
LEMMA LoadedParts ==
    ASSUME NEW files, files \in Seq(ToSet(files))
    PROVE  /\ LoadDirectory(files) \in Seq(ToSet(LoadDirectory(files)))
           /\ ToSet(LoadDirectory(files)) \subseteq ToSet(files)
           /\ DistinctNames(LoadDirectory(files))
           /\ DOMAIN LoadDirectory(files) = 1 .. Len(LoadDirectory(files))
           /\ Len(LoadDirectory(files)) \in Nat
<1>1. LoadDirectory(files) \in Seq(ToSet(files))
  BY LoadDirectoryParts
<1>2. QED
  BY <1>1, LoadDirectoryParts, SeqOfItsElements

\* The children of a sample, and the files in those of them that are directories.
LEMMA ChildrenParts ==
    ASSUME TreeOK, NEW i \in DOMAIN Samples
    PROVE  /\ Children(i) \in Seq(ToSet(Children(i))) /\ DistinctNames(Children(i))
           /\ \A f \in ToSet(Children(i)) : FileRead(f)
           /\ \A f \in ToSet(Children(i)) : f.type = "directory" =>
                 \A g \in ToSet(LoadDirectory(f.files)) : FileRead(g)
<1>1. Samples[i] \in ToSet(dataset) /\ Samples[i].type = "directory"
  BY SampleParts
<1>2. \A f \in AllFiles(dataset) : FileRead(f)
  BY DEF TreeOK
<1>3. Samples[i].files \in Seq(ToSet(Samples[i].files))
  BY <1>1, <1>2 DEF AllFiles, FileRead
<1>4. /\ Children(i) \in Seq(ToSet(Children(i))) /\ DistinctNames(Children(i))
      /\ ToSet(Children(i)) \subseteq ToSet(Samples[i].files)
  BY <1>3, LoadedParts DEF Children
<1>5. ToSet(Samples[i].files) \subseteq FilesIn(ToSet(dataset))
  BY <1>1 DEF FilesIn
<1>6. ToSet(Children(i)) \subseteq FilesIn(ToSet(dataset))
  BY <1>4, <1>5
<1>7. \A f \in ToSet(Children(i)) : FileRead(f)
  BY <1>2, <1>6 DEF AllFiles
<1>8. ASSUME NEW f \in ToSet(Children(i)), f.type = "directory"
      PROVE  \A g \in ToSet(LoadDirectory(f.files)) : FileRead(g)
  <2>1. f.files \in Seq(ToSet(f.files))
    BY <1>7, <1>8 DEF FileRead
  <2>2. ToSet(LoadDirectory(f.files)) \subseteq ToSet(f.files)
    BY <2>1, LoadedParts
  <2>3. ToSet(f.files) \subseteq FilesIn(FilesIn(ToSet(dataset)))
    BY <1>6, <1>8 DEF FilesIn
  <2>4. ToSet(LoadDirectory(f.files)) \subseteq AllFiles(dataset)
    BY <2>2, <2>3 DEF AllFiles
  <2>5. QED
    BY <1>2, <2>4
<1>9. QED
  BY <1>4, <1>7, <1>8

\* The links of a sample with one links file are those of the file.
LEMMA LinksParts ==
    ASSUME TreeOK, NEW i \in DOMAIN Samples, HasLinks(i), ~(Len(OfKind(Children(i), "links")) > 1)
    PROVE  /\ LinksOf(i) = OfKind(Children(i), "links")[1].links
           /\ LinksOf(i) \in Graphs /\ IsFiniteSet(LinksOf(i))
<1> DEFINE s == OfKind(Children(i), "links")
<1>1. /\ Children(i) \in Seq(ToSet(Children(i)))
      /\ \A f \in ToSet(Children(i)) : FileRead(f)
  BY ChildrenParts
<1>2. s \in Seq(ToSet(Children(i))) /\ ToSet(s) = {f \in ToSet(Children(i)) : f.type = "links"}
  BY <1>1, OfKindParts
<1>3. s # <<>> /\ ~(Len(s) > 1)
  BY DEF HasLinks
<1>4. LinksOf(i) = UNION {f.links : f \in ToSet(s)}
  BY DEF LinksOf
<1> HIDE DEF s
<1>5. Len(s) = 1 /\ DOMAIN s = {1}
  <2>1. Len(s) \in Nat /\ Len(s) # 0 /\ DOMAIN s = 1 .. Len(s)
    BY <1>2, <1>3
  <2>2. Len(s) = 1
    BY <1>3, <2>1
  <2>3. 1 .. 1 = {1}
    OBVIOUS
  <2>4. QED
    BY <2>1, <2>2, <2>3
<1>6. ToSet(s) = {s[1]}
  BY <1>5 DEF ToSet
<1>7. s[1] \in ToSet(Children(i)) /\ s[1].type = "links"
  BY <1>2, <1>6
<1>8. s[1].links \in Graphs /\ IsFiniteSet(s[1].links)
  BY <1>1, <1>7 DEF FileRead
<1>9. LinksOf(i) = s[1].links
  BY <1>4, <1>6
<1>10. QED
  BY <1>8, <1>9 DEF s

------------------------------------------------------------------------------
(* One child after the other.                                              *)

FieldFold(acc, s, U, n) ==
    IF n = 0 THEN acc
    ELSE IF U[n - 1].err = Null THEN FieldStep(U[n - 1], s[n]) ELSE U[n - 1]

\* The function that the reading of the fields of a node is defined by exists.
LEMMA FieldFolds ==
    ASSUME NEW acc, NEW s, Len(s) \in Nat
    PROVE  \E U : /\ \A n \in 0 .. Len(s) : U[n] = FieldFold(acc, s, U, n)
                  /\ Sequentially(FieldStep, acc, s) = U[Len(s)]
<1> DEFINE Good(U, m) == U = [n \in 0 .. m |-> FieldFold(acc, s, U, n)]
           T == {m \in Nat : \E U : Good(U, m)}
<1>1. 0 \in T
  <2>1. Good([n \in 0 .. 0 |-> acc], 0)
    BY DEF FieldFold
  <2>2. QED
    BY <2>1
<1>2. ASSUME NEW m \in Nat, m \in T PROVE m + 1 \in T
  <2>1. PICK U : Good(U, m)
    BY <1>2
  <2> DEFINE W == [n \in 0 .. m + 1 |-> IF n <= m THEN U[n] ELSE FieldFold(acc, s, U, n)]
  <2>2. \A n \in 0 .. m : W[n] = U[n] /\ U[n] = FieldFold(acc, s, U, n)
    BY <2>1
  <2>3. W[m + 1] = FieldFold(acc, s, U, m + 1) /\ W = [n \in 0 .. m + 1 |-> W[n]]
    OBVIOUS
  <2>4. ASSUME NEW n \in 0 .. m + 1 PROVE W[n] = FieldFold(acc, s, W, n)
    <3> HIDE DEF W
    <3>1. CASE n = m + 1
      <4>1. n # 0 /\ n - 1 = m /\ m \in 0 .. m
        BY <3>1
      <4>2. QED
        BY <3>1, <4>1, <2>2, <2>3 DEF FieldFold
    <3>2. CASE n = 0
      BY <2>2, <3>2 DEF FieldFold
    <3>3. CASE n # 0 /\ n # m + 1
      <4>1. n \in 0 .. m /\ n - 1 \in 0 .. m
        BY <3>3
      <4>2. QED
        BY <3>3, <4>1, <2>2 DEF FieldFold
    <3>4. QED
      BY <3>1, <3>2, <3>3
  <2>5. Good(W, m + 1)
    <3> HIDE DEF W
    <3>1. QED
      BY <2>3, <2>4
  <2> HIDE DEF Good, W
  <2>6. QED
    BY <2>5
<1>3. Nat \subseteq T
  <2> HIDE DEF T
  <2>1. QED
    BY <1>1, <1>2, SetInduction
<1>4. PICK U : Good(U, Len(s))
  BY <1>3
<1> DEFINE V == CHOOSE V : Good(V, Len(s))
<1>5. Good(V, Len(s))
  BY <1>4
<1>6. Sequentially(FieldStep, acc, s) = V[Len(s)]
  BY DEF Sequentially, FieldFold
<1> HIDE DEF V
<1>7. \A n \in 0 .. Len(s) : V[n] = FieldFold(acc, s, V, n)
  BY <1>5
<1>8. QED
  BY <1>6, <1>7

ChildFold(acc, s, U, n) ==
    IF n = 0 THEN acc
    ELSE IF U[n - 1].err = Null THEN ChildStep(U[n - 1], s[n]) ELSE U[n - 1]

\* The same for the children of a sample.
LEMMA ChildFolds ==
    ASSUME NEW acc, NEW s, Len(s) \in Nat
    PROVE  \E U : /\ \A n \in 0 .. Len(s) : U[n] = ChildFold(acc, s, U, n)
                  /\ Sequentially(ChildStep, acc, s) = U[Len(s)]
<1> DEFINE Good(U, m) == U = [n \in 0 .. m |-> ChildFold(acc, s, U, n)]
           T == {m \in Nat : \E U : Good(U, m)}
<1>1. 0 \in T
  <2>1. Good([n \in 0 .. 0 |-> acc], 0)
    BY DEF ChildFold
  <2>2. QED
    BY <2>1
<1>2. ASSUME NEW m \in Nat, m \in T PROVE m + 1 \in T
  <2>1. PICK U : Good(U, m)
    BY <1>2
  <2> DEFINE W == [n \in 0 .. m + 1 |-> IF n <= m THEN U[n] ELSE ChildFold(acc, s, U, n)]
  <2>2. \A n \in 0 .. m : W[n] = U[n] /\ U[n] = ChildFold(acc, s, U, n)
    BY <2>1
  <2>3. W[m + 1] = ChildFold(acc, s, U, m + 1) /\ W = [n \in 0 .. m + 1 |-> W[n]]
    OBVIOUS
  <2>4. ASSUME NEW n \in 0 .. m + 1 PROVE W[n] = ChildFold(acc, s, W, n)
    <3> HIDE DEF W
    <3>1. CASE n = m + 1
      <4>1. n # 0 /\ n - 1 = m /\ m \in 0 .. m
        BY <3>1
      <4>2. QED
        BY <3>1, <4>1, <2>2, <2>3 DEF ChildFold
    <3>2. CASE n = 0
      BY <2>2, <3>2 DEF ChildFold
    <3>3. CASE n # 0 /\ n # m + 1
      <4>1. n \in 0 .. m /\ n - 1 \in 0 .. m
        BY <3>3
      <4>2. QED
        BY <3>3, <4>1, <2>2 DEF ChildFold
    <3>4. QED
      BY <3>1, <3>2, <3>3
  <2>5. Good(W, m + 1)
    <3> HIDE DEF W
    <3>1. QED
      BY <2>3, <2>4
  <2> HIDE DEF Good, W
  <2>6. QED
    BY <2>5
<1>3. Nat \subseteq T
  <2> HIDE DEF T
  <2>1. QED
    BY <1>1, <1>2, SetInduction
<1>4. PICK U : Good(U, Len(s))
  BY <1>3
<1> DEFINE V == CHOOSE V : Good(V, Len(s))
<1>5. Good(V, Len(s))
  BY <1>4
<1>6. Sequentially(ChildStep, acc, s) = V[Len(s)]
  BY DEF Sequentially, ChildFold
<1> HIDE DEF V
<1>7. \A n \in 0 .. Len(s) : V[n] = ChildFold(acc, s, V, n)
  BY <1>5
<1>8. QED
  BY <1>6, <1>7

------------------------------------------------------------------------------
(* Fields.                                                                 *)

Errors == {Null, "DatasetException", "SchemaException", "TypeError"}

\* An error is none of the other values of outcome.
LEMMA ErrorsDiffer ==
    /\ Null \notin {"DatasetException", "SchemaException", "TypeError", "ok", "unreadable"}
    /\ "ok" \notin Errors
BY OutcomesAssumption DEF Errors

\* The shape of a tensor that can be read.
LEMMA TensorShapeParts ==
    ASSUME NEW f, FileRead(f), f.type = "tensor"
    PROVE  /\ TensorShape(f) \in Seq(Nat) /\ TensorShape(f) # <<>>
           /\ TensorShape(f)[1] \in Nat /\ Tail(TensorShape(f)) \in Seq(Nat)
<1>1. f.shape \in Seq(Nat) /\ f.shape # <<>> /\ (f.subtype = "csv" => Len(f.shape) = 2)
  BY DEF FileRead
<1>2. CASE f.subtype = "csv" /\ f.shape[1] = 1
  <2>1. f.shape[2] \in Nat
    BY <1>1, <1>2
  <2>2. TensorShape(f) = <<f.shape[2]>>
    BY <1>2 DEF TensorShape
  <2>3. QED
    BY <2>1, <2>2
<1>3. CASE ~(f.subtype = "csv" /\ f.shape[1] = 1)
  <2>1. TensorShape(f) = f.shape
    BY <1>3 DEF TensorShape
  <2>2. QED
    BY <1>1, <2>1
<1>4. QED
  BY <1>2, <1>3

\* The class of a category has all its values.
LEMMA ClassFits ==
    ASSUME TreeOK, NEW f, ClassOf(f) # Null
    PROVE  BelongsToSet(f, Get(ClassFiles, ClassOf(f)))
<1> DEFINE I == {i \in 1 .. Len(ClassFiles) : BelongsToSet(f, ClassFiles[i])}
<1>1. dataset \in Seq(ToSet(dataset)) /\ DistinctNames(ClassFiles)
  BY DEF TreeOK
<1>2. ClassFiles \in Seq(ToSet(dataset))
  BY <1>1, OfKindParts DEF ClassFiles
<1>3. DOMAIN ClassFiles = 1 .. Len(ClassFiles) /\ Len(ClassFiles) \in Nat
  BY <1>2
<1>4. ClassOf(f) = IF (IF I # {} THEN Min(I) ELSE 0) = 0 THEN Null
                   ELSE ClassFiles[IF I # {} THEN Min(I) ELSE 0].name
  BY DEF ClassOf, SelectInSeq
<1>5. I # {} /\ ClassOf(f) = ClassFiles[Min(I)].name
  <2> HIDE DEF I
  <2>1. QED
    BY <1>4
<1>6. Min(I) \in I
  <2>1. I \in SUBSET (0 .. Len(ClassFiles))
    BY <1>3
  <2> HIDE DEF I
  <2>2. QED
    BY <1>3, <1>5, <2>1, MinProperties
<1>7. Min(I) \in DOMAIN ClassFiles /\ BelongsToSet(f, ClassFiles[Min(I)])
  BY <1>3, <1>6
<1> HIDE DEF I
<1>8. QED
  BY <1>1, <1>5, <1>7, GetNamed

\* The field that a file becomes describes it, if the field is accepted.
LEMMA FieldOfFits ==
    ASSUME TreeOK, NEW f, f.type \in {"tensor", "category"}, NEW name, NEW shape \in Seq(Nat),
           FieldOf(f, name, shape) # Null, FieldOK(FieldOf(f, name, shape))
    PROVE  FieldOf(f, name, shape).name = name /\ FileFits(f, FieldOf(f, name, shape), shape)
<1>1. CASE f.type = "tensor"
  <2> DEFINE t == TensorField(name, SizeDims(shape))
  <2>1. FieldOf(f, name, shape) = t
    BY <1>1 DEF FieldOf
  <2>2. t.name = name /\ t.type = "tensor" /\ t.dim = SizeDims(shape)
    BY DEF TensorField
  <2> HIDE DEF t
  <2>3. \A i \in DOMAIN t.dim : t.dim[i].d # Malformed
    BY <2>1, <2>2 DEF FieldOK, TensorOK
  <2>4. DOMAIN t.dim = DOMAIN shape /\ \A i \in DOMAIN shape : t.dim[i] = SizeDim(shape[i])
    BY <2>2 DEF SizeDims
  <2>5. ASSUME NEW i \in DOMAIN shape PROVE t.dim[i].d = shape[i]
    <3>1. t.dim[i] = SizeDim(shape[i]) /\ t.dim[i].d # Malformed
      BY <2>3, <2>4
    <3>2. CASE shape[i] < 1
      <4>1. SizeDim(shape[i]).d = Malformed
        BY <3>2 DEF SizeDim
      <4>2. QED
        BY <3>1, <4>1
    <3>3. CASE ~(shape[i] < 1)
      <4>1. SizeDim(shape[i]).d = shape[i]
        BY <3>3 DEF SizeDim
      <4>2. QED
        BY <3>1, <4>1
    <3>4. QED
      BY <3>2, <3>3
  <2>6. [i \in DOMAIN t.dim |-> t.dim[i].d] = shape
    BY <2>4, <2>5
  <2>7. QED
    BY <1>1, <2>1, <2>2, <2>6 DEF FileFits
<1>2. CASE f.type = "category"
  <2>1. FieldOf(f, name, shape) = CategoryField(name, ClassOf(f)) /\ ClassOf(f) # Null
    BY <1>2 DEF FieldOf
  <2>2. BelongsToSet(f, Get(ClassFiles, ClassOf(f)))
    BY <2>1, ClassFits
  <2>3. QED
    BY <1>2, <2>1, <2>2 DEF FileFits, CategoryField
<1>3. QED
  BY <1>1, <1>2

\* The field that a file in the directory of a node becomes.
FieldShape(f) == IF f.type = "tensor" THEN Tail(TensorShape(f)) ELSE <<>>
NewField(f) == FieldOf(f, f.name, FieldShape(f))

FieldAcc(a) == a = [err |-> a.err, fields |-> a.fields, count |-> a.count] /\ a.err \in Errors

\* What one file does to the fields of a node.
LEMMA FieldStepParts ==
    ASSUME NEW a, FieldAcc(a), a.err = Null, a.count \in Nat, NEW f, FileRead(f)
    PROVE  /\ FieldAcc(FieldStep(a, f))
           /\ FieldStep(a, f).err = Null =>
                /\ FieldStep(a, f).count \in Nat
                /\ f.type \in {"tensor", "category"} /\ NewField(f) # Null
                /\ k = 1 => /\ FieldOK(NewField(f))
                            /\ FieldStep(a, f).fields = Append(a.fields, NewField(f))
                /\ k # 1 => /\ FieldStep(a, f).fields = a.fields
                            /\ f.name \in Names(a.fields) /\ Get(a.fields, f.name) = NewField(f)
<1> DEFINE shape == IF f.type = "tensor" THEN TensorShape(f) ELSE <<Len(f.categories)>>
           count == IF a.count = 0 THEN shape[1] ELSE a.count
           field == FieldOf(f, f.name, Tail(shape))
           bad(e) == [a EXCEPT !.err = e]
           same == [a EXCEPT !.count = count]
           longer == [err |-> Null, fields |-> Append(a.fields, field), count |-> count]
<1>0. FieldStep(a, f) =
        IF f.type \notin {"tensor", "category"} THEN bad("DatasetException")
        ELSE IF field = Null \/ count # shape[1] THEN bad("DatasetException")
        ELSE IF k = 1 THEN IF FieldOK(field) THEN longer ELSE bad("SchemaException")
        ELSE IF f.name \notin Names(a.fields) THEN bad("TypeError")
        ELSE IF Get(a.fields, f.name) # field THEN bad("DatasetException")
        ELSE same
  BY DEF FieldStep, Err
<1>1. ASSUME NEW e \in {"DatasetException", "SchemaException", "TypeError"}
      PROVE  FieldAcc(bad(e)) /\ bad(e).err # Null
  BY <1>1, ErrorsDiffer DEF FieldAcc, Errors
<1>2. ASSUME f.type \in {"tensor", "category"} PROVE field = NewField(f) /\ count \in Nat
  <2>1. CASE f.type = "tensor"
    <3>1. shape = TensorShape(f) /\ shape[1] \in Nat
      BY <2>1, TensorShapeParts
    <3>2. FieldShape(f) = Tail(shape)
      BY <2>1, <3>1 DEF FieldShape
    <3>3. QED
      BY <3>1, <3>2 DEF NewField
  <2>2. CASE f.type = "category"
    <3>1. Len(f.categories) \in Nat
      BY <2>2 DEF FileRead
    <3>2. FieldOf(f, f.name, Tail(shape)) = FieldOf(f, f.name, FieldShape(f))
      BY <2>2 DEF FieldOf
    <3>3. shape[1] \in Nat
      BY <2>2, <3>1
    <3>4. QED
      BY <3>2, <3>3 DEF NewField
  <2>3. QED
    BY <1>2, <2>1, <2>2
<1> HIDE DEF count, field, shape
<1>3. /\ FieldAcc(same) /\ same.err = Null /\ same.fields = a.fields /\ same.count = count
      /\ FieldAcc(longer) /\ longer.err = Null /\ longer.fields = Append(a.fields, field)
      /\ longer.count = count
  <2>1. same = [err |-> Null, fields |-> a.fields, count |-> count]
    BY DEF FieldAcc
  <2> HIDE DEF same, longer
  <2>3. QED
    BY <2>1 DEF FieldAcc, Errors, longer
<1> HIDE DEF bad, same, longer
<1>4. CASE f.type \notin {"tensor", "category"}
  BY <1>0, <1>1, <1>4
<1>5. CASE f.type \in {"tensor", "category"}
  <2>1. field = NewField(f) /\ count \in Nat
    BY <1>2, <1>5
  <2>2. CASE field = Null \/ count # shape[1]
    BY <1>0, <1>1, <1>5, <2>2
  <2>3. CASE ~(field = Null \/ count # shape[1]) /\ k = 1
    BY <1>0, <1>1, <1>3, <1>5, <2>1, <2>3
  <2>4. CASE ~(field = Null \/ count # shape[1]) /\ k # 1
    BY <1>0, <1>1, <1>3, <1>5, <2>1, <2>4
  <2>5. QED
    BY <2>2, <2>3, <2>4
<1>6. QED
  BY <1>4, <1>5

\* What is known of the fields of a node after the first n files c.
FieldsUpTo(c, fields, a, n) ==
    /\ FieldAcc(a)
    /\ a.err = Null =>
        /\ a.count \in Nat
        /\ \A j \in 1 .. n : c[j].type \in {"tensor", "category"} /\ NewField(c[j]) # Null
        /\ k = 1 => /\ a.fields = [j \in 1 .. n |-> NewField(c[j])]
                    /\ \A j \in 1 .. n : FieldOK(NewField(c[j]))
        /\ k # 1 => /\ a.fields = fields
                    /\ \A j \in 1 .. n : /\ c[j].name \in Names(fields)
                                         /\ Get(fields, c[j].name) = NewField(c[j])

\* The fields after all files.
LEMMA FieldsFolded ==
    ASSUME NEW c, c \in Seq(ToSet(c)), \A f \in ToSet(c) : FileRead(f),
           NEW fields, k = 1 => fields = <<>>
    PROVE  FieldsUpTo(c, fields,
               Sequentially(FieldStep, [err |-> Null, fields |-> fields, count |-> 0], c), Len(c))
<1> DEFINE a0 == [err |-> Null, fields |-> fields, count |-> 0]
<1>0. Len(c) \in Nat /\ \A n \in 1 .. Len(c) : FileRead(c[n])
  BY DEF ToSet
<1>1. PICK U : /\ \A n \in 0 .. Len(c) : U[n] = FieldFold(a0, c, U, n)
               /\ Sequentially(FieldStep, a0, c) = U[Len(c)]
  BY <1>0, FieldFolds
<1> DEFINE T == {n \in Nat : n <= Len(c) => FieldsUpTo(c, fields, U[n], n)}
<1>2. 0 \in T
  <2>1. U[0] = a0
    <3> HIDE DEF a0
    <3>1. U[0] = FieldFold(a0, c, U, 0)
      BY <1>0, <1>1
    <3>2. FieldFold(a0, c, U, 0) = a0
      BY DEF FieldFold
    <3>3. QED
      BY <3>1, <3>2
  <2>2. FieldAcc(a0) /\ a0.count \in Nat /\ a0.fields = fields
    BY DEF FieldAcc, Errors
  <2>3. k = 1 => a0.fields = [j \in 1 .. 0 |-> NewField(c[j])]
    BY <2>2
  <2> HIDE DEF a0
  <2>4. FieldsUpTo(c, fields, a0, 0)
    BY <2>2, <2>3 DEF FieldsUpTo
  <2>5. QED
    BY <2>1, <2>4
<1> HIDE DEF a0
<1>3. ASSUME NEW n \in Nat, n \in T PROVE n + 1 \in T
  <2>0. SUFFICES ASSUME n + 1 <= Len(c) PROVE FieldsUpTo(c, fields, U[n + 1], n + 1)
    OBVIOUS
  <2>1. FieldsUpTo(c, fields, U[n], n) /\ n + 1 \in 1 .. Len(c) /\ n + 1 \in 0 .. Len(c)
    BY <1>0, <1>3, <2>0
  <2>2. U[n + 1] = IF U[n].err = Null THEN FieldStep(U[n], c[n + 1]) ELSE U[n]
    <3>1. n + 1 # 0 /\ (n + 1) - 1 = n
      OBVIOUS
    <3>2. QED
      BY <1>1, <2>1, <3>1 DEF FieldFold
  <2>3. CASE U[n].err # Null
    BY <2>1, <2>2, <2>3 DEF FieldsUpTo
  <2>4. CASE U[n].err = Null
    <3> DEFINE a == U[n]
               f == c[n + 1]
               b == FieldStep(a, f)
    <3>1. FieldAcc(a) /\ a.err = Null /\ a.count \in Nat
      BY <2>1, <2>4 DEF FieldsUpTo
    <3>2. FileRead(f)
      BY <1>0, <2>1
    <3> HIDE DEF a, f
    <3>3. /\ FieldAcc(b)
          /\ b.err = Null =>
                /\ b.count \in Nat
                /\ f.type \in {"tensor", "category"} /\ NewField(f) # Null
                /\ k = 1 => FieldOK(NewField(f)) /\ b.fields = Append(a.fields, NewField(f))
                /\ k # 1 => /\ b.fields = a.fields
                            /\ f.name \in Names(a.fields) /\ Get(a.fields, f.name) = NewField(f)
      BY <3>1, <3>2, FieldStepParts
    <3>4. FieldsUpTo(c, fields, a, n) /\ U[n + 1] = b
      BY <2>1, <2>2, <2>4 DEF a, f
    <3> HIDE DEF b
    <3>5. \A j \in 1 .. n + 1 : j \in 1 .. n \/ c[j] = f
      BY DEF f
    <3>6. ASSUME b.err = Null, k = 1 PROVE b.fields = [j \in 1 .. n + 1 |-> NewField(c[j])]
      <4>1. /\ b.fields = Append(a.fields, NewField(f))
            /\ a.fields = [j \in 1 .. n |-> NewField(c[j])]
        BY <3>1, <3>3, <3>4, <3>6 DEF FieldsUpTo
      <4>2. Append([j \in 1 .. n |-> NewField(c[j])], NewField(c[n + 1]))
              = [j \in 1 .. n + 1 |-> NewField(c[j])]
        OBVIOUS
      <4>3. QED
        BY <4>1, <4>2 DEF f
    <3>7. FieldsUpTo(c, fields, b, n + 1)
      BY <3>1, <3>3, <3>4, <3>5, <3>6 DEF FieldsUpTo
    <3>8. QED
      BY <3>4, <3>7
  <2>5. QED
    BY <2>3, <2>4
<1>4. Len(c) \in T
  <2> HIDE DEF T
  <2>1. QED
    BY <1>0, <1>2, <1>3, SetInduction
<1>5. QED
  BY <1>0, <1>1, <1>4 DEF a0

FieldsMade(fs) ==
    fs \in Seq(ToSet(fs)) /\ DistinctNames(fs) /\ \A f \in ToSet(fs) : FieldOK(f)

\* The fields of a node describe the files that they were read from or compared with.
LEMMA FieldsRead ==
    ASSUME TreeOK, NEW c, c \in Seq(ToSet(c)), DistinctNames(c),
           \A f \in ToSet(c) : FileRead(f),
           NEW fields, FieldsMade(fields), k = 1 => fields = <<>>,
           NEW r, r = Sequentially(FieldStep, [err |-> Null, fields |-> fields, count |-> 0], c)
    PROVE  /\ r.err \in Errors
           /\ r.err = Null =>
                /\ r.count \in Nat /\ FieldsMade(r.fields)
                /\ k # 1 => r.fields = fields
                /\ Names(c) \subseteq Names(r.fields) /\ (k = 1 => Names(r.fields) = Names(c))
                /\ \A g \in ToSet(c) : FileFits(g, Get(r.fields, g.name), FieldShape(g))
<1>1. FieldsUpTo(c, fields, r, Len(c))
  BY FieldsFolded
<1>2. DOMAIN c = 1 .. Len(c) /\ Len(c) \in Nat /\ \A j \in 1 .. Len(c) : c[j] \in ToSet(c)
  BY DEF ToSet
<1>3. r.err \in Errors
  BY <1>1 DEF FieldsUpTo, FieldAcc
<1> SUFFICES ASSUME r.err = Null
             PROVE  /\ r.count \in Nat /\ FieldsMade(r.fields)
                    /\ k # 1 => r.fields = fields
                    /\ Names(c) \subseteq Names(r.fields) /\ (k = 1 => Names(r.fields) = Names(c))
                    /\ \A g \in ToSet(c) : FileFits(g, Get(r.fields, g.name), FieldShape(g))
  BY <1>3
<1>4. r.count \in Nat /\ \A j \in 1 .. Len(c) : c[j].type \in {"tensor", "category"} /\ NewField(c[j]) # Null
  BY <1>1 DEF FieldsUpTo
<1>5. ASSUME NEW j \in 1 .. Len(c), FieldOK(NewField(c[j]))
      PROVE  NewField(c[j]).name = c[j].name /\ FileFits(c[j], NewField(c[j]), FieldShape(c[j]))
  <2>1. FileRead(c[j]) /\ c[j].type \in {"tensor", "category"} /\ NewField(c[j]) # Null
    BY <1>2, <1>4
  <2>2. FieldShape(c[j]) \in Seq(Nat)
    BY <2>1, TensorShapeParts DEF FieldShape
  <2>3. QED
    BY <1>5, <2>1, <2>2, FieldOfFits DEF NewField
<1>6. CASE k = 1
  <2> DEFINE fs == [j \in 1 .. Len(c) |-> NewField(c[j])]
  <2>1. r.fields = fs /\ \A j \in 1 .. Len(c) : FieldOK(NewField(c[j]))
    BY <1>1, <1>6 DEF FieldsUpTo
  <2>2. /\ fs \in Seq({NewField(c[j]) : j \in 1 .. Len(c)}) /\ DOMAIN fs = 1 .. Len(c)
        /\ \A j \in 1 .. Len(c) : fs[j] = NewField(c[j])
    BY <1>2, IsASeq
  <2> HIDE DEF fs
  <2>3. fs \in Seq(ToSet(fs))
    BY <2>2, SeqOfItsElements
  <2>4. \A j \in 1 .. Len(c) : fs[j].name = c[j].name /\ FileFits(c[j], fs[j], FieldShape(c[j]))
    BY <1>5, <2>1, <2>2
  <2>5. DistinctNames(fs)
    BY <1>2, <2>2, <2>4 DEF DistinctNames
  <2>6. FieldsMade(fs)
    BY <2>1, <2>2, <2>3, <2>5 DEF FieldsMade, ToSet
  <2>7. Names(fs) = Names(c)
    BY <1>2, <2>2, <2>4 DEF Names
  <2>8. ASSUME NEW j \in 1 .. Len(c) PROVE FileFits(c[j], Get(fs, c[j].name), FieldShape(c[j]))
    <3>1. Get(fs, fs[j].name) = fs[j]
      BY <2>2, <2>5, GetNamed
    <3>2. QED
      BY <2>4, <3>1
  <2>9. \A g \in ToSet(c) : FileFits(g, Get(fs, g.name), FieldShape(g))
    BY <1>2, <2>8 DEF ToSet
  <2>10. QED
    BY <1>4, <1>6, <2>1, <2>6, <2>7, <2>9
<1>7. CASE k # 1
  <2>1. /\ r.fields = fields
        /\ \A j \in 1 .. Len(c) : c[j].name \in Names(fields) /\ Get(fields, c[j].name) = NewField(c[j])
    BY <1>1, <1>7 DEF FieldsUpTo
  <2>2. ASSUME NEW j \in 1 .. Len(c) PROVE FileFits(c[j], Get(fields, c[j].name), FieldShape(c[j]))
    <3>1. Get(fields, c[j].name) \in ToSet(fields)
      BY <2>1, GetFrom
    <3>2. FieldOK(NewField(c[j]))
      BY <2>1, <3>1 DEF FieldsMade
    <3>3. QED
      BY <1>5, <2>1, <3>2
  <2>3. \A g \in ToSet(c) : FileFits(g, Get(fields, g.name), FieldShape(g))
    BY <1>2, <2>2 DEF ToSet
  <2>4. Names(c) \subseteq Names(fields)
    BY <1>2, <2>1 DEF Names
  <2>5. QED
    BY <1>4, <1>7, <2>1, <2>3, <2>4
<1>8. QED
  BY <1>6, <1>7

------------------------------------------------------------------------------
(* Nodes.                                                                  *)

NodeMade(n) ==
    /\ n = [name |-> n.name, singleton |-> n.singleton, fields |-> n.fields,
            links |-> n.links, srcName |-> Null]
    /\ n.singleton \in BOOLEAN /\ (n.singleton => n.links = <<>>)
    /\ FieldsMade(n.fields) /\ n.fields # <<>>

NodesMade(ns) ==
    /\ ns \in Seq(ToSet(ns)) /\ DistinctNames(ns)
    /\ \A n \in ToSet(ns) : NodeMade(n)

\* A node of ms stays at its place, with its kind and its fields, and gets no links.
Grows(ms, ns) ==
    /\ DOMAIN ms \subseteq DOMAIN ns
    /\ \A i \in DOMAIN ms :
        /\ ns[i].name = ms[i].name /\ ns[i].singleton = ms[i].singleton /\ ns[i].fields = ms[i].fields
        /\ ms[i].links = <<>> => ns[i].links = <<>>

\* What is known of a node is known of it afterwards.
LEMMA GrowsGet ==
    ASSUME NEW ms, NEW ns, DistinctNames(ms), DistinctNames(ns), Grows(ms, ns), NEW name \in Names(ms)
    PROVE  /\ name \in Names(ns)
           /\ Get(ns, name).singleton = Get(ms, name).singleton
           /\ Get(ns, name).fields = Get(ms, name).fields
           /\ Get(ms, name).links = <<>> => Get(ns, name).links = <<>>
<1>1. PICK i \in DOMAIN ms : Get(ms, name) = ms[i] /\ ms[i].name = name
  BY GetFrom
<1>2. i \in DOMAIN ns /\ ns[i].name = name /\ Get(ns, name) = ns[i]
  BY <1>1, GetNamed DEF Grows
<1>3. name \in Names(ns)
  BY <1>2 DEF Names
<1>4. QED
  BY <1>1, <1>2, <1>3 DEF Grows

\* A child fits a node by its kind and its fields.
LEMMA FitsAgain ==
    ASSUME NEW f, NEW m, NEW n, m.singleton = n.singleton, m.fields = n.fields, ChildFits(f, m)
    PROVE  ChildFits(f, n)
BY DEF ChildFits

\* A new node at the end.
LEMMA NodeAdded ==
    ASSUME NEW ns, NodesMade(ns), NEW n, NodeMade(n), n.name \notin Names(ns)
    PROVE  /\ NodesMade(Append(ns, n)) /\ Grows(ns, Append(ns, n))
           /\ Names(Append(ns, n)) = Names(ns) \cup {n.name}
           /\ Get(Append(ns, n), n.name) = n
<1> DEFINE t == Append(ns, n)
<1>0. ns \in Seq(ToSet(ns)) /\ DistinctNames(ns) /\ \A m \in ToSet(ns) : NodeMade(m)
  BY DEF NodesMade
<1>1. DOMAIN ns = 1 .. Len(ns) /\ Len(ns) \in Nat /\ \A i \in 1 .. Len(ns) : ns[i] \in ToSet(ns)
  BY <1>0 DEF ToSet
<1>2. /\ t \in Seq(ToSet(ns) \cup {n}) /\ DOMAIN t = 1 .. Len(ns) + 1
      /\ t[Len(ns) + 1] = n /\ \A i \in 1 .. Len(ns) : t[i] = ns[i]
  BY <1>0, <1>1
<1> HIDE DEF t
<1>3. \A i \in 1 .. Len(ns) + 1 : i \in 1 .. Len(ns) \/ i = Len(ns) + 1
  BY <1>1
<1>4. t \in Seq(ToSet(t))
  BY <1>2, SeqOfItsElements
<1>5. \A i \in 1 .. Len(ns) : t[i].name \in Names(ns)
  BY <1>1, <1>2 DEF Names
<1>6. DistinctNames(t)
  <2>1. \A i, j \in 1 .. Len(ns) : t[i].name = t[j].name => i = j
    BY <1>0, <1>1, <1>2 DEF DistinctNames
  <2>2. QED
    BY <1>2, <1>3, <1>5, <2>1 DEF DistinctNames
<1>7. \A m \in ToSet(t) : NodeMade(m)
  BY <1>0, <1>1, <1>2, <1>3 DEF ToSet
<1>8. Grows(ns, t)
  BY <1>1, <1>2, <1>3 DEF Grows
<1>9. Names(t) = Names(ns) \cup {n.name}
  <2>1. Len(ns) + 1 \in 1 .. Len(ns) + 1 /\ \A i \in 1 .. Len(ns) : i \in 1 .. Len(ns) + 1
    BY <1>1
  <2>2. QED
    BY <1>1, <1>2, <1>3, <2>1 DEF Names
<1>10. Get(t, n.name) = n
  <2>1. Len(ns) + 1 \in DOMAIN t
    BY <1>1, <1>2
  <2>2. QED
    BY <1>2, <1>6, <2>1, GetNamed
<1>11. QED
  BY <1>4, <1>6, <1>7, <1>8, <1>9, <1>10 DEF NodesMade, t

\* A node that is made anew.
LEMMA NodeReplaced ==
    ASSUME NEW ns, NodesMade(ns), NEW n, NodeMade(n), n.name \in Names(ns), n.links = <<>>,
           n.singleton = Get(ns, n.name).singleton, n.fields = Get(ns, n.name).fields
    PROVE  /\ NodesMade(Put(ns, n)) /\ Grows(ns, Put(ns, n)) /\ DOMAIN Put(ns, n) = DOMAIN ns
           /\ Get(Put(ns, n), n.name) = n
<1> DEFINE t == [i \in DOMAIN ns |-> IF ns[i].name = n.name THEN n ELSE ns[i]]
<1>0. ns \in Seq(ToSet(ns)) /\ DistinctNames(ns) /\ \A m \in ToSet(ns) : NodeMade(m)
  BY DEF NodesMade
<1>1. DOMAIN ns = 1 .. Len(ns) /\ Len(ns) \in Nat /\ \A i \in 1 .. Len(ns) : ns[i] \in ToSet(ns)
  BY <1>0 DEF ToSet
<1>2. Put(ns, n) = t
  BY DEF Put
<1>3. DOMAIN t = DOMAIN ns /\ \A i \in DOMAIN ns : t[i] = IF ns[i].name = n.name THEN n ELSE ns[i]
  OBVIOUS
<1>4. t \in Seq(ToSet(ns) \cup {n})
  <2>1. \A i \in 1 .. Len(ns) : (IF ns[i].name = n.name THEN n ELSE ns[i]) \in ToSet(ns) \cup {n}
    BY <1>1
  <2>2. [i \in 1 .. Len(ns) |-> IF ns[i].name = n.name THEN n ELSE ns[i]] \in Seq(ToSet(ns) \cup {n})
    BY <1>1, <2>1, IsASeq
  <2>3. QED
    BY <1>1, <2>2
<1> HIDE DEF t
<1>5. t \in Seq(ToSet(t))
  BY <1>4, SeqOfItsElements
<1>6. \A i \in DOMAIN ns : t[i].name = ns[i].name
  BY <1>3
<1>7. DistinctNames(t)
  BY <1>0, <1>3, <1>6 DEF DistinctNames
<1>8. \A m \in ToSet(t) : NodeMade(m)
  BY <1>0, <1>1, <1>3 DEF ToSet
<1>9. Grows(ns, t)
  <2>1. ASSUME NEW i \in DOMAIN ns
        PROVE  /\ t[i].singleton = ns[i].singleton /\ t[i].fields = ns[i].fields
               /\ ns[i].links = <<>> => t[i].links = <<>>
    <3>1. CASE ns[i].name = n.name
      <4>1. Get(ns, n.name) = ns[i] /\ t[i] = n
        BY <1>0, <1>3, <3>1, GetNamed
      <4>2. QED
        BY <4>1
    <3>2. CASE ns[i].name # n.name
      BY <1>3, <3>2
    <3>3. QED
      BY <3>1, <3>2
  <2>2. QED
    BY <1>3, <1>6, <2>1 DEF Grows
<1>10. Get(t, n.name) = n
  <2>1. PICK i \in DOMAIN ns : ns[i].name = n.name
    BY DEF Names
  <2>2. t[i] = n /\ i \in DOMAIN t
    BY <1>3, <2>1
  <2>3. QED
    BY <1>7, <2>2, GetNamed
<1>11. QED
  BY <1>2, <1>3, <1>5, <1>7, <1>8, <1>9, <1>10 DEF NodesMade

ChildAcc(a) == a = [err |-> a.err, nodes |-> a.nodes, counts |-> a.counts] /\ a.err \in Errors

CountsMade(m) == \A x \in DOMAIN m : m[x] \in Nat

\* What a child f does to what was made of the children before it.
StepResult(a, f, b) ==
    /\ ChildAcc(b)
    /\ b.err = Null =>
        /\ NodesMade(b.nodes) /\ CountsMade(b.counts)
        /\ Grows(a.nodes, b.nodes) /\ DOMAIN a.counts \subseteq DOMAIN b.counts
        /\ f.name \in Names(b.nodes) /\ ChildFits(f, Get(b.nodes, f.name))
        /\ k = 1 => Names(b.nodes) = Names(a.nodes) \cup {f.name}
        /\ k # 1 => DOMAIN b.nodes = DOMAIN a.nodes
        /\ f.type = "directory" => f.name \in DOMAIN b.counts /\ Get(b.nodes, f.name).links = <<>>

\* An error keeps the rest.
LEMMA ErrorResult ==
    ASSUME NEW a, ChildAcc(a), NEW f, NEW e \in Errors, e # Null
    PROVE  StepResult(a, f, Err(a, e))
<1>1. Err(a, e) = [err |-> e, nodes |-> a.nodes, counts |-> a.counts]
  BY DEF Err, ChildAcc
<1>2. QED
  BY <1>1 DEF StepResult, ChildAcc

\* Tensors and categories.
LEMMA SingletonStepParts ==
    ASSUME TreeOK, NEW a, ChildAcc(a), a.err = Null, NodesMade(a.nodes), CountsMade(a.counts),
           NEW f, FileRead(f), f.type \in {"tensor", "category"},
           k = 1 => f.name \notin Names(a.nodes)
    PROVE  StepResult(a, f, SingletonStep(a, f))
<1> DEFINE shape == IF f.type = "tensor" THEN TensorShape(f) ELSE <<>>
           field == FieldOf(f, "field", shape)
           node == Node(f.name, TRUE, <<field>>)
           n == Get(a.nodes, f.name)
<1>0. SingletonStep(a, f) =
        IF field = Null THEN Err(a, "DatasetException")
        ELSE IF k = 1
        THEN IF FieldOK(field) THEN [a EXCEPT !.nodes = Append(@, node)] ELSE Err(a, "SchemaException")
        ELSE IF f.name \notin Names(a.nodes) THEN Err(a, "TypeError")
        ELSE IF ~n.singleton \/ n.fields[1] # field THEN Err(a, "DatasetException") ELSE a
  BY DEF SingletonStep
<1>1. shape \in Seq(Nat)
  BY TensorShapeParts
<1>2. ASSUME field # Null, FieldOK(field) PROVE FileFits(f, field, shape)
  <2> HIDE DEF shape
  <2>1. QED
    BY <1>1, <1>2, FieldOfFits
<1>3. ASSUME NEW m, field # Null, FieldOK(field), m.singleton, m.fields[1] = field
      PROVE  ChildFits(f, m)
  BY <1>2, <1>3 DEF ChildFits
<1>e. {"DatasetException", "SchemaException", "TypeError"} \subseteq Errors \ {Null}
  BY ErrorsDiffer DEF Errors
<1>4. CASE \E e \in {"DatasetException", "SchemaException", "TypeError"} : SingletonStep(a, f) = Err(a, e)
  BY <1>4, <1>e, ErrorResult
<1>5. CASE field # Null /\ k = 1 /\ FieldOK(field)
  <2>1. SingletonStep(a, f) = [a EXCEPT !.nodes = Append(@, node)]
    BY <1>0, <1>5
  <2> DEFINE b == [err |-> Null, nodes |-> Append(a.nodes, node), counts |-> a.counts]
  <2>e. ASSUME NEW y PROVE [a EXCEPT !.nodes = y] = [err |-> Null, nodes |-> y, counts |-> a.counts]
    BY DEF ChildAcc
  <2>2. [a EXCEPT !.nodes = Append(@, node)] = b
    BY <2>e
  <2>3. /\ node = [name |-> f.name, singleton |-> TRUE, fields |-> <<field>>, links |-> <<>>,
                   srcName |-> Null]
    BY DEF Node
  <2> HIDE DEF node, field
  <2>4. <<field>> \in Seq({field}) /\ DOMAIN <<field>> = {1} /\ <<field>>[1] = field /\ <<field>> # <<>>
    <3>1. 1 .. 1 = {1}
      OBVIOUS
    <3>2. QED
      BY <3>1
  <2>5. FieldsMade(<<field>>)
    BY <1>5, <2>4, SeqOfItsElements DEF FieldsMade, ToSet, DistinctNames
  <2>6. NodeMade(node) /\ node.name = f.name /\ node.singleton /\ node.fields[1] = field
    BY <2>3, <2>4, <2>5 DEF NodeMade
  <2>7. /\ NodesMade(b.nodes) /\ Grows(a.nodes, b.nodes)
        /\ Names(b.nodes) = Names(a.nodes) \cup {f.name} /\ Get(b.nodes, f.name) = node
    BY <1>5, <2>6, NodeAdded
  <2>8. ChildFits(f, node)
    BY <1>3, <1>5, <2>6
  <2>9. ChildAcc(b) /\ b.counts = a.counts
    BY DEF ChildAcc, Errors
  <2> HIDE DEF b
  <2>10. StepResult(a, f, b)
    BY <1>5, <2>7, <2>8, <2>9 DEF StepResult
  <2>11. QED
    BY <2>1, <2>2, <2>10
<1>6. CASE field # Null /\ k # 1 /\ f.name \in Names(a.nodes) /\ n.singleton /\ n.fields[1] = field
  <2>1. SingletonStep(a, f) = a
    BY <1>0, <1>6
  <2>2. n \in ToSet(a.nodes)
    BY <1>6, GetFrom
  <2>3. FieldsMade(n.fields) /\ n.fields # <<>>
    BY <2>2 DEF NodesMade, NodeMade
  <2> HIDE DEF n
  <2>4. 1 \in DOMAIN n.fields
    BY <2>3 DEF FieldsMade
  <2>5. FieldOK(field)
    BY <1>6, <2>3, <2>4 DEF FieldsMade, ToSet
  <2>6. ChildFits(f, n)
    BY <1>3, <1>6, <2>5
  <2>7. Grows(a.nodes, a.nodes)
    BY DEF Grows
  <2>8. StepResult(a, f, a)
    BY <1>6, <2>6, <2>7 DEF StepResult, n
  <2>9. QED
    BY <2>1, <2>8
<1> HIDE DEF field, n, node
<1>7. QED
  BY <1>0, <1>4, <1>5, <1>6

\* Directories.
LEMMA DirectoryStepParts ==
    ASSUME TreeOK, NEW a, ChildAcc(a), a.err = Null, NodesMade(a.nodes), CountsMade(a.counts),
           NEW f, FileRead(f), f.type = "directory",
           \A g \in ToSet(LoadDirectory(f.files)) : FileRead(g),
           k = 1 => f.name \notin Names(a.nodes)
    PROVE  StepResult(a, f, DirectoryStep(a, f))
<1> DEFINE c == LoadDirectory(f.files)
           Read(fields) == Sequentially(FieldStep, [err |-> Null, fields |-> fields, count |-> 0], c)
           Made(r) ==
               IF r.err # Null THEN Err(a, r.err)
               ELSE IF r.fields = <<>> THEN Err(a, "SchemaException")
               ELSE [err |-> Null, nodes |-> Put(a.nodes, Node(f.name, FALSE, r.fields)),
                     counts |-> SetCount(a.counts, f.name, r.count)]
           n == Get(a.nodes, f.name)
<1>0. DirectoryStep(a, f) =
        IF k = 1 THEN Made(Read(<<>>))
        ELSE IF f.name \notin Names(a.nodes) THEN Err(a, "TypeError")
        ELSE IF n.singleton \/ Differ(Names(n.fields), Names(c)) THEN Err(a, "DatasetException")
        ELSE Made(Read(n.fields))
  BY DEF DirectoryStep
<1>1. c \in Seq(ToSet(c)) /\ DistinctNames(c)
  BY LoadedParts DEF FileRead
<1>e. {"DatasetException", "SchemaException", "TypeError"} \subseteq Errors \ {Null}
  BY ErrorsDiffer DEF Errors
<1>2. ASSUME NEW fields, FieldsMade(fields), k = 1 => fields = <<>>,
             k # 1 => /\ f.name \in Names(a.nodes) /\ ~n.singleton /\ fields = n.fields
                      /\ ~Differ(Names(fields), Names(c))
      PROVE  StepResult(a, f, Made(Read(fields)))
  <2> DEFINE r == Read(fields)
  <2>1. /\ r.err \in Errors
        /\ r.err = Null =>
              /\ r.count \in Nat /\ FieldsMade(r.fields)
              /\ k # 1 => r.fields = fields
              /\ Names(c) \subseteq Names(r.fields) /\ (k = 1 => Names(r.fields) = Names(c))
              /\ \A g \in ToSet(c) : FileFits(g, Get(r.fields, g.name), FieldShape(g))
    <3> HIDE DEF c
    <3>1. \A g \in ToSet(c) : FileRead(g)
      BY DEF c
    <3>2. QED
      BY <1>1, <1>2, <3>1, FieldsRead
  <2> HIDE DEF Read, r
  <2>2. SUFFICES StepResult(a, f, Made(r))
    BY DEF r
  <2>3. CASE r.err # Null
    <3>1. Made(r) = Err(a, r.err)
      BY <2>3
    <3>2. QED
      BY <2>1, <2>3, <3>1, ErrorResult
  <2>4. CASE r.err = Null /\ r.fields = <<>>
    <3>1. Made(r) = Err(a, "SchemaException")
      BY <2>4
    <3>2. QED
      BY <1>e, <3>1, ErrorResult
  <2>5. CASE r.err = Null /\ r.fields # <<>>
    <3> DEFINE node == Node(f.name, FALSE, r.fields)
               b == [err |-> Null, nodes |-> Put(a.nodes, node),
                     counts |-> SetCount(a.counts, f.name, r.count)]
    <3>1. Made(r) = b
      BY <2>5
    <3>2. node = [name |-> f.name, singleton |-> FALSE, fields |-> r.fields, links |-> <<>>,
                  srcName |-> Null]
      BY DEF Node
    <3> HIDE DEF node
    <3>3. /\ NodeMade(node) /\ node.name = f.name /\ ~node.singleton /\ node.fields = r.fields
          /\ node.links = <<>> /\ node.singleton \in BOOLEAN
      BY <2>1, <2>5, <3>2 DEF NodeMade
    <3>4. Names(c) = Names(r.fields)
      BY <1>2, <2>1, <2>5 DEF Differ
    <3>5. ChildFits(f, node)
      BY <2>1, <2>5, <3>3, <3>4 DEF ChildFits, FieldShape
    <3>6. /\ DOMAIN SetCount(a.counts, f.name, r.count) = {f.name} \cup DOMAIN a.counts
          /\ CountsMade(SetCount(a.counts, f.name, r.count))
      BY <2>1, <2>5 DEF CountsMade, SetCount
    <3>7. CASE k = 1
      <4>1. Put(a.nodes, node) = Append(a.nodes, node)
        BY <3>3, <3>7 DEF Put
      <4>2. /\ NodesMade(b.nodes) /\ Grows(a.nodes, b.nodes)
            /\ Names(b.nodes) = Names(a.nodes) \cup {f.name} /\ Get(b.nodes, f.name) = node
        BY <3>3, <3>7, <4>1, NodeAdded
      <4>3. ChildAcc(b) /\ b.counts = SetCount(a.counts, f.name, r.count)
        BY DEF ChildAcc, Errors
      <4> HIDE DEF b
      <4>4. StepResult(a, f, b)
        BY <3>3, <3>5, <3>6, <3>7, <4>2, <4>3 DEF StepResult
      <4>5. QED
        BY <3>1, <4>4
    <3>8. CASE k # 1
      <4>1. n.singleton = FALSE /\ n.fields = r.fields /\ f.name \in Names(a.nodes)
        <5>1. n \in ToSet(a.nodes)
          BY <1>2, <3>8, GetFrom
        <5>2. n.singleton \in BOOLEAN
          BY <5>1 DEF NodesMade, NodeMade
        <5>3. QED
          BY <1>2, <2>1, <2>5, <3>8, <5>2
      <4>2. node.singleton = FALSE
        BY <3>3
      <4>3. /\ NodesMade(b.nodes) /\ Grows(a.nodes, b.nodes) /\ DOMAIN b.nodes = DOMAIN a.nodes
            /\ Get(b.nodes, f.name) = node
        BY <3>3, <4>1, <4>2, NodeReplaced
      <4>4. ChildAcc(b) /\ b.counts = SetCount(a.counts, f.name, r.count)
        BY DEF ChildAcc, Errors
      <4> HIDE DEF b
      <4>5. f.name \in Names(b.nodes)
        BY <4>1, <4>3, GrowsGet DEF NodesMade
      <4>6. StepResult(a, f, b)
        BY <3>3, <3>5, <3>6, <3>8, <4>3, <4>4, <4>5 DEF StepResult
      <4>7. QED
        BY <3>1, <4>6
    <3>9. QED
      BY <3>7, <3>8
  <2>6. QED
    BY <2>3, <2>4, <2>5
<1> HIDE DEF Made, Read, c
<1>3. CASE k = 1
  <2>1. <<>> \in Seq({}) /\ DOMAIN <<>> = {}
    OBVIOUS
  <2>2. FieldsMade(<<>>)
    BY <2>1 DEF FieldsMade, DistinctNames, ToSet
  <2>3. QED
    BY <1>0, <1>2, <1>3, <2>2
<1>4. CASE k # 1 /\ f.name \in Names(a.nodes) /\ ~(n.singleton \/ Differ(Names(n.fields), Names(c)))
  <2>1. n \in ToSet(a.nodes)
    BY <1>4, GetFrom
  <2>2. FieldsMade(n.fields)
    BY <2>1 DEF NodesMade, NodeMade
  <2> HIDE DEF n
  <2>3. QED
    BY <1>0, <1>2, <1>4, <2>2
<1>5. CASE k # 1 /\ ~(f.name \in Names(a.nodes) /\ ~(n.singleton \/ Differ(Names(n.fields), Names(c))))
  <2> HIDE DEF n
  <2>1. DirectoryStep(a, f) \in {Err(a, "TypeError"), Err(a, "DatasetException")}
    BY <1>0, <1>5
  <2>2. QED
    BY <1>e, <2>1, ErrorResult
<1>6. QED
  BY <1>3, <1>4, <1>5

\* A child of a sample, of any kind.
LEMMA ChildStepParts ==
    ASSUME TreeOK, NEW a, ChildAcc(a), a.err = Null, NodesMade(a.nodes), CountsMade(a.counts),
           NEW f, FileRead(f), f.type \in {"tensor", "category", "directory"},
           f.type = "directory" => \A g \in ToSet(LoadDirectory(f.files)) : FileRead(g),
           k = 1 => f.name \notin Names(a.nodes)
    PROVE  StepResult(a, f, ChildStep(a, f))
BY SingletonStepParts, DirectoryStepParts DEF ChildStep

\* What is known of the nodes after the first n children c.
ChildrenUpTo(c, ns, a, n) ==
    /\ ChildAcc(a)
    /\ a.err = Null =>
        /\ NodesMade(a.nodes) /\ CountsMade(a.counts)
        /\ \A j \in 1 .. n : c[j].name \in Names(a.nodes) /\ ChildFits(c[j], Get(a.nodes, c[j].name))
        /\ \A j \in 1 .. n : c[j].type = "directory" =>
                c[j].name \in DOMAIN a.counts /\ Get(a.nodes, c[j].name).links = <<>>
        /\ k = 1 => Names(a.nodes) = {c[j].name : j \in 1 .. n}
        /\ k # 1 => Grows(ns, a.nodes) /\ DOMAIN a.nodes = DOMAIN ns

\* Growing twice.
LEMMA GrowsOn ==
    ASSUME NEW a, NEW b, NEW c, Grows(a, b), Grows(b, c) PROVE Grows(a, c)
BY DEF Grows

\* Children of a sample that can be read.
ChildrenRead(c) ==
    \A f \in ToSet(c) :
        /\ FileRead(f)
        /\ f.type = "directory" => \A g \in ToSet(LoadDirectory(f.files)) : FileRead(g)

\* The nodes after all children.
LEMMA ChildrenFolded ==
    ASSUME TreeOK, NEW c, c \in Seq(ToSet(c)), DistinctNames(c), ChildrenRead(c),
           \A f \in ToSet(c) : f.type \in {"tensor", "category", "directory"},
           NEW ns, NodesMade(ns), k = 1 => ns = <<>>
    PROVE  ChildrenUpTo(c, ns,
               Sequentially(ChildStep, [err |-> Null, nodes |-> ns, counts |-> EmptyMap], c), Len(c))
<1> DEFINE a0 == [err |-> Null, nodes |-> ns, counts |-> EmptyMap]
<1>0. Len(c) \in Nat /\ DOMAIN c = 1 .. Len(c) /\ \A n \in 1 .. Len(c) : c[n] \in ToSet(c)
  BY DEF ToSet
<1>1. PICK U : /\ \A n \in 0 .. Len(c) : U[n] = ChildFold(a0, c, U, n)
               /\ Sequentially(ChildStep, a0, c) = U[Len(c)]
  BY <1>0, ChildFolds
<1> DEFINE T == {n \in Nat : n <= Len(c) => ChildrenUpTo(c, ns, U[n], n)}
<1>2. 0 \in T
  <2>1. U[0] = a0
    <3> HIDE DEF a0
    <3>1. U[0] = ChildFold(a0, c, U, 0)
      BY <1>0, <1>1
    <3>2. ChildFold(a0, c, U, 0) = a0
      BY DEF ChildFold
    <3>3. QED
      BY <3>1, <3>2
  <2>2. ChildAcc(a0) /\ a0.nodes = ns /\ a0.counts = EmptyMap
    BY DEF ChildAcc, Errors
  <2>3. CountsMade(EmptyMap)
    BY DEF CountsMade, EmptyMap
  <2>4. Grows(ns, ns)
    BY DEF Grows
  <2>5. k = 1 => Names(ns) = {}
    BY DEF Names
  <2> HIDE DEF a0
  <2>6. ChildrenUpTo(c, ns, a0, 0)
    BY <2>2, <2>3, <2>4, <2>5 DEF ChildrenUpTo
  <2>7. QED
    BY <2>1, <2>6
<1> HIDE DEF a0
<1>3. ASSUME NEW n \in Nat, n \in T PROVE n + 1 \in T
  <2>0. SUFFICES ASSUME n + 1 <= Len(c) PROVE ChildrenUpTo(c, ns, U[n + 1], n + 1)
    OBVIOUS
  <2>1. ChildrenUpTo(c, ns, U[n], n) /\ n + 1 \in 1 .. Len(c) /\ n + 1 \in 0 .. Len(c)
    BY <1>0, <1>3, <2>0
  <2>2. U[n + 1] = IF U[n].err = Null THEN ChildStep(U[n], c[n + 1]) ELSE U[n]
    <3>1. n + 1 # 0 /\ (n + 1) - 1 = n
      OBVIOUS
    <3>2. QED
      BY <1>1, <2>1, <3>1 DEF ChildFold
  <2>3. CASE U[n].err # Null
    BY <2>1, <2>2, <2>3 DEF ChildrenUpTo
  <2>4. CASE U[n].err = Null
    <3> DEFINE a == U[n]
               f == c[n + 1]
               b == ChildStep(a, f)
    <3>0. ChildrenUpTo(c, ns, a, n) /\ U[n + 1] = b /\ a.err = Null
      BY <2>1, <2>2, <2>4
    <3>f. f \in ToSet(c)
      BY <1>0, <2>1
    <3>d. \A j \in 1 .. n : c[j].name # f.name
      <4>1. \A j \in 1 .. n : j \in DOMAIN c /\ j # n + 1
        BY <1>0, <2>0
      <4>2. QED
        BY <1>0, <2>1, <4>1 DEF DistinctNames
    <3>n. \A j \in 1 .. n + 1 : j \in 1 .. n \/ c[j] = f
      OBVIOUS
    <3>s. {c[j].name : j \in 1 .. n + 1} = {c[j].name : j \in 1 .. n} \cup {f.name}
      <4>1. n + 1 \in 1 .. n + 1 /\ \A j \in 1 .. n : j \in 1 .. n + 1
        OBVIOUS
      <4>2. QED
        BY <3>n, <4>1
    <3> HIDE DEF a, f, b
    <3>1. ChildAcc(a) /\ NodesMade(a.nodes) /\ CountsMade(a.counts)
      BY <3>0 DEF ChildrenUpTo
    <3>2. k = 1 => f.name \notin Names(a.nodes)
      BY <3>0, <3>d DEF ChildrenUpTo
    <3>3. StepResult(a, f, b)
      BY <3>0, <3>1, <3>2, <3>f, ChildStepParts DEF ChildrenRead, b
    <3>4. SUFFICES ASSUME b.err = Null PROVE ChildrenUpTo(c, ns, b, n + 1)
      BY <3>0, <3>3 DEF StepResult, ChildrenUpTo
    <3>5. /\ ChildAcc(b) /\ NodesMade(b.nodes) /\ CountsMade(b.counts)
          /\ Grows(a.nodes, b.nodes) /\ DOMAIN a.counts \subseteq DOMAIN b.counts
          /\ f.name \in Names(b.nodes) /\ ChildFits(f, Get(b.nodes, f.name))
          /\ k = 1 => Names(b.nodes) = Names(a.nodes) \cup {f.name}
          /\ k # 1 => DOMAIN b.nodes = DOMAIN a.nodes
          /\ f.type = "directory" => f.name \in DOMAIN b.counts /\ Get(b.nodes, f.name).links = <<>>
      BY <3>3, <3>4 DEF StepResult
    <3>6. ASSUME NEW j \in 1 .. n
          PROVE  /\ c[j].name \in Names(b.nodes) /\ ChildFits(c[j], Get(b.nodes, c[j].name))
                 /\ c[j].type = "directory" =>
                       c[j].name \in DOMAIN b.counts /\ Get(b.nodes, c[j].name).links = <<>>
      <4>1. /\ c[j].name \in Names(a.nodes) /\ ChildFits(c[j], Get(a.nodes, c[j].name))
            /\ c[j].type = "directory" =>
                  c[j].name \in DOMAIN a.counts /\ Get(a.nodes, c[j].name).links = <<>>
        BY <3>0 DEF ChildrenUpTo
      <4>2. /\ c[j].name \in Names(b.nodes)
            /\ Get(b.nodes, c[j].name).singleton = Get(a.nodes, c[j].name).singleton
            /\ Get(b.nodes, c[j].name).fields = Get(a.nodes, c[j].name).fields
            /\ Get(a.nodes, c[j].name).links = <<>> => Get(b.nodes, c[j].name).links = <<>>
        BY <3>1, <3>5, <4>1, GrowsGet DEF NodesMade
      <4>3. ChildFits(c[j], Get(b.nodes, c[j].name))
        BY <4>1, <4>2, FitsAgain
      <4>4. QED
        BY <3>5, <4>1, <4>2, <4>3
    <3>7. k # 1 => Grows(ns, b.nodes) /\ DOMAIN b.nodes = DOMAIN ns
      BY <3>0, <3>5, GrowsOn DEF ChildrenUpTo
    <3>8. k = 1 => Names(b.nodes) = {c[j].name : j \in 1 .. n + 1}
      BY <3>0, <3>5, <3>s DEF ChildrenUpTo
    <3>9. \A j \in 1 .. n + 1 :
              /\ c[j].name \in Names(b.nodes) /\ ChildFits(c[j], Get(b.nodes, c[j].name))
              /\ c[j].type = "directory" =>
                    c[j].name \in DOMAIN b.counts /\ Get(b.nodes, c[j].name).links = <<>>
      BY <3>5, <3>6, <3>n
    <3>10. QED
      BY <3>5, <3>7, <3>8, <3>9 DEF ChildrenUpTo
  <2>5. QED
    BY <2>3, <2>4
<1>4. Len(c) \in T
  <2> HIDE DEF T
  <2>1. QED
    BY <1>0, <1>2, <1>3, SetInduction
<1>5. QED
  BY <1>0, <1>1, <1>4 DEF a0

\* Two sequences one after the other.
LEMMA JoinedParts ==
    ASSUME NEW S, NEW a \in Seq(S), NEW b \in Seq(S)
    PROVE  /\ a \o b \in Seq(S) /\ ToSet(a \o b) = ToSet(a) \cup ToSet(b)
           /\ DistinctNames(a) /\ DistinctNames(b) /\ (\A f \in ToSet(a), g \in ToSet(b) : f.name # g.name)
                => DistinctNames(a \o b)
<1> DEFINE t == a \o b
           Shift(i) == i - Len(a)
<1>1. /\ t \in Seq(S) /\ DOMAIN t = 1 .. Len(a) + Len(b)
      /\ \A i \in 1 .. Len(a) + Len(b) : t[i] = IF i <= Len(a) THEN a[i] ELSE b[i - Len(a)]
  BY ConcatParts
<1>2. /\ Len(a) \in Nat /\ Len(b) \in Nat /\ DOMAIN a = 1 .. Len(a) /\ DOMAIN b = 1 .. Len(b)
  OBVIOUS
<1> HIDE DEF t
<1>3. ASSUME NEW i \in DOMAIN t
      PROVE  \/ i \in DOMAIN a /\ t[i] = a[i] /\ t[i] \in ToSet(a)
             \/ Shift(i) \in DOMAIN b /\ t[i] = b[Shift(i)] /\ t[i] \in ToSet(b)
  <2>1. CASE i <= Len(a)
    <3>1. i \in DOMAIN a /\ t[i] = a[i]
      BY <1>1, <1>2, <2>1
    <3>2. QED
      BY <3>1 DEF ToSet
  <2>2. CASE ~(i <= Len(a))
    <3>1. Shift(i) \in DOMAIN b /\ t[i] = b[Shift(i)]
      BY <1>1, <1>2, <2>2
    <3>2. QED
      BY <3>1 DEF ToSet
  <2>3. QED
    BY <2>1, <2>2
<1>4. \A i \in DOMAIN a : i \in DOMAIN t /\ t[i] = a[i]
  BY <1>1, <1>2
<1>5. ASSUME NEW i \in DOMAIN b PROVE i + Len(a) \in DOMAIN t /\ t[i + Len(a)] = b[i]
  <2>1. i + Len(a) \in 1 .. Len(a) + Len(b) /\ ~(i + Len(a) <= Len(a)) /\ (i + Len(a)) - Len(a) = i
    BY <1>2
  <2>2. QED
    BY <1>1, <2>1
<1>6. ToSet(t) = ToSet(a) \cup ToSet(b)
  <2>1. ToSet(t) \subseteq ToSet(a) \cup ToSet(b)
    BY <1>3 DEF ToSet
  <2>2. ToSet(a) \subseteq ToSet(t) /\ ToSet(b) \subseteq ToSet(t)
    BY <1>4, <1>5 DEF ToSet
  <2>3. QED
    BY <2>1, <2>2
<1>7. ASSUME DistinctNames(a), DistinctNames(b), \A f \in ToSet(a), g \in ToSet(b) : f.name # g.name
      PROVE  DistinctNames(t)
  <2>1. SUFFICES ASSUME NEW i \in DOMAIN t, NEW j \in DOMAIN t, t[i].name = t[j].name PROVE i = j
    BY DEF DistinctNames
  <2>2. \/ i \in DOMAIN a /\ t[i] = a[i] /\ t[i] \in ToSet(a)
        \/ Shift(i) \in DOMAIN b /\ t[i] = b[Shift(i)] /\ t[i] \in ToSet(b)
    BY <1>3
  <2>3. \/ j \in DOMAIN a /\ t[j] = a[j] /\ t[j] \in ToSet(a)
        \/ Shift(j) \in DOMAIN b /\ t[j] = b[Shift(j)] /\ t[j] \in ToSet(b)
    BY <1>3
  <2>4. Shift(i) = Shift(j) => i = j
    BY <1>1, <1>2
  <2> HIDE DEF Shift
  <2>5. i = j \/ Shift(i) = Shift(j)
    BY <1>7, <2>1, <2>2, <2>3 DEF DistinctNames
  <2>6. QED
    BY <2>4, <2>5
<1>8. QED
  BY <1>1, <1>6, <1>7 DEF t

\* The children of a sample in the order in which they are handled.
LEMMA InOrderParts ==
    ASSUME NEW s, s \in Seq(ToSet(s)), DistinctNames(s)
    PROVE  /\ InOrder(s) \in Seq(ToSet(InOrder(s))) /\ DistinctNames(InOrder(s))
           /\ ToSet(InOrder(s)) = {f \in ToSet(s) : f.type \in {"tensor", "category", "directory"}}
<1> DEFINE a == OfKind(s, "tensor")
           b == OfKind(s, "category")
           c == OfKind(s, "directory")
           ab == a \o b
           abc == ab \o c
           S == ToSet(s)
<1>1. /\ a \in Seq(S) /\ ToSet(a) = {f \in S : f.type = "tensor"} /\ DistinctNames(a)
      /\ b \in Seq(S) /\ ToSet(b) = {f \in S : f.type = "category"} /\ DistinctNames(b)
      /\ c \in Seq(S) /\ ToSet(c) = {f \in S : f.type = "directory"} /\ DistinctNames(c)
  BY OfKindParts
<1>2. \A f, g \in S : f.name = g.name => f = g
  BY DEF DistinctNames, ToSet
<1>3. InOrder(s) = abc
  BY DEF InOrder
<1> HIDE DEF a, b, c, S
<1>4. /\ ab \in Seq(S) /\ ToSet(ab) = {f \in S : f.type \in {"tensor", "category"}} /\ DistinctNames(ab)
  <2>1. \A f \in ToSet(a), g \in ToSet(b) : f.name # g.name
    BY <1>1, <1>2
  <2>2. ToSet(ab) = ToSet(a) \cup ToSet(b) /\ DistinctNames(ab) /\ ab \in Seq(S)
    BY <1>1, <2>1, JoinedParts
  <2>3. QED
    BY <1>1, <2>2
<1> HIDE DEF ab
<1>5. /\ abc \in Seq(S) /\ DistinctNames(abc)
      /\ ToSet(abc) = {f \in S : f.type \in {"tensor", "category", "directory"}}
  <2>1. \A f \in ToSet(ab), g \in ToSet(c) : f.name # g.name
    BY <1>1, <1>2, <1>4
  <2>2. ToSet(abc) = ToSet(ab) \cup ToSet(c) /\ DistinctNames(abc) /\ abc \in Seq(S)
    BY <1>1, <1>4, <2>1, JoinedParts
  <2>3. QED
    BY <1>1, <1>4, <2>2
<1> HIDE DEF abc
<1>6. abc \in Seq(ToSet(abc))
  BY <1>5, SeqOfItsElements
<1>7. QED
  BY <1>3, <1>5, <1>6 DEF S

------------------------------------------------------------------------------
(***************************************************************************)
(* The call.  Samples are handled one after the other, and isCyclic is     *)
(* called for the links of one of them at a time: its steps are those of   *)
(* CycleSpec, and its verdict is used before the next call.                *)
(***************************************************************************)

\* A sample is handled, or all were.
Busy == phase \in {"sample", "nodes", "links", "cyclic"} \/ outcome = "ok"

\* What is known in each phase of the call.
CallTypes ==
    /\ k \in Nat \ {0}
    /\ schCyclic \in BOOLEAN /\ schFanin \in BOOLEAN /\ schUndirected \in BOOLEAN
    /\ phase \in {"generate", "read", "root", "sample", "nodes", "links", "cyclic", "done"}

CallTree ==
    /\ phase # "done" => outcome = Null
    /\ phase = "read" => dataset \in Datasets
    /\ phase = "root" \/ Busy => TreeOK

CallStart ==
    phase \in {"generate", "read", "root"} =>
        /\ k = 1 /\ schNodes = <<>>
        /\ schCyclic = FALSE /\ schFanin = FALSE /\ schUndirected = TRUE

CallPlace ==
    /\ phase \in {"nodes", "links", "cyclic"} => k <= Len(Samples)
    /\ Busy => k <= Len(Samples) + 1
    /\ outcome = "ok" => phase = "done" /\ k > Len(Samples)

CallSearch ==
    /\ running => phase = "cyclic"
    /\ phase = "cyclic" => /\ links = LinksOf(k) /\ schCyclic = FALSE /\ undirected = schUndirected
                           /\ running \/ verdict # "none"

CallInv == ExploreInv /\ CallTypes /\ CallTree /\ CallStart /\ CallPlace /\ CallSearch

\* A step of the search neither changes the question nor forgets the answer.
LEMMA SearchKeeps ==
    ASSUME SearchStep
    PROVE  /\ running /\ links' = links /\ undirected' = undirected
           /\ running' = running \/ verdict' # "none"
<1>1. CASE Exhausted
  BY <1>1 DEF Exhausted, Return
<1>2. CASE Visit
  BY <1>2 DEF Visit, Return, Directed
<1>3. CASE Leave
  BY <1>3 DEF Leave, Directed
<1>4. CASE VisitPair
  BY <1>4 DEF VisitPair, Return, Undirected
<1>5. CASE \E x \in Instances : Root(x) \/ Push(x) \/ RootPairs(x)
  BY <1>5 DEF Root, Push, RootPairs, Directed, Undirected
<1>6. CASE \E p \in Instances \X Instances : PushPair(p)
  BY <1>6 DEF PushPair, Undirected
<1>7. QED
  BY <1>1, <1>2, <1>3, <1>4, <1>5, <1>6 DEF SearchStep

\* The links that a sample with one links file has.
LEMMA LinksNow ==
    ASSUME CallInv, phase = "links", OfKind(Sample, "links") # <<>>,
           ~(Len(OfKind(Sample, "links")) > 1)
    PROVE  /\ k \in DOMAIN Samples /\ HasLinks(k) /\ Sample = Children(k)
           /\ OfKind(Sample, "links")[1].links = LinksOf(k)
           /\ LinksOf(k) \in Graphs /\ IsFiniteSet(LinksOf(k))
<1>1. TreeOK /\ k \in Nat \ {0} /\ k <= Len(Samples)
  BY DEF CallInv, CallTypes, CallTree, CallPlace, Busy
<1>2. k \in DOMAIN Samples
  BY <1>1, SampleParts
<1>3. Sample = Children(k) /\ HasLinks(k)
  BY DEF Sample, Children, HasLinks
<1>4. QED
  BY <1>1, <1>2, <1>3, LinksParts

\* What inferSchema does is for isCyclic a step of its own, a call or nothing.
LEMMA InferCycleStep ==
    ASSUME CallInv, [InferNext]_<<inferVars, cycleVars>>
    PROVE  [CycleNext]_cycleVars
<1>1. CASE Search
  BY <1>1 DEF Search, CycleNext
<1>2. CASE SampleLinks
  <2> DEFINE g == OfKind(Sample, "links")[1].links
             u == schUndirected /\ IsUndirected(g)
  <2>1. \/ UNCHANGED cycleVars
        \/ /\ IsCyclic(g, u) /\ phase = "links"
           /\ OfKind(Sample, "links") # <<>> /\ ~(Len(OfKind(Sample, "links")) > 1)
    BY <1>2 DEF SampleLinks, Finish, cycleVars
  <2> HIDE DEF g
  <2>2. ASSUME IsCyclic(g, u), phase = "links", OfKind(Sample, "links") # <<>>,
               ~(Len(OfKind(Sample, "links")) > 1)
        PROVE  CycleNext
    <3>1. g \in Graphs
      BY <2>2, LinksNow DEF g
    <3>2. u \in BOOLEAN /\ (u => IsUndirected(g))
      BY DEF IsUndirected
    <3> HIDE DEF u
    <3>3. QED
      BY <2>2, <3>1, <3>2 DEF CycleNext
  <2>3. QED
    BY <2>1, <2>2
<1>3. CASE ReadDataset \/ SortRoot \/ BeginSample \/ SampleNodes \/ ImplicitLinks \/ CyclicReturned
           \/ BuildSchema
  BY <1>3 DEF ReadDataset, SortRoot, BeginSample, SampleNodes, ImplicitLinks, CyclicReturned, BuildSchema,
              Finish, cycleVars
<1>4. CASE UNCHANGED <<inferVars, cycleVars>>
  BY <1>4
<1>5. QED
  BY <1>1, <1>2, <1>3, <1>4 DEF InferNext

\* Before the call.
LEMMA CallInvInit ==
    StartInit /\ phase \in {"generate", "read"} /\ (phase = "read" => dataset \in Datasets) => CallInv
<1> SUFFICES ASSUME StartInit, phase \in {"generate", "read"}, phase = "read" => dataset \in Datasets
             PROVE  CallInv
  OBVIOUS
<1>1. /\ k = 1 /\ schNodes = <<>> /\ schCyclic = FALSE /\ schFanin = FALSE /\ schUndirected = TRUE
      /\ outcome = Null /\ running = FALSE /\ CycleInit
  BY DEF StartInit, CycleInit
<1>2. ExploreInv
  BY <1>1, ExploreInvInit
<1>3. ~Busy /\ outcome # "ok"
  BY <1>1, ErrorsDiffer DEF Busy
<1>4. CallTypes
  <2>1. schCyclic \in BOOLEAN /\ schFanin \in BOOLEAN /\ schUndirected \in BOOLEAN
    BY <1>1, Zenon
  <2>2. k \in Nat \ {0}
    BY <1>1
  <2>3. QED
    BY <1>1, <2>1, <2>2, Zenon DEF CallTypes
<1>5. CallTree /\ CallPlace
  BY <1>1, <1>3 DEF CallTree, CallPlace
<1>6. CallStart /\ CallSearch
  BY <1>1 DEF CallStart, CallSearch
<1>7. QED
  BY <1>2, <1>4, <1>5, <1>6 DEF CallInv

\* The dataset keeps what was read.
LEMMA SameDataset ==
    ASSUME dataset' = dataset
    PROVE  /\ Samples' = Samples /\ ClassFiles' = ClassFiles
           /\ TreeOK => TreeOK'
           /\ \A i : Children(i)' = Children(i) /\ LinksOf(i)' = LinksOf(i) /\ HasLinks(i)' = HasLinks(i)
           /\ NoClassInSamples' = NoClassInSamples
<1>1. Samples' = Samples /\ ClassFiles' = ClassFiles
  BY DEF Samples, ClassFiles
<1>2. TreeOK => TreeOK'
  BY <1>1 DEF TreeOK
<1>3. \A i : Children(i)' = Children(i)
  BY <1>1 DEF Children
<1>4. \A i : LinksOf(i)' = LinksOf(i) /\ HasLinks(i)' = HasLinks(i)
  BY <1>3 DEF LinksOf, HasLinks
<1>5. NoClassInSamples' = NoClassInSamples
  BY <1>1, <1>3 DEF NoClassInSamples
<1>6. QED
  BY <1>1, <1>2, <1>3, <1>4, <1>5

\* How many samples the nodes of the schema, and its flags, are those of.
Handled == IF phase \in {"links", "cyclic"} THEN k ELSE k - 1
Flagged == IF phase = "cyclic" THEN k ELSE k - 1

\* A sample that the nodes of the schema describe.
Described(i) ==
    /\ Names(NodeFilesOf(Children(i))) = Names(schNodes)
    /\ \A f \in ToSet(NodeFilesOf(Children(i))) : ChildFits(f, Get(schNodes, f.name))

\* The nodes of the schema: every sample that was handled is described by them.
NodesInv ==
    /\ Busy => NodesMade(schNodes)
    /\ phase \in {"sample", "nodes"} /\ k = 1 => schNodes = <<>>
    /\ phase = "nodes" /\ k # 1 => ~Differ(Names(schNodes), Names(NodeFilesOf(Sample)))
    /\ Busy /\ NoClassInSamples => \A i \in 1 .. Handled : Described(i)

\* The nodes of the sample that is handled, one after the other.
LEMMA SampleNodesFolded ==
    ASSUME CallInv, NodesInv, phase = "nodes",
           NEW r, r = Sequentially(ChildStep, [err |-> Null, nodes |-> schNodes, counts |-> EmptyMap],
                                   InOrder(Sample))
    PROVE  /\ ChildrenUpTo(InOrder(Sample), schNodes, r, Len(InOrder(Sample)))
           /\ k \in DOMAIN Samples /\ Sample = Children(k) /\ r.err \in Errors
<1>1. TreeOK /\ k \in Nat \ {0} /\ k <= Len(Samples)
  BY DEF CallInv, CallTypes, CallTree, CallPlace, Busy
<1>2. k \in DOMAIN Samples /\ Sample = Children(k)
  BY <1>1, SampleParts DEF Sample, Children
<1>3. /\ Sample \in Seq(ToSet(Sample)) /\ DistinctNames(Sample) /\ ChildrenRead(Sample)
  BY <1>1, <1>2, ChildrenParts DEF ChildrenRead
<1> DEFINE c == InOrder(Sample)
<1>4. /\ c \in Seq(ToSet(c)) /\ DistinctNames(c)
      /\ ToSet(c) = {f \in ToSet(Sample) : f.type \in {"tensor", "category", "directory"}}
  BY <1>3, InOrderParts
<1>5. r = Sequentially(ChildStep, [err |-> Null, nodes |-> schNodes, counts |-> EmptyMap], c)
  OBVIOUS
<1> HIDE DEF c
<1>6. ChildrenRead(c) /\ \A f \in ToSet(c) : f.type \in {"tensor", "category", "directory"}
  BY <1>3, <1>4 DEF ChildrenRead
<1>7. NodesMade(schNodes) /\ (k = 1 => schNodes = <<>>)
  BY DEF NodesInv, Busy
<1>8. ChildrenUpTo(c, schNodes, r, Len(c))
  BY <1>1, <1>4, <1>5, <1>6, <1>7, ChildrenFolded
<1>9. QED
  BY <1>2, <1>8 DEF c, ChildrenUpTo, ChildAcc

\* The call ends with an error.
LEMMA FinishKeepsCall ==
    ASSUME CallInv, ExploreInv', ~running, NEW how, how # "ok", Finish(how)
    PROVE  CallInv'
<1>1. phase' = "done" /\ outcome' = how /\ UNCHANGED <<k, schCyclic, schFanin, schUndirected, running>>
  BY DEF Finish, cycleVars, searchVars
<1>2. ~Busy'
  BY <1>1 DEF Busy
<1>3. CallTypes'
  BY <1>1, Zenon DEF CallInv, CallTypes
<1>4. CallTree' /\ CallPlace' /\ CallStart'
  BY <1>1, <1>2 DEF CallTree, CallPlace, CallStart
<1>5. CallSearch'
  BY <1>1 DEF CallSearch
<1>6. QED
  BY <1>3, <1>4, <1>5 DEF CallInv

\* The call goes on to another phase, except that of the search, with the same flags.
LEMMA PhaseKeepsCall ==
    ASSUME CallInv, ExploreInv', ~running, phase \notin {"done"}, Busy \/ phase = "root",
           UNCHANGED <<dataset, outcome, running>>, CallTypes',
           phase' \in {"sample", "nodes", "links"},
           k' <= Len(Samples) + 1, phase' # "sample" => k' <= Len(Samples)
    PROVE  CallInv'
<1>0. outcome' = Null /\ outcome' # "ok"
  BY ErrorsDiffer DEF CallInv, CallTree
<1>1. Samples' = Samples /\ TreeOK'
  BY SameDataset DEF CallInv, CallTree
<1>2. CallTree' /\ CallPlace'
  BY <1>0, <1>1 DEF CallTree, CallPlace
<1>3. CallStart' /\ CallSearch'
  BY DEF CallStart, CallSearch
<1>4. QED
  BY <1>2, <1>3 DEF CallInv

\* Every step keeps what is known of the call.
LEMMA CallInvStep ==
    ASSUME CallInv, NodesInv, [InferNext]_<<inferVars, cycleVars>>
    PROVE  CallInv'
<1>0. ExploreInv'
  BY InferCycleStep, ExploreInvStep DEF CallInv
<1>t. CallTypes /\ CallTree /\ CallStart /\ CallPlace /\ CallSearch
  BY DEF CallInv
<1>r. phase # "cyclic" => ~running
  BY <1>t DEF CallSearch
<1>1. CASE ReadDataset
  <2>0. ~running /\ phase = "read"
    BY <1>1, <1>r DEF ReadDataset
  <2>1. CASE Finish("unreadable")
    BY <1>0, <2>0, <2>1, FinishKeepsCall
  <2>2. CASE ~Finish("unreadable")
    <3>1. /\ \A f \in AllFiles(dataset) : Readable(f)
          /\ dataset' = LoadDirectory(dataset) /\ phase' = "root"
          /\ UNCHANGED <<k, schNodes, schCyclic, schFanin, schUndirected, outcome, running>>
      BY <1>1, <2>2 DEF ReadDataset, cycleVars, searchVars
    <3>2. TreeOK'
      BY <1>t, <2>0, <3>1, ReadGivesTree DEF CallTree
    <3>3. outcome' = Null /\ ~Busy'
      BY <1>t, <2>0, <3>1, ErrorsDiffer DEF CallTree, Busy
    <3>4. CallTypes'
      BY <1>t, <3>1, Zenon DEF CallTypes
    <3>5. CallTree'
      BY <3>1, <3>2, <3>3 DEF CallTree
    <3>6. CallPlace' /\ CallSearch'
      BY <2>0, <3>1, <3>3, ErrorsDiffer DEF CallPlace, CallSearch
    <3>7. CallStart'
      BY <1>t, <2>0, <3>1, Zenon DEF CallStart
    <3>8. QED
      BY <1>0, <3>4, <3>5, <3>6, <3>7 DEF CallInv
  <2>3. QED
    BY <2>1, <2>2
<1>2. CASE SortRoot
  <2>0. ~running /\ phase = "root"
    BY <1>2, <1>r DEF SortRoot
  <2>1. ASSUME NEW f, Finish(RootError(f)) PROVE CallInv'
    <3>1. RootError(f) # "ok"
      BY ErrorsDiffer DEF RootError
    <3>2. QED
      BY <1>0, <2>0, <2>1, <3>1, FinishKeepsCall
  <2>2. CASE phase' = "sample" /\ UNCHANGED <<dataset, outcome, running, k, schCyclic, schFanin, schUndirected>>
    <3>1. CallTypes'
      BY <1>t, <2>2, Zenon DEF CallTypes
    <3>2. k = 1 /\ Len(Samples) \in Nat
      BY <1>t, <2>0, SampleParts DEF CallStart, CallTree
    <3>3. k' <= Len(Samples) + 1
      BY <2>2, <3>2
    <3>4. QED
      BY <1>0, <2>0, <2>2, <3>1, <3>3, PhaseKeepsCall
  <2>3. QED
    BY <1>2, <2>1, <2>2 DEF SortRoot, cycleVars, searchVars
<1>3. CASE BeginSample
  <2>0. ~running /\ phase = "sample" /\ k <= Len(Samples)
    BY <1>3, <1>r DEF BeginSample
  <2>1. CASE Finish("DatasetException")
    BY <1>0, <2>0, <2>1, FinishKeepsCall
  <2>2. CASE phase' = "nodes" /\ UNCHANGED <<dataset, outcome, running, k, schCyclic, schFanin, schUndirected>>
    <3>1. CallTypes'
      BY <1>t, <2>2, Zenon DEF CallTypes
    <3>2. k' <= Len(Samples) /\ k' <= Len(Samples) + 1
      BY <1>t, <2>0, <2>2, SampleParts DEF CallTypes, CallTree, Busy
    <3>3. QED
      BY <1>0, <2>0, <2>2, <3>1, <3>2, PhaseKeepsCall DEF Busy
  <2>3. QED
    BY <1>3, <2>1, <2>2 DEF BeginSample, cycleVars, searchVars
<1>4. CASE SampleNodes
  <2>0. ~running /\ phase = "nodes"
    BY <1>4, <1>r DEF SampleNodes
  <2> DEFINE r == Sequentially(ChildStep, [err |-> Null, nodes |-> schNodes, counts |-> EmptyMap],
                               InOrder(Sample))
  <2>1. r.err \in Errors
    BY <2>0, SampleNodesFolded
  <2>2. CASE Finish(r.err)
    <3> HIDE DEF r
    <3>1. r.err # "ok"
      BY <2>1, ErrorsDiffer
    <3>2. QED
      BY <1>0, <2>0, <2>2, <3>1, FinishKeepsCall
  <2>3. CASE phase' = "links" /\ UNCHANGED <<dataset, outcome, running, k, schCyclic, schFanin, schUndirected>>
    <3>1. CallTypes'
      BY <1>t, <2>3, Zenon DEF CallTypes
    <3>2. k' <= Len(Samples) /\ k' <= Len(Samples) + 1
      BY <1>t, <2>0, <2>3, SampleParts DEF CallTypes, CallTree, CallPlace, Busy
    <3>3. QED
      BY <1>0, <2>0, <2>3, <3>1, <3>2, PhaseKeepsCall DEF Busy
  <2>4. QED
    BY <1>4, <2>2, <2>3 DEF SampleNodes, cycleVars, searchVars
<1>5. CASE ImplicitLinks
  <2>0. ~running /\ phase = "links"
    BY <1>5, <1>r DEF ImplicitLinks
  <2>1. /\ phase' = "sample" /\ k' = k + 1 /\ UNCHANGED <<dataset, outcome, running, schCyclic, schFanin>>
        /\ schUndirected' = (schUndirected /\ \A n \in ToSet(schNodes) : n.singleton)
    BY <1>5 DEF ImplicitLinks, NextSample, cycleVars, searchVars
  <2>2. CallTypes'
    <3>1. schCyclic' \in BOOLEAN /\ schFanin' \in BOOLEAN /\ schUndirected' \in BOOLEAN
      BY <1>t, <2>1, Zenon DEF CallTypes
    <3>2. k' \in Nat \ {0}
      BY <1>t, <2>1 DEF CallTypes
    <3>3. QED
      BY <2>1, <3>1, <3>2, Zenon DEF CallTypes
  <2>3. k' <= Len(Samples) + 1
    BY <1>t, <2>0, <2>1, SampleParts DEF CallTypes, CallTree, CallPlace, Busy
  <2>4. QED
    BY <1>0, <2>0, <2>1, <2>2, <2>3, PhaseKeepsCall DEF Busy
<1>6. CASE SampleLinks
  <2> DEFINE g == OfKind(Sample, "links")[1].links
             u == schUndirected /\ IsUndirected(g)
  <2>0. ~running /\ phase = "links" /\ OfKind(Sample, "links") # <<>>
    BY <1>6, <1>r DEF SampleLinks
  <2>1. CASE Finish("DatasetException")
    BY <1>0, <2>0, <2>1, FinishKeepsCall
  <2>2. CASE ~Finish("DatasetException")
    <3>1. /\ ~(Len(OfKind(Sample, "links")) > 1)
          /\ schUndirected' = u /\ schFanin' = (schFanin \/ IsFanin(g, u))
          /\ UNCHANGED <<dataset, schCyclic, outcome>>
      BY <1>6, <2>2 DEF SampleLinks
    <3>2. \/ schCyclic /\ phase' = "sample" /\ k' = k + 1 /\ UNCHANGED running
          \/ ~schCyclic /\ phase' = "cyclic" /\ IsCyclic(g, u) /\ k' = k
      BY <1>6, <2>2 DEF SampleLinks, NextSample, cycleVars, searchVars
    <3>3. k \in Nat \ {0} /\ k <= Len(Samples) /\ Len(Samples) \in Nat
      BY <1>t, <2>0, SampleParts DEF CallTypes, CallTree, CallPlace, Busy
    <3>4. CallTypes'
      <4>1. schCyclic' \in BOOLEAN /\ schFanin' \in BOOLEAN /\ schUndirected' \in BOOLEAN
        <5> HIDE DEF g
        <5>1. QED
          BY <1>t, <3>1, Zenon DEF CallTypes, IsUndirected, IsFanin
      <4>2. k' \in Nat \ {0}
        BY <3>2, <3>3
      <4>3. QED
        BY <3>2, <4>1, <4>2, Zenon DEF CallTypes
    <3>5. CASE schCyclic /\ phase' = "sample" /\ k' = k + 1 /\ UNCHANGED running
      <4>1. k' <= Len(Samples) + 1
        BY <3>3, <3>5
      <4>2. QED
        BY <1>0, <2>0, <3>1, <3>4, <3>5, <4>1, PhaseKeepsCall DEF Busy
    <3>6. CASE ~schCyclic /\ phase' = "cyclic" /\ IsCyclic(g, u) /\ k' = k
      <4>1. outcome' = Null /\ outcome' # "ok"
        BY <1>t, <2>0, <3>1, ErrorsDiffer DEF CallTree
      <4>2. Samples' = Samples /\ TreeOK' /\ \A i : LinksOf(i)' = LinksOf(i)
        BY <1>t, <2>0, <3>1, SameDataset DEF CallTree, Busy
      <4>3. CallTree' /\ CallStart'
        BY <3>6, <4>1, <4>2 DEF CallTree, CallStart
      <4>4. CallPlace'
        BY <3>3, <3>6, <4>1, <4>2 DEF CallPlace
      <4>5. g = LinksOf(k)
        BY <2>0, <3>1, LinksNow
      <4>6. links' = g /\ undirected' = u /\ running' = TRUE
        BY <3>6 DEF IsCyclic
      <4>7. LinksOf(k') = LinksOf(k) /\ LinksOf(k)' = LinksOf(k)
        BY <3>6, <4>2
      <4>8. links' = LinksOf(k)'
        BY <4>5, <4>6, <4>7
      <4>9. schCyclic' = FALSE
        BY <1>t, <3>1, <3>6, Zenon DEF CallTypes
      <4> HIDE DEF u, g
      <4>10. undirected' = schUndirected'
        BY <3>1, <4>6
      <4>11. CallSearch'
        BY <3>6, <4>6, <4>8, <4>9, <4>10 DEF CallSearch
      <4>12. QED
        BY <1>0, <3>4, <4>3, <4>4, <4>11 DEF CallInv
    <3>7. QED
      BY <3>2, <3>5, <3>6
  <2>3. QED
    BY <2>1, <2>2
<1>7. CASE CyclicReturned
  <2>1. /\ ~running /\ phase = "cyclic" /\ phase' = "sample" /\ k' = k + 1
        /\ UNCHANGED <<dataset, outcome, running, schFanin, schUndirected>>
        /\ schCyclic' = (verdict = "cyclic")
    BY <1>7 DEF CyclicReturned, NextSample, cycleVars, searchVars
  <2>2. CallTypes'
    <3>1. schCyclic' \in BOOLEAN /\ schFanin' \in BOOLEAN /\ schUndirected' \in BOOLEAN
      BY <1>t, <2>1, Zenon DEF CallTypes
    <3>2. k' \in Nat \ {0}
      BY <1>t, <2>1 DEF CallTypes
    <3>3. QED
      BY <2>1, <3>1, <3>2, Zenon DEF CallTypes
  <2>3. k' <= Len(Samples) + 1
    BY <1>t, <2>1, SampleParts DEF CallTypes, CallTree, CallPlace, Busy
  <2>4. QED
    BY <1>0, <2>1, <2>2, <2>3, PhaseKeepsCall DEF Busy
<1>8. CASE BuildSchema
  <2>1. /\ ~running /\ phase = "sample" /\ k > Len(Samples) /\ phase' = "done"
        /\ UNCHANGED <<dataset, k, schCyclic, schFanin, schUndirected, running>>
    BY <1>8, <1>r DEF BuildSchema, Finish, cycleVars, searchVars
  <2>2. CallTypes'
    BY <1>t, <2>1, Zenon DEF CallTypes
  <2>3. TreeOK /\ k <= Len(Samples) + 1
    BY <1>t, <2>1 DEF CallTree, CallPlace, Busy
  <2>4. Samples' = Samples /\ TreeOK'
    BY <2>1, <2>3, SameDataset
  <2>5. CallTree' /\ CallPlace' /\ CallStart' /\ CallSearch'
    BY <2>1, <2>3, <2>4 DEF CallTree, CallPlace, CallStart, CallSearch, Busy
  <2>6. QED
    BY <1>0, <2>2, <2>5 DEF CallInv
<1>9. CASE Search
  <2>1. UNCHANGED inferVars /\ SearchStep /\ phase = "cyclic"
    BY <1>9 DEF Search
  <2>2. CallTypes' /\ CallStart'
    BY <1>t, <2>1, Zenon DEF CallTypes, CallStart, inferVars
  <2>3. dataset' = dataset /\ phase' = phase /\ k' = k /\ outcome' = outcome
    BY <2>1 DEF inferVars
  <2>4. Samples' = Samples /\ (TreeOK => TreeOK') /\ \A i : LinksOf(i)' = LinksOf(i)
    BY <2>3, SameDataset
  <2>5. CallTree' /\ CallPlace'
    BY <1>t, <2>1, <2>3, <2>4 DEF CallTree, CallPlace, Busy
  <2>6. running /\ links' = links /\ undirected' = undirected /\ (running' = running \/ verdict' # "none")
    BY <2>1, SearchKeeps
  <2>7. LinksOf(k)' = LinksOf(k)
    BY <2>3, <2>4
  <2>8. schCyclic' = schCyclic /\ schUndirected' = schUndirected
    BY <2>1 DEF inferVars
  <2>9. CallSearch'
    BY <1>t, <2>1, <2>3, <2>6, <2>7, <2>8 DEF CallSearch
  <2>10. QED
    BY <1>0, <2>2, <2>5, <2>9 DEF CallInv
<1>10. CASE UNCHANGED <<inferVars, cycleVars>>
  <2>1. dataset' = dataset /\ phase' = phase /\ k' = k /\ outcome' = outcome
    BY <1>10 DEF inferVars
  <2>2. Samples' = Samples /\ (TreeOK => TreeOK') /\ \A i : LinksOf(i)' = LinksOf(i)
    BY <2>1, SameDataset
  <2>3. CallTypes' /\ CallStart'
    BY <1>t, <1>10, Zenon DEF CallTypes, CallStart, inferVars
  <2>4. CallTree' /\ CallPlace'
    BY <1>t, <2>1, <2>2 DEF CallTree, CallPlace, Busy
  <2>5. LinksOf(k)' = LinksOf(k)
    BY <2>1, <2>2
  <2>6. UNCHANGED <<schCyclic, schUndirected, links, undirected, running, verdict>>
    BY <1>10 DEF inferVars, cycleVars, searchVars
  <2>7. CallSearch'
    BY <1>t, <2>1, <2>5, <2>6 DEF CallSearch
  <2>8. QED
    BY <1>0, <2>3, <2>4, <2>7 DEF CallInv
<1>11. QED
  BY <1>1, <1>2, <1>3, <1>4, <1>5, <1>6, <1>7, <1>8, <1>9, <1>10 DEF InferNext

------------------------------------------------------------------------------
(* The nodes of the schema describe the samples.                           *)

\* The nodes are the same, except for their links.
SameNodes(ms, ns) ==
    /\ DOMAIN ms = DOMAIN ns
    /\ \A i \in DOMAIN ms :
        ns[i].name = ms[i].name /\ ns[i].singleton = ms[i].singleton /\ ns[i].fields = ms[i].fields

\* Names are those of the elements.
LEMMA NamesOfElements ==
    ASSUME NEW s PROVE Names(s) = {f.name : f \in ToSet(s)}
BY DEF Names, ToSet

\* What describes a sample does so with other links.
LEMMA DescribedKept ==
    ASSUME dataset' = dataset, NodesMade(schNodes), NodesMade(schNodes)',
           SameNodes(schNodes, schNodes'), NEW i, Described(i)
    PROVE  Described(i)'
<1>1. ClassFiles' = ClassFiles /\ Children(i)' = Children(i)
  BY SameDataset
<1>2. Names(schNodes') = Names(schNodes)
  BY DEF SameNodes, Names
<1>3. Names(NodeFilesOf(Children(i))) = Names(schNodes)
  BY DEF Described
<1>4. ASSUME NEW f \in ToSet(NodeFilesOf(Children(i)))
      PROVE  /\ Get(schNodes', f.name).singleton = Get(schNodes, f.name).singleton
             /\ Get(schNodes', f.name).fields = Get(schNodes, f.name).fields
  <2>1. f.name \in Names(schNodes)
    BY <1>3, NamesOfElements
  <2>2. PICK j \in DOMAIN schNodes : Get(schNodes, f.name) = schNodes[j] /\ schNodes[j].name = f.name
    BY <2>1, GetFrom
  <2>3. j \in DOMAIN schNodes' /\ schNodes'[j].name = f.name
    BY <2>2 DEF SameNodes
  <2>4. Get(schNodes', f.name) = schNodes'[j]
    BY <2>3, GetNamed DEF NodesMade
  <2>5. QED
    BY <2>2, <2>4 DEF SameNodes
<1>5. ASSUME NEW f \in ToSet(NodeFilesOf(Children(i))) PROVE ChildFits(f, Get(schNodes, f.name))'
  <2>1. ChildFits(f, Get(schNodes, f.name))
    BY DEF Described
  <2>2. QED
    BY <1>1, <1>4, <2>1 DEF ChildFits, FileFits
<1>6. QED
  BY <1>1, <1>2, <1>3, <1>5 DEF Described

\* A node that gets other links.
LEMMA LinksSet ==
    ASSUME NEW ns, NodesMade(ns), NEW ms, DOMAIN ms = DOMAIN ns, ms \in Seq(ToSet(ms)),
           \A i \in DOMAIN ns : \/ ms[i] = ns[i]
                                \/ ~ns[i].singleton /\ \E l : ms[i] = [ns[i] EXCEPT !.links = l]
    PROVE  NodesMade(ms) /\ SameNodes(ns, ms)
<1>1. ASSUME NEW i \in DOMAIN ns
      PROVE  /\ NodeMade(ms[i]) /\ ms[i].name = ns[i].name /\ ms[i].singleton = ns[i].singleton
             /\ ms[i].fields = ns[i].fields
  <2>1. NodeMade(ns[i])
    BY DEF NodesMade, ToSet
  <2>2. CASE ms[i] = ns[i]
    BY <2>1, <2>2
  <2>3. ASSUME ~ns[i].singleton, NEW l, ms[i] = [ns[i] EXCEPT !.links = l]
        PROVE  /\ NodeMade(ms[i]) /\ ms[i].name = ns[i].name /\ ms[i].singleton = ns[i].singleton
               /\ ms[i].fields = ns[i].fields
    <3>1. ms[i] = [name |-> ns[i].name, singleton |-> ns[i].singleton, fields |-> ns[i].fields,
                   links |-> l, srcName |-> Null]
      BY <2>1, <2>3 DEF NodeMade
    <3>2. /\ ms[i].name = ns[i].name /\ ms[i].singleton = ns[i].singleton
          /\ ms[i].fields = ns[i].fields /\ ms[i].links = l
      BY <3>1
    <3>3. QED
      BY <2>1, <2>3, <3>1, <3>2 DEF NodeMade
  <2>4. QED
    BY <2>2, <2>3
<1>2. SameNodes(ns, ms)
  BY <1>1 DEF SameNodes
<1>3. DistinctNames(ms)
  BY <1>1 DEF NodesMade, DistinctNames
<1>4. \A n \in ToSet(ms) : NodeMade(n)
  BY <1>1 DEF ToSet
<1>5. QED
  BY <1>2, <1>3, <1>4 DEF NodesMade

\* The children that become nodes, in a sample without class files.
LEMMA NodeChildren ==
    ASSUME TreeOK, NEW i \in DOMAIN Samples, OfKind(Children(i), "class") = <<>>
    PROVE  ToSet(NodeFilesOf(Children(i))) = ToSet(InOrder(Children(i)))
<1> DEFINE s == Children(i)
<1>1. s \in Seq(ToSet(s)) /\ DistinctNames(s) /\ \A f \in ToSet(s) : FileRead(f)
  BY ChildrenParts
<1>2. ToSet(NodeFilesOf(s)) = {f \in ToSet(s) : f.type # "links"}
  BY <1>1, NodeFilesParts
<1>3. ToSet(InOrder(s)) = {f \in ToSet(s) : f.type \in {"tensor", "category", "directory"}}
  BY <1>1, InOrderParts
<1>4. {f \in ToSet(s) : f.type = "class"} = {}
  <2>1. ToSet(OfKind(s, "class")) = {f \in ToSet(s) : f.type = "class"}
    BY <1>1, OfKindParts
  <2>2. ToSet(<<>>) = {}
    BY DEF ToSet
  <2>3. QED
    BY <2>1, <2>2
<1> HIDE DEF s
<1>5. \A f \in ToSet(s) : f.type # "links" <=> f.type \in {"tensor", "category", "directory"}
  BY <1>1, <1>4 DEF FileRead
<1>6. ToSet(NodeFilesOf(s)) = ToSet(InOrder(s))
  BY <1>2, <1>3, <1>5
<1>7. QED
  BY <1>6 DEF s

\* What the nodes of a sample do to the schema.
LEMMA SampleNodesDescribed ==
    ASSUME CallInv, NodesInv, SampleNodes, phase' = "links"
    PROVE  /\ NodesMade(schNodes)' /\ CountsMade(counts)' /\ k' = k /\ dataset' = dataset
           /\ k # 1 => SameNodes(schNodes, schNodes')
           /\ NoClassInSamples =>
                /\ Described(k)'
                /\ \A n \in ToSet(schNodes') : ~n.singleton => n.links = <<>> /\ n.name \in DOMAIN counts'
<1> DEFINE r == Sequentially(ChildStep, [err |-> Null, nodes |-> schNodes, counts |-> EmptyMap],
                             InOrder(Sample))
           c == InOrder(Sample)
<1>1. /\ ChildrenUpTo(c, schNodes, r, Len(c)) /\ k \in DOMAIN Samples /\ Sample = Children(k)
  BY SampleNodesFolded DEF SampleNodes
<1>2. /\ r.err = Null /\ schNodes' = r.nodes /\ counts' = r.counts /\ k' = k /\ dataset' = dataset
      /\ phase = "nodes"
  BY DEF SampleNodes, Finish
<1>3. TreeOK
  BY <1>2 DEF CallInv, CallTree, Busy
<1>4. c \in Seq(ToSet(c)) /\ DOMAIN c = 1 .. Len(c)
  <2>1. Sample \in Seq(ToSet(Sample)) /\ DistinctNames(Sample)
    BY <1>1, <1>3, ChildrenParts
  <2>2. c \in Seq(ToSet(c))
    BY <2>1, InOrderParts
  <2>3. QED
    BY <2>2, SeqOfItsElements
<1> HIDE DEF r, c
<1>5. /\ NodesMade(r.nodes) /\ CountsMade(r.counts)
      /\ \A f \in ToSet(c) : f.name \in Names(r.nodes) /\ ChildFits(f, Get(r.nodes, f.name))
      /\ \A f \in ToSet(c) : f.type = "directory" =>
            f.name \in DOMAIN r.counts /\ Get(r.nodes, f.name).links = <<>>
      /\ k = 1 => Names(r.nodes) = {f.name : f \in ToSet(c)}
      /\ k # 1 => Grows(schNodes, r.nodes) /\ DOMAIN r.nodes = DOMAIN schNodes
  BY <1>1, <1>2, <1>4 DEF ChildrenUpTo, ToSet
<1>6. k # 1 => SameNodes(schNodes, r.nodes)
  BY <1>5 DEF Grows, SameNodes
<1>7. ASSUME NoClassInSamples PROVE ToSet(NodeFilesOf(Sample)) = ToSet(c)
  BY <1>1, <1>3, <1>7, NodeChildren DEF NoClassInSamples, c
<1>8. ASSUME NoClassInSamples PROVE Names(NodeFilesOf(Sample)) = Names(r.nodes)
  <2>1. Names(NodeFilesOf(Sample)) = {f.name : f \in ToSet(c)}
    BY <1>7, <1>8, NamesOfElements
  <2>2. CASE k = 1
    BY <1>5, <2>1, <2>2
  <2>3. CASE k # 1
    <3>1. Names(r.nodes) = Names(schNodes)
      BY <1>6, <2>3 DEF SameNodes, Names
    <3>2. Names(NodeFilesOf(Sample)) \subseteq Names(r.nodes)
      BY <1>5, <2>1
    <3>3. ~Differ(Names(schNodes), Names(NodeFilesOf(Sample)))
      BY <1>2, <2>3 DEF NodesInv
    <3>4. QED
      BY <3>1, <3>2, <3>3 DEF Differ
  <2>4. QED
    BY <2>2, <2>3
<1>9. ASSUME NoClassInSamples PROVE Described(k)'
  <2>1. Children(k)' = Sample /\ ClassFiles' = ClassFiles
    <3>1. \A i : Children(i)' = Children(i)
      BY <1>2, SameDataset
    <3>2. QED
      BY <1>1, <1>2, <3>1, SameDataset
  <2>2. ASSUME NEW f \in ToSet(NodeFilesOf(Sample)) PROVE ChildFits(f, Get(schNodes, f.name))'
    <3>1. ChildFits(f, Get(r.nodes, f.name))
      BY <1>5, <1>7, <1>9
    <3>2. QED
      BY <1>2, <2>1, <3>1 DEF ChildFits, FileFits
  <2>3. QED
    BY <1>2, <1>8, <1>9, <2>1, <2>2 DEF Described
<1>10. ASSUME NoClassInSamples, NEW n \in ToSet(r.nodes), ~n.singleton
       PROVE  n.links = <<>> /\ n.name \in DOMAIN r.counts
  <2>1. PICK i \in DOMAIN r.nodes : n = r.nodes[i]
    BY DEF ToSet
  <2>2. Get(r.nodes, n.name) = n /\ n.name \in Names(r.nodes)
    BY <1>5, <2>1, GetNamed DEF NodesMade, Names
  <2>3. PICK f \in ToSet(c) : f.name = n.name
    BY <1>7, <1>8, <1>10, <2>2, NamesOfElements
  <2>4. ChildFits(f, n)
    BY <1>5, <2>2, <2>3
  <2>5. f.type = "directory"
    BY <1>10, <2>4 DEF ChildFits
  <2>6. QED
    BY <1>5, <2>2, <2>3, <2>5
<1>11. QED
  BY <1>2, <1>5, <1>6, <1>9, <1>10

\* Before the first sample there are no nodes.
LEMMA NoNodes == NodesMade(<<>>)
<1>1. <<>> \in Seq({}) /\ DOMAIN <<>> = {}
  OBVIOUS
<1>2. QED
  BY <1>1 DEF NodesMade, DistinctNames, ToSet

\* A step that changes links only and goes on with as many samples described.
LEMMA LinksKeepNodes ==
    ASSUME CallTypes, NodesInv, Busy, dataset' = dataset, Handled' = Handled,
           NodesMade(schNodes)', SameNodes(schNodes, schNodes'),
           phase' # "nodes", phase' = "sample" => k' # 1
    PROVE  NodesInv'
<1>1. NoClassInSamples' = NoClassInSamples
  BY SameDataset
<1>2. NodesMade(schNodes)
  BY DEF NodesInv
<1>3. ASSUME NoClassInSamples PROVE \A i \in 1 .. Handled' : Described(i)'
  <2>1. \A i \in 1 .. Handled : Described(i)
    BY <1>3 DEF NodesInv
  <2>2. QED
    BY <1>2, <2>1, DescribedKept
<1>4. QED
  BY <1>1, <1>3 DEF NodesInv

\* The same nodes.
LEMMA SameNodesKept ==
    ASSUME NodesMade(schNodes), schNodes' = schNodes
    PROVE  NodesMade(schNodes)' /\ SameNodes(schNodes, schNodes')
BY DEF SameNodes

\* A sequence whose elements are changed one by one.
LEMMA MappedSeq ==
    ASSUME NEW S, NEW s \in Seq(S), NEW t, DOMAIN t = DOMAIN s, t = [i \in DOMAIN t |-> t[i]]
    PROVE  t \in Seq(ToSet(t))
<1>1. DOMAIN s = 1 .. Len(s) /\ Len(s) \in Nat
  OBVIOUS
<1>2. \A i \in 1 .. Len(s) : t[i] \in ToSet(t)
  BY <1>1 DEF ToSet
<1>3. [i \in 1 .. Len(s) |-> t[i]] \in Seq(ToSet(t))
  BY <1>1, <1>2, IsASeq
<1>4. QED
  BY <1>1, <1>3

\* Every step keeps what is known of the nodes.
LEMMA NodesInvStep ==
    ASSUME CallInv, NodesInv, CallInv', [InferNext]_<<inferVars, cycleVars>>
    PROVE  NodesInv'
<1>t. CallTypes /\ CallTree /\ CallStart /\ CallPlace
  BY DEF CallInv
<1>k. k \in Nat \ {0}
  BY <1>t DEF CallTypes
<1>o. phase # "done" => outcome # "ok"
  BY <1>t, ErrorsDiffer DEF CallTree
<1>f. ASSUME NEW how, Finish(how), how # "ok" PROVE NodesInv'
  <2>1. phase' = "done" /\ ~Busy'
    BY <1>f DEF Finish, Busy
  <2>2. QED
    BY <2>1 DEF NodesInv
<1>1. CASE ReadDataset
  <2>1. CASE Finish("unreadable")
    BY <1>f, <2>1
  <2>2. CASE ~Finish("unreadable")
    <3>1. phase = "read" /\ phase' = "root" /\ outcome' = outcome
      BY <1>1, <2>2 DEF ReadDataset
    <3>2. ~Busy'
      BY <1>o, <3>1 DEF Busy
    <3>3. QED
      BY <3>1, <3>2 DEF NodesInv
  <2>3. QED
    BY <2>1, <2>2
<1>2. CASE SortRoot
  <2>1. ASSUME NEW f, Finish(RootError(f)) PROVE NodesInv'
    <3>1. RootError(f) # "ok"
      BY ErrorsDiffer DEF RootError
    <3>2. QED
      BY <1>f, <2>1, <3>1
  <2>2. CASE phase' = "sample" /\ schNodes' = schNodes /\ k' = k
    <3>1. phase = "root" /\ k = 1 /\ schNodes = <<>>
      BY <1>2, <1>t DEF SortRoot, CallStart
    <3>2. Handled' = 0 /\ 1 .. 0 = {}
      BY <2>2, <3>1 DEF Handled
    <3>3. NodesMade(schNodes')
      BY <2>2, <3>1, NoNodes
    <3>4. QED
      BY <2>2, <3>1, <3>2, <3>3 DEF NodesInv
  <2>3. QED
    BY <1>2, <2>1, <2>2 DEF SortRoot
<1>3. CASE BeginSample
  <2>1. CASE Finish("DatasetException")
    BY <1>f, <2>1
  <2>2. CASE ~Finish("DatasetException")
    <3>1. /\ phase = "sample" /\ phase' = "nodes" /\ UNCHANGED <<dataset, k, schNodes, outcome>>
          /\ ~(k > 1 /\ Differ(Names(schNodes), Names(NodeFilesOf(Sample))))
      BY <1>3, <2>2 DEF BeginSample
    <3>2. Busy /\ Handled' = Handled /\ NodesMade(schNodes)
      BY <3>1 DEF Busy, Handled, NodesInv
    <3>3. Sample' = Sample /\ NoClassInSamples' = NoClassInSamples
      BY <3>1, SameDataset DEF Sample
    <3>4. k' # 1 => ~Differ(Names(schNodes), Names(NodeFilesOf(Sample)))'
      BY <1>k, <3>1, <3>3 DEF Differ
    <3>5. \A i : Described(i) => Described(i)'
      BY <3>1, <3>2, DescribedKept, SameNodesKept
    <3>6. QED
      BY <3>1, <3>2, <3>3, <3>4, <3>5 DEF NodesInv
  <2>3. QED
    BY <2>1, <2>2
<1>4. CASE SampleNodes
  <2> DEFINE r == Sequentially(ChildStep, [err |-> Null, nodes |-> schNodes, counts |-> EmptyMap],
                               InOrder(Sample))
  <2>0. phase = "nodes" /\ r.err \in Errors
    BY <1>4, SampleNodesFolded DEF SampleNodes
  <2>1. CASE Finish(r.err)
    <3> HIDE DEF r
    <3>1. r.err # "ok"
      BY <2>0, ErrorsDiffer
    <3>2. QED
      BY <1>f, <2>1, <3>1
  <2>2. CASE phase' = "links"
    <3>1. /\ NodesMade(schNodes)' /\ k' = k /\ dataset' = dataset
          /\ k # 1 => SameNodes(schNodes, schNodes')
          /\ NoClassInSamples => Described(k)'
      BY <1>4, <2>2, SampleNodesDescribed
    <3>2. NoClassInSamples' = NoClassInSamples
      BY <3>1, SameDataset
    <3>3. Handled = k - 1 /\ Handled' = k
      BY <2>0, <2>2, <3>1 DEF Handled
    <3>4. ASSUME NoClassInSamples, NEW i \in 1 .. k PROVE Described(i)'
      <4>1. CASE i = k
        BY <3>1, <3>4, <4>1
      <4>2. CASE i # k
        <5>1. k # 1 /\ i \in 1 .. k - 1
          BY <1>k, <4>2
        <5>2. Described(i) /\ NodesMade(schNodes)
          BY <2>0, <3>3, <3>4, <5>1 DEF NodesInv, Busy
        <5>3. QED
          BY <3>1, <5>1, <5>2, DescribedKept
      <4>3. QED
        BY <4>1, <4>2
    <3>5. QED
      BY <2>2, <3>1, <3>2, <3>3, <3>4 DEF NodesInv
  <2>3. QED
    BY <1>4, <2>1, <2>2 DEF SampleNodes
<1>5. CASE ImplicitLinks
  <2>1. /\ phase = "links" /\ phase' = "sample" /\ k' = k + 1 /\ dataset' = dataset
        /\ schNodes' = [i \in DOMAIN schNodes |-> Chained(schNodes[i])]
    BY <1>5 DEF ImplicitLinks, NextSample
  <2>2. Busy /\ Handled' = Handled /\ NodesMade(schNodes) /\ k' # 1
    BY <1>k, <2>1 DEF Busy, Handled, NodesInv
  <2>3. \A i \in DOMAIN schNodes : schNodes'[i] = Chained(schNodes[i])
    BY <2>1
  <2>4. DOMAIN schNodes' = DOMAIN schNodes /\ schNodes' \in Seq(ToSet(schNodes'))
    BY <2>1, <2>2, MappedSeq DEF NodesMade
  <2>5. ASSUME NEW i \in DOMAIN schNodes
        PROVE  \/ schNodes'[i] = schNodes[i]
               \/ ~schNodes[i].singleton /\ \E l : schNodes'[i] = [schNodes[i] EXCEPT !.links = l]
    BY <2>3 DEF Chained
  <2>6. NodesMade(schNodes)' /\ SameNodes(schNodes, schNodes')
    BY <2>2, <2>4, <2>5, LinksSet
  <2>7. QED
    BY <1>t, <2>1, <2>2, <2>6, LinksKeepNodes
<1>6. CASE SampleLinks
  <2> DEFINE g == OfKind(Sample, "links")[1].links
  <2>1. CASE Finish("DatasetException")
    BY <1>f, <2>1
  <2>2. CASE ~Finish("DatasetException")
    <3>1. /\ phase = "links" /\ dataset' = dataset
          /\ (phase' = "sample" /\ k' = k + 1) \/ (phase' = "cyclic" /\ k' = k)
          /\ schNodes' = [i \in DOMAIN schNodes |->
                              IF schNodes[i].singleton THEN schNodes[i]
                              ELSE [schNodes[i] EXCEPT !.links = MergedLinks(schNodes[i], g)]]
      BY <1>6, <2>2 DEF SampleLinks, NextSample
    <3> HIDE DEF g
    <3>2. Busy /\ Handled' = Handled /\ NodesMade(schNodes) /\ (phase' = "sample" => k' # 1)
      BY <1>k, <3>1 DEF Busy, Handled, NodesInv
    <3>3. \A i \in DOMAIN schNodes :
              schNodes'[i] = IF schNodes[i].singleton THEN schNodes[i]
                             ELSE [schNodes[i] EXCEPT !.links = MergedLinks(schNodes[i], g)]
      BY <3>1
    <3>4. DOMAIN schNodes' = DOMAIN schNodes /\ schNodes' \in Seq(ToSet(schNodes'))
      BY <3>1, <3>2, MappedSeq DEF NodesMade
    <3>5. ASSUME NEW i \in DOMAIN schNodes
          PROVE  \/ schNodes'[i] = schNodes[i]
                 \/ ~schNodes[i].singleton /\ \E l : schNodes'[i] = [schNodes[i] EXCEPT !.links = l]
      BY <3>3
    <3>6. NodesMade(schNodes)' /\ SameNodes(schNodes, schNodes')
      BY <3>2, <3>4, <3>5, LinksSet
    <3>7. phase' # "nodes"
      BY <3>1
    <3>8. QED
      BY <1>t, <3>1, <3>2, <3>6, <3>7, LinksKeepNodes
  <2>3. QED
    BY <2>1, <2>2
<1>7. CASE CyclicReturned
  <2>1. /\ phase = "cyclic" /\ phase' = "sample" /\ k' = k + 1 /\ dataset' = dataset
        /\ schNodes' = schNodes
    BY <1>7 DEF CyclicReturned, NextSample
  <2>2. Busy /\ Handled' = Handled /\ NodesMade(schNodes) /\ k' # 1
    BY <1>k, <2>1 DEF Busy, Handled, NodesInv
  <2>3. NodesMade(schNodes)' /\ SameNodes(schNodes, schNodes')
    BY <2>1, <2>2, SameNodesKept
  <2>4. QED
    BY <1>t, <2>1, <2>2, <2>3, LinksKeepNodes
<1>8. CASE BuildSchema
  <2>1. phase = "sample" /\ phase' = "done" /\ UNCHANGED <<k, dataset, schNodes>>
    BY <1>8 DEF BuildSchema, Finish
  <2>2. Busy /\ Handled' = Handled /\ NodesMade(schNodes)
    BY <2>1 DEF Busy, Handled, NodesInv
  <2>3. NodesMade(schNodes)' /\ SameNodes(schNodes, schNodes')
    BY <2>1, <2>2, SameNodesKept
  <2>4. QED
    BY <1>t, <2>1, <2>2, <2>3, LinksKeepNodes
<1>9. CASE UNCHANGED inferVars
  <2>1. UNCHANGED <<dataset, phase, k, schNodes, outcome>>
    BY <1>9 DEF inferVars
  <2>2. Samples' = Samples /\ NoClassInSamples' = NoClassInSamples
    BY <2>1, SameDataset
  <2>3. Sample' = Sample /\ Busy' = Busy /\ Handled' = Handled
    BY <2>1, <2>2 DEF Sample, Busy, Handled
  <2>4. \A i : NodesMade(schNodes) /\ Described(i) => Described(i)'
    BY <2>1, DescribedKept, SameNodesKept
  <2>5. Busy' => NodesMade(schNodes)'
    BY <2>1, <2>3 DEF NodesInv
  <2>6. phase' \in {"sample", "nodes"} /\ k' = 1 => schNodes' = <<>>
    BY <2>1 DEF NodesInv
  <2>7. phase' = "nodes" /\ k' # 1 => ~Differ(Names(schNodes'), Names(NodeFilesOf(Sample')))
    BY <2>1, <2>3 DEF NodesInv
  <2>8. Busy' /\ NoClassInSamples' => \A i \in 1 .. Handled' : Described(i)'
    BY <2>2, <2>3, <2>4 DEF NodesInv
  <2>9. QED
    BY <2>5, <2>6, <2>7, <2>8 DEF NodesInv
<1>10. CASE Search
  BY <1>9, <1>10 DEF Search
<1>11. QED
  BY <1>1, <1>2, <1>3, <1>4, <1>5, <1>6, <1>7, <1>8, <1>9, <1>10 DEF InferNext

------------------------------------------------------------------------------
(***************************************************************************)
(* Generation.  Everything that generateFromSchema puts into a dataset is  *)
(* what the readers would have accepted, and its links join instances.     *)
(***************************************************************************)

FlatStep(ss, U, i) == IF i = 1 THEN ss[i] ELSE U[i - 1] \o ss[i]

\* The function that FlattenSeq is defined by exists.
LEMMA FlatSteps ==
    ASSUME NEW ss, Len(ss) \in Nat, Len(ss) # 0
    PROVE  \E U : /\ U = [i \in 1 .. Len(ss) |-> FlatStep(ss, U, i)]
                  /\ FlattenSeq(ss) = U[Len(ss)]
<1> DEFINE Good(U, m) == U = [i \in 1 .. m |-> FlatStep(ss, U, i)]
           T == {m \in Nat : \E U : Good(U, m)}
<1>1. 0 \in T
  <2>1. Good([i \in 1 .. 0 |-> ss], 0)
    OBVIOUS
  <2>2. QED
    BY <2>1
<1>2. ASSUME NEW m \in Nat, m \in T PROVE m + 1 \in T
  <2>1. PICK U : Good(U, m)
    BY <1>2
  <2> DEFINE W == [i \in 1 .. m + 1 |-> IF i <= m THEN U[i] ELSE FlatStep(ss, U, i)]
  <2>2. \A i \in 1 .. m : W[i] = U[i] /\ U[i] = FlatStep(ss, U, i)
    BY <2>1
  <2>3. W[m + 1] = FlatStep(ss, U, m + 1) /\ W = [i \in 1 .. m + 1 |-> W[i]]
    OBVIOUS
  <2>4. ASSUME NEW i \in 1 .. m + 1 PROVE W[i] = FlatStep(ss, W, i)
    <3> HIDE DEF W
    <3>1. CASE i = 1 /\ m = 0
      BY <2>3, <3>1 DEF FlatStep
    <3>2. CASE i = 1 /\ m # 0
      <4>1. i \in 1 .. m
        BY <3>2
      <4>2. QED
        BY <2>2, <3>2, <4>1 DEF FlatStep
    <3>3. CASE i # 1
      <4>1. i - 1 \in 1 .. m /\ (i \in 1 .. m \/ i = m + 1)
        BY <3>3
      <4>2. W[i - 1] = U[i - 1]
        BY <2>2, <4>1
      <4>3. W[i] = FlatStep(ss, U, i)
        BY <2>2, <2>3, <4>1
      <4>4. QED
        BY <3>3, <4>2, <4>3 DEF FlatStep
    <3>4. QED
      BY <3>1, <3>2, <3>3
  <2>5. Good(W, m + 1)
    <3> HIDE DEF W
    <3>1. QED
      BY <2>3, <2>4
  <2> HIDE DEF Good, W
  <2>6. QED
    BY <2>5
<1>3. Nat \subseteq T
  <2> HIDE DEF T
  <2>1. QED
    BY <1>1, <1>2, SetInduction
<1>4. PICK U : Good(U, Len(ss))
  BY <1>3
<1>5. Good(CHOOSE V : Good(V, Len(ss)), Len(ss))
  BY <1>4
<1>6. QED
  BY <1>5 DEF FlattenSeq, FlatStep

\* A list of lists, one after the other.
LEMMA FlattenedSeq ==
    ASSUME NEW S, NEW ss \in Seq(Seq(S))
    PROVE  FlattenSeq(ss) \in Seq(S)
<1>0. Len(ss) \in Nat /\ \A i \in 1 .. Len(ss) : ss[i] \in Seq(S)
  OBVIOUS
<1>1. CASE Len(ss) = 0
  <2>1. ss = <<>> /\ FlattenSeq(ss) = ss
    BY <1>1 DEF FlattenSeq
  <2>2. <<>> \in Seq(S)
    OBVIOUS
  <2>3. QED
    BY <2>1, <2>2, Zenon
<1>2. CASE Len(ss) # 0
  <2>1. PICK U : /\ U = [i \in 1 .. Len(ss) |-> FlatStep(ss, U, i)]
                 /\ FlattenSeq(ss) = U[Len(ss)]
    BY <1>0, <1>2, FlatSteps
  <2>2. \A i \in 1 .. Len(ss) : U[i] = FlatStep(ss, U, i)
    BY <2>1
  <2> DEFINE T == {n \in Nat : n \in 1 .. Len(ss) => U[n] \in Seq(S)}
  <2>3. 0 \in T
    OBVIOUS
  <2>4. ASSUME NEW n \in Nat, n \in T PROVE n + 1 \in T
    <3>1. SUFFICES ASSUME n + 1 \in 1 .. Len(ss) PROVE U[n + 1] \in Seq(S)
      OBVIOUS
    <3>2. CASE n = 0
      BY <1>0, <2>2, <3>1, <3>2 DEF FlatStep
    <3>3. CASE n # 0
      <4>1. n \in 1 .. Len(ss) /\ n + 1 # 1 /\ (n + 1) - 1 = n
        BY <1>0, <3>1, <3>3
      <4>2. U[n] \in Seq(S) /\ ss[n + 1] \in Seq(S)
        BY <1>0, <2>4, <3>1, <4>1
      <4>3. U[n + 1] = U[n] \o ss[n + 1]
        BY <2>2, <3>1, <4>1 DEF FlatStep
      <4>4. QED
        BY <4>2, <4>3
    <3>4. QED
      BY <3>2, <3>3
  <2>5. Nat \subseteq T
    <3> HIDE DEF T
    <3>1. QED
      BY <2>3, <2>4, SetInduction
  <2>6. QED
    BY <1>0, <1>2, <2>1, <2>5
<1>3. QED
  BY <1>1, <1>2

\* A file that is not a directory, or whose files are not.
FileMade(f) ==
    /\ FileRead(f)
    /\ f.type = "directory" => \A g \in ToSet(f.files) : FileRead(g) /\ g.type # "directory"

\* The file of a class, and the categories of it.
LEMMA ClassFileParts ==
    ASSUME NEW c, c.dim \in Nat
    PROVE  FileRead(ClassFile(c)) /\ ClassFile(c).type = "class" /\ ClassFile(c).name = c.name
<1> DEFINE cs == Categories(c)
<1>1. cs = [i \in 1 .. c.dim |-> <<c.name, i>>]
  BY DEF Categories
<1>2. \A i, j \in 1 .. c.dim : cs[i] = cs[j] => i = j
  BY <1>1
<1> HIDE DEF cs
<1>3. cs \in Seq({cs[i] : i \in 1 .. c.dim}) /\ DOMAIN cs = 1 .. c.dim
  <2>1. cs = [i \in 1 .. c.dim |-> cs[i]] /\ DOMAIN cs = 1 .. c.dim
    BY <1>1
  <2>2. \A i \in 1 .. c.dim : cs[i] \in {cs[j] : j \in 1 .. c.dim}
    OBVIOUS
  <2>3. [i \in 1 .. c.dim |-> cs[i]] \in Seq({cs[i] : i \in 1 .. c.dim})
    BY <2>2, IsASeq
  <2>4. QED
    BY <2>1, <2>3
<1>4. cs \in Seq(ToSet(cs)) /\ IsInjective(cs)
  BY <1>2, <1>3, SeqOfItsElements DEF IsInjective
<1>5. ClassFile(c) = [name |-> c.name, type |-> "class", categories |-> cs]
  BY DEF ClassFile, cs
<1>6. QED
  BY <1>4, <1>5 DEF FileRead

\* One element of each of some sets, in a list.
LEMMA OneOfEachParts ==
    ASSUME NEW sets, NEW n \in Nat, DOMAIN sets = 1 .. n, NEW s \in OneOfEach(sets)
    PROVE  s \in Seq(ToSet(s)) /\ DOMAIN s = 1 .. n /\ \A i \in 1 .. n : s[i] \in sets[i]
<1>1. s \in [1 .. n -> UNION ToSet(sets)] /\ \A i \in 1 .. n : s[i] \in sets[i]
  BY DEF OneOfEach
<1>2. s \in Seq(UNION ToSet(sets))
  BY <1>1
<1>3. QED
  BY <1>1, <1>2, SeqOfItsElements

\* A field whose dimensions are sizes.
FieldSized(f) ==
    /\ f.type \in {"tensor", "category"}
    /\ f.type = "tensor" => /\ f.dim \in Seq(ToSet(f.dim)) /\ f.dim # <<>>
                            /\ \A i \in DOMAIN f.dim : f.dim[i].d \in Nat

\* The files of a field are read.
LEMMA FieldFilesParts ==
    ASSUME NEW s, NEW field, FieldSized(field), NEW name, NEW counted,
           counted = <<>> \/ \E n \in Nat : counted = <<n>>,
           NEW f \in FieldFiles(s, field, name, counted)
    PROVE  FileRead(f) /\ f.type # "directory"
<1>1. CASE field.type = "tensor"
  <2> DEFINE sizes == [i \in DOMAIN field.dim |-> field.dim[i].d]
  <2>1. f = [name |-> name, type |-> "tensor", subtype |-> "default", shape |-> counted \o sizes]
    BY <1>1 DEF FieldFiles
  <2>2. sizes \in Seq(Nat) /\ Len(sizes) # 0
    <3>1. /\ Len(field.dim) \in Nat /\ Len(field.dim) # 0 /\ DOMAIN field.dim = 1 .. Len(field.dim)
          /\ \A i \in 1 .. Len(field.dim) : field.dim[i].d \in Nat
      BY <1>1 DEF FieldSized
    <3>2. QED
      BY <3>1
  <2> HIDE DEF sizes
  <2>3. counted \in Seq(Nat)
    <3>1. <<>> \in Seq(Nat) /\ \A n \in Nat : <<n>> \in Seq(Nat)
      OBVIOUS
    <3>2. QED
      BY <3>1, Zenon
  <2>4. counted \o sizes \in Seq(Nat) /\ Len(counted \o sizes) = Len(counted) + Len(sizes)
    BY <2>2, <2>3
  <2>5. Len(counted \o sizes) # 0
    BY <2>2, <2>3, <2>4
  <2> DEFINE shape == counted \o sizes
  <2>6. shape \in Seq(Nat) /\ Len(shape) # 0
    BY <2>4, <2>5
  <2> HIDE DEF shape
  <2>7. shape # <<>>
    BY <2>6
  <2>8. f = [name |-> name, type |-> "tensor", subtype |-> "default", shape |-> shape]
    BY <2>1 DEF shape
  <2>9. QED
    BY <2>6, <2>7, <2>8 DEF FileRead
<1>2. CASE field.type = "category"
  <2> DEFINE count == IF counted = <<>> THEN 1 ELSE counted[1]
             X == ToSet(Categories(Get(s.classes, field.class)))
  <2>1. PICK cs \in [1 .. count -> X] : f = [name |-> name, type |-> "category", categories |-> cs]
    BY <1>2 DEF FieldFiles
  <2>2. count \in Nat
    <3>1. CASE counted = <<>>
      BY <3>1
    <3>2. ASSUME NEW n \in Nat, counted = <<n>> PROVE count \in Nat
      BY <3>2
    <3>3. QED
      BY <3>1, <3>2
  <2> HIDE DEF count, X
  <2>3. cs \in Seq(X)
    BY <2>2
  <2>4. cs \in Seq(ToSet(cs))
    BY <2>3, SeqOfItsElements
  <2>5. QED
    BY <2>1, <2>4 DEF FileRead
<1>3. QED
  BY <1>1, <1>2 DEF FieldSized

\* What is generated from: lists of nodes, fields and links, sizes, and instances.
LEMMA OrderParts ==
    ASSUME order \in Orders, ~IsVariable(schema)
    PROVE  /\ numNodeInstances \in Nat
           /\ schema.classes \in Seq(ToSet(schema.classes)) /\ DistinctNames(schema.classes)
           /\ \A c \in ToSet(schema.classes) : c.dim \in Nat
           /\ schema.nodes \in Seq(ToSet(schema.nodes))
           /\ \A node \in ToSet(schema.nodes) :
                /\ node.fields \in Seq(ToSet(node.fields)) /\ node.links \in Seq(ToSet(node.links))
                /\ \A f \in ToSet(node.fields) : FieldSized(f)
                /\ node.singleton \in BOOLEAN /\ (node.singleton => 1 \in DOMAIN node.fields)
                /\ ~node.singleton => {node.name} \X (0 .. numNodeInstances - 1) \subseteq Instances
                /\ \A l \in ToSet(node.links) : {l.name} \X (0 .. numNodeInstances - 1) \subseteq Instances
<1>1. OrderOK(order)
  BY OrdersAssumption
<1> DEFINE s == order.schema
<1>2. /\ numNodeInstances \in Nat
      /\ s.classes \in Seq(ToSet(s.classes)) /\ DistinctNames(s.classes)
      /\ \A c \in ToSet(s.classes) : c.dim \in Nat \cup DimNames
      /\ s.nodes \in Seq(ToSet(s.nodes)) /\ SchemaOK(s)
      /\ \A n \in ToSet(s.nodes) :
            /\ n.fields \in Seq(ToSet(n.fields)) /\ n.links \in Seq(ToSet(n.links)) /\ NodeOK(n)
            /\ \A f \in ToSet(n.fields) : f.type = "tensor" =>
                f.dim \in Seq(ToSet(f.dim)) /\ \A x \in ToSet(f.dim) : x.d \in Nat \cup DimNames
            /\ ~n.singleton => {n.name} \X (0 .. numNodeInstances - 1) \subseteq Instances
  BY <1>1, InfAssumption DEF OrderOK, numNodeInstances
<1>3. schema = s
  BY DEF schema
<1> HIDE DEF s
<1>4. \A c \in ToSet(s.classes) : c.dim \in Nat
  BY <1>2, <1>3 DEF IsVariable
<1>5. ASSUME NEW n \in ToSet(s.nodes)
      PROVE  /\ \A f \in ToSet(n.fields) : FieldSized(f)
             /\ n.singleton \in BOOLEAN /\ (n.singleton => 1 \in DOMAIN n.fields)
  <2>1. NodeOK(n) /\ n.fields \in Seq(ToSet(n.fields))
    BY <1>2
  <2>2. n.singleton \in BOOLEAN /\ (n.singleton => 1 \in DOMAIN n.fields)
    BY <2>1 DEF NodeOK
  <2>3. ASSUME NEW f \in ToSet(n.fields) PROVE FieldSized(f)
    <3>1. PICK i \in DOMAIN n.fields : f = n.fields[i]
      BY DEF ToSet
    <3>2. FieldOK(f)
      BY <2>1, <3>1 DEF NodeOK
    <3>3. f.type \in {"tensor", "category"}
      BY <3>2 DEF FieldOK
    <3>4. CASE f.type = "tensor"
      <4>1. f.dim \in Seq(ToSet(f.dim)) /\ \A x \in ToSet(f.dim) : x.d \in Nat \cup DimNames
        BY <1>2, <3>4
      <4>2. TensorOK(f)
        BY <3>2, <3>4 DEF FieldOK
      <4>3. \A j \in DOMAIN f.dim : f.dim[j].d \notin DimNames
        BY <1>3, <3>4 DEF IsVariable
      <4>4. \A j \in DOMAIN f.dim : f.dim[j].d \in Nat
        BY <4>1, <4>3 DEF ToSet
      <4>5. QED
        BY <3>3, <4>1, <4>2, <4>4 DEF FieldSized, TensorOK
    <3>5. QED
      BY <3>3, <3>4 DEF FieldSized
  <2>4. QED
    BY <2>2, <2>3
<1>6. ASSUME NEW n \in ToSet(s.nodes), NEW l \in ToSet(n.links)
      PROVE  {l.name} \X (0 .. numNodeInstances - 1) \subseteq Instances
  <2>1. l.name \in Names(s.nodes) /\ ~Get(s.nodes, l.name).singleton
    BY <1>2 DEF SchemaOK, LinksOK
  <2>2. Get(s.nodes, l.name) \in ToSet(s.nodes) /\ Get(s.nodes, l.name).name = l.name
    BY <2>1, GetFrom DEF ToSet
  <2>3. QED
    BY <1>2, <2>1, <2>2
<1>7. QED
  BY <1>2, <1>3, <1>4, <1>5, <1>6

\* The file or directory of a node is made.
LEMMA NodeFilesMade ==
    ASSUME order \in Orders, ~IsVariable(schema), NEW node \in ToSet(schema.nodes),
           NEW f \in NodeFiles(schema, node, numNodeInstances)
    PROVE  FileMade(f)
<1>1. /\ numNodeInstances \in Nat
      /\ node.fields \in Seq(ToSet(node.fields)) /\ \A g \in ToSet(node.fields) : FieldSized(g)
      /\ node.singleton \in BOOLEAN /\ (node.singleton => 1 \in DOMAIN node.fields)
  BY OrderParts
<1>2. CASE node.singleton
  <2>1. FieldSized(node.fields[1])
    BY <1>1, <1>2 DEF ToSet
  <2>2. f \in FieldFiles(schema, node.fields[1], node.name, <<>>)
    BY <1>2 DEF NodeFiles
  <2>3. FileRead(f) /\ f.type # "directory"
    BY <2>1, <2>2, FieldFilesParts
  <2>4. QED
    BY <2>3 DEF FileMade
<1>3. CASE ~node.singleton
  <2> DEFINE sets == [i \in DOMAIN node.fields |->
                        FieldFiles(schema, node.fields[i], node.fields[i].name, <<numNodeInstances>>)]
  <2>1. PICK fs \in OneOfEach(sets) : f = [name |-> node.name, type |-> "directory", files |-> fs]
    BY <1>3 DEF NodeFiles
  <2>2. DOMAIN sets = 1 .. Len(node.fields) /\ Len(node.fields) \in Nat
    BY <1>1
  <2>3. /\ fs \in Seq(ToSet(fs)) /\ DOMAIN fs = 1 .. Len(node.fields)
        /\ \A i \in 1 .. Len(node.fields) : fs[i] \in sets[i]
    <3> HIDE DEF sets
    <3>1. QED
      BY <2>1, <2>2, OneOfEachParts
  <2>4. ASSUME NEW i \in 1 .. Len(node.fields)
        PROVE  FileRead(fs[i]) /\ fs[i].type # "directory"
    <3>1. i \in DOMAIN node.fields /\ FieldSized(node.fields[i])
      BY <1>1, <2>2 DEF ToSet
    <3>2. fs[i] \in FieldFiles(schema, node.fields[i], node.fields[i].name, <<numNodeInstances>>)
      BY <2>3, <3>1
    <3>3. QED
      BY <1>1, <3>1, <3>2, FieldFilesParts
  <2>5. \A g \in ToSet(fs) : FileRead(g) /\ g.type # "directory"
    BY <2>3, <2>4 DEF ToSet
  <2>6. QED
    BY <2>1, <2>3, <2>5 DEF FileMade, FileRead
<1>4. QED
  BY <1>1, <1>2, <1>3

\* The links that are made lead from an instance to those of a node.
Linkable(entry) ==
    /\ entry.from \in Instances
    /\ {entry.link.name} \X (0 .. numNodeInstances - 1) \subseteq Instances

\* The nested loops over nodes, instances and links.
LEMMA LinkPlanParts ==
    ASSUME order \in Orders, ~IsVariable(schema), NEW e \in DOMAIN LinkPlan
    PROVE  Linkable(LinkPlan[e])
<1> DEFINE OfInstance(node, i) ==
               [t \in DOMAIN node.links |-> [from |-> <<node.name, i>>, link |-> node.links[t]]]
           Each(node) == [i \in 1 .. numNodeInstances |-> OfInstance(node, i - 1)]
           All == [m \in DOMAIN WithInstances |-> FlattenSeq(Each(WithInstances[m]))]
           L == UNION {ToSet(node.links) : node \in ToSet(WithInstances)}
           E == {x \in [from : Instances, link : L] : Linkable(x)}
<1>1. LinkPlan = FlattenSeq(All)
  BY DEF LinkPlan
<1>2. /\ numNodeInstances \in Nat /\ schema.nodes \in Seq(ToSet(schema.nodes))
      /\ \A node \in ToSet(schema.nodes) :
            /\ node.links \in Seq(ToSet(node.links)) /\ node.singleton \in BOOLEAN
            /\ ~node.singleton => {node.name} \X (0 .. numNodeInstances - 1) \subseteq Instances
            /\ \A l \in ToSet(node.links) : {l.name} \X (0 .. numNodeInstances - 1) \subseteq Instances
  BY OrderParts
<1>3. /\ WithInstances \in Seq(ToSet(schema.nodes))
      /\ \A m \in DOMAIN WithInstances :
            /\ WithInstances[m] \in ToSet(schema.nodes) /\ WithInstances[m] \in ToSet(WithInstances)
            /\ ~WithInstances[m].singleton
  <2> DEFINE P == {m \in DOMAIN schema.nodes : ~schema.nodes[m].singleton}
             w == Picked(schema.nodes, P)
  <2>1. /\ w \in Seq(ToSet(schema.nodes))
        /\ ToSet(w) = {schema.nodes[i] : i \in {i \in DOMAIN schema.nodes : i \in P}}
    <3> HIDE DEF P
    <3>1. QED
      BY <1>2, PickedParts
  <2>2. WithInstances = w
    BY DEF WithInstances
  <2>3. ASSUME NEW m \in DOMAIN w
        PROVE  w[m] \in ToSet(schema.nodes) /\ ~w[m].singleton
    <3>1. w[m] \in ToSet(w)
      BY DEF ToSet
    <3> HIDE DEF w
    <3>2. QED
      BY <2>1, <3>1 DEF ToSet
  <2>4. QED
    BY <2>1, <2>2, <2>3 DEF ToSet
<1>4. ASSUME NEW m \in DOMAIN WithInstances
      PROVE  FlattenSeq(Each(WithInstances[m])) \in Seq(E)
  <2> DEFINE node == WithInstances[m]
  <2>1. /\ node \in ToSet(schema.nodes) /\ node \in ToSet(WithInstances) /\ ~node.singleton
        /\ node.links \in Seq(ToSet(node.links))
    BY <1>2, <1>3
  <2> HIDE DEF node
  <2>2. ASSUME NEW i \in 1 .. numNodeInstances PROVE OfInstance(node, i - 1) \in Seq(E)
    <3>1. i - 1 \in 0 .. numNodeInstances - 1
      BY <1>2
    <3>2. ASSUME NEW t \in DOMAIN node.links
          PROVE  [from |-> <<node.name, i - 1>>, link |-> node.links[t]] \in E
      <4>1. node.links[t] \in ToSet(node.links)
        BY DEF ToSet
      <4>2. <<node.name, i - 1>> \in Instances
        BY <1>2, <2>1, <3>1
      <4>3. Linkable([from |-> <<node.name, i - 1>>, link |-> node.links[t]])
        BY <1>2, <2>1, <4>1, <4>2 DEF Linkable
      <4>4. node.links[t] \in L
        BY <2>1, <4>1
      <4> HIDE DEF L
      <4>5. QED
        BY <4>2, <4>3, <4>4
    <3> HIDE DEF E
    <3>3. Len(node.links) \in Nat /\ DOMAIN node.links = 1 .. Len(node.links)
      BY <2>1
    <3>4. QED
      BY <3>2, <3>3, IsASeq
  <2>3. Each(node) \in Seq(Seq(E))
    <3> HIDE DEF E, OfInstance
    <3>1. QED
      BY <1>2, <2>2, IsASeq
  <2>4. FlattenSeq(Each(node)) \in Seq(E)
    <3> HIDE DEF E, Each
    <3>1. QED
      BY <2>3, FlattenedSeq
  <2>5. QED
    BY <2>4 DEF node
<1>5. FlattenSeq(All) \in Seq(E)
  <2> HIDE DEF E, Each
  <2>1. DOMAIN WithInstances = 1 .. Len(WithInstances) /\ Len(WithInstances) \in Nat
    BY <1>3
  <2>2. All \in Seq(Seq(E))
    BY <1>4, <2>1, IsASeq
  <2> HIDE DEF All
  <2>3. QED
    BY <2>2, FlattenedSeq
<1>6. LinkPlan[e] \in E
  <2> HIDE DEF E, All
  <2>1. QED
    BY <1>1, <1>5
<1>7. QED
  BY <1>6

\* Two class files have different names.
ClassesDiffer(files) ==
    \A i, j \in DOMAIN files :
        files[i].type = "class" /\ files[j].type = "class" /\ files[i].name = files[j].name => i = j

\* While a dataset is generated, what there is of it is read, the sample at work included.
GenInv ==
    phase = "generate" =>
        /\ order \in Orders /\ ~IsVariable(schema)
        /\ dataset \in Seq(ToSet(dataset)) /\ ClassesDiffer(dataset)
        /\ \A f \in AllFiles(dataset) : FileRead(f)
        /\ made \in Seq(ToSet(made)) /\ \A f \in ToSet(made) : FileMade(f)
        /\ newLinks \in Graphs /\ IsFiniteSet(newLinks)

\* At the start there are the class files.
LEMMA GenInvInit == RoundTripInit => GenInv
<1> SUFFICES ASSUME RoundTripInit, phase = "generate"
             PROVE  /\ order \in Orders /\ ~IsVariable(schema)
                    /\ dataset \in Seq(ToSet(dataset)) /\ ClassesDiffer(dataset)
                    /\ \A f \in AllFiles(dataset) : FileRead(f)
                    /\ made \in Seq(ToSet(made)) /\ \A f \in ToSet(made) : FileMade(f)
                    /\ newLinks \in Graphs /\ IsFiniteSet(newLinks)
  BY DEF GenInv
<1> DEFINE cs == schema.classes
<1>1. /\ order \in Orders /\ ~IsVariable(schema) /\ made = <<>> /\ newLinks = {}
      /\ dataset = [i \in DOMAIN cs |-> ClassFile(cs[i])]
  BY DEF RoundTripInit, GenerateInit, InferInit, schema
<1>2. cs \in Seq(ToSet(cs)) /\ DistinctNames(cs) /\ \A c \in ToSet(cs) : c.dim \in Nat
  BY <1>1, OrderParts
<1> HIDE DEF cs
<1>3. Len(cs) \in Nat /\ DOMAIN cs = 1 .. Len(cs)
  BY <1>2
<1>4. \A i \in 1 .. Len(cs) :
          FileRead(ClassFile(cs[i])) /\ ClassFile(cs[i]).type = "class" /\ ClassFile(cs[i]).name = cs[i].name
  BY <1>2, <1>3, ClassFileParts DEF ToSet
<1>5. DOMAIN dataset = 1 .. Len(cs) /\ \A i \in 1 .. Len(cs) : dataset[i] = ClassFile(cs[i])
  BY <1>1, <1>3
<1>6. dataset \in Seq(ToSet(dataset))
  <2>1. \A i \in 1 .. Len(cs) : ClassFile(cs[i]) \in {ClassFile(c) : c \in ToSet(cs)}
    BY <1>3 DEF ToSet
  <2>2. dataset \in Seq({ClassFile(c) : c \in ToSet(cs)})
    BY <1>1, <1>3, <2>1, IsASeq
  <2>3. QED
    BY <2>2, SeqOfItsElements
<1>7. ClassesDiffer(dataset)
  BY <1>2, <1>3, <1>4, <1>5 DEF ClassesDiffer, DistinctNames
<1>8. \A f \in ToSet(dataset) : FileRead(f) /\ f.type = "class"
  BY <1>4, <1>5 DEF ToSet
<1>9. AllFiles(dataset) = ToSet(dataset)
  <2>1. FilesIn(ToSet(dataset)) = {}
    BY <1>8 DEF FilesIn
  <2>2. FilesIn({}) = {}
    BY DEF FilesIn
  <2>3. QED
    BY <2>1, <2>2 DEF AllFiles
<1>10. made \in Seq(ToSet(made)) /\ \A f \in ToSet(made) : FileMade(f)
  <2>1. <<>> \in Seq(ToSet(<<>>)) /\ ToSet(<<>>) = {}
    BY DEF ToSet
  <2>2. QED
    BY <1>1, <2>1
<1>11. newLinks \in Graphs /\ IsFiniteSet(newLinks)
  BY <1>1, FS_EmptySet DEF Graphs
<1>12. QED
  BY <1>1, <1>6, <1>7, <1>8, <1>9, <1>10, <1>11

\* The children of a sample are made.
LEMMA NodesGenerated ==
    ASSUME GenInv, GenerateNodes
    PROVE  GenInv'
<1>1. /\ phase = "generate" /\ phase' = phase /\ dataset' = dataset /\ order' = order /\ newLinks' = {}
      /\ made' \in OneOfEach([i \in DOMAIN schema.nodes |->
                                NodeFiles(schema, schema.nodes[i], numNodeInstances)])
  BY DEF GenerateNodes, inferVars
<1>2. /\ order \in Orders /\ ~IsVariable(schema)
      /\ dataset \in Seq(ToSet(dataset)) /\ ClassesDiffer(dataset)
      /\ \A f \in AllFiles(dataset) : FileRead(f)
  BY <1>1 DEF GenInv
<1>3. schema' = schema
  BY <1>1 DEF schema
<1>4. schema.nodes \in Seq(ToSet(schema.nodes))
  BY <1>2, OrderParts
<1>5. Len(schema.nodes) \in Nat /\ DOMAIN schema.nodes = 1 .. Len(schema.nodes)
  BY <1>4
<1> DEFINE sets == [i \in DOMAIN schema.nodes |-> NodeFiles(schema, schema.nodes[i], numNodeInstances)]
<1>6. DOMAIN sets = 1 .. Len(schema.nodes)
  BY <1>5
<1>7. /\ made' \in Seq(ToSet(made')) /\ DOMAIN made' = 1 .. Len(schema.nodes)
      /\ \A i \in 1 .. Len(schema.nodes) : made'[i] \in sets[i]
  <2> HIDE DEF sets
  <2>1. made' \in OneOfEach(sets)
    BY <1>1 DEF sets
  <2>2. QED
    BY <1>5, <1>6, <2>1, OneOfEachParts
<1>8. ASSUME NEW i \in 1 .. Len(schema.nodes) PROVE FileMade(made'[i])
  <2>1. schema.nodes[i] \in ToSet(schema.nodes)
    BY <1>5 DEF ToSet
  <2>2. made'[i] \in NodeFiles(schema, schema.nodes[i], numNodeInstances)
    BY <1>5, <1>7
  <2>3. QED
    BY <1>2, <2>1, <2>2, NodeFilesMade
<1>9. \A f \in ToSet(made') : FileMade(f)
  BY <1>7, <1>8 DEF ToSet
<1>10. newLinks' \in Graphs /\ IsFiniteSet(newLinks')
  BY <1>1, FS_EmptySet DEF Graphs
<1>11. ToSet(made)' = ToSet(made') /\ ToSet(dataset)' = ToSet(dataset) /\ AllFiles(dataset)' = AllFiles(dataset)
  BY <1>1
<1>12. QED
  BY <1>1, <1>2, <1>3, <1>7, <1>9, <1>10, <1>11 DEF GenInv

\* Links are made between instances.
LEMMA LinksGenerated ==
    ASSUME GenInv, GenerateLinks, phase' = "generate"
    PROVE  GenInv'
<1> DEFINE from == LinkPlan[at].from
           link == LinkPlan[at].link
           lBound == link.dim[1]
           uBound == Min({link.dim[2], numNodeInstances})
<1>1. phase = "generate" /\ at \in DOMAIN LinkPlan
  BY DEF GenerateLinks
<1>2. /\ order \in Orders /\ ~IsVariable(schema)
      /\ dataset \in Seq(ToSet(dataset)) /\ ClassesDiffer(dataset)
      /\ \A f \in AllFiles(dataset) : FileRead(f)
      /\ made \in Seq(ToSet(made)) /\ \A f \in ToSet(made) : FileMade(f)
      /\ newLinks \in Graphs /\ IsFiniteSet(newLinks)
  BY <1>1 DEF GenInv
<1>3. from \in Instances /\ {link.name} \X (0 .. numNodeInstances - 1) \subseteq Instances
  <2>1. Linkable(LinkPlan[at])
    BY <1>1, <1>2, LinkPlanParts
  <2>2. QED
    BY <2>1 DEF Linkable
<1>4. ~Finish("AssertionError")
  BY DEF Finish
<1> HIDE DEF from, link, lBound, uBound
<1>5. PICK r \in 0 .. uBound - lBound :
          LET ys == Targets(from, link.name, r - lBound - countOut[from])
          IN  newLinks' = newLinks \cup {<<from, y>> : y \in ys}
                              \cup IF schema.undirected THEN {<<y, from>> : y \in ys} ELSE {}
  BY <1>4 DEF GenerateLinks, from, link, lBound, uBound
<1> DEFINE ys == Targets(from, link.name, r - lBound - countOut[from])
           forth == {<<from, y>> : y \in ys}
           back == IF schema.undirected THEN {<<y, from>> : y \in ys} ELSE {}
<1>6. newLinks' = newLinks \cup forth \cup back
  BY <1>5
<1>7. UNCHANGED <<order, made, dataset>>
  BY <1>4 DEF GenerateLinks, inferVars
<1>8. ys \subseteq {link.name} \X (0 .. numNodeInstances - 1)
  BY DEF Targets
<1>9. ys \subseteq Instances /\ IsFiniteSet(ys)
  <2>1. numNodeInstances \in Nat
    BY <1>2, OrderParts
  <2>2. IsFiniteSet(0 .. numNodeInstances - 1) /\ IsFiniteSet({link.name})
    <3>1. 0 \in Int /\ numNodeInstances - 1 \in Int
      BY <2>1
    <3> HIDE DEF link
    <3>2. IsFiniteSet(0 .. numNodeInstances - 1)
      BY <3>1, FS_Interval
    <3>3. QED
      BY <3>2, FS_Singleton
  <2>3. IsFiniteSet({link.name} \X (0 .. numNodeInstances - 1))
    BY <2>2, FS_Product
  <2> HIDE DEF ys
  <2>4. QED
    BY <1>3, <1>8, <2>3, FS_Subset
<1> HIDE DEF ys
<1>10. forth \subseteq {from} \X ys /\ back \subseteq ys \X {from}
  OBVIOUS
<1>11. forth \in Graphs /\ back \in Graphs
  BY <1>3, <1>9, <1>10 DEF Graphs
<1>12. IsFiniteSet(forth) /\ IsFiniteSet(back)
  <2>1. IsFiniteSet({from} \X ys) /\ IsFiniteSet(ys \X {from})
    BY <1>9, FS_Singleton, FS_Product
  <2> HIDE DEF forth, back
  <2>2. QED
    BY <1>10, <2>1, FS_Subset
<1> HIDE DEF forth, back
<1>13. newLinks' \in Graphs /\ IsFiniteSet(newLinks')
  <2>1. IsFiniteSet(newLinks \cup forth)
    BY <1>2, <1>12, FS_Union
  <2>2. IsFiniteSet((newLinks \cup forth) \cup back)
    BY <1>12, <2>1, FS_Union
  <2>3. QED
    BY <1>2, <1>6, <1>11, <2>2 DEF Graphs
<1>14. schema' = schema
  BY <1>7 DEF schema
<1>15. QED
  BY <1>2, <1>7, <1>13, <1>14 DEF GenInv

\* A sample is added, which is a directory.
LEMMA SampleGenerated ==
    ASSUME GenInv, GenerateSample
    PROVE  GenInv'
<1> DEFINE file == [name |-> "links", type |-> "links", links |-> newLinks]
           tail == IF WithInstances = <<>> THEN <<>> ELSE <<file>>
           children == made \o tail
           sample == [name |-> Len(Samples) + 1, type |-> "directory", files |-> children]
<1>1. /\ phase = "generate" /\ phase' = phase /\ order' = order /\ made' = <<>> /\ newLinks' = {}
      /\ dataset' = Append(dataset, sample)
  BY DEF GenerateSample
<1>2. /\ order \in Orders /\ ~IsVariable(schema)
      /\ dataset \in Seq(ToSet(dataset)) /\ ClassesDiffer(dataset)
      /\ \A f \in AllFiles(dataset) : FileRead(f)
      /\ made \in Seq(ToSet(made)) /\ \A f \in ToSet(made) : FileMade(f)
      /\ newLinks \in Graphs /\ IsFiniteSet(newLinks)
  BY <1>1 DEF GenInv
<1>3. FileMade(file)
  BY <1>2 DEF FileMade, FileRead
<1> HIDE DEF file
<1>4. /\ children \in Seq(ToSet(children))
      /\ \A f \in ToSet(children) : FileMade(f)
  <2> DEFINE All == ToSet(made) \cup {file}
  <2>1. made \in Seq(All)
    <3>1. ToSet(made) \subseteq All
      OBVIOUS
    <3> HIDE DEF All
    <3>2. QED
      BY <1>2, <3>1
  <2>2. <<>> \in Seq(All) /\ <<file>> \in Seq(All)
    OBVIOUS
  <2>3. tail \in Seq(All)
    BY <2>2, Zenon
  <2> HIDE DEF All, tail
  <2>4. children \in Seq(All)
    BY <2>1, <2>3
  <2> HIDE DEF children
  <2>5. \A f \in ToSet(children) : f \in All
    BY <2>4 DEF ToSet
  <2>6. QED
    BY <1>2, <1>3, <2>4, <2>5, SeqOfItsElements DEF All
<1> HIDE DEF children
<1>5. sample.type = "directory" /\ sample.files = children
  OBVIOUS
<1>6. FileRead(sample)
  BY <1>4, <1>5 DEF FileRead
<1> HIDE DEF sample
<1>7. /\ Len(dataset) \in Nat /\ DOMAIN dataset = 1 .. Len(dataset)
      /\ DOMAIN Append(dataset, sample) = 1 .. Len(dataset) + 1
      /\ \A i \in 1 .. Len(dataset) : Append(dataset, sample)[i] = dataset[i]
      /\ Append(dataset, sample)[Len(dataset) + 1] = sample
  BY <1>2
<1>8. ToSet(Append(dataset, sample)) = ToSet(dataset) \cup {sample}
  <2>1. 1 .. Len(dataset) + 1 = 1 .. Len(dataset) \cup {Len(dataset) + 1}
    BY <1>7
  <2>2. QED
    BY <1>7, <2>1 DEF ToSet
<1>9. Append(dataset, sample) \in Seq(ToSet(Append(dataset, sample)))
  <2>1. dataset \in Seq(ToSet(dataset) \cup {sample})
    BY <1>2
  <2>2. Append(dataset, sample) \in Seq(ToSet(dataset) \cup {sample})
    BY <2>1
  <2>3. QED
    BY <1>8, <2>2
<1>10. ClassesDiffer(Append(dataset, sample))
  <2>1. sample.type # "class"
    BY <1>5
  <2>2. \A i \in 1 .. Len(dataset) + 1 : i \in 1 .. Len(dataset) \/ i = Len(dataset) + 1
    BY <1>7
  <2>3. QED
    BY <1>2, <1>7, <2>1, <2>2 DEF ClassesDiffer
<1>11. \A f \in AllFiles(Append(dataset, sample)) : FileRead(f)
  <2>1. FilesIn(ToSet(dataset) \cup {sample}) = FilesIn(ToSet(dataset)) \cup ToSet(children)
    BY <1>5 DEF FilesIn
  <2>2. FilesIn(FilesIn(ToSet(dataset)) \cup ToSet(children))
            = FilesIn(FilesIn(ToSet(dataset))) \cup FilesIn(ToSet(children))
    BY DEF FilesIn
  <2>3. \A f \in ToSet(children) \cup FilesIn(ToSet(children)) : FileRead(f)
    BY <1>4 DEF FilesIn, FileMade
  <2>4. QED
    BY <1>2, <1>6, <1>8, <2>1, <2>2, <2>3 DEF AllFiles
<1>12. made' \in Seq(ToSet(made')) /\ \A f \in ToSet(made') : FileMade(f)
  <2>1. <<>> \in Seq(ToSet(<<>>)) /\ ToSet(<<>>) = {}
    BY DEF ToSet
  <2>2. QED
    BY <1>1, <2>1
<1>13. newLinks' \in Graphs /\ IsFiniteSet(newLinks')
  BY <1>1, FS_EmptySet DEF Graphs
<1>14. schema' = schema
  BY <1>1 DEF schema
<1>15. QED
  BY <1>1, <1>2, <1>9, <1>10, <1>11, <1>12, <1>13, <1>14 DEF GenInv

\* The generated dataset is as if it had been read.
LEMMA GeneratedIsTree ==
    ASSUME GenInv, phase = "generate"
    PROVE  TreeOK
<1>1. /\ dataset \in Seq(ToSet(dataset)) /\ ClassesDiffer(dataset)
      /\ \A f \in AllFiles(dataset) : FileRead(f)
  BY DEF GenInv
<1> DEFINE P == {i \in DOMAIN dataset : dataset[i].type = "class"}
<1>2. P \subseteq DOMAIN dataset /\ \A i \in P : dataset[i].type = "class"
  OBVIOUS
<1>3. ClassFiles = Picked(dataset, P)
  BY DEF ClassFiles, OfKind
<1> HIDE DEF P
<1>4. /\ Picked(dataset, P) \in Seq(ToSet(dataset))
      /\ \E h : PickedUpTo(dataset, P, Len(dataset), Picked(dataset, P), h)
  BY <1>1, PickedPlaces
<1> DEFINE q == Picked(dataset, P)
<1>5. PICK h : PickedUpTo(dataset, P, Len(dataset), q, h)
  BY <1>4
<1>6. DOMAIN q = 1 .. Len(q) /\ DOMAIN dataset = 1 .. Len(dataset)
  BY <1>1, <1>4
<1> HIDE DEF q
<1>7. /\ \A m \in DOMAIN q : h[m] \in DOMAIN dataset /\ h[m] \in P /\ q[m] = dataset[h[m]]
      /\ \A a, b \in DOMAIN q : h[a] = h[b] => a = b
  BY <1>5, <1>6 DEF PickedUpTo
<1>8. DistinctNames(q)
  BY <1>1, <1>2, <1>7 DEF DistinctNames, ClassesDiffer
<1>9. QED
  BY <1>1, <1>3, <1>8 DEF TreeOK, q

Generate == GenerateNodes \/ GenerateLinks \/ GenerateSample \/ Generated

\* What inference knows of itself holds while a dataset is generated, and after it.
LEMMA GenerateKeepsCall ==
    ASSUME CallInv, GenInv, Generate
    PROVE  /\ CallInv' /\ UNCHANGED cycleVars /\ ~Busy'
           /\ phase' \in {"generate", "root", "done"} /\ outcome' # "ok"
<1>1. phase = "generate" /\ UNCHANGED cycleVars
  BY DEF Generate, GenerateNodes, GenerateLinks, GenerateSample, Generated, Finish
<1>2. /\ CallTypes /\ CallTree /\ CallStart /\ CallPlace /\ CallSearch /\ ExploreInv
      /\ outcome = Null /\ Null # "ok" /\ ~running
  BY <1>1, ErrorsDiffer DEF CallInv, CallTree, CallSearch
<1>3. ExploreInv'
  BY <1>1, <1>2, ExploreInvStep
<1>4. CASE Finish("AssertionError")
  <2>1. CallInv'
    BY <1>2, <1>3, <1>4, FinishKeepsCall
  <2>2. QED
    BY <1>1, <1>4, <2>1 DEF Finish, Busy
<1>5. CASE ~Finish("AssertionError")
  <2>1. /\ UNCHANGED <<k, schNodes, schCyclic, schFanin, schUndirected, outcome>>
        /\ phase' = "generate" \/ (phase' = "root" /\ dataset' = dataset)
    BY <1>1, <1>5 DEF Generate, GenerateNodes, GenerateLinks, GenerateSample, Generated, inferVars
  <2>2. ~Busy' /\ outcome' = Null /\ outcome' # "ok" /\ ~running'
    BY <1>1, <1>2, <2>1 DEF Busy, cycleVars, searchVars
  <2>3. phase' = "root" => TreeOK'
    BY <1>1, <2>1, GeneratedIsTree, SameDataset
  <2>4. CallTypes'
    BY <1>2, <2>1, Zenon DEF CallTypes
  <2>5. CallTree' /\ CallPlace' /\ CallSearch'
    BY <2>1, <2>2, <2>3 DEF CallTree, CallPlace, CallSearch
  <2>6. CallStart'
    BY <1>1, <1>2, <2>1, Zenon DEF CallStart
  <2>7. QED
    BY <1>1, <1>3, <2>1, <2>2, <2>4, <2>5, <2>6 DEF CallInv
<1>6. QED
  BY <1>4, <1>5

\* Steps of inference come after generation.
LEMMA InferenceKeepsGeneration ==
    ASSUME InferNext
    PROVE  phase # "generate" /\ phase' # "generate"
<1>1. CASE ReadDataset \/ SortRoot \/ BeginSample \/ SampleNodes
  BY <1>1 DEF ReadDataset, SortRoot, BeginSample, SampleNodes, Finish
<1>2. CASE ImplicitLinks \/ SampleLinks \/ CyclicReturned \/ BuildSchema
  BY <1>2 DEF ImplicitLinks, SampleLinks, CyclicReturned, BuildSchema, NextSample, Finish
<1>3. CASE Search
  BY <1>3 DEF Search, inferVars
<1>4. QED
  BY <1>1, <1>2, <1>3 DEF InferNext

\* Every step keeps what is known of generation.
LEMMA GenInvStep ==
    ASSUME GenInv, [RoundTripNext]_roundTripVars
    PROVE  GenInv'
<1>1. CASE GenerateNodes
  BY <1>1, NodesGenerated
<1>2. CASE GenerateLinks
  <2>1. CASE phase' = "generate"
    BY <1>2, <2>1, LinksGenerated
  <2>2. QED
    BY <2>1 DEF GenInv
<1>3. CASE GenerateSample
  BY <1>3, SampleGenerated
<1>4. CASE Generated
  BY <1>4 DEF Generated, GenInv
<1>5. CASE InferNext
  BY <1>5, InferenceKeepsGeneration DEF GenInv
<1>6. CASE UNCHANGED roundTripVars
  <2>1. UNCHANGED <<phase, order, dataset, made, newLinks>>
    BY <1>6 DEF roundTripVars, inferVars, genVars
  <2>2. UNCHANGED schema /\ UNCHANGED AllFiles(dataset)
    BY <2>1 DEF schema
  <2>3. QED
    BY <2>1, <2>2 DEF GenInv
<1>7. QED
  BY <1>1, <1>2, <1>3, <1>4, <1>5, <1>6 DEF RoundTripNext

InferInv == CallInv /\ NodesInv /\ GenInv

\* A step is one of generation or one of inference.
LEMMA RoundTripStep ==
    ASSUME [RoundTripNext]_roundTripVars
    PROVE  Generate \/ [InferNext]_<<inferVars, cycleVars>>
BY DEF RoundTripNext, roundTripVars, Generate

\* The invariants hold in every state of every call.
LEMMA InferInvariant == RoundTripSpec => []InferInv
<1>1. RoundTripInit => InferInv
  <2> SUFFICES ASSUME RoundTripInit PROVE CallInv /\ NodesInv
    BY GenInvInit DEF InferInv
  <2>1. StartInit /\ phase \in {"generate", "read"} /\ (phase = "read" => dataset \in Datasets)
    BY DEF RoundTripInit, GenerateInit, InferInit
  <2>2. QED
    BY <2>1, CallInvInit, ErrorsDiffer DEF StartInit, NodesInv, Busy
<1>2. ASSUME InferInv, [RoundTripNext]_roundTripVars PROVE InferInv'
  <2>1. GenInv'
    BY <1>2, GenInvStep DEF InferInv
  <2>2. CASE Generate
    <3>1. CallInv' /\ ~Busy' /\ phase' \in {"generate", "root", "done"}
      BY <1>2, <2>2, GenerateKeepsCall DEF InferInv
    <3>2. NodesInv'
      BY <3>1 DEF NodesInv
    <3>3. QED
      BY <2>1, <3>1, <3>2 DEF InferInv
  <2>3. CASE [InferNext]_<<inferVars, cycleVars>>
    BY <1>2, <2>1, <2>3, CallInvStep, NodesInvStep DEF InferInv
  <2>4. QED
    BY <1>2, <2>2, <2>3, RoundTripStep
<1>3. QED
  BY <1>1, <1>2, PTL DEF RoundTripSpec

\* If inferSchema returns a schema and no sample has a class file, then every sample has
\* exactly the nodes of the schema, each of the kind, with the fields, the
\* dimensions and the classes that the schema says, for every dataset.
THEOREM SchemaIsThatOfEverySample == RoundTripSpec => []SchemaFitsSamples
<1>1. InferInv => SchemaFitsSamples
  <2> SUFFICES ASSUME InferInv, outcome = "ok", NoClassInSamples
               PROVE  \A i \in DOMAIN Samples : Described(i)
    BY DEF SchemaFitsSamples, Described
  <2>1. TreeOK /\ k \in Nat \ {0} /\ k > Len(Samples) /\ phase = "done"
    BY DEF InferInv, CallInv, CallTypes, CallTree, CallPlace, Busy
  <2>2. DOMAIN Samples = 1 .. Len(Samples) /\ Len(Samples) \in Nat
    BY <2>1, SampleParts
  <2>3. \A i \in 1 .. k - 1 : Described(i)
    BY <2>1 DEF InferInv, NodesInv, Handled, Busy
  <2>4. QED
    BY <2>1, <2>2, <2>3
<1>2. QED
  BY <1>1, InferInvariant, PTL

------------------------------------------------------------------------------
(***************************************************************************)
(* The flags.  A links file is looked at once, together with the flags of  *)
(* the samples before it: what matters is that the graph of each of them   *)
(* is judged as directed or undirected as the whole dataset is.            *)
(***************************************************************************)

\* All samples have links, and directed ones do not follow undirected ones.
LinkedAlike ==
    /\ Samples # <<>> /\ \A i \in DOMAIN Samples : HasLinks(i)
    /\ IsUndirected(LinksOf(1)) => \A i \in DOMAIN Samples : IsUndirected(LinksOf(i))

\* The flags are those of the first n samples, that on cycles those of the first m.
FlagsAre(n, m, cyclic, fanin, und) ==
    /\ und <=> \A i \in 1 .. n : IsUndirected(LinksOf(i))
    /\ fanin <=> \E i \in 1 .. n : IsFanin(LinksOf(i), IsUndirected(LinksOf(1)))
    /\ cyclic <=> \E i \in 1 .. m : Decision!Cyclic(LinksOf(i), IsUndirected(LinksOf(1)))
    /\ \A i \in 1 .. n : LinksOf(i) \in Graphs /\ IsFiniteSet(LinksOf(i))

FlagsInv == Busy /\ LinkedAlike => FlagsAre(Flagged, k - 1, schCyclic, schFanin, schUndirected)

\* The dataset keeps its flags.
LEMMA FlagsKept ==
    ASSUME dataset' = dataset
    PROVE  /\ LinkedAlike' <=> LinkedAlike
           /\ \A n, m, c, f, u : FlagsAre(n, m, c, f, u)' <=> FlagsAre(n, m, c, f, u)
<1>1. Samples' = Samples /\ \A i : LinksOf(i)' = LinksOf(i) /\ HasLinks(i)' = HasLinks(i)
  BY SameDataset
<1>2. LinkedAlike' <=> LinkedAlike
  BY <1>1 DEF LinkedAlike, IsUndirected
<1>3. ASSUME NEW n, NEW m, NEW c, NEW f, NEW u
      PROVE  FlagsAre(n, m, c, f, u)' <=> FlagsAre(n, m, c, f, u)
  BY <1>1 DEF FlagsAre
<1>4. QED
  BY <1>2, <1>3

\* The links of the samples so far and of the next one are undirected if those of the
\* first one are.
LEMMA UndirectedAlike ==
    ASSUME LinkedAlike, NEW n \in DOMAIN Samples, DOMAIN Samples = 1 .. Len(Samples), Len(Samples) \in Nat
    PROVE  (\A i \in 1 .. n : IsUndirected(LinksOf(i))) <=> IsUndirected(LinksOf(1))
<1>1. 1 \in 1 .. n /\ 1 .. n \subseteq DOMAIN Samples
  OBVIOUS
<1>2. QED
  BY <1>1 DEF LinkedAlike

\* The flags after a links file.
LEMMA FlagsAdded ==
    ASSUME LinkedAlike, NEW n \in DOMAIN Samples, DOMAIN Samples = 1 .. Len(Samples), Len(Samples) \in Nat,
           NEW c, NEW f, NEW und, FlagsAre(n - 1, n - 1, c, f, und),
           LinksOf(n) \in Graphs, IsFiniteSet(LinksOf(n)),
           NEW u, u <=> und /\ IsUndirected(LinksOf(n)),
           NEW fan, fan <=> f \/ IsFanin(LinksOf(n), u), u \in BOOLEAN
    PROVE  FlagsAre(n, n - 1, c, fan, u)
<1>1. \A i \in 1 .. n : i = n \/ i \in 1 .. n - 1
  OBVIOUS
<1>2. n \in 1 .. n /\ 1 .. n - 1 \subseteq 1 .. n
  OBVIOUS
<1>3. u <=> \A i \in 1 .. n : IsUndirected(LinksOf(i))
  BY <1>1, <1>2 DEF FlagsAre
<1>4. u = IsUndirected(LinksOf(1))
  <2>1. u <=> IsUndirected(LinksOf(1))
    BY <1>3, UndirectedAlike
  <2>2. QED
    BY <2>1, Zenon DEF IsUndirected
<1>5. fan <=> \E i \in 1 .. n : IsFanin(LinksOf(i), IsUndirected(LinksOf(1)))
  BY <1>1, <1>2, <1>4 DEF FlagsAre
<1>6. \A i \in 1 .. n : LinksOf(i) \in Graphs /\ IsFiniteSet(LinksOf(i))
  BY <1>1 DEF FlagsAre
<1>7. QED
  BY <1>3, <1>5, <1>6 DEF FlagsAre

\* The verdict of isCyclic, once it has returned.
LEMMA VerdictOnSample ==
    ASSUME CallInv, phase = "cyclic", ~running
    PROVE  verdict = "cyclic" <=> Decision!Cyclic(LinksOf(k), schUndirected)
<1>1. links = LinksOf(k) /\ undirected = schUndirected /\ verdict # "none"
  BY DEF CallInv, CallSearch
<1>2. verdict \in {"none", "cyclic", "acyclic"} /\ DirectedVerdict /\ UndirectedVerdict
  BY DEF CallInv, ExploreInv, SearchInv, CycleTypeOK
<1>3. CASE undirected
  BY <1>1, <1>2, <1>3 DEF UndirectedVerdict, Decision!Cyclic
<1>4. CASE ~undirected
  BY <1>1, <1>2, <1>4 DEF DirectedVerdict, Decision!Cyclic
<1>5. QED
  BY <1>3, <1>4

\* A step that leaves the flags alone.
LEMMA FlagsUnchanged ==
    ASSUME FlagsInv, Busy, dataset' = dataset, Flagged' = Flagged, k' = k,
           UNCHANGED <<schCyclic, schFanin, schUndirected>>
    PROVE  FlagsInv'
<1>1. ASSUME LinkedAlike' PROVE FlagsAre(Flagged, k - 1, schCyclic, schFanin, schUndirected)
  BY <1>1, FlagsKept DEF FlagsInv
<1>2. ASSUME LinkedAlike'
      PROVE  FlagsAre(Flagged', k' - 1, schCyclic', schFanin', schUndirected')
  BY <1>1, <1>2
<1>3. ASSUME LinkedAlike'
      PROVE  FlagsAre(Flagged, k - 1, schCyclic, schFanin, schUndirected)'
  BY <1>2, <1>3, FlagsKept DEF FlagsAre
<1>4. QED
  BY <1>3 DEF FlagsInv

\* Every step keeps the flags right.
LEMMA FlagsInvStep ==
    ASSUME CallInv, FlagsInv, CallInv', [InferNext]_<<inferVars, cycleVars>>
    PROVE  FlagsInv'
<1>t. CallTypes /\ CallTree /\ CallStart /\ CallPlace /\ CallSearch
  BY DEF CallInv
<1>k. k \in Nat \ {0}
  BY <1>t DEF CallTypes
<1>o. phase # "done" => outcome # "ok"
  BY <1>t, ErrorsDiffer DEF CallTree
<1>f. ASSUME NEW how, Finish(how), how # "ok" PROVE FlagsInv'
  <2>1. phase' = "done" /\ ~Busy'
    BY <1>f DEF Finish, Busy
  <2>2. QED
    BY <2>1 DEF FlagsInv
<1>1. CASE ReadDataset
  <2>1. CASE Finish("unreadable")
    BY <1>f, <2>1
  <2>2. CASE ~Finish("unreadable")
    <3>1. phase = "read" /\ phase' = "root" /\ outcome' = outcome
      BY <1>1, <2>2 DEF ReadDataset
    <3>2. ~Busy'
      BY <1>o, <3>1 DEF Busy
    <3>3. QED
      BY <3>2 DEF FlagsInv
  <2>3. QED
    BY <2>1, <2>2
<1>2. CASE SortRoot
  <2>1. ASSUME NEW f, Finish(RootError(f)) PROVE FlagsInv'
    <3>1. RootError(f) # "ok"
      BY ErrorsDiffer DEF RootError
    <3>2. QED
      BY <1>f, <2>1, <3>1
  <2>2. CASE phase' = "sample" /\ k' = k /\ UNCHANGED <<schCyclic, schFanin, schUndirected>>
    <3>1. phase = "root" /\ k = 1
      BY <1>2, <1>t DEF SortRoot, CallStart
    <3>2. ~schCyclic' /\ ~schFanin' /\ schUndirected'
      BY <1>t, <2>2, <3>1, Zenon DEF CallStart
    <3>3. Flagged' = 0 /\ k' - 1 = 0 /\ 1 .. 0 = {}
      BY <2>2, <3>1 DEF Flagged
    <3>4. QED
      BY <3>2, <3>3 DEF FlagsInv, FlagsAre
  <2>3. QED
    BY <1>2, <2>1, <2>2 DEF SortRoot
<1>3. CASE BeginSample
  <2>1. CASE Finish("DatasetException")
    BY <1>f, <2>1
  <2>2. CASE ~Finish("DatasetException")
    <3>1. /\ phase = "sample" /\ phase' = "nodes"
          /\ UNCHANGED <<dataset, k, schCyclic, schFanin, schUndirected>>
      BY <1>3, <2>2 DEF BeginSample
    <3>2. Busy /\ Flagged' = Flagged
      BY <3>1 DEF Busy, Flagged
    <3>3. QED
      BY <3>1, <3>2, FlagsUnchanged
  <2>3. QED
    BY <2>1, <2>2
<1>4. CASE SampleNodes
  <2>1. CASE phase' = "links"
    <3>1. phase = "nodes" /\ UNCHANGED <<dataset, k, schCyclic, schFanin, schUndirected>>
      BY <1>4, <2>1 DEF SampleNodes, Finish
    <3>2. Busy /\ Flagged' = Flagged
      BY <2>1, <3>1 DEF Busy, Flagged
    <3>3. QED
      BY <3>1, <3>2, FlagsUnchanged
  <2>2. CASE phase' # "links"
    <3>1. phase' = "done" /\ dataset' = dataset /\ k' = k /\ phase = "nodes"
      BY <1>4, <2>2 DEF SampleNodes, Finish
    <3>2. Samples' = Samples /\ k <= Len(Samples) /\ Len(Samples) \in Nat
      BY <1>t, <3>1, SameDataset, SampleParts DEF CallPlace, CallTree, Busy
    <3>3. outcome' # "ok"
      BY <1>k, <3>1, <3>2 DEF CallInv, CallPlace
    <3>4. QED
      BY <3>1, <3>3 DEF FlagsInv, Busy
  <2>3. QED
    BY <2>1, <2>2
<1>5. CASE ImplicitLinks
  <2>1. phase = "links" /\ OfKind(Sample, "links") = <<>> /\ dataset' = dataset
    BY <1>5 DEF ImplicitLinks
  <2>2. k \in DOMAIN Samples
    BY <1>k, <1>t, <2>1, SampleParts DEF CallPlace, CallTree, Busy
  <2>3. ~HasLinks(k)
    BY <2>1 DEF Sample, HasLinks, Children
  <2>4. ~LinkedAlike'
    BY <2>1, <2>2, <2>3, FlagsKept DEF LinkedAlike
  <2>5. QED
    BY <2>4 DEF FlagsInv
<1>6. CASE SampleLinks
  <2> DEFINE g == OfKind(Sample, "links")[1].links
             u == schUndirected /\ IsUndirected(g)
  <2>0. phase = "links" /\ OfKind(Sample, "links") # <<>>
    BY <1>6 DEF SampleLinks
  <2>1. CASE Finish("DatasetException")
    BY <1>f, <2>1
  <2>2. CASE ~Finish("DatasetException")
    <3>1. /\ ~(Len(OfKind(Sample, "links")) > 1)
          /\ schUndirected' = u /\ schFanin' = (schFanin \/ IsFanin(g, u))
          /\ UNCHANGED <<dataset, schCyclic>>
      BY <1>6, <2>2 DEF SampleLinks
    <3>2. \/ schCyclic /\ phase' = "sample" /\ k' = k + 1
          \/ ~schCyclic /\ phase' = "cyclic" /\ k' = k
      BY <1>6, <2>2 DEF SampleLinks, NextSample
    <3>3. k \in DOMAIN Samples /\ DOMAIN Samples = 1 .. Len(Samples) /\ Len(Samples) \in Nat
      BY <1>k, <1>t, <2>0, SampleParts DEF CallPlace, CallTree, Busy
    <3>4. g = LinksOf(k) /\ LinksOf(k) \in Graphs /\ IsFiniteSet(LinksOf(k))
      BY <2>0, <3>1, LinksNow
    <3>5. u \in BOOLEAN
      BY DEF IsUndirected
    <3> HIDE DEF g
    <3>6. Flagged = k - 1 /\ Busy
      BY <2>0 DEF Flagged, Busy
    <3>7. Flagged' = k
      BY <1>k, <3>2 DEF Flagged
    <3>8. ASSUME LinkedAlike PROVE FlagsAre(k, k - 1, schCyclic', schFanin', schUndirected')
      <4>1. FlagsAre(k - 1, k - 1, schCyclic, schFanin, schUndirected)
        BY <3>6, <3>8 DEF FlagsInv
      <4>2. u <=> schUndirected /\ IsUndirected(LinksOf(k))
        BY <3>4
      <4> HIDE DEF u
      <4>3. schFanin' <=> schFanin \/ IsFanin(LinksOf(k), u)
        BY <3>1, <3>4
      <4>4. FlagsAre(k, k - 1, schCyclic, schFanin', u)
        BY <3>3, <3>4, <3>5, <3>8, <4>1, <4>2, <4>3, FlagsAdded
      <4>5. QED
        BY <3>1, <4>4
    <3>9. ASSUME LinkedAlike PROVE FlagsAre(k, k' - 1, schCyclic', schFanin', schUndirected')
      <4>1. CASE k' = k
        BY <3>8, <3>9, <4>1
      <4>2. CASE schCyclic /\ k' = k + 1
        <5>1. k' - 1 = k /\ 1 .. k - 1 \subseteq 1 .. k
          BY <1>k, <4>2
        <5>2. schCyclic'
          BY <3>1, <4>2
        <5>3. \E i \in 1 .. k : Decision!Cyclic(LinksOf(i), IsUndirected(LinksOf(1)))
          BY <3>8, <3>9, <5>1, <5>2 DEF FlagsAre
        <5>4. QED
          BY <3>8, <3>9, <5>1, <5>2, <5>3 DEF FlagsAre
      <4>3. QED
        BY <3>2, <4>1, <4>2
    <3>10. QED
      BY <3>1, <3>7, <3>9, FlagsKept DEF FlagsInv, FlagsAre
  <2>3. QED
    BY <2>1, <2>2
<1>7. CASE CyclicReturned
  <2>1. /\ ~running /\ phase = "cyclic" /\ phase' = "sample" /\ k' = k + 1
        /\ UNCHANGED <<dataset, schFanin, schUndirected>> /\ schCyclic' = (verdict = "cyclic")
    BY <1>7 DEF CyclicReturned, NextSample
  <2>2. Flagged = k /\ Flagged' = k /\ k' - 1 = k /\ Busy
    BY <1>k, <2>1 DEF Flagged, Busy
  <2>3. k \in DOMAIN Samples /\ DOMAIN Samples = 1 .. Len(Samples) /\ Len(Samples) \in Nat
    BY <1>k, <1>t, <2>1, SampleParts DEF CallPlace, CallTree, Busy
  <2>4. schCyclic' <=> Decision!Cyclic(LinksOf(k), schUndirected)
    BY <2>1, VerdictOnSample
  <2>5. schCyclic = FALSE
    BY <1>t, <2>1 DEF CallSearch
  <2>6. ASSUME LinkedAlike PROVE FlagsAre(k, k, schCyclic', schFanin', schUndirected')
    <3>1. FlagsAre(k, k - 1, schCyclic, schFanin, schUndirected)
      BY <2>2, <2>6 DEF FlagsInv
    <3>2. schUndirected = IsUndirected(LinksOf(1))
      <4>1. schUndirected <=> IsUndirected(LinksOf(1))
        BY <2>3, <2>6, <3>1, UndirectedAlike DEF FlagsAre
      <4>2. QED
        BY <1>t, <4>1, Zenon DEF CallTypes, IsUndirected
    <3>3. \A i \in 1 .. k - 1 : ~Decision!Cyclic(LinksOf(i), IsUndirected(LinksOf(1)))
      BY <2>5, <3>1 DEF FlagsAre
    <3>4. \A i \in 1 .. k : i = k \/ i \in 1 .. k - 1
      BY <1>k
    <3>5. k \in 1 .. k
      BY <1>k
    <3>6. schCyclic' <=> \E i \in 1 .. k : Decision!Cyclic(LinksOf(i), IsUndirected(LinksOf(1)))
      BY <2>4, <3>2, <3>3, <3>4, <3>5
    <3>7. QED
      BY <2>1, <3>1, <3>6 DEF FlagsAre
  <2>7. QED
    BY <2>1, <2>2, <2>6, FlagsKept DEF FlagsInv, FlagsAre
<1>8. CASE BuildSchema
  <2>1. phase = "sample" /\ phase' = "done" /\ UNCHANGED <<k, dataset, schCyclic, schFanin, schUndirected>>
    BY <1>8 DEF BuildSchema, Finish
  <2>2. Busy /\ Flagged' = Flagged
    BY <2>1 DEF Busy, Flagged
  <2>3. QED
    BY <2>1, <2>2, FlagsUnchanged
<1>9. CASE UNCHANGED inferVars
  <2>1. UNCHANGED <<dataset, phase, k, outcome, schCyclic, schFanin, schUndirected>>
    BY <1>9 DEF inferVars
  <2>2. Busy' = Busy /\ Flagged' = Flagged
    BY <2>1 DEF Busy, Flagged
  <2>3. QED
    BY <2>1, <2>2, FlagsUnchanged DEF FlagsInv
<1>10. CASE Search
  BY <1>9, <1>10 DEF Search
<1>11. QED
  BY <1>1, <1>2, <1>3, <1>4, <1>5, <1>6, <1>7, <1>8, <1>9, <1>10 DEF InferNext

\* The links to an instance are as many as the instances they come from.
LEMMA LinksToInstance ==
    ASSUME NEW g \in Graphs, IsFiniteSet(g), NEW x \in Instances
    PROVE  /\ Cardinality({e \in g : e[2] = x}) = Cardinality({y \in Instances : <<y, x>> \in g})
           /\ Cardinality({e \in g : e[2] = x}) \in Nat
<1> DEFINE S == {e \in g : e[2] = x}
           T == {y \in Instances : <<y, x>> \in g}
           f == [e \in S |-> e[1]]
<1>1. S \in SUBSET g /\ IsFiniteSet(S) /\ Cardinality(S) \in Nat
  <2>1. S \in SUBSET g
    OBVIOUS
  <2> HIDE DEF S
  <2>2. IsFiniteSet(S)
    BY <2>1, FS_Subset
  <2>3. QED
    BY <2>1, <2>2, FS_CardinalityType
<1>2. \A e \in S : e = <<e[1], x>> /\ e[1] \in T
  BY DEF Graphs
<1>3. \A y \in T : <<y, x>> \in S
  OBVIOUS
<1> HIDE DEF S, T
<1>4. f \in [S -> T]
  BY <1>2
<1>5. f \in Injection(S, T)
  BY <1>2, <1>4 DEF Injection, IsInjective
<1>6. f \in Surjection(S, T)
  BY <1>3, <1>4 DEF Surjection
<1>7. ExistsBijection(S, T)
  BY <1>5, <1>6 DEF ExistsBijection, Bijection
<1>8. Cardinality(T) = Cardinality(S)
  BY <1>1, <1>7, FS_Bijection
<1>9. QED
  BY <1>1, <1>8 DEF S, T

\* Fan-in: an instance has links from more instances than a chain gives it.
LEMMA FaninMeans ==
    ASSUME NEW g \in Graphs, IsFiniteSet(g), NEW u \in BOOLEAN
    PROVE  IsFanin(g, u) <=>
              \E x \in Instances : Cardinality({y \in Instances : <<y, x>> \in g}) >= IF u THEN 3 ELSE 2
<1>1. ASSUME NEW x \in Instances
      PROVE  Cardinality({e \in g : e[2] = x}) > (IF u THEN 2 ELSE 1)
                <=> Cardinality({y \in Instances : <<y, x>> \in g}) >= IF u THEN 3 ELSE 2
  <2> DEFINE a == Cardinality({e \in g : e[2] = x})
             b == Cardinality({y \in Instances : <<y, x>> \in g})
  <2>1. a = b /\ a \in Nat
    BY LinksToInstance
  <2> HIDE DEF a, b
  <2>2. a > (IF u THEN 2 ELSE 1) <=> b >= IF u THEN 3 ELSE 2
    BY <2>1
  <2>3. QED
    BY <2>2 DEF a, b
<1>2. QED
  BY <1>1 DEF IsFanin

\* If inferSchema returns a schema, all samples have links and directed ones do not
\* follow undirected ones, then the flags of the schema are those of all samples
\* together, whatever the number and the order of the samples and however
\* isCyclic visits their instances.
THEOREM FlagsAreThoseOfAllSamples == RoundTripSpec => []FlagsDescribeSamples
<1>1. RoundTripInit => FlagsInv
  BY ErrorsDiffer DEF RoundTripInit, GenerateInit, InferInit, StartInit, FlagsInv, Busy
<1>2. ASSUME InferInv, InferInv', FlagsInv, [RoundTripNext]_roundTripVars PROVE FlagsInv'
  <2>1. CASE Generate
    BY <1>2, <2>1, GenerateKeepsCall DEF InferInv, FlagsInv
  <2>2. CASE [InferNext]_<<inferVars, cycleVars>>
    BY <1>2, <2>2, FlagsInvStep DEF InferInv
  <2>3. QED
    BY <1>2, <2>1, <2>2, RoundTripStep
<1>3. InferInv /\ FlagsInv => FlagsDescribeSamples
  <2> SUFFICES ASSUME InferInv, FlagsInv, outcome = "ok", LinkedAlike
               PROVE  /\ schUndirected = \A i \in DOMAIN Samples : IsUndirected(LinksOf(i))
                      /\ schCyclic = \E i \in DOMAIN Samples : Decision!Cyclic(LinksOf(i), schUndirected)
                      /\ schFanin = \E i \in DOMAIN Samples : \E x \in Instances :
                            Cardinality({y \in Instances : <<y, x>> \in LinksOf(i)})
                                >= IF schUndirected THEN 3 ELSE 2
    BY DEF FlagsDescribeSamples, LinkedAlike
  <2>1. CallTypes /\ TreeOK /\ phase = "done" /\ Busy
    BY DEF InferInv, CallInv, CallTree, CallPlace, Busy
  <2>2. k \in Nat \ {0} /\ k > Len(Samples) /\ k <= Len(Samples) + 1
    BY <2>1 DEF InferInv, CallInv, CallTypes, CallPlace
  <2>3. DOMAIN Samples = 1 .. Len(Samples) /\ Len(Samples) \in Nat
    BY <2>1, SampleParts
  <2>4. Flagged = Len(Samples) /\ k - 1 = Len(Samples)
    BY <2>1, <2>2, <2>3 DEF Flagged
  <2>5. FlagsAre(Len(Samples), Len(Samples), schCyclic, schFanin, schUndirected)
    BY <2>1, <2>4 DEF FlagsInv
  <2>6. Len(Samples) \in DOMAIN Samples
    <3>1. Samples \in Seq(ToSet(dataset)) /\ Samples # <<>>
      BY <2>1, SampleParts DEF LinkedAlike
    <3>2. Len(Samples) # 0
      BY <3>1
    <3>3. QED
      BY <2>3, <3>2
  <2>7. schUndirected = IsUndirected(LinksOf(1))
    <3>1. schUndirected <=> IsUndirected(LinksOf(1))
      BY <2>3, <2>5, <2>6, UndirectedAlike DEF FlagsAre
    <3>2. QED
      BY <2>1, <3>1, Zenon DEF CallTypes, IsUndirected
  <2>8. schUndirected <=> \A i \in DOMAIN Samples : IsUndirected(LinksOf(i))
    BY <2>3, <2>5 DEF FlagsAre
  <2>9. schCyclic <=> \E i \in DOMAIN Samples : Decision!Cyclic(LinksOf(i), schUndirected)
    BY <2>3, <2>5, <2>7 DEF FlagsAre
  <2>10. schFanin <=> \E i \in DOMAIN Samples : \E x \in Instances :
                Cardinality({y \in Instances : <<y, x>> \in LinksOf(i)}) >= IF schUndirected THEN 3 ELSE 2
    <3>1. schUndirected \in BOOLEAN
      BY <2>1 DEF CallTypes
    <3>2. \A i \in DOMAIN Samples : LinksOf(i) \in Graphs /\ IsFiniteSet(LinksOf(i))
      BY <2>3, <2>5 DEF FlagsAre
    <3>3. \A i \in DOMAIN Samples : IsFanin(LinksOf(i), schUndirected) <=>
                \E x \in Instances :
                    Cardinality({y \in Instances : <<y, x>> \in LinksOf(i)}) >= IF schUndirected THEN 3 ELSE 2
      BY <3>1, <3>2, FaninMeans
    <3>4. schFanin <=> \E i \in DOMAIN Samples : IsFanin(LinksOf(i), schUndirected)
      BY <2>3, <2>5, <2>7 DEF FlagsAre
    <3>5. QED
      BY <3>3, <3>4
  <2>11. schCyclic \in BOOLEAN /\ schFanin \in BOOLEAN /\ schUndirected \in BOOLEAN
    BY <2>1 DEF CallTypes
  <2>12. schUndirected = \A i \in DOMAIN Samples : IsUndirected(LinksOf(i))
    BY <2>8, <2>11, Zenon
  <2>13. schCyclic = \E i \in DOMAIN Samples : Decision!Cyclic(LinksOf(i), schUndirected)
    BY <2>9, <2>11, Zenon
  <2>14. schFanin = \E i \in DOMAIN Samples : \E x \in Instances :
                Cardinality({y \in Instances : <<y, x>> \in LinksOf(i)}) >= IF schUndirected THEN 3 ELSE 2
    BY <2>10, <2>11, Zenon
  <2>15. QED
    BY <2>12, <2>13, <2>14, Zenon
<1>4. QED
  BY <1>1, <1>2, <1>3, InferInvariant, PTL DEF RoundTripSpec

------------------------------------------------------------------------------
(***************************************************************************)
(* The bounds on links.  The nodes with instances are made anew for every  *)
(* sample, without links, so that their bounds are those of the sample.    *)
(***************************************************************************)

\* How many links the instances of node src have to node name, where they have any.
CountsOf(g, src, name) == {LinkDestinationCount(g, x, name) : x \in {x \in Instances : x[1] = src}} \ {0}

\* The same for the instances that have links.
EndpointCounts(g, src, name) == {LinkDestinationCount(g, x, name) : x \in {x \in Endpoints(g) : x[1] = src}}

\* The bounds of the nodes ns and the counts cs are those of the links g.
LinksFit(g, ns, cs) ==
    /\ \A x \in Endpoints(g) : IF cs[x[1]] = 0 THEN x[2] = 0 ELSE x[2] < cs[x[1]]
    /\ \A n \in ToSet(ns) : \A l \in ToSet(n.links) :
        {Min(EndpointCounts(g, n.name, l.name) \ {0}), Max(EndpointCounts(g, n.name, l.name))} = ToSet(l.dim)
    /\ \A e \in g : e[2][1] \in Names(Get(ns, e[1][1]).links)

\* A number of links is 0 unless there is one.
LEMMA LinkCounts ==
    ASSUME NEW g \in Graphs, IsFiniteSet(g), NEW x, NEW name
    PROVE  /\ LinkDestinationCount(g, x, name) \in 0 .. Cardinality(g) /\ Cardinality(g) \in Nat
           /\ LinkDestinationCount(g, x, name) # 0 <=> \E e \in g : e[1] = x /\ e[2][1] = name
<1> DEFINE S == {e \in g : e[1] = x /\ e[2][1] = name}
<1>1. S \in SUBSET g
  OBVIOUS
<1>2. LinkDestinationCount(g, x, name) = Cardinality(S)
  BY DEF LinkDestinationCount
<1>3. S # {} <=> \E e \in g : e[1] = x /\ e[2][1] = name
  OBVIOUS
<1> HIDE DEF S
<1>4. IsFiniteSet(S) /\ Cardinality(S) <= Cardinality(g)
  BY <1>1, FS_Subset
<1>5. Cardinality(S) \in Nat /\ Cardinality(g) \in Nat
  BY <1>4, FS_CardinalityType
<1>6. Cardinality(S) = 0 <=> S = {}
  BY <1>4, FS_EmptySet
<1>7. QED
  BY <1>2, <1>3, <1>4, <1>5, <1>6

\* Only the instances that have links count.
LEMMA EndpointsCount ==
    ASSUME NEW g \in Graphs, IsFiniteSet(g), NEW src, NEW name
    PROVE  /\ CountsOf(g, src, name) = EndpointCounts(g, src, name) \ {0}
           /\ EndpointCounts(g, src, name) \in SUBSET (0 .. Cardinality(g)) /\ Cardinality(g) \in Nat
<1>1. \A x : LinkDestinationCount(g, x, name) \in 0 .. Cardinality(g) /\ Cardinality(g) \in Nat
  BY LinkCounts
<1>2. EndpointCounts(g, src, name) \in SUBSET (0 .. Cardinality(g))
  BY <1>1 DEF EndpointCounts
<1>3. \A x \in Instances : LinkDestinationCount(g, x, name) # 0 => x \in Endpoints(g)
  <2>1. ASSUME NEW x \in Instances, LinkDestinationCount(g, x, name) # 0 PROVE x \in Endpoints(g)
    <3>1. PICK e \in g : e[1] = x
      BY <2>1, LinkCounts
    <3>2. e[2] \in Instances /\ e = <<x, e[2]>>
      BY <3>1 DEF Graphs
    <3>3. QED
      BY <3>1, <3>2 DEF Endpoints
  <2>2. QED
    BY <2>1
<1>4. \A x \in Endpoints(g) : x \in Instances
  BY DEF Endpoints
<1>5. CountsOf(g, src, name) \subseteq EndpointCounts(g, src, name) \ {0}
  BY <1>3 DEF CountsOf, EndpointCounts
<1>6. EndpointCounts(g, src, name) \ {0} \subseteq CountsOf(g, src, name)
  BY <1>4 DEF CountsOf, EndpointCounts
<1>7. QED
  BY <1>1, <1>2, <1>5, <1>6

\* The largest of some counts is not 0.
LEMMA MaxWithoutZero ==
    ASSUME NEW n \in Nat, NEW D \in SUBSET (0 .. n), D \ {0} # {}
    PROVE  Max(D \ {0}) = Max(D)
<1>1. Max(D) \in D /\ \A y \in D : Max(D) >= y
  BY MaxProperties
<1>2. D \ {0} \in SUBSET (0 .. n)
  OBVIOUS
<1>3. Max(D \ {0}) \in D \ {0} /\ \A y \in D \ {0} : Max(D \ {0}) >= y
  BY <1>2, MaxProperties
<1>4. Max(D) # 0
  <2>1. PICK y \in D \ {0} : TRUE
    OBVIOUS
  <2>2. Max(D) >= y /\ y \in 0 .. n /\ y # 0 /\ Max(D) \in 0 .. n
    BY <1>1, <2>1
  <2>3. QED
    BY <2>2
<1>5. Max(D) \in 0 .. n /\ Max(D \ {0}) \in 0 .. n
  BY <1>1, <1>3
<1>6. Max(D) >= Max(D \ {0}) /\ Max(D \ {0}) >= Max(D)
  BY <1>1, <1>3, <1>4
<1>7. QED
  BY <1>5, <1>6

\* What MergedLinks gives a node that had no links.
LEMMA MergedParts ==
    ASSUME NodesMade(schNodes), NEW g, NEW m, m.links = <<>>
    PROVE  /\ \A l \in ToSet(MergedLinks(m, g)) :
                /\ CountsOf(g, m.name, l.name) # {}
                /\ ToSet(l.dim) = {Min(CountsOf(g, m.name, l.name)), Max(CountsOf(g, m.name, l.name))}
           /\ \A name \in Names(schNodes) :
                CountsOf(g, m.name, name) # {} => name \in Names(MergedLinks(m, g))
<1> DEFINE P == {i \in DOMAIN schNodes : CountsOf(g, m.name, schNodes[i].name) # {}}
           t == Picked(schNodes, P)
           C(name) == CountsOf(g, m.name, name)
<1>1. Names(m.links) = {}
  BY DEF Names
<1>2. MergedLinks(m, g) = [i \in DOMAIN t |->
                             [name |-> t[i].name, dim |-> <<Min(C(t[i].name)), Max(C(t[i].name))>>]]
  <2> DEFINE CT(name) == {LinkDestinationCount(g, x, name) : x \in {x \in Instances : x[1] = m.name}} \ {0}
             Old(name) == IF name \in Names(m.links) THEN ToSet(Get(m.links, name).dim) ELSE {}
             Q == {i \in DOMAIN schNodes :
                     CT(schNodes[i].name) # {} \/ schNodes[i].name \in Names(m.links)}
             q == Picked(schNodes, Q)
  <2>1. MergedLinks(m, g) = [i \in DOMAIN q |->
            [name |-> q[i].name, dim |-> <<Min(CT(q[i].name) \cup Old(q[i].name)),
                                           Max(CT(q[i].name) \cup Old(q[i].name))>>]]
    BY DEF MergedLinks
  <2>2. \A name : CT(name) = C(name)
    BY DEF CountsOf
  <2>3. \A name : Old(name) = {}
    BY <1>1
  <2> HIDE DEF CT, Old, C
  <2>4. \A name : CT(name) \cup Old(name) = C(name)
    BY <2>2, <2>3
  <2>5. Q = P
    BY <1>1, <2>2 DEF C
  <2>6. q = t
    BY <2>5
  <2> HIDE DEF q, t
  <2>7. QED
    BY <2>1, <2>4, <2>6
<1>3. ToSet(t) = {schNodes[i] : i \in P}
  <2> HIDE DEF P
  <2>1. ToSet(t) = {schNodes[i] : i \in {i \in DOMAIN schNodes : i \in P}}
    BY PickedParts DEF NodesMade
  <2>2. P \subseteq DOMAIN schNodes
    BY DEF P
  <2>3. QED
    BY <2>1, <2>2
<1>4. \A i \in P : C(schNodes[i].name) # {}
  OBVIOUS
<1>5. \A i \in DOMAIN schNodes : C(schNodes[i].name) # {} => i \in P
  OBVIOUS
<1> HIDE DEF P, t, C
<1>6. ASSUME NEW l \in ToSet(MergedLinks(m, g))
      PROVE  C(l.name) # {} /\ ToSet(l.dim) = {Min(C(l.name)), Max(C(l.name))}
  <2>1. PICK i \in DOMAIN t : l = [name |-> t[i].name, dim |-> <<Min(C(t[i].name)), Max(C(t[i].name))>>]
    BY <1>2 DEF ToSet
  <2>2. t[i] \in ToSet(t)
    BY DEF ToSet
  <2>3. PICK j \in P : t[i] = schNodes[j]
    BY <1>3, <2>2
  <2>4. l.name = t[i].name /\ l.dim = <<Min(C(l.name)), Max(C(l.name))>>
    BY <2>1
  <2>5. \A a, b : ToSet(<<a, b>>) = {a, b}
    BY DEF ToSet
  <2>6. QED
    BY <1>4, <2>3, <2>4, <2>5
<1>7. ASSUME NEW name \in Names(schNodes), C(name) # {} PROVE name \in Names(MergedLinks(m, g))
  <2>1. PICK j \in DOMAIN schNodes : schNodes[j].name = name
    BY DEF Names
  <2>2. j \in P
    BY <1>5, <1>7, <2>1
  <2>3. PICK i \in DOMAIN t : t[i] = schNodes[j]
    BY <1>3, <2>2 DEF ToSet
  <2>4. i \in DOMAIN MergedLinks(m, g) /\ MergedLinks(m, g)[i].name = name
    BY <1>2, <2>1, <2>3
  <2>5. QED
    BY <2>4 DEF Names
<1>8. QED
  BY <1>6, <1>7 DEF C

\* Nodes that were made for this sample, and have no links yet.
Fresh ==
    /\ CountsMade(counts)
    /\ NoClassInSamples =>
        \A n \in ToSet(schNodes) : ~n.singleton => n.links = <<>> /\ n.name \in DOMAIN counts

\* The links of the sample that was handled last fit, if it has a links file.
LinksInv ==
    /\ phase = "links" => Fresh
    /\ phase \in {"sample", "cyclic"} \/ outcome = "ok" =>
        (NoClassInSamples /\ Flagged # 0 /\ HasLinks(Flagged) => LinksFit(LinksOf(Flagged), schNodes, counts))

\* The bounds that a links file gives the nodes of its sample.
LEMMA MergedFit ==
    ASSUME NodesMade(schNodes), Fresh, NoClassInSamples,
           NEW g \in Graphs, IsFiniteSet(g), LinksKnown(g), ~IndexOverflow(g),
           NEW ns, DOMAIN ns = DOMAIN schNodes, DistinctNames(ns), SameNodes(schNodes, ns),
           \A i \in DOMAIN schNodes :
              /\ schNodes[i].singleton => ns[i].links = <<>>
              /\ ~schNodes[i].singleton => ns[i].links = MergedLinks(schNodes[i], g)
    PROVE  LinksFit(g, ns, counts)
<1>1. ASSUME NEW x \in Endpoints(g)
      PROVE  x \in Instances /\ x[1] \in Names(schNodes) /\ ~Get(schNodes, x[1]).singleton
  <2>1. PICK y \in Instances : <<x, y>> \in g \/ <<y, x>> \in g
    BY DEF Endpoints
  <2>2. QED
    BY <2>1 DEF LinksKnown, Endpoints
<1>2. ASSUME NEW x \in Endpoints(g)
      PROVE  IF counts[x[1]] = 0 THEN x[2] = 0 ELSE x[2] < counts[x[1]]
  <2>1. PICK i \in DOMAIN schNodes : Get(schNodes, x[1]) = schNodes[i] /\ schNodes[i].name = x[1]
    BY <1>1, GetFrom
  <2>2. x[1] \in DOMAIN counts
    BY <1>1, <2>1 DEF Fresh, ToSet
  <2>3. counts[x[1]] \in Nat
    BY <2>2 DEF Fresh, CountsMade
  <2>4. x[2] \in Nat
    BY <1>1, InstancesAssumption
  <2>5. ~(x[2] > 0 /\ x[2] >= counts[x[1]])
    BY <2>2 DEF IndexOverflow
  <2>6. QED
    BY <2>3, <2>4, <2>5
<1>3. ASSUME NEW n \in ToSet(ns), NEW l \in ToSet(n.links)
      PROVE  {Min(EndpointCounts(g, n.name, l.name) \ {0}), Max(EndpointCounts(g, n.name, l.name))}
                = ToSet(l.dim)
  <2>1. PICK i \in DOMAIN schNodes : n = ns[i]
    BY DEF ToSet
  <2> DEFINE m == schNodes[i]
             D == EndpointCounts(g, n.name, l.name)
  <2>2. ~m.singleton
    <3>1. ToSet(<<>>) = {}
      BY DEF ToSet
    <3>2. QED
      BY <2>1, <3>1
  <2>3. n.links = MergedLinks(m, g) /\ n.name = m.name /\ m.links = <<>>
    BY <2>1, <2>2 DEF SameNodes, Fresh, ToSet
  <2>4. /\ CountsOf(g, n.name, l.name) # {}
        /\ ToSet(l.dim) = {Min(CountsOf(g, n.name, l.name)), Max(CountsOf(g, n.name, l.name))}
    <3> HIDE DEF m
    <3>1. QED
      BY <2>3, MergedParts
  <2>5. /\ CountsOf(g, n.name, l.name) = D \ {0}
        /\ D \in SUBSET (0 .. Cardinality(g)) /\ Cardinality(g) \in Nat
    BY EndpointsCount
  <2> HIDE DEF D
  <2>6. Max(D \ {0}) = Max(D)
    BY <2>4, <2>5, MaxWithoutZero
  <2>7. QED
    BY <2>4, <2>5, <2>6 DEF D
<1>4. ASSUME NEW e \in g PROVE e[2][1] \in Names(Get(ns, e[1][1]).links)
  <2>1. /\ e[1][1] \in Names(schNodes) /\ ~Get(schNodes, e[1][1]).singleton
        /\ e[2][1] \in Names(schNodes)
    BY DEF LinksKnown
  <2>2. PICK i \in DOMAIN schNodes : Get(schNodes, e[1][1]) = schNodes[i] /\ schNodes[i].name = e[1][1]
    BY <2>1, GetFrom
  <2> DEFINE m == schNodes[i]
  <2>3. ns[i].links = MergedLinks(m, g) /\ ns[i].name = m.name /\ m.links = <<>> /\ m.name = e[1][1]
    BY <2>1, <2>2 DEF SameNodes, Fresh, ToSet
  <2>4. Get(ns, e[1][1]) = ns[i]
    BY <2>3, GetNamed
  <2>5. e[1] \in Instances
    BY DEF Graphs
  <2>6. LinkDestinationCount(g, e[1], e[2][1]) # 0
    BY LinkCounts
  <2>7. CountsOf(g, m.name, e[2][1]) # {}
    BY <2>3, <2>5, <2>6 DEF CountsOf
  <2> HIDE DEF m
  <2>8. e[2][1] \in Names(MergedLinks(m, g))
    BY <2>1, <2>3, <2>7, MergedParts
  <2>9. QED
    BY <2>3, <2>4, <2>8
<1>5. QED
  BY <1>2, <1>3, <1>4 DEF LinksFit

\* A step that leaves the links alone.
LEMMA LinksUnchanged ==
    ASSUME LinksInv, phase \in {"sample", "cyclic"} \/ outcome = "ok",
           UNCHANGED <<dataset, schNodes, counts>>, Flagged' = Flagged, phase' # "links"
    PROVE  LinksInv'
<1>1. /\ \A i : LinksOf(i)' = LinksOf(i) /\ HasLinks(i)' = HasLinks(i)
      /\ NoClassInSamples' = NoClassInSamples
  BY SameDataset
<1>2. HasLinks(Flagged)' = HasLinks(Flagged) /\ LinksOf(Flagged)' = LinksOf(Flagged)
  BY <1>1
<1>3. LinksFit(LinksOf(Flagged), schNodes, counts)' <=> LinksFit(LinksOf(Flagged), schNodes, counts)
  BY <1>2 DEF LinksFit, EndpointCounts, LinkDestinationCount
<1>4. QED
  BY <1>1, <1>2, <1>3 DEF LinksInv

\* Every step keeps the bounds right.
LEMMA LinksInvStep ==
    ASSUME CallInv, NodesInv, LinksInv, CallInv', NodesInv', [InferNext]_<<inferVars, cycleVars>>
    PROVE  LinksInv'
<1>t. CallTypes /\ CallTree /\ CallStart /\ CallPlace /\ CallSearch
  BY DEF CallInv
<1>k. k \in Nat \ {0}
  BY <1>t DEF CallTypes
<1>o. /\ phase # "done" => outcome # "ok"
      /\ phase' # "done" => outcome' # "ok"
  BY <1>t, ErrorsDiffer DEF CallTree, CallInv
<1>f. ASSUME NEW how, Finish(how), how # "ok" PROVE LinksInv'
  <2>1. phase' = "done" /\ outcome' # "ok"
    BY <1>f DEF Finish
  <2>2. QED
    BY <2>1 DEF LinksInv
<1>1. CASE ReadDataset
  <2>1. CASE Finish("unreadable")
    BY <1>f, <2>1
  <2>2. CASE ~Finish("unreadable")
    <3>1. phase' = "root"
      BY <1>1, <2>2 DEF ReadDataset
    <3>2. QED
      BY <1>o, <3>1 DEF LinksInv
  <2>3. QED
    BY <2>1, <2>2
<1>2. CASE SortRoot
  <2>1. ASSUME NEW f, Finish(RootError(f)) PROVE LinksInv'
    <3>1. RootError(f) # "ok"
      BY ErrorsDiffer DEF RootError
    <3>2. QED
      BY <1>f, <2>1, <3>1
  <2>2. CASE phase' = "sample" /\ k' = k
    <3>1. phase = "root" /\ k = 1
      BY <1>2, <1>t DEF SortRoot, CallStart
    <3>2. Flagged' = 0
      BY <2>2, <3>1 DEF Flagged
    <3>3. QED
      BY <2>2, <3>2 DEF LinksInv
  <2>3. QED
    BY <1>2, <2>1, <2>2 DEF SortRoot
<1>3. CASE BeginSample
  <2>1. CASE Finish("DatasetException")
    BY <1>f, <2>1
  <2>2. CASE ~Finish("DatasetException")
    <3>1. phase' = "nodes"
      BY <1>3, <2>2 DEF BeginSample
    <3>2. QED
      BY <1>o, <3>1 DEF LinksInv
  <2>3. QED
    BY <2>1, <2>2
<1>4. CASE SampleNodes
  <2>1. CASE phase' = "links"
    <3>1. /\ CountsMade(counts)' /\ dataset' = dataset
          /\ NoClassInSamples =>
               \A n \in ToSet(schNodes') : ~n.singleton => n.links = <<>> /\ n.name \in DOMAIN counts'
      BY <1>4, <2>1, SampleNodesDescribed
    <3>2. NoClassInSamples' = NoClassInSamples
      BY <3>1, SameDataset
    <3>3. Fresh'
      BY <3>1, <3>2 DEF Fresh
    <3>4. QED
      BY <1>o, <2>1, <3>3 DEF LinksInv
  <2>2. CASE phase' # "links"
    <3>1. phase' = "done" /\ dataset' = dataset /\ k' = k /\ phase = "nodes"
      BY <1>4, <2>2 DEF SampleNodes, Finish
    <3>2. Samples' = Samples /\ k <= Len(Samples) /\ Len(Samples) \in Nat
      BY <1>t, <3>1, SameDataset, SampleParts DEF CallPlace, CallTree, Busy
    <3>3. outcome' # "ok"
      BY <1>k, <3>1, <3>2 DEF CallInv, CallPlace
    <3>4. QED
      BY <3>1, <3>3 DEF LinksInv
  <2>3. QED
    BY <2>1, <2>2
<1>5. CASE ImplicitLinks
  <2>1. /\ phase = "links" /\ OfKind(Sample, "links") = <<>> /\ dataset' = dataset
        /\ phase' = "sample" /\ k' = k + 1
    BY <1>5 DEF ImplicitLinks, NextSample
  <2>2. Flagged' = k
    BY <1>k, <2>1 DEF Flagged
  <2>3. ~HasLinks(k)
    BY <2>1 DEF Sample, HasLinks, Children
  <2>4. ~HasLinks(Flagged)'
    BY <2>1, <2>2, <2>3, SameDataset
  <2>5. QED
    BY <1>o, <2>1, <2>4 DEF LinksInv
<1>6. CASE SampleLinks
  <2> DEFINE g == OfKind(Sample, "links")[1].links
  <2>0. phase = "links" /\ OfKind(Sample, "links") # <<>>
    BY <1>6 DEF SampleLinks
  <2>1. CASE Finish("DatasetException")
    BY <1>f, <2>1
  <2>2. CASE ~Finish("DatasetException")
    <3>1. /\ ~(Len(OfKind(Sample, "links")) > 1) /\ LinksKnown(g) /\ ~IndexOverflow(g)
          /\ UNCHANGED <<dataset, counts>>
          /\ schNodes' = [i \in DOMAIN schNodes |->
                              IF schNodes[i].singleton THEN schNodes[i]
                              ELSE [schNodes[i] EXCEPT !.links = MergedLinks(schNodes[i], g)]]
      BY <1>6, <2>2 DEF SampleLinks
    <3>2. \/ phase' = "sample" /\ k' = k + 1
          \/ phase' = "cyclic" /\ k' = k
      BY <1>6, <2>2 DEF SampleLinks, NextSample
    <3>3. g = LinksOf(k) /\ g \in Graphs /\ IsFiniteSet(g)
      BY <2>0, <3>1, LinksNow
    <3> HIDE DEF g
    <3>4. Flagged' = k
      BY <1>k, <3>2 DEF Flagged
    <3>5. NodesMade(schNodes) /\ NodesMade(schNodes)' /\ Fresh
      BY <2>0, <3>2 DEF NodesInv, Busy, LinksInv
    <3>6. \A i \in DOMAIN schNodes :
              schNodes'[i] = IF schNodes[i].singleton THEN schNodes[i]
                             ELSE [schNodes[i] EXCEPT !.links = MergedLinks(schNodes[i], g)]
      BY <3>1
    <3>7. DOMAIN schNodes' = DOMAIN schNodes
      BY <3>1
    <3>8. ASSUME NEW i \in DOMAIN schNodes
          PROVE  /\ schNodes'[i].name = schNodes[i].name
                 /\ schNodes'[i].singleton = schNodes[i].singleton
                 /\ schNodes'[i].fields = schNodes[i].fields
                 /\ schNodes[i].singleton => schNodes'[i].links = <<>>
                 /\ ~schNodes[i].singleton => schNodes'[i].links = MergedLinks(schNodes[i], g)
      <4>1. NodeMade(schNodes[i])
        BY <3>5 DEF NodesMade, ToSet
      <4>2. CASE schNodes[i].singleton
        BY <3>6, <4>1, <4>2 DEF NodeMade
      <4>3. ASSUME ~schNodes[i].singleton, NEW l, schNodes'[i] = [schNodes[i] EXCEPT !.links = l]
            PROVE  /\ schNodes'[i].name = schNodes[i].name
                   /\ schNodes'[i].singleton = schNodes[i].singleton
                   /\ schNodes'[i].fields = schNodes[i].fields /\ schNodes'[i].links = l
        BY <4>1, <4>3 DEF NodeMade
      <4>4. QED
        BY <3>6, <4>2, <4>3
    <3>9. SameNodes(schNodes, schNodes') /\ DistinctNames(schNodes')
      BY <3>5, <3>7, <3>8 DEF SameNodes, NodesMade
    <3>10. ASSUME NoClassInSamples PROVE LinksFit(g, schNodes', counts)
      BY <3>1, <3>3, <3>5, <3>7, <3>8, <3>9, <3>10, MergedFit
    <3>11. NoClassInSamples' = NoClassInSamples /\ LinksOf(Flagged)' = g
      <4>1. NoClassInSamples' = NoClassInSamples /\ \A i : LinksOf(i)' = LinksOf(i)
        BY <3>1, SameDataset
      <4>2. QED
        BY <3>3, <3>4, <4>1
    <3>12. LinksFit(g, schNodes', counts) => LinksFit(LinksOf(Flagged), schNodes, counts)'
      BY <3>1, <3>11
    <3>13. QED
      BY <1>o, <3>2, <3>10, <3>11, <3>12 DEF LinksInv
  <2>3. QED
    BY <2>1, <2>2
<1>7. CASE CyclicReturned
  <2>1. /\ phase = "cyclic" /\ phase' = "sample" /\ k' = k + 1 /\ UNCHANGED <<dataset, schNodes, counts>>
    BY <1>7 DEF CyclicReturned, NextSample
  <2>2. Flagged' = Flagged
    BY <1>k, <2>1 DEF Flagged
  <2>3. QED
    BY <2>1, <2>2, LinksUnchanged
<1>8. CASE BuildSchema
  <2>1. phase = "sample" /\ phase' = "done" /\ UNCHANGED <<k, dataset, schNodes, counts>>
    BY <1>8 DEF BuildSchema, Finish
  <2>2. Flagged' = Flagged
    BY <2>1 DEF Flagged
  <2>3. QED
    BY <2>1, <2>2, LinksUnchanged
<1>9. CASE UNCHANGED inferVars
  <2>1. UNCHANGED <<dataset, phase, k, outcome, schNodes, counts>>
    BY <1>9 DEF inferVars
  <2>2. Flagged' = Flagged
    BY <2>1 DEF Flagged
  <2>3. CASE phase = "links"
    <3>1. NoClassInSamples' = NoClassInSamples
      BY <2>1, SameDataset
    <3>2. Fresh'
      BY <2>1, <2>3, <3>1 DEF LinksInv, Fresh, CountsMade
    <3>3. QED
      BY <1>o, <2>1, <2>3, <3>2 DEF LinksInv
  <2>4. CASE phase \in {"sample", "cyclic"} \/ outcome = "ok"
    <3>1. phase # "links"
      BY <1>o, <2>4
    <3>2. QED
      BY <2>1, <2>2, <2>4, <3>1, LinksUnchanged
  <2>5. CASE phase # "links" /\ phase \notin {"sample", "cyclic"} /\ outcome # "ok"
    BY <2>1, <2>5 DEF LinksInv
  <2>6. QED
    BY <2>3, <2>4, <2>5
<1>10. CASE Search
  BY <1>9, <1>10 DEF Search
<1>11. QED
  BY <1>1, <1>2, <1>3, <1>4, <1>5, <1>6, <1>7, <1>8, <1>9, <1>10 DEF InferNext

\* If inferSchema returns a schema, no sample has a class file and the last one has
\* links, then its bounds on links are exactly those of the last sample, and every
\* link is allowed by a bound and joins instances that exist, but for index 0 of a
\* node without instances, which inferSchema lets pass.
THEOREM BoundsAreThoseOfLastSample == RoundTripSpec => []LinksFitLastSample
<1>1. RoundTripInit => LinksInv
  BY ErrorsDiffer DEF RoundTripInit, GenerateInit, InferInit, StartInit, LinksInv
<1>2. ASSUME InferInv, InferInv', LinksInv, [RoundTripNext]_roundTripVars PROVE LinksInv'
  <2>1. CASE Generate
    BY <1>2, <2>1, GenerateKeepsCall DEF InferInv, LinksInv
  <2>2. CASE [InferNext]_<<inferVars, cycleVars>>
    BY <1>2, <2>2, LinksInvStep DEF InferInv
  <2>3. QED
    BY <1>2, <2>1, <2>2, RoundTripStep
<1>3. InferInv /\ LinksInv => LinksFitLastSample
  <2> SUFFICES ASSUME InferInv, LinksInv, outcome = "ok", NoClassInSamples, Samples # <<>>,
                      HasLinks(Len(Samples))
               PROVE  LinksFit(LinksOf(Len(Samples)), schNodes, counts)
    BY DEF LinksFitLastSample, LinksFit, EndpointCounts, LinkDestinationCount
  <2>1. TreeOK /\ phase = "done"
    BY DEF InferInv, CallInv, CallTree, CallPlace, Busy
  <2>2. k \in Nat \ {0} /\ k > Len(Samples) /\ k <= Len(Samples) + 1
    BY DEF InferInv, CallInv, CallTypes, CallPlace, Busy
  <2>3. Samples \in Seq(ToSet(dataset)) /\ Len(Samples) \in Nat
    BY <2>1, SampleParts
  <2>4. Len(Samples) # 0
    BY <2>3
  <2>5. Flagged = Len(Samples)
    BY <2>1, <2>2, <2>3 DEF Flagged
  <2>6. QED
    BY <2>4, <2>5 DEF LinksInv
<1>4. QED
  BY <1>1, <1>2, <1>3, InferInvariant, PTL DEF RoundTripSpec

\* The calls of isCyclic that inferSchema makes are questions of CycleDecision, and every
\* one of them is answered, before the next sample is looked at, as CycleDecision
\* says; the other steps of inferSchema leave question and answer alone.
THEOREM InferenceDecides == RoundTripSpec => ImplementsDecision
<1>1. RoundTripInit => Decision!Init
  BY DEF RoundTripInit, GenerateInit, InferInit, StartInit, CycleInit, Decision!Init
<1>2. ASSUME InferInv, InferInv', [RoundTripNext]_roundTripVars
      PROVE  [Decision!Ask \/ Decision!Answer]_<<links, undirected, verdict>>
  <2>1. CASE Generate
    <3>1. UNCHANGED cycleVars
      BY <1>2, <2>1, GenerateKeepsCall DEF InferInv
    <3>2. QED
      BY <3>1 DEF cycleVars, searchVars
  <2>2. CASE [InferNext]_<<inferVars, cycleVars>>
    BY <1>2, <2>2, InferCycleStep, StepDecides DEF InferInv, CallInv
  <2>3. QED
    BY <1>2, <2>1, <2>2, RoundTripStep
<1>3. QED
  BY <1>1, <1>2, InferInvariant, PTL DEF RoundTripSpec, ImplementsDecision, Decision!Spec

==============================================================================
