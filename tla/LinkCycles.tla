------------------------------ MODULE LinkCycles ------------------------------
(***************************************************************************)
(* Links.isCyclic of the schema library: a depth first search with an      *)
(* explicit stack.  The two branches of the code are the two groups of     *)
(* actions below.  JavaScript visits sets and maps in the order in which   *)
(* their elements were inserted; here the order is arbitrary.              *)
(***************************************************************************)
EXTENDS Integers, SequencesExt

CONSTANTS
    Instances    \* the instances that links join

VARIABLES
    links,         \* the links of the file, as pairs <<src, dst>>
    undirected,    \* the argument of the call
    running,       \* whether the call has not returned yet
    nodes,         \* the vertices not visited so far
    ancestors,     \* directed: the vertices on the path that is followed
    stack,         \* directed: the vertices to look at
    todo,          \* directed: the vertices that the loop is about to push
    pairs,         \* undirected: the stack of pairs <<parent, x>>
    pairsTodo,     \* undirected: the pairs that the loop is about to push
    verdict        \* what the last call returned

searchVars == <<running, nodes, ancestors, stack, todo, pairs, pairsTodo>>
cycleVars == <<links, undirected, searchVars, verdict>>

Graphs == SUBSET (Instances \X Instances)

CycleTypeOK ==
    /\ links \in Graphs
    /\ undirected \in BOOLEAN /\ running \in BOOLEAN
    /\ nodes \in SUBSET Instances /\ ancestors \in SUBSET Instances
    /\ stack \in Seq(Instances) /\ todo \in SUBSET Instances
    /\ pairs \in Seq(Instances \X Instances) /\ pairsTodo \in Graphs
    /\ verdict \in {"none", "cyclic", "acyclic"}

CycleInit ==
    /\ links = {} /\ undirected = FALSE /\ running = FALSE
    /\ nodes = {} /\ ancestors = {} /\ stack = <<>> /\ todo = {}
    /\ pairs = <<>> /\ pairsTodo = {}
    /\ verdict = "none"

Adjacent(x) == {y \in Instances : <<x, y>> \in links}

Endpoints(g) == {x \in Instances : \E y \in Instances : <<x, y>> \in g \/ <<y, x>> \in g}

\* The graph is undirected when it has the reverse of every link.
IsUndirected(g) == \A e \in g : <<e[2], e[1]>> \in g

------------------------------------------------------------------------------
\* The call: every vertex of a link is unvisited.
IsCyclic(g, u) ==
    /\ ~running
    /\ links' = g /\ undirected' = u /\ running' = TRUE
    /\ nodes' = Endpoints(g)
    /\ ancestors' = {} /\ stack' = <<>> /\ todo' = {}
    /\ pairs' = <<>> /\ pairsTodo' = {}
    /\ verdict' = "none"

Return(v) ==
    /\ verdict' = v /\ running' = FALSE
    /\ UNCHANGED <<links, undirected>>

\* No unvisited vertex is left and no cycle was found.
Exhausted ==
    /\ running /\ nodes = {}
    /\ stack = <<>> /\ todo = {} /\ pairs = <<>> /\ pairsTodo = {}
    /\ Return("acyclic")
    /\ UNCHANGED <<nodes, ancestors, stack, todo, pairs, pairsTodo>>

------------------------------------------------------------------------------
(* Directed graphs.                                                        *)

Directed == running /\ ~undirected

\* A search starts at an arbitrary unvisited vertex.
Root(x) ==
    /\ Directed /\ stack = <<>> /\ todo = {}
    /\ x \in nodes
    /\ stack' = <<x>> /\ ancestors' = {}
    /\ UNCHANGED <<links, undirected, running, nodes, todo, pairs, pairsTodo, verdict>>

\* Mutant of Visit: the vertex is not marked as visited.
VisitAgain ==
    /\ Directed /\ stack # <<>> /\ todo = {}
    /\ Last(stack) \notin ancestors
    /\ ancestors' = ancestors \cup {Last(stack)}
    /\ IF Adjacent(Last(stack)) \cap ancestors' # {}
       THEN Return("cyclic") /\ UNCHANGED todo
       ELSE /\ todo' = Adjacent(Last(stack)) \cap nodes
            /\ UNCHANGED <<links, undirected, running, verdict>>
    /\ UNCHANGED <<nodes, stack, pairs, pairsTodo>>

\* The first encounter of the vertex on top: a link to an ancestor (or to
\* itself) is a cycle, otherwise the unvisited successors are to be pushed.
Visit ==
    /\ Directed /\ stack # <<>> /\ todo = {}
    /\ LET x == Last(stack) IN
        /\ x \notin ancestors
        /\ nodes' = nodes \ {x}
        /\ ancestors' = ancestors \cup {x}
        /\ IF Adjacent(x) \cap ancestors' # {}
           THEN Return("cyclic") /\ UNCHANGED todo
           ELSE /\ todo' = Adjacent(x) \cap nodes'
                /\ UNCHANGED <<links, undirected, running, verdict>>
    /\ UNCHANGED <<stack, pairs, pairsTodo>>

Push(y) ==
    /\ Directed
    /\ y \in todo
    /\ stack' = Append(stack, y)
    /\ todo' = todo \ {y}
    /\ UNCHANGED <<links, undirected, running, nodes, ancestors, pairs, pairsTodo, verdict>>

\* Mutant of Leave: the vertex stays among the ancestors, so that a vertex that is
\* reached on two paths looks like a cycle.
LeaveAncestor ==
    /\ Directed /\ stack # <<>> /\ todo = {}
    /\ Last(stack) \in ancestors
    /\ stack' = Front(stack)
    /\ UNCHANGED <<links, undirected, running, nodes, ancestors, todo, pairs, pairsTodo,
                   verdict>>

\* The second encounter: everything below the vertex has been searched.
Leave ==
    /\ Directed /\ stack # <<>> /\ todo = {}
    /\ Last(stack) \in ancestors
    /\ ancestors' = ancestors \ {Last(stack)}
    /\ stack' = Front(stack)
    /\ UNCHANGED <<links, undirected, running, nodes, todo, pairs, pairsTodo, verdict>>

------------------------------------------------------------------------------
(* Undirected graphs.  The edge to the parent is not followed back.        *)

Undirected == running /\ undirected

RootPairs(x) ==
    /\ Undirected /\ pairs = <<>> /\ pairsTodo = {}
    /\ x \in nodes
    /\ nodes' = nodes \ {x}
    /\ pairsTodo' = {x} \X Adjacent(x)
    /\ UNCHANGED <<links, undirected, running, ancestors, stack, todo, pairs, verdict>>

\* Mutant of VisitPair: the edge to the parent is followed.
VisitPairBack ==
    /\ Undirected /\ pairs # <<>> /\ pairsTodo = {}
    /\ LET x == Last(pairs)[2]
       IN IF x \notin nodes
          THEN Return("cyclic") /\ UNCHANGED <<nodes, pairsTodo>>
          ELSE /\ nodes' = nodes \ {x}
               /\ pairsTodo' = {x} \X Adjacent(x)
               /\ UNCHANGED <<links, undirected, running, verdict>>
    /\ pairs' = Front(pairs)
    /\ UNCHANGED <<ancestors, stack, todo>>

\* A vertex that is found again was reached on two paths.
VisitPair ==
    /\ Undirected /\ pairs # <<>> /\ pairsTodo = {}
    /\ LET parent == Last(pairs)[1]
           x == Last(pairs)[2]
       IN IF x \notin nodes
          THEN Return("cyclic") /\ UNCHANGED <<nodes, pairsTodo>>
          ELSE /\ nodes' = nodes \ {x}
               /\ pairsTodo' = {x} \X (Adjacent(x) \ {parent})
               /\ UNCHANGED <<links, undirected, running, verdict>>
    /\ pairs' = Front(pairs)
    /\ UNCHANGED <<ancestors, stack, todo>>

PushPair(p) ==
    /\ Undirected
    /\ p \in pairsTodo
    /\ pairs' = Append(pairs, p)
    /\ pairsTodo' = pairsTodo \ {p}
    /\ UNCHANGED <<links, undirected, running, nodes, ancestors, stack, todo, verdict>>

------------------------------------------------------------------------------
SearchStep ==
    \/ Exhausted \/ Visit \/ Leave \/ VisitPair
    \/ \E x \in Instances : Root(x) \/ Push(x) \/ RootPairs(x)
    \/ \E p \in Instances \X Instances : PushPair(p)

\* isUndirected is called first, and isCyclic with what it returned or with FALSE.
CycleNext ==
    \/ SearchStep
    \/ \E g \in Graphs, u \in BOOLEAN : (u => IsUndirected(g)) /\ IsCyclic(g, u)

CycleSpec == CycleInit /\ [][CycleNext]_cycleVars

------------------------------------------------------------------------------
Decision ==
    INSTANCE CycleDecision WITH links <- links, undirected <- undirected, verdict <- verdict

\* isCyclic returns true for a directed graph only if it has a cycle, and false
\* only if it has none, whatever the order in which vertices are visited.
DirectedVerdict ==
    ~undirected =>
        /\ verdict = "cyclic" => Decision!DirectedCycle(links)
        /\ verdict = "acyclic" => ~Decision!DirectedCycle(links)

\* Every call is answered as CycleDecision says, for undirected graphs too.
ImplementsDecision == Decision!Spec
==============================================================================
