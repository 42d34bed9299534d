---------------------------- MODULE CycleDecision ----------------------------
(***************************************************************************)
(* What Links.isCyclic promises: asked about a graph, it answers whether   *)
(* the graph has a cycle.  Nothing is said about how it finds out.         *)
(***************************************************************************)
CONSTANTS Instances    \* the instances that links join

VARIABLES
    links,         \* the graph that was asked about
    undirected,    \* whether a link and its reverse count as one edge
    verdict        \* the answer

(***************************************************************************)
(* In a finite directed graph there is a cycle iff some nonempty set of    *)
(* vertices is such that each of them has a successor in the set.  In an   *)
(* undirected graph each of them needs two neighbours, or a loop.          *)
(***************************************************************************)
DirectedCycle(g) ==
    \E S \in SUBSET Instances :
        /\ S # {}
        /\ \A a \in S : \E b \in S : <<a, b>> \in g

UndirectedCycle(g) ==
    \E S \in SUBSET Instances :
        /\ S # {}
        /\ \A a \in S :
            \/ <<a, a>> \in g
            \/ \E b, c \in S \ {a} : b # c /\ {<<a, b>>, <<a, c>>} \subseteq g

Cyclic(g, u) == IF u THEN UndirectedCycle(g) ELSE DirectedCycle(g)

Init == links = {} /\ undirected = FALSE /\ verdict = "none"

Ask ==
    /\ links' \in SUBSET (Instances \X Instances)
    /\ undirected' \in BOOLEAN
    /\ verdict' = "none"

Answer ==
    /\ verdict = "none"
    /\ verdict' = IF Cyclic(links, undirected) THEN "cyclic" ELSE "acyclic"
    /\ UNCHANGED <<links, undirected>>

Spec == Init /\ [][Ask \/ Answer]_<<links, undirected, verdict>>
==============================================================================
