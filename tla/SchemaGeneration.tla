-------------------------- MODULE SchemaGeneration --------------------------
(***************************************************************************)
(* generateFromSchema, which fills a dataset with random data that is      *)
(* meant to fit a schema, and inferSchema on what it made.  Random choices *)
(* are arbitrary ones.  Random strings are taken to be different, and the  *)
(* numbers in a tensor do not matter, only how many there are.             *)
(***************************************************************************)
EXTENDS SchemaInference

CONSTANTS Orders    \* what is generated: [schema, numSamples, numNodeInstances]

\* A schema that its constructors have accepted, as maps with names, sizes and bounds in
\* them, and a number of instances that there are.
OrderOK(o) ==
    LET s == o.schema
        Sizes == (Nat \ {0}) \cup DimNames
    IN  /\ o.numSamples \in Nat /\ o.numNodeInstances \in 0..(Inf - 1)
        /\ s.classes \in Seq(ToSet(s.classes)) /\ DistinctNames(s.classes)
        /\ \A c \in ToSet(s.classes) : c.name # Null /\ c.dim \in Sizes
        /\ s.nodes \in Seq(ToSet(s.nodes)) /\ DistinctNames(s.nodes) /\ SchemaOK(s)
        /\ \A n \in ToSet(s.nodes) :
            /\ n.fields \in Seq(ToSet(n.fields)) /\ DistinctNames(n.fields)
            /\ n.links \in Seq(ToSet(n.links)) /\ DistinctNames(n.links) /\ NodeOK(n)
            /\ \A f \in ToSet(n.fields) : f.type = "tensor" =>
                f.dim \in Seq(ToSet(f.dim)) /\ \A x \in ToSet(f.dim) : x.d \in Sizes
            /\ \A l \in ToSet(n.links) : Len(l.dim) = 2 /\ LinkOK(l.dim)
            /\ ~n.singleton => {n.name} \X (0..(o.numNodeInstances - 1)) \subseteq Instances

ASSUME OrdersAssumption == \A o \in Orders : OrderOK(o)

VARIABLES
    order,       \* the arguments of the call, or Null for a dataset that is read
    made,        \* the children of the sample that is being made
    at,          \* the number of the entry of LinkPlan that is next, 0 before the nodes
    newLinks,    \* the links of that sample so far
    countIn, countOut    \* how many links were added to and from each instance

genVars == <<order, made, at, newLinks, countIn, countOut>>
roundTripVars == <<inferVars, cycleVars, genVars>>

------------------------------------------------------------------------------
(* Files.                                                                  *)

\* All sequences with one element of each set.
OneOfEach(sets) ==
    {s \in [DOMAIN sets -> UNION ToSet(sets)] : \A i \in DOMAIN sets : s[i] \in sets[i]}

Categories(c) == [i \in 1..c.dim |-> <<c.name, i>>]

ClassFile(c) == [name |-> c.name, type |-> "class", categories |-> Categories(c)]

\* The files that a field may become: count instances, or the only one of a singleton.
FieldFiles(s, field, name, counted) ==
    IF field.type = "tensor"
    THEN {[name |-> name, type |-> "tensor", subtype |-> "default",
           shape |-> counted \o [i \in DOMAIN field.dim |-> field.dim[i].d]]}
    ELSE LET count == IF counted = <<>> THEN 1 ELSE counted[1]
         IN  {[name |-> name, type |-> "category", categories |-> cs] :
                  cs \in [1..count -> ToSet(Categories(Get(s.classes, field.class)))]}

\* The files or directories that a node may become.
NodeFiles(s, node, numNodeInstances) ==
    IF node.singleton THEN FieldFiles(s, node.fields[1], node.name, <<>>)
    ELSE {[name |-> node.name, type |-> "directory", files |-> fs] :
            fs \in OneOfEach([i \in DOMAIN node.fields |->
                       FieldFiles(s, node.fields[i], node.fields[i].name, <<numNodeInstances>>)])}

------------------------------------------------------------------------------
(* Links.                                                                  *)

schema == order.schema
numNodeInstances == order.numNodeInstances
WithInstances == Picked(schema.nodes, {m \in DOMAIN schema.nodes : ~schema.nodes[m].singleton})

\* The nested loops: nodes with instances, their instances, their links.
LinkPlan ==
    LET OfInstance(node, i) ==
            [t \in DOMAIN node.links |-> [from |-> <<node.name, i>>, link |-> node.links[t]]]
        OfNode(node) == FlattenSeq([i \in 1..numNodeInstances |-> OfInstance(node, i - 1)])
    IN  FlattenSeq([m \in DOMAIN WithInstances |-> OfNode(WithInstances[m])])

\* Mutant of Candidate: in an acyclic graph an instance is linked to itself.
CandidateSelf(from, y) ==
    /\ ~schema.cyclic =>
        IF schema.undirected THEN y[2] # from[2] /\ countIn[y] = 0
        ELSE y[1] = from[1] => y[2] >= from[2]
    /\ ~schema.fanin => countIn[y] = 0

\* Whether an instance may be linked to y.  An acyclic undirected graph grows by
\* instances without links, an acyclic directed one within a node upwards only.
\* (The index maxIdxIn, meant for links between nodes, is looked up only before it
\* is set under that key, so that it excludes nothing.)
Candidate(from, y) ==
    /\ ~schema.cyclic =>
        IF schema.undirected THEN y[2] # from[2] /\ countIn[y] = 0
        ELSE y[1] = from[1] => y[2] > from[2]
    /\ ~schema.fanin => countIn[y] = 0

\* The first candidates of the target node, count of them if there are as many.
Targets(from, target, count) ==
    LET candidates == {y \in {target} \X (0..(numNodeInstances - 1)) : Candidate(from, y)}
    IN  {y \in candidates : Cardinality({z \in candidates : z[2] < y[2]}) < count}

------------------------------------------------------------------------------
(* The call.                                                               *)

GenerateInit ==
    /\ order \in Orders /\ ~IsVariable(order.schema)
    /\ dataset = [i \in DOMAIN order.schema.classes |-> ClassFile(order.schema.classes[i])]
    /\ phase = "generate" /\ StartInit

RoundTripInit ==
    /\ GenerateInit \/ (order = Null /\ InferInit)
    /\ made = <<>> /\ at = 0 /\ newLinks = {} /\ countIn = EmptyMap /\ countOut = EmptyMap

\* A sample begins with its nodes.
GenerateNodes ==
    /\ phase = "generate" /\ at = 0 /\ Len(Samples) < order.numSamples
    /\ made' \in OneOfEach([i \in DOMAIN schema.nodes |->
                            NodeFiles(schema, schema.nodes[i], numNodeInstances)])
    /\ at' = 1 /\ newLinks' = {}
    /\ countIn' = [x \in Names(WithInstances) \X (0..(numNodeInstances - 1)) |-> 0]
    /\ countOut' = countIn'
    /\ UNCHANGED <<order, inferVars, cycleVars>>

\* The links of an instance to a node: a random number, less those it has already,
\* to any node.  The code subtracts the lower bound where it is to be added.
GenerateLinks ==
    /\ phase = "generate" /\ at \in DOMAIN LinkPlan
    /\ LET from == LinkPlan[at].from
           link == LinkPlan[at].link
           lBound == link.dim[1]
           uBound == Min({link.dim[2], numNodeInstances})
       IN  \/ lBound > uBound /\ Finish("AssertionError") /\ UNCHANGED genVars
           \/ \E r \in 0..(uBound - lBound) :
                LET ys == Targets(from, link.name, r - lBound - countOut[from])
                    Back(x) == IF schema.undirected THEN Cardinality(x) ELSE 0
                IN  /\ newLinks' = newLinks \cup {<<from, y>> : y \in ys}
                                   \cup IF schema.undirected THEN {<<y, from>> : y \in ys} ELSE {}
                    /\ countOut' = [x \in DOMAIN countOut |->
                            countOut[x] + (IF x = from THEN Cardinality(ys) ELSE 0) + Back({x} \cap ys)]
                    /\ countIn' = [x \in DOMAIN countIn |->
                            countIn[x] + Cardinality({x} \cap ys) + (IF x = from THEN Back(ys) ELSE 0)]
                    /\ at' = at + 1
                    /\ UNCHANGED <<order, made, inferVars, cycleVars>>

\* The sample is complete.  It has a links file if it has nodes with instances.
GenerateSample ==
    /\ phase = "generate" /\ at = Len(LinkPlan) + 1
    /\ LET file == [name |-> "links", type |-> "links", links |-> newLinks]
           children == made \o IF WithInstances = <<>> THEN <<>> ELSE <<file>>
       IN  dataset' = Append(dataset, [name |-> Len(Samples) + 1, type |-> "directory", files |-> children])
    /\ at' = 0 /\ made' = <<>> /\ newLinks' = {} /\ countIn' = EmptyMap /\ countOut' = EmptyMap
    /\ UNCHANGED <<order, phase, k, schNodes, counts, linksFileFound, schCyclic, schFanin,
                   schUndirected, outcome, cycleVars>>

\* The dataset is handed to inferSchema without being written.
Generated ==
    /\ phase = "generate" /\ at = 0 /\ Len(Samples) = order.numSamples
    /\ phase' = "root"
    /\ UNCHANGED <<dataset, k, schNodes, counts, linksFileFound, schCyclic, schFanin,
                   schUndirected, outcome, cycleVars, genVars>>

RoundTripNext ==
    \/ GenerateNodes \/ GenerateLinks \/ GenerateSample \/ Generated
    \/ InferNext /\ UNCHANGED genVars

RoundTripSpec ==
    RoundTripInit /\ [][RoundTripNext]_roundTripVars /\ WF_<<inferVars, cycleVars>>(Search)

------------------------------------------------------------------------------
(* Properties.                                                             *)

\* A field as it is inferred: without names in a source.
Plain(f, name) ==
    IF f.type = "tensor" THEN TensorField(name, SizeDims([i \in DOMAIN f.dim |-> f.dim[i].d]))
    ELSE CategoryField(name, f.class)

\* What was inferred is allowed by the schema s that was asked for.
Allows(s, t) ==
    /\ t.cyclic => s.cyclic
    /\ s.undirected => t.undirected
    /\ t.fanin => s.fanin
    /\ ToSet(t.classes) = {[name |-> c.name, dim |-> c.dim, srcName |-> Null] : c \in ToSet(s.classes)}
    /\ Names(t.nodes) = Names(s.nodes)
    /\ \A m \in ToSet(t.nodes) :
        LET node == Get(s.nodes, m.name)
        IN  /\ m.singleton = node.singleton
            /\ ToSet(m.fields) = {Plain(f, IF m.singleton THEN "field" ELSE f.name) : f \in ToSet(node.fields)}
            /\ \A l \in ToSet(m.links) :
                /\ l.name \in Names(node.links)
                /\ Get(node.links, l.name).dim[1] <= l.dim[1]
                /\ l.dim[2] <= Get(node.links, l.name).dim[2]

\* The calls that the generator is made for: there are samples and instances, a node has
\* a field and does not take the name of the links.  Lower bounds are subtracted, the links
\* of a directed acyclic schema are kept in order within a node only, an undirected
\* schema must list its links at both nodes, and the links that come back to an
\* instance of a cyclic one are not counted against its bounds.  Links that happen to be
\* undirected and without fan-in are refused if the largest numbers of links to two
\* nodes make more than 2, though no instance has more.
Supported(o) ==
    LET s == o.schema
        LinksTo(name) == Names(Get(s.nodes, name).links)
        Mutual(m) == {name \in LinksTo(m.name) : m.name \in LinksTo(name)}
    IN  /\ o.numSamples # 0 /\ o.numNodeInstances # 0
        /\ \A m \in ToSet(s.nodes) :
            /\ m.name # "links" /\ m.fields # <<>>
            /\ \A l \in ToSet(m.links) :
                /\ l.dim[1] <= 1
                /\ s.undirected => m.name \in LinksTo(l.name)
                /\ s.undirected /\ s.cyclic /\ s.fanin => l.dim[2] = Inf
            /\ (IF s.undirected THEN s.fanin ELSE s.cyclic) => \A x, y \in Mutual(m) : x = y
        /\ ~s.undirected /\ ~s.cyclic =>
            \A S \in SUBSET Names(s.nodes) :
                S # {} => \E x \in S : LinksTo(x) \cap S \subseteq {x}

\* A dataset that was generated in such a call is accepted by inferSchema, and what
\* is inferred is allowed by the schema: its nodes, fields and classes are the
\* same, its flags are allowed, and no instance has more links to a node, or links to
\* other nodes, than it may have, whatever numbers are drawn.
GeneratedFits ==
    order # Null /\ phase = "done" /\ Supported(order) =>
        outcome = "ok" /\ Allows(schema, Inferred)
=============================================================================
