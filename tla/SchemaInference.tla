--------------------------- MODULE SchemaInference ---------------------------
(***************************************************************************)
(* Reading a dataset and Dataset.inferSchema: the schema of a dataset is   *)
(* that of its first sample, and every other sample is compared with it.   *)
(* The samples are handled one after the other; the nodes, the links and   *)
(* the search for cycles in the links of a sample are steps.  Numbers of   *)
(* instances and sizes are integers, names and categories are values.      *)
(***************************************************************************)
EXTENDS Schemas, LinkCycles

CONSTANTS Datasets    \* the directories that are read

\* Null is none of the errors and other outcomes.
ASSUME OutcomesAssumption ==
    Null \notin {"unreadable", "DatasetException", "SchemaException", "TypeError", "ok"}

VARIABLES
    dataset,           \* the directory: its class files and its samples
    phase,             \* where the call is
    k,                 \* the number of the sample that is handled
    schNodes,          \* the nodes of the schema so far
    counts,            \* the numbers of instances of the nodes of this sample
    linksFileFound,    \* whether a sample with links was met
    schCyclic, schFanin, schUndirected,    \* the flags so far
    outcome            \* how the call ended

inferVars == <<dataset, phase, k, schNodes, counts, linksFileFound,
               schCyclic, schFanin, schUndirected, outcome>>

------------------------------------------------------------------------------
(* Reading.                                                                *)

\* A file without the extension of its type names the child; of two files with
\* the same name the later one is kept, in the place of the earlier one.
LoadDirectory(files) ==
    LET Latest(i) == Max({j \in DOMAIN files : files[j].name = files[i].name})
        firsts == {i \in DOMAIN files : \A j \in 1..(i - 1) : files[j].name # files[i].name}
    IN  Picked([i \in DOMAIN files |-> files[Latest(i)]], firsts)

\* A CSV file with one row is a tensor of one dimension.
TensorShape(f) == IF f.subtype = "csv" /\ f.shape[1] = 1 THEN <<f.shape[2]>> ELSE f.shape

\* A tree has three levels: samples and classes, nodes, and the fields of the nodes.
FilesIn(fs) == UNION {ToSet(f.files) : f \in {f \in fs : f.type = "directory"}}
AllFiles(files) ==
    LET below == FilesIn(ToSet(files)) IN ToSet(files) \cup below \cup FilesIn(below)

\* A file as it is found: its type, and what its content is read as.
FileOK(f) ==
    /\ f.type \in {"directory", "tensor", "category", "class", "links"}
    /\ f.type = "directory" => f.files \in Seq(ToSet(f.files))
    /\ f.type \in {"category", "class"} => f.categories \in Seq(ToSet(f.categories))
    /\ f.type = "tensor" => \/ f.shape = Malformed
                            \/ f.shape \in Seq(Nat) /\ f.shape # <<>>
                               /\ (f.subtype = "csv" => Len(f.shape) = 2)
    /\ f.type = "links" => \/ f.links = Malformed
                           \/ f.links \in Graphs /\ IsFiniteSet(f.links)

\* An instance is a node's name and an index.
ASSUME InstancesAssumption == \A x \in Instances : x[2] \in Nat

ASSUME DatasetsAssumption ==
    \A files \in Datasets :
        files \in Seq(ToSet(files)) /\ \A f \in AllFiles(files) : FileOK(f)

\* What the readers refuse: data of another type or rows of different lengths, a
\* category that is listed twice in a class, a line that is not a link.  Every list
\* of categories is read.
TensorReadable(f) == f.shape # Malformed
ClassReadable(f) == IsInjective(f.categories)
LinksReadable(f) == f.links # Malformed

Readable(f) ==
    /\ f.type = "tensor" => TensorReadable(f)
    /\ f.type = "class" => ClassReadable(f)
    /\ f.type = "links" => LinksReadable(f)

OfKind(children, type) == Picked(children, {i \in DOMAIN children : children[i].type = type})

NodeFilesOf(children) == Picked(children, {i \in DOMAIN children : children[i].type # "links"})

Samples == OfKind(dataset, "directory")
ClassFiles == OfKind(dataset, "class")
Sample == LoadDirectory(Samples[k].files)

------------------------------------------------------------------------------
(* One child after the other, up to the first error.                       *)

Sequentially(Step(_, _), acc, children) ==
    LET Upto[n \in 0..Len(children)] ==
            IF n = 0 THEN acc
            ELSE LET a == Upto[n - 1] IN IF a.err = Null THEN Step(a, children[n]) ELSE a
    IN  Upto[Len(children)]

Err(acc, err) == [acc EXCEPT !.err = err]

SizeDim(n) == [d |-> IF n < 1 THEN Malformed ELSE n, mod |-> ""]
SizeDims(shape) == [i \in DOMAIN shape |-> SizeDim(shape[i])]

TensorField(name, dim) ==
    [name |-> name, type |-> "tensor", dim |-> dim, class |-> Null, srcName |-> Null, srcDim |-> Null]

CategoryField(name, class) ==
    [name |-> name, type |-> "category", dim |-> <<>>, class |-> class,
     srcName |-> Null, srcDim |-> Null]

Node(name, singleton, fields) ==
    [name |-> name, singleton |-> singleton, fields |-> fields, links |-> <<>>, srcName |-> Null]

\* Every category of the file is one of the class.
BelongsToSet(f, class) == ToSet(f.categories) \subseteq ToSet(class.categories)

\* The class of a category is the first one that has all its values.
ClassOf(f) ==
    LET i == SelectInSeq(ClassFiles, LAMBDA c : BelongsToSet(f, c))
    IN  IF i = 0 THEN Null ELSE ClassFiles[i].name

\* The field of a file, or Null if its categories are those of no class.
FieldOf(f, name, shape) ==
    IF f.type = "tensor" THEN TensorField(name, SizeDims(shape))
    ELSE IF ClassOf(f) = Null THEN Null ELSE CategoryField(name, ClassOf(f))

\* A tensor or a category in a sample is a singleton.
SingletonStep(acc, f) ==
    LET AddTo(field) ==
            IF field = Null THEN Err(acc, "DatasetException")
            ELSE IF k = 1
            THEN IF FieldOK(field)
                 THEN [acc EXCEPT !.nodes = Append(@, Node(f.name, TRUE, <<field>>))]
                 ELSE Err(acc, "SchemaException")
            ELSE IF f.name \notin Names(acc.nodes) THEN Err(acc, "TypeError")
            ELSE LET n == Get(acc.nodes, f.name)
                 IN  IF ~n.singleton \/ n.fields[1] # field THEN Err(acc, "DatasetException") ELSE acc
    IN  AddTo(FieldOf(f, "field", IF f.type = "tensor" THEN TensorShape(f) ELSE <<>>))

\* The first file says how many instances the node has; a count of 0 is not noticed.
\* A field of a later sample must be that of the first one.
FieldStep(acc, f) ==
    LET shape == IF f.type = "tensor" THEN TensorShape(f) ELSE <<Len(f.categories)>>
        count == IF acc.count = 0 THEN shape[1] ELSE acc.count
        AddTo(field) ==
            IF field = Null \/ count # shape[1] THEN Err(acc, "DatasetException")
            ELSE IF k = 1
            THEN IF FieldOK(field)
                 THEN [err |-> Null, fields |-> Append(acc.fields, field), count |-> count]
                 ELSE Err(acc, "SchemaException")
            ELSE IF f.name \notin Names(acc.fields) THEN Err(acc, "TypeError")
            ELSE IF Get(acc.fields, f.name) # field THEN Err(acc, "DatasetException")
            ELSE [acc EXCEPT !.count = count]
    IN  IF f.type \notin {"tensor", "category"} THEN Err(acc, "DatasetException")
        ELSE AddTo(FieldOf(f, f.name, Tail(shape)))

\* A bug: only a name that is new is noticed.
DifferOneWay(a, b) == a # b /\ a \subseteq b

\* Two sets of names differ in a way that is noticed: one is part of the other.
Differ(a, b) == a # b /\ (a \subseteq b \/ b \subseteq a)

\* The source's "object[name] = n".
Put(ns, n) ==
    IF n.name \in Names(ns) THEN [i \in DOMAIN ns |-> IF ns[i].name = n.name THEN n ELSE ns[i]]
    ELSE Append(ns, n)

SetCount(m, name, n) == [x \in {name} \cup DOMAIN m |-> IF x = name THEN n ELSE m[x]]

\* A directory in a sample is a node with instances.  The node is made anew from its
\* fields, without the links that it had.
DirectoryStep(acc, f) ==
    LET children == LoadDirectory(f.files)
        Read(fields) == Sequentially(FieldStep, [err |-> Null, fields |-> fields, count |-> 0], children)
        Made(r) ==
            IF r.err # Null THEN Err(acc, r.err)
            ELSE IF r.fields = <<>> THEN Err(acc, "SchemaException")
            ELSE [err |-> Null, nodes |-> Put(acc.nodes, Node(f.name, FALSE, r.fields)),
                  counts |-> SetCount(acc.counts, f.name, r.count)]
    IN  IF k = 1 THEN Made(Read(<<>>))
        ELSE IF f.name \notin Names(acc.nodes) THEN Err(acc, "TypeError")
        ELSE IF \/ Get(acc.nodes, f.name).singleton
                \/ Differ(Names(Get(acc.nodes, f.name).fields), Names(children))
        THEN Err(acc, "DatasetException")
        ELSE Made(Read(Get(acc.nodes, f.name).fields))

ChildStep(acc, f) == IF f.type = "directory" THEN DirectoryStep(acc, f) ELSE SingletonStep(acc, f)

------------------------------------------------------------------------------
(* Links.                                                                  *)

\* A bug: the threshold of a directed graph is used for every graph.
IsFaninDirected(g, u) == \E x \in Instances : Cardinality({e \in g : e[2] = x}) > 1

\* In an undirected graph a chain has two links to a node.
IsFanin(g, u) ==
    \E x \in Instances : Cardinality({e \in g : e[2] = x}) > IF u THEN 2 ELSE 1

\* How many links an instance has to a node.
LinkDestinationCount(g, x, name) == Cardinality({e \in g : e[1] = x /\ e[2][1] = name})

\* Links join instances of nodes that the schema has and that are not singletons.
LinksKnown(g) ==
    \A e \in g : \A x \in {e[1], e[2]} :
        x[1] \in Names(schNodes) /\ ~Get(schNodes, x[1]).singleton

\* A bug: the index that is one too large passes.
IndexOverflowOne(g) ==
    \E x \in Endpoints(g) : x[2] > 0 /\ x[1] \in DOMAIN counts /\ x[2] > counts[x[1]]

\* The largest index of a node is compared with its number of instances, unless it is 0.
IndexOverflow(g) ==
    \E x \in Endpoints(g) : x[2] > 0 /\ x[1] \in DOMAIN counts /\ x[2] >= counts[x[1]]

\* The bounds of the links of a node to another one, widened by the counts of a sample.
MergedLinks(n, g) ==
    LET CountsTo(name) == {LinkDestinationCount(g, x, name) : x \in {x \in Instances : x[1] = n.name}} \ {0}
        Old(name) == IF name \in Names(n.links) THEN ToSet(Get(n.links, name).dim) ELSE {}
        Bounds(cs) == <<Min(cs), Max(cs)>>
        targets == Picked(schNodes, {i \in DOMAIN schNodes :
                       CountsTo(schNodes[i].name) # {} \/ schNodes[i].name \in Names(n.links)})
    IN  [i \in DOMAIN targets |->
            [name |-> targets[i].name,
             dim |-> Bounds(CountsTo(targets[i].name) \cup Old(targets[i].name))]]

\* Without a links file the instances of a node form a chain.
Chained(n) ==
    IF n.singleton THEN n ELSE [n EXCEPT !.links = Put(@, [name |-> n.name, dim |-> Link(<<1>>)])]

------------------------------------------------------------------------------
(* The call.                                                               *)

\* Before the first sample.
StartInit ==
    /\ k = 1 /\ schNodes = <<>> /\ counts = EmptyMap /\ linksFileFound = FALSE
    /\ schCyclic = FALSE /\ schFanin = FALSE /\ schUndirected = TRUE
    /\ outcome = Null
    /\ CycleInit

InferInit == dataset \in Datasets /\ phase = "read" /\ StartInit

Finish(how) ==
    /\ phase' = "done" /\ outcome' = how
    /\ UNCHANGED <<dataset, k, schNodes, counts, linksFileFound,
                   schCyclic, schFanin, schUndirected, cycleVars>>

NextSample == phase' = "sample" /\ k' = k + 1

\* loadDataset: the tree is read before anything else is done.
ReadDataset ==
    /\ phase = "read"
    /\ \/ (\E f \in AllFiles(dataset) : ~Readable(f)) /\ Finish("unreadable")
       \/ /\ \A f \in AllFiles(dataset) : Readable(f)
          /\ dataset' = LoadDirectory(dataset) /\ phase' = "root"
          /\ UNCHANGED <<k, schNodes, counts, linksFileFound,
                         schCyclic, schFanin, schUndirected, outcome, cycleVars>>

\* The root has samples and classes only, and a class is not empty.
RootError(f) ==
    IF f.type \notin {"directory", "class"} THEN "DatasetException"
    ELSE IF f.type = "class" /\ f.categories = <<>> THEN "SchemaException"
    ELSE Null

\* The first child that is refused ends the call.
SortRoot ==
    /\ phase = "root"
    /\ LET refused == {i \in DOMAIN dataset : RootError(dataset[i]) # Null}
       IN  IF refused # {} THEN Finish(RootError(dataset[Min(refused)]))
           ELSE /\ phase' = "sample"
                /\ UNCHANGED <<dataset, k, schNodes, counts, linksFileFound,
                               schCyclic, schFanin, schUndirected, outcome, cycleVars>>

\* The checks that come first: links files and names.  The flag linksFileFound is
\* set before it is compared.
BeginSample ==
    /\ phase = "sample" /\ k <= Len(Samples)
    /\ LET has == OfKind(Sample, "links") # <<>>
           names == Names(NodeFilesOf(Sample))
       IN  IF \/ has # (linksFileFound \/ has)
              \/ k > 1 /\ Differ(Names(schNodes), names)
           THEN Finish("DatasetException")
           ELSE /\ linksFileFound' = (linksFileFound \/ has) /\ phase' = "nodes"
                /\ UNCHANGED <<dataset, k, schNodes, counts,
                               schCyclic, schFanin, schUndirected, outcome, cycleVars>>

\* Tensors first, then categories, then the nodes with instances.
InOrder(children) ==
    OfKind(children, "tensor") \o OfKind(children, "category") \o OfKind(children, "directory")

SampleNodes ==
    /\ phase = "nodes"
    /\ LET r == Sequentially(ChildStep, [err |-> Null, nodes |-> schNodes, counts |-> EmptyMap],
                             InOrder(Sample))
       IN  IF r.err # Null THEN Finish(r.err)
           ELSE /\ schNodes' = r.nodes /\ counts' = r.counts /\ phase' = "links"
                /\ UNCHANGED <<dataset, k, linksFileFound,
                               schCyclic, schFanin, schUndirected, outcome, cycleVars>>

\* No links file: chains, which are directed.
ImplicitLinks ==
    /\ phase = "links" /\ OfKind(Sample, "links") = <<>>
    /\ schNodes' = [i \in DOMAIN schNodes |-> Chained(schNodes[i])]
    /\ schUndirected' = (schUndirected /\ \A n \in ToSet(schNodes) : n.singleton)
    /\ NextSample
    /\ UNCHANGED <<dataset, counts, linksFileFound, schCyclic, schFanin, outcome, cycleVars>>

\* The links file: bounds, then the flags.  A flag that cannot change any more is
\* not computed; isCyclic is called last.
SampleLinks ==
    /\ phase = "links" /\ OfKind(Sample, "links") # <<>>
    /\ LET g == OfKind(Sample, "links")[1].links
           u == schUndirected /\ IsUndirected(g)
       IN  IF \/ Len(OfKind(Sample, "links")) > 1 \/ DOMAIN counts = {}
              \/ ~LinksKnown(g) \/ IndexOverflow(g)
           THEN Finish("DatasetException")
           ELSE /\ schNodes' = [i \in DOMAIN schNodes |->
                                  IF schNodes[i].singleton THEN schNodes[i]
                                  ELSE [schNodes[i] EXCEPT !.links = MergedLinks(schNodes[i], g)]]
                /\ schUndirected' = u
                /\ schFanin' = (schFanin \/ IsFanin(g, u))
                /\ IF schCyclic THEN NextSample /\ UNCHANGED cycleVars
                   ELSE phase' = "cyclic" /\ IsCyclic(g, u) /\ UNCHANGED k
                /\ UNCHANGED <<dataset, counts, linksFileFound, schCyclic, outcome>>

CyclicReturned ==
    /\ phase = "cyclic" /\ ~running
    /\ schCyclic' = (verdict = "cyclic")
    /\ NextSample
    /\ UNCHANGED <<dataset, schNodes, counts, linksFileFound, schFanin, schUndirected,
                   outcome, cycleVars>>

Inferred ==
    [nodes |-> schNodes, cyclic |-> schCyclic, undirected |-> schUndirected, fanin |-> schFanin,
     classes |-> [i \in DOMAIN ClassFiles |->
                    [name |-> ClassFiles[i].name, dim |-> Len(ClassFiles[i].categories), srcName |-> Null]],
     srcDims |-> EmptyMap]

BuildSchema ==
    /\ phase = "sample" /\ k > Len(Samples)
    /\ Finish(IF SchemaOK(Inferred) THEN "ok" ELSE "SchemaException")

\* The steps of the search, while inferSchema waits for it.
Search == phase = "cyclic" /\ SearchStep /\ UNCHANGED inferVars

InferNext ==
    \/ ReadDataset \/ SortRoot \/ BeginSample \/ SampleNodes \/ ImplicitLinks \/ SampleLinks
    \/ CyclicReturned \/ BuildSchema \/ Search

------------------------------------------------------------------------------
(* Properties.  A sample is compared with the schema that was inferred.    *)

Children(i) == LoadDirectory(Samples[i].files)
LinksOf(i) == UNION {f.links : f \in ToSet(OfKind(Children(i), "links"))}
HasLinks(i) == OfKind(Children(i), "links") # <<>>

\* A class file inside a sample is not looked at, and hides that another child is
\* missing.
NoClassInSamples == \A i \in DOMAIN Samples : OfKind(Children(i), "class") = <<>>

FileFits(f, field, shape) ==
    IF f.type = "tensor"
    THEN field.type = "tensor" /\ [i \in DOMAIN field.dim |-> field.dim[i].d] = shape
    ELSE field.type = "category" /\ BelongsToSet(f, Get(ClassFiles, field.class))

ChildFits(f, n) ==
    IF f.type = "directory"
    THEN /\ ~n.singleton
         /\ Names(LoadDirectory(f.files)) = Names(n.fields)
         /\ \A g \in ToSet(LoadDirectory(f.files)) :
                FileFits(g, Get(n.fields, g.name), IF g.type = "tensor" THEN Tail(TensorShape(g)) ELSE <<>>)
    ELSE n.singleton /\ FileFits(f, n.fields[1], IF f.type = "tensor" THEN TensorShape(f) ELSE <<>>)

\* If a schema is returned, every sample has exactly its nodes, and each of them the
\* kind, the fields, the dimensions and the class that the schema says, in whatever
\* order the samples come.
SchemaFitsSamples ==
    outcome = "ok" /\ NoClassInSamples =>
        \A i \in DOMAIN Samples :
            LET nodeFiles == NodeFilesOf(Children(i))
            IN  /\ Names(nodeFiles) = Names(schNodes)
                /\ \A f \in ToSet(nodeFiles) : ChildFits(f, Get(schNodes, f.name))

\* The bounds on links are those of the last sample, and tight: its instances have
\* that many links, or none.  The bounds of earlier samples are lost, since the nodes
\* are made anew.  A link of the last sample joins instances that exist, with one
\* exception: an index 0 is not compared with the number of instances, so that a node
\* without instances can still be linked at its index 0, and at no other.
LinksFitLastSample ==
    outcome = "ok" /\ NoClassInSamples /\ Samples # <<>> =>
        LET i == Len(Samples)
            g == LinksOf(i)
            Count(x, n) == Cardinality({e \in g : e[1] = x /\ e[2][1] = n})
        IN  HasLinks(i) =>
            /\ \A x \in Endpoints(g) :
                IF counts[x[1]] = 0 THEN x[2] = 0 ELSE x[2] < counts[x[1]]
            /\ \A n \in ToSet(schNodes) : \A l \in ToSet(n.links) :
                {Min({Count(x, l.name) : x \in {x \in Endpoints(g) : x[1] = n.name}} \ {0}),
                 Max({Count(x, l.name) : x \in {x \in Endpoints(g) : x[1] = n.name}})} = ToSet(l.dim)
            /\ \A e \in g : e[2][1] \in Names(Get(schNodes, e[1][1]).links)

\* The flags are those of all samples together, provided that directed links are not
\* met after undirected ones: a schema is cyclic or has fan-in as soon as the
\* links of one sample are or have, and undirected only if those of all are.
FlagsDescribeSamples ==
    outcome = "ok" /\ Samples # <<>> /\ (\A i \in DOMAIN Samples : HasLinks(i))
    /\ (IsUndirected(LinksOf(1)) => \A i \in DOMAIN Samples : IsUndirected(LinksOf(i))) =>
        /\ schUndirected = \A i \in DOMAIN Samples : IsUndirected(LinksOf(i))
        /\ schCyclic = \E i \in DOMAIN Samples : Decision!Cyclic(LinksOf(i), schUndirected)
        /\ schFanin = \E i \in DOMAIN Samples : \E x \in Instances :
                Cardinality({y \in Instances : <<y, x>> \in LinksOf(i)}) >= IF schUndirected THEN 3 ELSE 2

\* What a comment of inferSchema says it ensures: either all samples have a links
\* file or none has.
AllOrNoneHaveLinks ==
    outcome = "ok" =>
        (\A i \in DOMAIN Samples : HasLinks(i)) \/ (\A i \in DOMAIN Samples : ~HasLinks(i))

\* isCyclic returns, for every graph and every order in which it visits the vertices.
SearchEnds == running ~> ~running
==============================================================================
