------------------------------- MODULE Schemas -------------------------------
(***************************************************************************)
(* The schema library: what a schema is, how it is read, checked and       *)
(* written, and how the parts of two schemas are compared.  JavaScript     *)
(* objects keep their keys in order, so a map from names is a sequence of  *)
(* records with a field "name".  Names, sizes and whatever else the        *)
(* library tests with a regular expression are abstract values;            *)
(* Malformed stands for every value that those tests refuse.               *)
(***************************************************************************)
EXTENDS NamedSequences

CONSTANTS
    DimNames,    \* names of variable dimensions; every other dimension is a size
    Inf,         \* the upper bound 'inf' of a link, larger than every other
    Malformed,   \* a value that a constructor refuses
    Null         \* the source's null

ASSUME InfAssumption == Inf \in Nat \ {0}

\* The name that the field of a singleton gets is accepted, and no source name as well.
ASSUME FieldNameAssumption == Malformed \notin {"field", Null}

EmptyMap == <<>>

\* The source's "Object.assign({}, a, b)".
Assign(a, b) == [x \in DOMAIN a \cup DOMAIN b |-> IF x \in DOMAIN b THEN b[x] ELSE a[x]]

------------------------------------------------------------------------------
(* Constructors.  Each of them throws a SchemaException or accepts.        *)

\* Link: one count, or a lower and an upper bound.
Link(dim) == IF Len(dim) = 1 THEN <<dim[1], dim[1]>> ELSE dim

LinkOK(dim) ==
    \/ Len(dim) = 1 /\ dim[1] \in 1..(Inf - 1)
    \/ Len(dim) = 2 /\ dim[1] \in 0..(Inf - 1) /\ dim[2] \in 1..Inf /\ dim[1] <= dim[2]

Wildcard(d) == d.mod \in {"?", "+", "*"}
Skippable(d) == d.mod \in {"?", "*"}
Repeatable(d) == d.mod \in {"+", "*"}

\* Tensor: at most one dimension of variable count, and never none at all.
TensorOK(f) ==
    /\ f.dim # <<>>
    /\ \A i \in DOMAIN f.dim : f.dim[i].d # Malformed
    /\ f.srcDim # Null => \A i \in DOMAIN f.srcDim : f.srcDim[i].d # Malformed
    /\ \A i, j \in DOMAIN f.dim : Wildcard(f.dim[i]) /\ Wildcard(f.dim[j]) => i = j
    /\ ~(Len(f.dim) = 1 /\ Skippable(f.dim[1]))

CategoryOK(f) == f.class # Malformed

FieldOK(f) ==
    /\ f.name # Malformed /\ f.srcName # Malformed
    /\ \/ f.type = "tensor" /\ TensorOK(f)
       \/ f.type = "category" /\ CategoryOK(f)

ClassOK(c) == c.name # Malformed /\ c.dim # Malformed /\ c.srcName # Malformed

NodeOK(n) ==
    /\ n.name # Malformed /\ n.srcName # Malformed /\ n.singleton \in BOOLEAN
    /\ n.singleton => Len(n.fields) = 1 /\ n.links = <<>>
    /\ Len(n.fields) + Len(n.links) >= 1
    /\ \A i \in DOMAIN n.fields : FieldOK(n.fields[i])

ClassesUsed(s) ==
    UNION {{n.fields[i].class : i \in {i \in DOMAIN n.fields : n.fields[i].type = "category"}}
            : n \in ToSet(s.nodes)}

\* linkCount: the upper bounds of the links of a node together.
LinkCount(ls) ==
    LET Upto[n \in 0..Len(ls)] == IF n = 0 THEN 0 ELSE Upto[n - 1] + ls[n].dim[2]
    IN  Upto[Len(ls)]

\* A link leads to a node with instances.  A node of an undirected schema
\* without fan-in can have two neighbours at most.
LinksOK(s, n) ==
    /\ \A l \in ToSet(n.links) :
        l.name \in Names(s.nodes) /\ ~Get(s.nodes, l.name).singleton
    /\ s.undirected /\ ~s.fanin =>
        /\ \A l \in ToSet(n.links) : l.dim[2] # Inf
        /\ LinkCount(n.links) <= 2

SchemaOK(s) ==
    /\ {s.cyclic, s.undirected, s.fanin} \subseteq BOOLEAN
    /\ s.nodes # <<>>
    /\ \A n \in ToSet(s.nodes) : LinksOK(s, n)
    /\ ClassesUsed(s) = Names(s.classes)
    /\ \A d \in DOMAIN s.srcDims : s.srcDims[d] # Malformed

------------------------------------------------------------------------------
(* Reading and writing.  In the input a singleton holds its only field     *)
(* directly, next to its own properties.                                   *)

LoadField(raw, name) ==
    [name |-> name, type |-> raw.type, dim |-> raw.dim, class |-> raw.class,
     srcName |-> raw.srcName, srcDim |-> raw.srcDim]

LoadLink(raw) == [name |-> raw.name, dim |-> Link(raw.dim)]

LoadNode(raw) ==
    [name |-> raw.name, singleton |-> raw.singleton, srcName |-> raw.srcName,
     fields |-> IF raw.singleton = TRUE /\ raw.fields = <<>>
                THEN <<LoadField(raw, "field")>>
                ELSE [i \in DOMAIN raw.fields |-> LoadField(raw.fields[i], raw.fields[i].name)],
     links |-> [i \in DOMAIN raw.links |-> LoadLink(raw.links[i])]]

LoadClass(raw) == [name |-> raw.name, dim |-> raw.dim, srcName |-> raw.srcName]

\* load: every part is read and checked, then the whole.  Malformed stands for the
\* SchemaException.
Load(raw) ==
    LET s == [nodes |-> [i \in DOMAIN raw.nodes |-> LoadNode(raw.nodes[i])],
              classes |-> [i \in DOMAIN raw.classes |-> LoadClass(raw.classes[i])],
              cyclic |-> raw.cyclic, undirected |-> raw.undirected, fanin |-> raw.fanin,
              srcDims |-> raw.srcDims]
    IN  IF /\ \A n \in ToSet(raw.nodes) : \A l \in ToSet(n.links) : LinkOK(l.dim)
           /\ \A n \in ToSet(s.nodes) : NodeOK(n)
           /\ \A c \in ToSet(s.classes) : ClassOK(c)
           /\ SchemaOK(s)
        THEN s ELSE Malformed

NoField == [type |-> Null, dim |-> <<>>, class |-> Null, srcName |-> Null, srcDim |-> Null]

\* Mutant of DumpField: the dimensions in the source are not written.
DumpFieldShort(f) ==
    [name |-> f.name, type |-> f.type, dim |-> f.dim, class |-> f.class,
     srcName |-> f.srcName, srcDim |-> Null]

DumpField(f) ==
    [name |-> f.name, type |-> f.type, dim |-> f.dim, class |-> f.class,
     srcName |-> f.srcName, srcDim |-> f.srcDim]

\* The source name of a singleton is written over that of its field.
DumpNode(n) ==
    LET f == IF n.singleton THEN DumpField(n.fields[1]) ELSE NoField
    IN  [name |-> n.name, singleton |-> n.singleton,
         srcName |-> IF n.srcName = Null THEN f.srcName ELSE n.srcName,
         type |-> f.type, dim |-> f.dim, class |-> f.class, srcDim |-> f.srcDim,
         fields |-> IF n.singleton THEN <<>> ELSE [i \in DOMAIN n.fields |-> DumpField(n.fields[i])],
         links |-> IF n.singleton THEN <<>> ELSE n.links]

Dump(s) == [s EXCEPT !.nodes = [i \in DOMAIN @ |-> DumpNode(@[i])]]

IsVariable(s) ==
    \/ \E n \in ToSet(s.nodes) : \E f \in ToSet(n.fields) :
        f.type = "tensor" /\ \E i \in DOMAIN f.dim : f.dim[i].d \in DimNames
    \/ \E c \in ToSet(s.classes) : c.dim \in DimNames
==============================================================================
