---------------------------- MODULE MCSchemaMatch ----------------------------
(* Schemas for TLC, in families: both schemas of a call are of one family. *)
EXTENDS SchemaMatch

Dim(d, mod) == [d |-> d, mod |-> mod]

Fld(name, type, dim, class) ==
    [name |-> name, type |-> type, dim |-> dim, class |-> class, srcName |-> Null, srcDim |-> Null]

\* As in the files: a singleton without a list of fields.
Single(name, type, dim, class) ==
    Fld(name, type, dim, class) @@ [singleton |-> TRUE, fields |-> <<>>, links |-> <<>>]

Many(name, fields, links) ==
    [name |-> name, singleton |-> FALSE, srcName |-> Null, fields |-> fields, links |-> links]
    @@ NoField

Cls(name, dim) == [name |-> name, dim |-> dim, srcName |-> Null]

Sch(ns, cs, cyclic, undirected, fanin) ==
    [nodes |-> ns, classes |-> cs, cyclic |-> cyclic, undirected |-> undirected,
     fanin |-> fanin, srcDims |-> EmptyMap]

Plain(ds) == [i \in DOMAIN ds |-> Dim(ds[i], "")]

\* One tensor: all lists of up to two dimensions, and longer ones with a wildcard.
DimSet == {Dim(d, mod) : d \in {"m", "n"}, mod \in {"", "?", "+", "*"}} \cup {Dim("2", "")}
DimLists ==
    [1..1 -> DimSet] \cup [1..2 -> DimSet]
    \cup {Plain(<<"2", "2", "3">>), Plain(<<"m", "2", "m">>), <<Dim(Malformed, "")>>,
          <<Dim("m", ""), Dim("n", "*"), Dim("m", "")>>}
OneTensor == {Sch(<<Single("x", "tensor", l, Null)>>, <<>>, FALSE, FALSE, FALSE) : l \in DimLists}

\* Three singletons in any order, some of them with a common dimension.
ThreeLists == {<<<<"2">>, <<"3">>, <<"m">>>>, <<<<"2">>, <<"3">>, <<"4">>>>,
               <<<<"m">>, <<"n">>, <<"m", "n">>>>, <<<<"2">>, <<"3">>, <<"3", "2">>>>,
               <<<<"3">>, <<"3">>, <<"2", "3">>>>}
Three ==
    {Sch([i \in 1..3 |-> Single(<<"x", "y", "z">>[i], "tensor", Plain(ls[p[i]]), Null)],
         <<>>, FALSE, FALSE, FALSE) : ls \in ThreeLists, p \in Bijection(1..3, 1..3)}

\* Categories that share a class or a dimension, with tensors next to them.
ClassSets == {<<Cls("a", "2")>>, <<Cls("a", "m"), Cls("b", "3")>>, <<Cls("a", "m"), Cls("b", "n")>>,
              <<Cls("a", "2"), Cls("b", "2")>>, <<Cls("a", Malformed)>>}
Categories ==
    {Sch(<<Single("x", "category", <<>>, c[1]), Single("y", "category", <<>>, c[2])>>
            \o IF d = Null THEN <<>> ELSE <<Single("z", "tensor", Plain(<<d>>), Null)>>,
         cs, FALSE, FALSE, FALSE) :
        c \in {"a", "b"} \X {"a", "b"}, cs \in ClassSets, d \in {Null, "m"}}

\* Nodes with instances: links, several fields, flags, mixed with a singleton.
To(name, lo, hi) == <<[name |-> name, dim |-> <<lo, hi>>]>>
LinkPairs ==
    {<<<<>>, To("p", 0, 2)>>, <<<<[name |-> "q", dim |-> <<1>>]>>, <<>>>>,
     <<To("p", 1, 2), To("p", 0, Inf)>>, <<<<>>, To("x", 1, 1)>>}
GraphFields ==
    {<<Fld("f", "tensor", Plain(<<"m">>), Null), Fld("g", "tensor", Plain(<<"2">>), Null)>>,
     <<Fld("f", "tensor", Plain(<<"2">>), Null), Fld("g", "tensor", Plain(<<"3">>), Null)>>}
Flags == {<<FALSE, FALSE, FALSE>>, <<TRUE, FALSE, TRUE>>, <<TRUE, TRUE, FALSE>>}
LinkedNodes ==
    {Sch(<<Many("p", fs, l[1]), Many("q", <<Fld("f", "tensor", Plain(<<"n">>), Null)>>, l[2])>>
            \o IF x THEN <<Single("x", "tensor", Plain(<<"m">>), Null)>> ELSE <<>>,
         <<>>, flags[1], flags[2], flags[3]) :
        fs \in GraphFields, l \in LinkPairs, x \in BOOLEAN, flags \in Flags}

\* Two singletons and a node with instances that have dimensions in common.
Mixed ==
    {Sch(<<Single("x", "tensor", Plain(<<d[1]>>), Null), Single("y", "tensor", Plain(<<d[2]>>), Null),
           Many("p", <<Fld("f", "tensor", Plain(<<d[3]>>), Null)>>, <<>>)>>,
         <<>>, FALSE, FALSE, FALSE) : d \in [1..3 -> {"2", "m", "n"}]}

MCCalls ==
    (OneTensor \X OneTensor) \cup (Three \X Three) \cup (Categories \X Categories)
    \cup (LinkedNodes \X LinkedNodes) \cup (Mixed \X Mixed)
==============================================================================
