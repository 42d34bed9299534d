-------------------------- MODULE MCSchemaInference --------------------------
(* Datasets for TLC, in families, and schemas to generate datasets from.   *)
EXTENDS SchemaGeneration

P(i) == <<"p", i>>
Q(i) == <<"q", i>>
MCInstances == {P(0), P(1), P(2), Q(0), Q(1)}

Ten(name, shape) == [name |-> name, type |-> "tensor", subtype |-> "default", shape |-> shape]
Csv(name, rows, columns) ==
    [name |-> name, type |-> "tensor", subtype |-> "csv", shape |-> <<rows, columns>>]
Cat(name, categories) == [name |-> name, type |-> "category", categories |-> categories]
Lnk(links_) == [name |-> "links", type |-> "links", links |-> links_]
Dir(name, files) == [name |-> name, type |-> "directory", files |-> files]
Cls(name, categories) == [name |-> name, type |-> "class", categories |-> categories]

Both(g) == g \cup {<<e[2], e[1]>> : e \in g}

\* One sample with a node of three instances, and any graph on them.
OneGraph ==
    {<<Dir("s", <<Dir("p", <<Ten("f", <<3, 2>>)>>), Lnk(g)>>)>> :
        g \in SUBSET ({P(0), P(1), P(2)} \X {P(0), P(1), P(2)})}

\* Two samples with two nodes, with links or without.
SomeGraphs ==
    {{}, {<<P(0), P(1)>>}, Both({<<P(0), P(1)>>}), Both({<<P(0), P(1)>>, <<P(1), P(2)>>, <<P(2), P(0)>>}),
     {<<P(0), P(1)>>, <<Q(0), P(1)>>}, {<<P(0), P(1)>>, <<P(0), P(2)>>, <<P(1), Q(0)>>},
     {<<P(0), P(1)>>, <<P(1), Q(0)>>, <<Q(0), P(0)>>},
     Both({<<P(0), Q(0)>>, <<P(1), Q(0)>>, <<P(2), Q(0)>>})}
TwoNodes(count) == <<Dir("p", <<Ten("f", <<count, 2>>)>>), Dir("q", <<Ten("f", <<1, 3>>)>>)>>
TwoGraphs ==
    {<<Dir("s", TwoNodes(3) \o l), Dir("t", TwoNodes(c) \o m)>> :
        l \in {<<>>} \cup {<<Lnk(g)>> : g \in SomeGraphs},
        m \in {<<>>} \cup {<<Lnk(g)>> : g \in SomeGraphs}, c \in {2, 3}}

\* Two samples that agree or differ in their children.
SampleKinds ==
    {<<Ten("x", <<2>>), Cat("y", <<"u">>)>>, <<Ten("x", <<3>>), Cat("y", <<"u">>)>>,
     <<Cat("y", <<"u", "v">>), Ten("x", <<2>>)>>, <<Cat("y", <<"w">>), Ten("x", <<2>>)>>,
     <<Ten("x", <<2>>), Ten("y", <<0>>)>>, <<Ten("x", <<2>>)>>, <<Cat("x", <<"u">>), Ten("x", <<2>>)>>,
     <<Ten("z", <<2>>)>>, <<Ten("x", <<2>>), Cls("c", <<"u">>)>>, <<Cls("c", <<"u">>)>>,
     <<Csv("x", 1, 2)>>, <<Csv("x", 2, 2)>>, <<Ten("x", Malformed)>>, <<Lnk({})>>,
     <<Dir("x", <<Ten("f", <<2, 3>>), Cat("g", <<"u", "v">>)>>)>>,
     <<Dir("x", <<Ten("f", <<0, 3>>), Cat("g", <<"u", "v">>)>>)>>,
     <<Dir("x", <<Cat("g", <<"u">>), Ten("f", <<1, 3>>)>>)>>,
     <<Dir("x", <<Cat("g", <<"u">>), Ten("f", <<2, 3>>)>>)>>,
     <<Dir("x", <<Cat("g", <<"u">>)>>)>>, <<Dir("x", <<Cat("g", <<"w", "u">>)>>)>>,
     <<Dir("x", <<Cat("h", <<"u">>)>>)>>, <<Dir("x", <<Dir("f", <<>>)>>)>>, <<Dir("x", <<>>)>>,
     <<Dir("x", <<Csv("f", 1, 2)>>)>>, <<Dir("x", <<Ten("f", <<2, 3>>), Ten("g", <<2, 3>>)>>)>>,
     <<Dir("x", <<Ten("f", <<2, 3>>)>>), Lnk({}), [Lnk({}) EXCEPT !.name = "more"]>>}
ClassSets == {<<>>, <<Cls("a", <<"u", "v">>)>>, <<Cls("a", <<"u", "v">>), Cls("b", <<"u", "v", "w">>)>>}
TwoKinds == {c \o <<Dir("s", a), Dir("t", b)>> : a \in SampleKinds, b \in SampleKinds, c \in ClassSets}

\* Roots that are refused, or overwritten.
Roots ==
    {<<Ten("x", <<2>>)>>, <<Cls("a", <<>>)>>, <<Cls("a", <<"u", "u">>)>>, <<>>,
     <<Dir("s", <<Ten("x", <<2>>)>>), Cls("s", <<"u">>)>>,
     <<Dir("s", <<Ten("x", <<2>>)>>), Dir("s", <<Ten("x", <<3>>)>>)>>}

\* A class file takes the place of a node that the links lead to.
HiddenNode ==
    <<Dir("s", TwoNodes(3) \o <<Lnk({})>>),
      Dir("t", <<TwoNodes(3)[1], Cls("c", <<"u">>), Lnk({<<P(0), Q(1)>>})>>)>>

\* Links to a node without instances, alone or beside one that has some.
NoInstances ==
    {<<Dir("s", <<Dir("p", <<Ten("f", <<0, 3>>)>>), Dir("q", <<Ten("f", <<c, 3>>)>>), Lnk(g)>>)>> :
        c \in 0..2, g \in {{}, {<<P(0), P(0)>>}, {<<Q(0), P(0)>>}, {<<P(0), Q(1)>>}, {<<Q(0), P(1)>>}}}

MCDatasets == OneGraph \cup TwoGraphs \cup TwoKinds \cup Roots \cup NoInstances \cup {HiddenNode}

\* Schemas of one or two nodes with links, under all flags, and one without links.
Fld(name, type, dim, class) ==
    [name |-> name, type |-> type, dim |-> dim, class |-> class, srcName |-> Null, srcDim |-> Null]
Size(d) == <<[d |-> d, mod |-> ""]>>
To(name, lo, hi) == [name |-> name, dim |-> <<lo, hi>>]
Many(name, links_) ==
    [name |-> name, singleton |-> FALSE, srcName |-> Null,
     fields |-> <<Fld("f", "tensor", Size(2), Null)>>, links |-> links_]
Sch(ns, cs, flags) ==
    [nodes |-> ns, classes |-> cs, cyclic |-> flags[1], undirected |-> flags[2],
     fanin |-> flags[3], srcDims |-> EmptyMap]
Order(schema_, samples, instances) ==
    [schema |-> schema_, numSamples |-> samples, numNodeInstances |-> instances]

OneLinked ==
    {<<Many("p", <<l>>)>> : l \in {To("p", 0, 1), To("p", 0, 2), To("p", 0, Inf), To("p", 1, Inf)}}
TwoLinked ==
    {<<Many("p", <<To("p", 0, 1), To("q", 0, 2)>>), Many("q", <<>>)>>,
     <<Many("p", <<To("q", 0, 1)>>), Many("q", <<To("p", 0, 1)>>)>>}
Mixed ==
    <<[Many("p", <<>>) EXCEPT !.fields = Append(@, Fld("g", "category", <<>>, "a"))],
      [Many("x", <<>>) EXCEPT !.singleton = TRUE, !.fields = <<Fld("field", "category", <<>>, "b")>>]>>

LinkedOrders(flags) ==
    {Order(Sch(ns, <<>>, flags), 1, 3) : ns \in OneLinked}
    \cup {Order(Sch(ns, <<>>, flags), 1, 2) : ns \in TwoLinked}
    \cup {Order(Sch(<<Many("p", <<To("p", 0, 1)>>)>>, <<>>, flags), 2, 2),
          Order(Sch(<<Many("p", <<To("p", 2, 2)>>)>>, <<>>, flags), 1, 1)}
MixedClasses ==
    <<[name |-> "a", dim |-> 2, srcName |-> Null], [name |-> "b", dim |-> 1, srcName |-> Null]>>
MCOrders ==
    {o \in UNION {LinkedOrders(flags) : flags \in [1..3 -> BOOLEAN]} : SchemaOK(o.schema)}
    \cup {Order(Sch(Mixed, MixedClasses, <<FALSE, FALSE, FALSE>>), 2, 2)}
==============================================================================
