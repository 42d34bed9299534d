----------------------------- MODULE SchemaMatch -----------------------------
(***************************************************************************)
(* Schema.prototype.match: whether a destination schema (self) accepts a   *)
(* source schema, and the renaming that shows it.  The state machine       *)
(* follows the function: the referential constraints, one order of the     *)
(* source's singletons after the other, one order of its other nodes after *)
(* the other, and the result.  What one order needs is an operator.        *)
(***************************************************************************)
EXTENDS Schemas

CONSTANTS Calls    \* the pairs <<destination, source>> of inputs, before they are read

\* An input has the parts that a schema, a node and a field have, and one of a name;
\* what is not a dimension is Malformed, and null is neither a dimension nor the name
\* of a node.
InputOK(raw) ==
    LET IsList(s) == s \in Seq(ToSet(s))
        AreDims(s) == IsList(s) /\ \A i \in DOMAIN s : s[i].d # Null
    IN  /\ \A s \in {raw.nodes, raw.classes} : IsList(s) /\ DistinctNames(s)
        /\ \A n \in ToSet(raw.nodes) : n.name # Null
        /\ \A n \in ToSet(raw.nodes) :
            /\ \A s \in {n.fields, n.links} : IsList(s) /\ DistinctNames(s)
            /\ \A f \in ToSet(n.fields) \cup {n} : AreDims(f.dim)

ASSUME CallsAssumption == \A inputs \in Calls : InputOK(inputs[1]) /\ InputOK(inputs[2])

VARIABLES
    call,        \* the two inputs
    pc,          \* where the call is
    self,        \* the destination schema
    source,      \* the source schema
    build,       \* the argument buildMatching
    orders,      \* the iterator over the orders of the source's nodes
    dimMap,      \* dimension names of self and what they stand for in source
    classMap,    \* the same for classes
    nodeMap,     \* the same for nodes
    nodes,       \* the nodes of the schema that is built
    outcome,     \* how the call ended
    result       \* the schema it built

maps == <<dimMap, classMap, nodeMap, nodes>>
matchVars == <<call, pc, self, source, build, orders, maps, outcome, result>>

------------------------------------------------------------------------------
(* The iterator over permutations: Heap's algorithm with its own stack.    *)

\* Mutant of Factorial: nothing is multiplied.
FactorialLinear(n) == n

\* The source's factorial: it returns 0 for 0.
Factorial(n) ==
    LET product[i \in 0..n] == IF i = 0 THEN 1 ELSE i * product[i - 1]
    IN  IF n = 0 THEN 0 ELSE product[n]

Permutation(x) ==
    [x |-> x, iterations |-> 0, max |-> Factorial(Len(x)),
     stack |-> [i \in DOMAIN x |-> [n |-> Len(x) - i + 1, index |-> 0]]]

HasNext(it) == it.iterations < it.max

Swap(x, i, j) == [x EXCEPT ![i] = x[j], ![j] = x[i]]

\* One turn of the loop of doNext: a frame is taken from the stack, and the loop ends
\* with the first one of size 1.
Turn(u) ==
    LET s == Last(u.stack)
        y == IF u.skipSwap THEN u.x
             ELSE IF s.n % 2 = 0 THEN Swap(u.x, s.index + 1, s.n) ELSE Swap(u.x, 1, s.n)
        index == IF u.skipSwap THEN s.index ELSE s.index + 1
        again == index < s.n
    IN  IF u.done THEN u
        ELSE IF s.n = 1
        THEN [x |-> u.x, stack |-> Front(u.stack), skipSwap |-> u.skipSwap, done |-> TRUE]
        ELSE [x |-> y, skipSwap |-> u.skipSwap \/ again, done |-> FALSE,
              stack |-> Front(u.stack) \o IF again THEN <<[n |-> s.n, index |-> index],
                                                          [n |-> s.n - 1, index |-> 0]>>
                                         ELSE <<>>]

\* doNext: the stack has at most one frame of a size, so that each size is met once on the
\* way up and once on the way down.
DoNext(x, stack) ==
    LET turns[i \in 0..2 * Len(x)] ==
            IF i = 0 THEN [x |-> x, stack |-> stack, skipSwap |-> FALSE, done |-> FALSE]
            ELSE Turn(turns[i - 1])
    IN  turns[2 * Len(x)]

\* next: the order is in the field x of the iterator that results.
NextOrder(it) ==
    LET r == DoNext(it.x, it.stack)
    IN  [x |-> r.x, iterations |-> it.iterations + 1, max |-> it.max, stack |-> r.stack]

\* All orders of x, in the sequence in which the iterator returns them.
Orders(x) ==
    LET after[i \in 0..Factorial(Len(x))] ==
            IF i = 0 THEN Permutation(x) ELSE NextOrder(after[i - 1])
    IN  [i \in 1..Factorial(Len(x)) |-> after[i].x]

------------------------------------------------------------------------------
(* Dimensions, links, fields and nodes.  A comparison returns whether the  *)
(* two fit and the maps with what it added to them.                        *)

Fits(dims, classes) == [ok |-> TRUE, dims |-> dims, classes |-> classes]
Fails == [ok |-> FALSE, dims |-> EmptyMap, classes |-> EmptyMap]

Bind(map, name, value) == [x \in DOMAIN map \cup {name} |-> IF x = name THEN value ELSE map[x]]

\* The first result that is a match is taken, if there is one.
FirstFit(tried) ==
    LET fits == {i \in DOMAIN tried : tried[i].ok}
    IN  IF fits = {} THEN Fails ELSE tried[Min(fits)]

\* Behind the end of a list there is no dimension.
NoDim == [d |-> Null, mod |-> ""]
DimAt(list, i) == IF i \in DOMAIN list THEN list[i] ELSE NoDim

\* Mutant of FirstsMatch: what a name stands for already is not looked up.
FirstsMatchFree(a, b, m) == a # NoDim /\ b # NoDim /\ (a.d \in DimNames \/ a.d = b.d)

\* The first dimensions a and b of two lists can be matched.
FirstsMatch(a, b, m) ==
    /\ a # NoDim /\ b # NoDim
    /\ IF a.d \in DimNames THEN a.d \in DOMAIN m => m[a.d] = b.d ELSE a.d = b.d

\* The five ways to go on from places i and j of the lists, in the order in which they are
\* tried: consume both dimensions, keep one of the source that may be repeated, skip
\* one of self, keep one of self that may be repeated, skip one of the source.
Ways(a, b, match, with, i, j, m) ==
    LET Way(can, toA, toB, map) == [can |-> can, to |-> <<toA, toB, map>>]
    IN  << Way(match, i + 1, j + 1, with),
           Way(match /\ Repeatable(b), i + 1, j, with),
           Way(Skippable(a), i + 1, j, m),
           Way(match /\ Repeatable(a), i, j + 1, with),
           Way(Skippable(b), i, j + 1, m) >>

\* Mutant of WaysOf: a repeated dimension of self is not kept.
WaysOfOnce(a, b, i, j, m) ==
    LET with == IF a.d \in DimNames THEN Bind(m, a.d, b.d) ELSE m
    IN  RemoveAt(Ways(a, b, FirstsMatch(a, b, m), with, i, j, m), 4)

WaysOf(a, b, i, j, m) ==
    Ways(a, b, FirstsMatch(a, b, m), IF a.d \in DimNames THEN Bind(m, a.d, b.d) ELSE m, i, j, m)

\* What names of dimensions may stand for.
DimMaps(values) == UNION {[names -> values] : names \in SUBSET DimNames}

\* A call of matchDimList is about the lists from two places on.
MatchDimList(listA, listB, m) ==
    LET values == {listB[j].d : j \in DOMAIN listB} \cup {m[x] : x \in DOMAIN m}
        fit[q \in (1..Len(listA) + 1) \X (1..Len(listB) + 1) \X DimMaps(values)] ==
            LET Follow(way) == IF way.can THEN fit[way.to] ELSE Fails
                FollowAll(ways) == FirstFit([w \in DOMAIN ways |-> Follow(ways[w])])
            IN  IF q[1] > Len(listA) /\ q[2] > Len(listB) THEN Fits(q[3], EmptyMap)
                ELSE FollowAll(WaysOf(DimAt(listA, q[1]), DimAt(listB, q[2]), q[1], q[2], q[3]))
    IN  fit[<<1, 1, m>>]

\* Mutant of MatchLink: the bounds of self must be wider.
MatchLinkWider(l, k) == l.dim[1] < k.dim[1] /\ k.dim[2] <= l.dim[2]

MatchLink(l, k) == l.dim[1] <= k.dim[1] /\ k.dim[2] <= l.dim[2]

MatchTensor(f, g, dims, classes) ==
    LET Keep(r) == IF r.ok THEN Fits(r.dims, classes) ELSE Fails
    IN  Keep(MatchDimList(f.dim, g.dim, dims))

MatchClass(c, d, dims) ==
    IF c.dim \notin DimNames THEN [ok |-> c.dim = d.dim, dims |-> dims]
    ELSE IF c.dim \in DOMAIN dims THEN [ok |-> dims[c.dim] = d.dim, dims |-> dims]
    ELSE [ok |-> TRUE, dims |-> Bind(dims, c.dim, d.dim)]

MatchCategory(f, g, dims, classes, selfClasses, sourceClasses) ==
    IF f.class \in DOMAIN classes
    THEN IF classes[f.class] = g.class THEN Fits(dims, classes) ELSE Fails
    ELSE LET Keep(r) == IF r.ok THEN Fits(r.dims, Bind(classes, f.class, g.class)) ELSE Fails
         IN  Keep(MatchClass(Get(selfClasses, f.class), Get(sourceClasses, g.class), dims))

\* Fields of one type are compared one after the other, each with the maps of those before.
FieldsMatch(as, bs, dims, classes, selfClasses, sourceClasses) ==
    LET Compare(f, g, r) ==
            IF ~r.ok THEN Fails
            ELSE IF f.type = "tensor" THEN MatchTensor(f, g, r.dims, r.classes)
            ELSE MatchCategory(f, g, r.dims, r.classes, selfClasses, sourceClasses)
        after[i \in 0..Len(as)] ==
            IF i = 0 THEN Fits(dims, classes) ELSE Compare(as[i], bs[i], after[i - 1])
    IN  after[Len(as)]

\* The first order of bs that fits is the one that is taken.
FieldOrder(as, bs, dims, classes, selfClasses, sourceClasses) ==
    LET With(order, r) == [ok |-> r.ok, dims |-> r.dims, classes |-> r.classes, order |-> order]
        Try(order) == With(order, FieldsMatch(as, order, dims, classes, selfClasses, sourceClasses))
        all == IF bs = <<>> THEN <<<<>>>> ELSE Orders(bs)
    IN  FirstFit([i \in DOMAIN all |-> Try(all[i])])

OfType(n, type) == Picked(n.fields, {i \in DOMAIN n.fields : n.fields[i].type = type})

CountsMatch(n, k) ==
    /\ Len(OfType(n, "tensor")) = Len(OfType(k, "tensor"))
    /\ Len(OfType(n, "category")) = Len(OfType(k, "category"))
    /\ Len(n.links) = Len(k.links)

LinksMatch(n, k, names) ==
    \A l \in ToSet(n.links) :
        /\ l.name \in DOMAIN names
        /\ names[l.name] \in Names(k.links)
        /\ MatchLink(l, Get(k.links, names[l.name]))

\* A field of the result: that of self, with the name and the dimensions that it has in
\* the source.
BuildField(f, g) ==
    [name |-> f.name, type |-> f.type, dim |-> f.dim, class |-> f.class,
     srcName |-> g.name, srcDim |-> IF f.type = "tensor" THEN g.dim ELSE f.srcDim]

\* Mutant of BuildNode: the fields of the source are taken as they stand, not in the
\* order that was found.
BuildNodeUnordered(n, k, tensors, categories) ==
    [name |-> n.name, singleton |-> n.singleton, srcName |-> k.name, links |-> n.links,
     fields |-> [i \in DOMAIN n.fields |-> BuildField(n.fields[i], k.fields[i])]]

\* The node of the result: that of self, with the names that its parts have in the source.
BuildNode(n, k, tensors, categories) ==
    LET Place(f, fs) == CHOOSE i \in DOMAIN fs : fs[i].name = f.name
        From(f) == IF f.type = "tensor" THEN tensors[Place(f, OfType(n, "tensor"))]
                   ELSE categories[Place(f, OfType(n, "category"))]
    IN  [name |-> n.name, singleton |-> n.singleton, srcName |-> k.name, links |-> n.links,
         fields |-> [i \in DOMAIN n.fields |-> BuildField(n.fields[i], From(n.fields[i]))]]

\* matchNode: counts, links, tensors and then categories.
MatchNode(n, k, dims, classes, names, selfClasses, sourceClasses) ==
    LET OrderOf(type, d, c) ==
            FieldOrder(OfType(n, type), OfType(k, type), d, c, selfClasses, sourceClasses)
        Built(t, c) == IF ~c.ok THEN Fails
                       ELSE [ok |-> TRUE, dims |-> c.dims, classes |-> c.classes,
                             node |-> BuildNode(n, k, t.order, c.order)]
        Categories(t) == IF ~t.ok THEN Fails ELSE Built(t, OrderOf("category", t.dims, t.classes))
    IN  IF CountsMatch(n, k) /\ LinksMatch(n, k, names)
        THEN Categories(OrderOf("tensor", dims, classes)) ELSE Fails

\* The first nodes of two lists are compared in the same way.
NodesMatch(count, as, bs, dims, classes, names, selfClasses, sourceClasses) ==
    LET Join(r, t) == IF ~t.ok THEN Fails
                      ELSE [ok |-> TRUE, dims |-> t.dims, classes |-> t.classes,
                            built |-> Append(r.built, t.node)]
        Compare(n, k, r) ==
            IF ~r.ok THEN Fails
            ELSE Join(r, MatchNode(n, k, r.dims, r.classes, names, selfClasses, sourceClasses))
        after[i \in 0..count] ==
            IF i = 0 THEN [ok |-> TRUE, dims |-> dims, classes |-> classes, built |-> <<>>]
            ELSE Compare(as[i], bs[i], after[i - 1])
    IN  after[count]

------------------------------------------------------------------------------
(* The call.                                                               *)

Singletons(s) == Picked(s.nodes, {i \in DOMAIN s.nodes : s.nodes[i].singleton})
Nonsingletons(s) == Picked(s.nodes, {i \in DOMAIN s.nodes : ~s.nodes[i].singleton})

MatchInit ==
    /\ call \in Calls /\ build \in BOOLEAN
    /\ pc = "idle" /\ self = Null /\ source = Null
    /\ orders = Null /\ outcome = Null /\ result = Null
    /\ dimMap = EmptyMap /\ classMap = EmptyMap /\ nodeMap = EmptyMap /\ nodes = <<>>

Finish(how, schema) ==
    /\ pc' = "done" /\ outcome' = how /\ result' = schema
    /\ UNCHANGED <<call, self, source, build, orders, maps>>

\* The two schemas are read, then match is called.
LoadBoth ==
    /\ pc = "idle"
    /\ self' = Load(call[1]) /\ source' = Load(call[2])
    /\ IF Malformed \in {self', source'}
       THEN pc' = "done" /\ outcome' = "exception"
       ELSE pc' = "constraints" /\ UNCHANGED outcome
    /\ UNCHANGED <<call, build, orders, maps, result>>

\* The flags are compared only if self has nodes that are not singletons.
ConstraintsFit ==
    Nonsingletons(self) # <<>> =>
        /\ source.cyclic => self.cyclic
        /\ self.undirected => source.undirected
        /\ source.fanin => self.fanin

Constraints ==
    /\ pc = "constraints"
    /\ \/ ~ConstraintsFit /\ Finish("nomatch", Null)
       \/ /\ ConstraintsFit
          /\ pc' = "singletons" /\ orders' = Permutation(Singletons(source))
          /\ UNCHANGED <<call, self, source, build, maps, outcome, result>>

NameMap(as, bs) ==
    [n \in {as[i].name : i \in DOMAIN as \cap DOMAIN bs} |->
        bs[CHOOSE i \in DOMAIN as : as[i].name = n].name]

\* What follows from the comparison r of the first nodes of self with those of an
\* order: a pair without a node on one side is an error of the program, met only
\* if the pairs before it fit.
Judge(it, r, as, there, count) ==
    IF r.ok /\ there < count THEN Finish("crash", Null)
    ELSE IF r.ok /\ count > 0
    THEN /\ pc' = IF pc = "singletons" THEN "nonsingletons" ELSE "found"
         /\ orders' = Permutation(Nonsingletons(source))
         /\ dimMap' = r.dims /\ classMap' = r.classes
         /\ nodeMap' = Assign(nodeMap, NameMap(as, it.x))
         /\ nodes' = IF build THEN nodes \o r.built ELSE nodes
         /\ UNCHANGED <<call, self, source, build, outcome, result>>
    ELSE /\ orders' = it
         /\ UNCHANGED <<call, pc, self, source, build, maps, outcome, result>>

\* One order of the source's nodes against those of self: count pairs.
TryOrder(it, as, count, names) ==
    LET there == Min({count, Len(as), Len(it.x)})
    IN  Judge(it, NodesMatch(there, as, it.x, dimMap, classMap, names, self.classes, source.classes),
              as, there, count)

\* The loop over the source's singletons counts those of the source.
SingletonOrder ==
    /\ pc = "singletons" /\ HasNext(orders)
    /\ TryOrder(NextOrder(orders), Singletons(self), Len(Singletons(source)), nodeMap)

\* The loop over the other nodes counts those of self, and knows beforehand which
\* node each of them is to be.
NonsingletonOrder ==
    /\ pc = "nonsingletons" /\ HasNext(orders)
    /\ LET TryThis(it, as) == TryOrder(it, as, Len(as), Assign(nodeMap, NameMap(as, it.x)))
       IN  TryThis(NextOrder(orders), Nonsingletons(self))

\* No order is left: all have failed, or there was nothing to order.
NoOrderLeft ==
    /\ pc \in {"singletons", "nonsingletons"} /\ ~HasNext(orders)
    /\ IF orders.x # <<>> THEN Finish("nomatch", Null)
       ELSE /\ pc' = IF pc = "singletons" THEN "nonsingletons" ELSE "found"
            /\ orders' = Permutation(Nonsingletons(source))
            /\ UNCHANGED <<call, self, source, build, maps, outcome, result>>

\* The schema of self that remembers the names of the source.  A class that was not
\* mapped has no source name.
BuildSchema(s, dims, classes, built) ==
    LET Class(c) == [name |-> c.name, dim |-> c.dim,
                     srcName |-> IF c.name \in DOMAIN classes THEN classes[c.name] ELSE Malformed]
    IN  [nodes |-> built, classes |-> [i \in DOMAIN s.classes |-> Class(s.classes[i])],
         cyclic |-> s.cyclic, undirected |-> s.undirected, fanin |-> s.fanin, srcDims |-> dims]

\* The result: the constructors may refuse what is built.
Build ==
    /\ pc = "found"
    /\ LET Check(s) == IF (\A c \in ToSet(s.classes) : ClassOK(c)) /\ SchemaOK(s)
                       THEN Finish("match", s) ELSE Finish("exception", Null)
       IN  IF build THEN Check(BuildSchema(self, dimMap, classMap, nodes))
           ELSE Finish("match", Null)

MatchNext ==
    \/ LoadBoth \/ Constraints \/ SingletonOrder \/ NonsingletonOrder \/ NoOrderLeft \/ Build

MatchSpec == MatchInit /\ [][MatchNext]_matchVars

------------------------------------------------------------------------------
(* What a match is, without an algorithm: the nodes, the fields, the       *)
(* dimension names and the classes of self are mapped to those of the      *)
(* source, nodes and fields one to one.                                    *)

\* A walk of n steps along a list: from place to place, each as often as its modifier
\* allows.
Walks(list, n) ==
    {p \in [1..n -> DOMAIN list] :
        /\ \A t, u \in 1..n : t <= u => p[t] <= p[u]
        /\ \A i \in DOMAIN list :
            /\ Skippable(list[i]) \/ \E t \in 1..n : p[t] = i
            /\ Repeatable(list[i]) \/ \A t, u \in 1..n : p[t] = i /\ p[u] = i => t = u}

Stands(d, e, mu) == e = IF d \in DimNames THEN mu[d] ELSE d

\* Two lists agree if one can walk along both and meet the same dimensions.
DimsEmbed(listA, listB, mu) ==
    \E n \in 0..Len(listA) + Len(listB) : \E p \in Walks(listA, n), q \in Walks(listB, n) :
        \A t \in 1..n : Stands(listA[p[t]].d, listB[q[t]].d, mu)

FieldEmbeds(f, g, mu, kappa) ==
    /\ f.type = g.type
    /\ f.type = "tensor" => DimsEmbed(f.dim, g.dim, mu)
    /\ f.type = "category" => kappa[f.class] = g.class

NodeEmbeds(n, k, mu, kappa, pi) ==
    /\ n.singleton = k.singleton
    /\ Names(k.links) = {pi[l.name] : l \in ToSet(n.links)}
    /\ \A l \in ToSet(n.links) : MatchLink(l, Get(k.links, pi[l.name]))
    /\ \E sigma \in Bijection(DOMAIN n.fields, DOMAIN k.fields) :
        \A i \in DOMAIN n.fields : FieldEmbeds(n.fields[i], k.fields[sigma[i]], mu, kappa)

Dims(s) ==
    {c.dim : c \in ToSet(s.classes)} \cup
    UNION {UNION {{f.dim[i].d : i \in DOMAIN f.dim} : f \in ToSet(n.fields)} : n \in ToSet(s.nodes)}

Embeds(a, b) ==
    \E mu \in [DimNames -> Dims(b) \cup {Null}], kappa \in [Names(a.classes) -> Names(b.classes)],
       pi \in Bijection(Names(a.nodes), Names(b.nodes)) :
        /\ \A c \in ToSet(a.classes) : Stands(c.dim, Get(b.classes, kappa[c.name]).dim, mu)
        /\ \A n \in ToSet(a.nodes) : NodeEmbeds(n, Get(b.nodes, pi[n.name]), mu, kappa, pi)

------------------------------------------------------------------------------
(* Properties.                                                             *)

Returned == pc = "done" /\ self # Malformed /\ source # Malformed

SameCounts ==
    /\ Len(Singletons(self)) = Len(Singletons(source))
    /\ Len(Nonsingletons(self)) = Len(Nonsingletons(source))

\* Schemas with the same numbers of nodes are found to match only if one embeds in
\* the other, whatever the wildcards, and every call with such schemas ends with
\* an answer.
MatchIsSound ==
    Returned /\ SameCounts =>
        /\ outcome \in {"match", "nomatch"}
        /\ outcome = "match" => ConstraintsFit /\ Embeds(self, source)

\* Nothing has to be guessed: no wildcards, one field of a type in a node, and
\* only one of the two kinds of nodes.
Determined ==
    /\ Singletons(self) = <<>> \/ Nonsingletons(self) = <<>>
    /\ \A n \in ToSet(self.nodes) \cup ToSet(source.nodes) :
        /\ Len(OfType(n, "tensor")) <= 1 /\ Len(OfType(n, "category")) <= 1
        /\ \A f \in ToSet(n.fields) : \A i \in DOMAIN f.dim : ~Wildcard(f.dim[i])

\* Then a match that exists is found: all orders of the nodes are tried, each one
\* with fresh maps.
DeterminedMatchIsFound ==
    Returned /\ SameCounts /\ Determined /\ ConstraintsFit /\ Embeds(self, source) =>
        outcome = "match"

\* One list of dimensions fits another one exactly if they have expansions that are
\* equal under some meaning of the names.
DimListsDecided ==
    Returned /\ Len(self.nodes) = 1 /\ Len(source.nodes) = 1
    /\ Singletons(self) # <<>> /\ Singletons(source) # <<>> =>
        (outcome = "match" <=> Embeds(self, source))

\* A schema accepts itself, however its nodes are ordered and whatever it contains.
SchemaMatchesItself == Returned /\ self = source => outcome = "match"

\* The schema that is built names, for every part of self, a part of the source that
\* it stands for; the names are consistent over the whole schema.
BuiltSchemaFits ==
    result # Null =>
        /\ Names(result.nodes) = Names(self.nodes) \/ ~SameCounts
        /\ ~IsVariable(self) => result.srcDims = EmptyMap
        /\ LET mu == [d \in DimNames |-> IF d \in DOMAIN result.srcDims
                                         THEN result.srcDims[d] ELSE Null]
               kappa == [c \in Names(result.classes) |-> Get(result.classes, c).srcName]
               From(n) == Get(source.nodes, n.srcName)
           IN  \A n \in ToSet(result.nodes) :
                /\ n.srcName \in Names(source.nodes)
                /\ \A k \in ToSet(result.nodes) : k.srcName = n.srcName => k = n
                /\ \A f \in ToSet(n.fields) :
                    /\ f.srcName \in Names(From(n).fields)
                    /\ \A g \in ToSet(n.fields) : g.srcName = f.srcName => g = f
                    /\ FieldEmbeds(f, Get(From(n).fields, f.srcName), mu, kappa)
                    /\ f.type = "tensor" => f.srcDim = Get(From(n).fields, f.srcName).dim

\* What is built can be written and read again.  Only the field of a singleton
\* changes: it is renamed, and gets the source name of its node.
Reread(s) ==
    LET Field(n, f) == IF n.singleton THEN [f EXCEPT !.name = "field", !.srcName = n.srcName]
                       ELSE f
        Node(n) == [n EXCEPT !.fields = [j \in DOMAIN n.fields |-> Field(n, n.fields[j])]]
    IN  [s EXCEPT !.nodes = [i \in DOMAIN s.nodes |-> Node(s.nodes[i])]]

BuiltSchemaIsReadable == result # Null => Load(Dump(result)) = Reread(result)
==============================================================================
