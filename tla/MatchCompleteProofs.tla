------------------------- MODULE MatchCompleteProofs -------------------------
(***************************************************************************)
(* Theorems about what match finds at any rate, for every set of calls.    *)
(*                                                                         *)
(* Two lists of dimensions match if one of them fits the other: the walk   *)
(* tries every way to skip a wildcard and to let one stand for a dimension.*)
(*                                                                         *)
(* Two schemas match if one of them embeds in the other and nothing has to *)
(* be guessed but the order of the nodes.  First, the iterator gives every *)
(* order: after a frame of size s has had t turns, it has given the orders *)
(* that put one of t elements at place s, and From says which.  Second,    *)
(* an embedding tells what every name stands for, and as long as what is   *)
(* bound obeys it, no field and no node that follows it is refused.  So    *)
(* the order of nodes that an embedding gives is accepted, whatever was    *)
(* tried before it, and when match returns nothing there is no embedding.  *)
(***************************************************************************)
EXTENDS SchemaMatchProofs

------------------------------------------------------------------------------
(* Every list of dimensions that fits is found.                            *)

\* FirstFit returns a match if one of the results is one.
LEMMA FirstFitOpen ==
    ASSUME NEW tried, NEW n \in Nat, DOMAIN tried = 1 .. n, NEW w \in 1 .. n, tried[w].ok
    PROVE  FirstFit(tried).ok
<1> DEFINE fits == {i \in DOMAIN tried : tried[i].ok}
<1>1. w \in fits
  OBVIOUS
<1>2. fits \in SUBSET (0 .. n)
  OBVIOUS
<1>3. Min(fits) \in fits
  <2> HIDE DEF fits
  <2>1. QED
    BY <1>1, <1>2, MinProperties
<1>4. FirstFit(tried) = tried[Min(fits)]
  BY <1>1 DEF FirstFit
<1>5. tried[Min(fits)].ok
  BY <1>3
<1>6. QED
  BY <1>4, <1>5

\* A walk that does not come to the place i skips it.
LEMMA WalkWithout ==
    ASSUME NEW list, Len(list) \in Nat, NEW i \in 1 .. Len(list), NEW n \in Nat, NEW p,
           WalkFrom(list, i, n, p), \A t \in 1 .. n : p[t] # i
    PROVE  Skippable(list[i]) /\ WalkFrom(list, i + 1, n, p)
<1>1. /\ p \in [1 .. n -> i .. Len(list)] /\ \A t, u \in 1 .. n : t <= u => p[t] <= p[u]
      /\ \A k \in i .. Len(list) :
          /\ Skippable(list[k]) \/ \E t \in 1 .. n : p[t] = k
          /\ Repeatable(list[k]) \/ \A t, u \in 1 .. n : p[t] = k /\ p[u] = k => t = u
  BY DEF WalkFrom
<1>2. i \in i .. Len(list) /\ \A k \in i + 1 .. Len(list) : k \in i .. Len(list)
  OBVIOUS
<1>3. p \in [1 .. n -> i + 1 .. Len(list)]
  <2>1. \A k \in i .. Len(list) : k # i => k \in i + 1 .. Len(list)
    OBVIOUS
  <2>2. QED
    BY <1>1, <2>1
<1>4. QED
  BY <1>1, <1>2, <1>3 DEF WalkFrom

\* The walk p after its first step.
Rest(p, n) == [t \in 1 .. n - 1 |-> p[t + 1]]

\* A walk that comes to the place i begins there, and goes on from there or from the next place.
LEMMA WalkRest ==
    ASSUME NEW list, Len(list) \in Nat, NEW i \in 1 .. Len(list), NEW n \in Nat, NEW p,
           WalkFrom(list, i, n, p), \E t \in 1 .. n : p[t] = i
    PROVE  /\ n # 0 /\ p[1] = i
           /\ \/ WalkFrom(list, i + 1, n - 1, Rest(p, n))
              \/ Repeatable(list[i]) /\ WalkFrom(list, i, n - 1, Rest(p, n))
<1> DEFINE r == Rest(p, n)
<1>1. /\ p \in [1 .. n -> i .. Len(list)] /\ \A t, u \in 1 .. n : t <= u => p[t] <= p[u]
      /\ \A k \in i .. Len(list) :
          /\ Skippable(list[k]) \/ \E t \in 1 .. n : p[t] = k
          /\ Repeatable(list[k]) \/ \A t, u \in 1 .. n : p[t] = k /\ p[u] = k => t = u
  BY DEF WalkFrom
<1>2. n # 0 /\ 1 \in 1 .. n /\ n - 1 \in Nat
  OBVIOUS
<1>3. p[1] = i
  <2>1. PICK t \in 1 .. n : p[t] = i
    OBVIOUS
  <2>2. p[1] <= i /\ p[1] \in i .. Len(list)
    BY <1>1, <1>2, <2>1
  <2>3. QED
    BY <2>2
<1>4. \A t \in 1 .. n - 1 : t + 1 \in 1 .. n /\ t + 1 # 1 /\ r[t] = p[t + 1]
  BY <1>2 DEF Rest
<1>5. DOMAIN r = 1 .. n - 1 /\ r = [t \in 1 .. n - 1 |-> r[t]]
  BY DEF Rest
<1> HIDE DEF r
<1>6. \A t, u \in 1 .. n - 1 : t <= u => r[t] <= r[u]
  <2>1. \A t, u \in 1 .. n - 1 : t <= u => t + 1 <= u + 1
    OBVIOUS
  <2>2. QED
    BY <1>1, <1>4, <2>1
<1>7. ASSUME NEW k \in i .. Len(list)
      PROVE  /\ Repeatable(list[k]) \/ \A t, u \in 1 .. n - 1 : r[t] = k /\ r[u] = k => t = u
             /\ k # i => Skippable(list[k]) \/ \E t \in 1 .. n - 1 : r[t] = k
  <2>1. ASSUME \A t, u \in 1 .. n : p[t] = k /\ p[u] = k => t = u,
               NEW t \in 1 .. n - 1, NEW u \in 1 .. n - 1, r[t] = k, r[u] = k
        PROVE  t = u
    <3>1. t + 1 = u + 1
      BY <1>4, <2>1
    <3>2. QED
      BY <3>1
  <2>2. ASSUME k # i, NEW t \in 1 .. n, p[t] = k PROVE \E u \in 1 .. n - 1 : r[u] = k
    <3>1. t # 1
      BY <1>3, <2>2
    <3>2. t - 1 \in 1 .. n - 1 /\ (t - 1) + 1 = t
      BY <1>2, <3>1
    <3>3. r[t - 1] = k
      BY <1>4, <2>2, <3>2
    <3>4. QED
      BY <3>2, <3>3
  <2>3. QED
    BY <1>1, <2>1, <2>2
<1>8. \A t \in 1 .. n - 1 : r[t] \in i .. Len(list)
  BY <1>1, <1>4
<1>9. CASE \E t \in 1 .. n - 1 : r[t] = i
  <2>1. PICK t \in 1 .. n - 1 : r[t] = i
    BY <1>9
  <2>2. Repeatable(list[i])
    <3>1. i \in i .. Len(list) /\ t + 1 \in 1 .. n /\ t + 1 # 1 /\ p[t + 1] = i
      BY <1>4, <2>1
    <3>2. QED
      BY <1>1, <1>2, <1>3, <3>1
  <2>3. r \in [1 .. n - 1 -> i .. Len(list)]
    BY <1>5, <1>8
  <2>4. WalkFrom(list, i, n - 1, r)
    BY <1>6, <1>7, <2>1, <2>3 DEF WalkFrom
  <2>5. QED
    BY <1>2, <1>3, <2>2, <2>4 DEF r
<1>10. CASE \A t \in 1 .. n - 1 : r[t] # i
  <2>1. \A k \in i .. Len(list) : k # i => k \in i + 1 .. Len(list)
    OBVIOUS
  <2>2. r \in [1 .. n - 1 -> i + 1 .. Len(list)]
    BY <1>5, <1>8, <1>10, <2>1
  <2>3. \A k \in i + 1 .. Len(list) : k \in i .. Len(list) /\ k # i
    OBVIOUS
  <2>4. WalkFrom(list, i + 1, n - 1, r)
    BY <1>6, <1>7, <2>2, <2>3 DEF WalkFrom
  <2>5. QED
    BY <1>2, <1>3, <2>4 DEF r
<1>11. QED
  BY <1>9, <1>10

\* From the places of q on, n steps along both lists meet the same dimensions.
Agrees(listA, listB, mu, q, n) ==
    /\ Obeys(mu, q[3])
    /\ \E p, r :
        /\ WalkFrom(listA, q[1], n, p) /\ WalkFrom(listB, q[2], n, r)
        /\ \A t \in 1 .. n : Stands(listA[p[t]].d, listB[r[t]].d, mu)

\* Lists that agree can be compared in one of the five ways, and agree after that, or one
\* step was taken twice in vain.
LEMMA AgreesNext ==
    ASSUME NEW listA, AreDimensions(listA), \A i \in DOMAIN listA : listA[i] # NoDim,
           NEW listB, AreDimensions(listB), \A j \in DOMAIN listB : listB[j] # NoDim,
           NEW values, NEW q \in Places(listA, listB, values),
           NEW mu, NEW n \in Nat, Agrees(listA, listB, mu, q, n), ~AtEnd(listA, listB, q)
    PROVE  \/ \E w \in 1 .. 5, k \in 0 .. n :
                /\ WaysAt(listA, listB, q)[w].can
                /\ Agrees(listA, listB, mu, WaysAt(listA, listB, q)[w].to, k)
           \/ n # 0 /\ Agrees(listA, listB, mu, q, n - 1)
<1> DEFINE i == q[1]
           j == q[2]
           m == q[3]
           a == DimAt(listA, i)
           b == DimAt(listB, j)
           with == IF a.d \in DimNames THEN Bind(m, a.d, b.d) ELSE m
           ways == WaysAt(listA, listB, q)
           Goes(w) == ways[w].can /\ \E k \in 0 .. n : Agrees(listA, listB, mu, ways[w].to, k)
<1>1. i \in 1 .. Len(listA) + 1 /\ j \in 1 .. Len(listB) + 1
  BY DEF Places
<1>2. /\ Len(listA) \in Nat /\ DOMAIN listA = 1 .. Len(listA)
      /\ Len(listB) \in Nat /\ DOMAIN listB = 1 .. Len(listB)
  BY DEF AreDimensions
<1>3. PICK p, r :
        /\ WalkFrom(listA, i, n, p) /\ WalkFrom(listB, j, n, r)
        /\ \A t \in 1 .. n : Stands(listA[p[t]].d, listB[r[t]].d, mu)
  BY DEF Agrees
<1>4. Obeys(mu, m)
  BY DEF Agrees
<1>5. ~(i = Len(listA) + 1 /\ j = Len(listB) + 1)
  BY <1>2 DEF AtEnd
<1>6. /\ ways[1].to = <<i + 1, j + 1, with>> /\ (ways[1].can <=> FirstsMatch(a, b, m))
      /\ ways[2].to = <<i + 1, j, with>> /\ (ways[2].can <=> FirstsMatch(a, b, m) /\ Repeatable(b))
      /\ ways[3].to = <<i + 1, j, m>> /\ (ways[3].can <=> Skippable(a))
      /\ ways[4].to = <<i, j + 1, with>> /\ (ways[4].can <=> FirstsMatch(a, b, m) /\ Repeatable(a))
      /\ ways[5].to = <<i, j + 1, m>> /\ (ways[5].can <=> Skippable(b))
  BY WaysParts DEF WaysAt
<1>7. (i \in 1 .. Len(listA) => a = listA[i]) /\ (j \in 1 .. Len(listB) => b = listB[j])
  BY <1>2 DEF DimAt
<1> HIDE DEF ways, i, j, m, a, b
<1>8. SUFFICES (\E w \in 1 .. 5 : Goes(w)) \/ (n # 0 /\ Agrees(listA, listB, mu, q, n - 1))
  BY DEF ways
<1>9. n \in 0 .. n /\ (n # 0 => n - 1 \in 0 .. n)
  OBVIOUS
<1>10. CASE i \in 1 .. Len(listA) /\ \A t \in 1 .. n : p[t] # i
  <2>1. Skippable(a) /\ WalkFrom(listA, i + 1, n, p)
    BY <1>2, <1>3, <1>7, <1>10, WalkWithout
  <2>2. Agrees(listA, listB, mu, <<i + 1, j, m>>, n)
    BY <1>3, <1>4, <2>1 DEF Agrees
  <2>3. Goes(3)
    BY <1>6, <1>9, <2>1, <2>2
  <2>4. QED
    BY <2>3
<1>11. CASE j \in 1 .. Len(listB) /\ \A t \in 1 .. n : r[t] # j
  <2>1. Skippable(b) /\ WalkFrom(listB, j + 1, n, r)
    BY <1>2, <1>3, <1>7, <1>11, WalkWithout
  <2>2. Agrees(listA, listB, mu, <<i, j + 1, m>>, n)
    BY <1>3, <1>4, <2>1 DEF Agrees
  <2>3. Goes(5)
    BY <1>6, <1>9, <2>1, <2>2
  <2>4. QED
    BY <2>3
<1>12. CASE /\ i \in 1 .. Len(listA) => \E t \in 1 .. n : p[t] = i
            /\ j \in 1 .. Len(listB) => \E t \in 1 .. n : r[t] = j
  <2>1. i \in 1 .. Len(listA) /\ j \in 1 .. Len(listB)
    <3>1. p \in [1 .. n -> i .. Len(listA)] /\ r \in [1 .. n -> j .. Len(listB)]
      BY <1>3 DEF WalkFrom
    <3>2. i = Len(listA) + 1 => 1 .. n = {}
      <4>1. i = Len(listA) + 1 => i .. Len(listA) = {}
        BY <1>2
      <4>2. QED
        BY <3>1, <4>1
    <3>3. j = Len(listB) + 1 => 1 .. n = {}
      <4>1. j = Len(listB) + 1 => j .. Len(listB) = {}
        BY <1>2
      <4>2. QED
        BY <3>1, <4>1
    <3>4. i \in 1 .. Len(listA) \/ i = Len(listA) + 1
      BY <1>1, <1>2
    <3>5. j \in 1 .. Len(listB) \/ j = Len(listB) + 1
      BY <1>1, <1>2
    <3>6. QED
      BY <1>5, <1>12, <3>2, <3>3, <3>4, <3>5
  <2>2. n # 0 /\ p[1] = i /\ r[1] = j
    BY <1>2, <1>3, <1>12, <2>1, WalkRest
  <2>3. Stands(a.d, b.d, mu)
    <3>1. 1 \in 1 .. n
      BY <2>2
    <3>2. QED
      BY <1>3, <1>7, <2>1, <2>2, <3>1
  <2>4. FirstsMatch(a, b, m)
    BY <1>2, <1>4, <1>7, <2>1, <2>3 DEF FirstsMatch, Stands, Obeys
  <2>5. Obeys(mu, with)
    BY <1>4, <2>3 DEF Obeys, Bind, Stands
  <2> HIDE DEF with
  <2> DEFINE p2 == Rest(p, n)
             r2 == Rest(r, n)
  <2>6. \A t \in 1 .. n - 1 : Stands(listA[p2[t]].d, listB[r2[t]].d, mu)
    <3>1. SUFFICES ASSUME NEW t \in 1 .. n - 1 PROVE Stands(listA[p2[t]].d, listB[r2[t]].d, mu)
      OBVIOUS
    <3>2. p2[t] = p[t + 1] /\ r2[t] = r[t + 1]
      BY DEF Rest
    <3>3. t + 1 \in 1 .. n
      BY <2>2
    <3>4. QED
      BY <1>3, <3>2, <3>3
  <2>7. \/ WalkFrom(listA, i + 1, n - 1, p2)
        \/ Repeatable(a) /\ WalkFrom(listA, i, n - 1, p2)
    BY <1>2, <1>3, <1>7, <1>12, <2>1, WalkRest
  <2>8. \/ WalkFrom(listB, j + 1, n - 1, r2)
        \/ Repeatable(b) /\ WalkFrom(listB, j, n - 1, r2)
    BY <1>2, <1>3, <1>7, <1>12, <2>1, WalkRest
  <2> HIDE DEF p2, r2
  <2>9. n - 1 \in 0 .. n
    BY <2>2
  <2>10. CASE WalkFrom(listA, i + 1, n - 1, p2) /\ WalkFrom(listB, j + 1, n - 1, r2)
    <3>1. Agrees(listA, listB, mu, <<i + 1, j + 1, with>>, n - 1)
      BY <2>5, <2>6, <2>10 DEF Agrees
    <3>2. Goes(1)
      BY <1>6, <2>4, <2>9, <3>1
    <3>3. QED
      BY <3>2
  <2>11. CASE WalkFrom(listA, i + 1, n - 1, p2) /\ Repeatable(b) /\ WalkFrom(listB, j, n - 1, r2)
    <3>1. Agrees(listA, listB, mu, <<i + 1, j, with>>, n - 1)
      BY <2>5, <2>6, <2>11 DEF Agrees
    <3>2. Goes(2)
      BY <1>6, <2>4, <2>9, <2>11, <3>1
    <3>3. QED
      BY <3>2
  <2>12. CASE WalkFrom(listB, j + 1, n - 1, r2) /\ Repeatable(a) /\ WalkFrom(listA, i, n - 1, p2)
    <3>1. Agrees(listA, listB, mu, <<i, j + 1, with>>, n - 1)
      BY <2>5, <2>6, <2>12 DEF Agrees
    <3>2. Goes(4)
      BY <1>6, <2>4, <2>9, <2>12, <3>1
    <3>3. QED
      BY <3>2
  <2>13. CASE WalkFrom(listA, i, n - 1, p2) /\ WalkFrom(listB, j, n - 1, r2)
    <3>1. Agrees(listA, listB, mu, q, n - 1)
      BY <1>4, <2>6, <2>13 DEF Agrees, i, j, m
    <3>2. QED
      BY <2>2, <3>1
  <2>14. QED
    BY <2>7, <2>8, <2>10, <2>11, <2>12, <2>13
<1>13. QED
  BY <1>10, <1>11, <1>12

\* What agrees is found, whichever way is taken first.
LEMMA FitComplete ==
    ASSUME NEW listA, AreDimensions(listA), \A i \in DOMAIN listA : listA[i] # NoDim,
           NEW listB, AreDimensions(listB), \A j \in DOMAIN listB : listB[j] # NoDim,
           NEW values, \A j \in DOMAIN listB : listB[j].d \in values,
           NEW f, f = [q \in Places(listA, listB, values) |-> FitStep(listA, listB, f, q)],
           NEW mu, NEW q \in Places(listA, listB, values),
           NEW n \in Nat, Agrees(listA, listB, mu, q, n)
    PROVE  f[q].ok
<1> DEFINE S == Places(listA, listB, values)
           Sz(x) == Size(listA, listB, x)
           Ag(x, k) == Agrees(listA, listB, mu, x, k)
           Found(N) == \A x \in S, k \in Nat : Sz(x) + k < N /\ Ag(x, k) => f[x].ok
           T == {N \in Nat : Found(N)}
<1>1. \A x \in S : Sz(x) \in Nat
  BY SizeShrinks
<1>2. ASSUME NEW x \in S, NEW k \in Nat, Ag(x, k),
             \A y \in S, l \in Nat : Sz(y) + l < Sz(x) + k /\ Ag(y, l) => f[y].ok
      PROVE  f[x].ok
  <2>0. f[x] = FitStep(listA, listB, f, x)
    OBVIOUS
  <2>1. CASE AtEnd(listA, listB, x)
    BY <2>0, <2>1 DEF FitStep, Fits
  <2>2. CASE ~AtEnd(listA, listB, x)
    <3> DEFINE ways == WaysAt(listA, listB, x)
               tried == [w \in DOMAIN ways |-> IF ways[w].can THEN f[ways[w].to] ELSE Fails]
    <3>1. \/ \E w \in 1 .. 5, l \in 0 .. k : ways[w].can /\ Ag(ways[w].to, l)
          \/ k # 0 /\ Ag(x, k - 1)
      BY <1>2, <2>2, AgreesNext
    <3>2. CASE k # 0 /\ Ag(x, k - 1)
      <4>1. k - 1 \in Nat /\ Sz(x) + (k - 1) < Sz(x) + k
        <5> HIDE DEF Sz
        <5>1. QED
          BY <1>1, <3>2
      <4> HIDE DEF Ag, Sz
      <4>2. QED
        BY <1>2, <3>2, <4>1
    <3>3. ASSUME NEW w \in 1 .. 5, NEW l \in 0 .. k, ways[w].can, Ag(ways[w].to, l) PROVE f[x].ok
      <4> DEFINE to == ways[w].to
      <4>1. Leads(listA, listB, values, x, to)
        BY <3>3, WaysLead
      <4>2. to \in S /\ Sz(to) < Sz(x)
        BY <4>1, SizeShrinks
      <4>3. l \in Nat /\ Sz(to) + l < Sz(x) + k
        <5> HIDE DEF Sz, S, to
        <5>1. Sz(to) \in Nat /\ Sz(x) \in Nat
          BY <1>1, <4>2
        <5>2. QED
          BY <4>2, <5>1
      <4>4. f[to].ok
        <5> HIDE DEF Ag, Sz, S
        <5>1. QED
          BY <1>2, <3>3, <4>2, <4>3
      <4>5. f[x] = FirstFit(tried)
        BY <2>0, <2>2 DEF FitStep
      <4>6. DOMAIN ways = 1 .. 5
        BY WaysParts DEF WaysAt
      <4>7. DOMAIN tried = 1 .. 5 /\ tried[w].ok
        <5> HIDE DEF ways
        <5>1. QED
          BY <3>3, <4>4, <4>6
      <4> HIDE DEF tried
      <4>8. FirstFit(tried).ok
        <5>1. 5 \in Nat
          OBVIOUS
        <5>2. QED
          BY <4>7, <5>1, FirstFitOpen
      <4>9. QED
        BY <4>5, <4>8
    <3>4. QED
      BY <3>1, <3>2, <3>3
  <2>3. QED
    BY <2>1, <2>2
<1> HIDE DEF S, Sz, Ag
<1>3. 0 \in T
  BY <1>1
<1>4. ASSUME NEW N \in Nat, N \in T PROVE N + 1 \in T
  <2>1. ASSUME NEW x \in S, NEW k \in Nat, Sz(x) + k < N + 1, Ag(x, k) PROVE f[x].ok
    <3>1. \A y \in S, l \in Nat : Sz(y) + l < Sz(x) + k => Sz(y) + l < N
      BY <1>1, <2>1
    <3>2. \A y \in S, l \in Nat : Sz(y) + l < Sz(x) + k /\ Ag(y, l) => f[y].ok
      BY <1>4, <3>1
    <3>3. QED
      BY <1>2, <2>1, <3>2
  <2>2. QED
    BY <2>1
<1>5. Nat \subseteq T
  <2> HIDE DEF T
  <2>1. QED
    BY <1>3, <1>4, SetInduction
<1>6. Ag(q, n) /\ q \in S
  BY DEF Ag, S
<1>7. QED
  <2>1. Sz(q) + n + 1 \in Nat /\ Sz(q) + n < Sz(q) + n + 1
    BY <1>1, <1>6
  <2>2. Found(Sz(q) + n + 1)
    BY <1>5, <2>1
  <2>3. QED
    BY <1>6, <2>1, <2>2

\* matchDimList finds all lists that agree.
LEMMA MatchDimListComplete ==
    ASSUME NEW listA, AreDimensions(listA), \A i \in DOMAIN listA : listA[i] # NoDim,
           NEW listB, AreDimensions(listB), \A j \in DOMAIN listB : listB[j] # NoDim,
           NEW values, NEW m \in DimMaps(values),
           NEW mu, Obeys(mu, m), DimsEmbed(listA, listB, mu)
    PROVE  MatchDimList(listA, listB, m).ok
<1> DEFINE V == Values(listB, m)
           q == <<1, 1, m>>
<1>1. PICK f : /\ f = [x \in Places(listA, listB, V) |-> FitStep(listA, listB, f, x)]
               /\ MatchDimList(listA, listB, m) = f[q]
  BY MatchDimListSteps
<1>2. \A j \in DOMAIN listB : listB[j].d \in V
  BY DEF Values
<1>3. m \in DimMaps(V)
  BY DEF DimMaps, Values
<1> HIDE DEF V
<1>4. /\ Len(listA) \in Nat /\ DOMAIN listA = 1 .. Len(listA)
      /\ Len(listB) \in Nat /\ DOMAIN listB = 1 .. Len(listB)
  BY DEF AreDimensions
<1>5. q \in Places(listA, listB, V) /\ q[1] = 1 /\ q[2] = 1 /\ q[3] = m
  <2>1. 1 \in 1 .. Len(listA) + 1 /\ 1 \in 1 .. Len(listB) + 1
    BY <1>4
  <2>2. QED
    BY <1>3, <2>1 DEF Places
<1> HIDE DEF q
<1>6. PICK n \in 0 .. Len(listA) + Len(listB) :
        \E p \in Walks(listA, n), r \in Walks(listB, n) :
            \A t \in 1 .. n : Stands(listA[p[t]].d, listB[r[t]].d, mu)
  BY DEF DimsEmbed
<1>7. PICK p \in Walks(listA, n), r \in Walks(listB, n) :
            \A t \in 1 .. n : Stands(listA[p[t]].d, listB[r[t]].d, mu)
  BY <1>6
<1>8. WalkFrom(listA, 1, n, p) /\ WalkFrom(listB, 1, n, r)
  BY <1>4 DEF Walks, WalkFrom
<1>9. Agrees(listA, listB, mu, q, n)
  BY <1>5, <1>7, <1>8 DEF Agrees
<1>10. n \in Nat
  BY <1>4
<1>11. f[q].ok
  BY <1>1, <1>2, <1>5, <1>9, <1>10, FitComplete
<1>12. QED
  BY <1>1, <1>11

\* What is picked of a single element.
LEMMA PickedOfOne ==
    ASSUME NEW S, NEW s \in Seq(S), Len(s) = 1, NEW P
    PROVE  Picked(s, P) = IF 1 \in P THEN s ELSE <<>>
<1>1. PICK U : /\ U = [n \in 0 .. Len(s) |-> PickStep(s, P, U, n)]
               /\ Picked(s, P) = U[Len(s)]
  BY PickedSteps
<1>2. U[0] = PickStep(s, P, U, 0) /\ U[1] = PickStep(s, P, U, 1) /\ Picked(s, P) = U[1]
  BY <1>1
<1>3. U[0] = <<>>
  BY <1>2 DEF PickStep
<1>4. U[1] = IF 1 \in P THEN Append(U[1 - 1], s[1]) ELSE U[1 - 1]
  <2>1. 1 # 0
    OBVIOUS
  <2>2. QED
    BY <1>2, <2>1, Zenon DEF PickStep
<1>5. 1 - 1 = 0
  OBVIOUS
<1>6. s = Append(<<>>, s[1])
  OBVIOUS
<1>7. QED
  BY <1>2, <1>3, <1>4, <1>5, <1>6, Zenon

\* Lists of no or one field.
LEMMA FewFields ==
    ASSUME NEW xs, NEW ys, NEW dims, NEW classes, NEW ca, NEW cb
    PROVE  LET r == FieldsMatch(xs, ys, dims, classes, ca, cb)
           IN  /\ Len(xs) = 0 => r = Fits(dims, classes)
               /\ Len(xs) = 1 => r = FieldNext(xs[1], ys[1], Fits(dims, classes), ca, cb)
<1>1. SUFFICES ASSUME Len(xs) \in {0, 1}
               PROVE  LET r == FieldsMatch(xs, ys, dims, classes, ca, cb)
                      IN  /\ Len(xs) = 0 => r = Fits(dims, classes)
                          /\ Len(xs) = 1 => r = FieldNext(xs[1], ys[1], Fits(dims, classes), ca, cb)
  OBVIOUS
<1>2. PICK U : /\ FieldsMatch(xs, ys, dims, classes, ca, cb) = U[Len(xs)]
               /\ \A i \in 0 .. Len(xs) : U[i] = FieldStep(xs, ys, Fits(dims, classes), ca, cb, U, i)
  BY <1>1, FieldsMatchSteps
<1>3. U[0] = Fits(dims, classes)
  BY <1>1, <1>2 DEF FieldStep
<1>4. Len(xs) = 1 => U[1] = FieldNext(xs[1], ys[1], U[0], ca, cb)
  BY <1>2 DEF FieldStep
<1>5. QED
  BY <1>2, <1>3, <1>4

\* The classes of self stand for classes of the same size.
ClassesStand(ca, cb, mu, kappa) == \A c \in ToSet(ca) : Stands(c.dim, Get(cb, kappa[c.name]).dim, mu)

\* A field that embeds fits, if it is the first one.
LEMMA FieldAlone ==
    ASSUME NEW ca, NEW cb, NEW mu, NEW kappa, ClassesStand(ca, cb, mu, kappa),
           NEW D, NEW V, NEW f, NEW g, Comparable(f, g, D, V, ca, cb), HasDims(f), HasDims(g),
           FieldEmbeds(f, g, mu, kappa)
    PROVE  FieldNext(f, g, Fits(EmptyMap, EmptyMap), ca, cb).ok
<1>0. /\ f.type \in {"tensor", "category"} /\ f.type = g.type
      /\ f.type = "tensor" => AreDimensions(f.dim) /\ AreDimensions(g.dim)
      /\ f.type = "category" => f.class \in Names(ca)
  BY DEF Comparable
<1>1. DOMAIN EmptyMap = {} /\ EmptyMap \in DimMaps({}) /\ Obeys(mu, EmptyMap)
  <2>1. EmptyMap \in [{} -> {}] /\ {} \in SUBSET DimNames
    BY DEF EmptyMap
  <2>2. QED
    BY <2>1 DEF DimMaps, Obeys
<1>2. CASE f.type = "tensor"
  <2> DEFINE r == MatchDimList(f.dim, g.dim, EmptyMap)
  <2>1. FieldNext(f, g, Fits(EmptyMap, EmptyMap), ca, cb) = IF r.ok THEN Fits(r.dims, EmptyMap) ELSE Fails
    BY <1>2 DEF FieldNext, MatchTensor, Fits
  <2>2. DimsEmbed(f.dim, g.dim, mu)
    BY <1>2 DEF FieldEmbeds
  <2>3. /\ \A i \in DOMAIN f.dim : f.dim[i] # NoDim
        /\ \A i \in DOMAIN g.dim : g.dim[i] # NoDim
    BY <1>0, <1>2 DEF HasDims
  <2>4. r.ok
    BY <1>0, <1>1, <1>2, <2>2, <2>3, MatchDimListComplete
  <2> HIDE DEF r
  <2>5. QED
    BY <2>1, <2>4 DEF Fits
<1>3. CASE f.type = "category"
  <2> DEFINE c == Get(ca, f.class)
             d == Get(cb, g.class)
             r == MatchClass(c, d, EmptyMap)
  <2>1. FieldNext(f, g, Fits(EmptyMap, EmptyMap), ca, cb)
            = IF r.ok THEN Fits(r.dims, Bind(EmptyMap, f.class, g.class)) ELSE Fails
    BY <1>1, <1>3 DEF FieldNext, MatchCategory, Fits
  <2>2. c \in ToSet(ca) /\ c.name = f.class
    BY <1>0, <1>3, GetFrom
  <2>3. kappa[c.name] = g.class
    BY <1>3, <2>2 DEF FieldEmbeds
  <2>4. Stands(c.dim, d.dim, mu)
    <3> HIDE DEF c
    <3>1. QED
      BY <2>2, <2>3 DEF ClassesStand
  <2> HIDE DEF c, d
  <2>5. r.ok
    BY <1>1, <2>4 DEF MatchClass, Stands
  <2> HIDE DEF r
  <2>6. QED
    BY <2>1, <2>5 DEF Fits
<1>4. QED
  BY <1>0, <1>2, <1>3

\* The lists of fields of a type of a node with one field.
LEMMA FieldsOfOne ==
    ASSUME NEW n, NEW classes, IsNode(n, classes), Len(n.fields) = 1, NEW type
    PROVE  OfType(n, type) = IF n.fields[1].type = type THEN n.fields ELSE <<>>
<1>1. n.fields \in Seq(ToSet(n.fields))
  BY DEF IsNode
<1>2. OfType(n, type) = IF 1 \in FieldPlaces(n, type) THEN n.fields ELSE <<>>
  BY <1>1, OfTypeFields, PickedOfOne
<1>3. 1 \in DOMAIN n.fields
  BY <1>1
<1>4. QED
  BY <1>2, <1>3 DEF FieldPlaces

\* A node of one field fits one whose field it embeds in, if it is the first one.
LEMMA NodeAlone ==
    ASSUME NEW ca, NEW cb, NEW mu, NEW kappa, ClassesStand(ca, cb, mu, kappa),
           NEW n, IsNode(n, ca), Len(n.fields) = 1, n.links = <<>>, HasParts(n),
           NEW k, IsNode(k, cb), Len(k.fields) = 1, k.links = <<>>, HasParts(k),
           FieldEmbeds(n.fields[1], k.fields[1], mu, kappa), NEW names
    PROVE  MatchNode(n, k, EmptyMap, EmptyMap, names, ca, cb).ok
<1> DEFINE r == MatchNode(n, k, EmptyMap, EmptyMap, names, ca, cb)
           f == n.fields[1]
           g == k.fields[1]
           nt == OfType(n, "tensor")
           kt == OfType(k, "tensor")
           nc == OfType(n, "category")
           kc == OfType(k, "category")
           t == FieldOrder(nt, kt, EmptyMap, EmptyMap, ca, cb)
           c == FieldOrder(nc, kc, t.dims, t.classes, ca, cb)
           b == BuildNode(n, k, t.order, c.order)
           done == [ok |-> TRUE, dims |-> c.dims, classes |-> c.classes, node |-> b]
<1>1. r = IF CountsMatch(n, k) /\ LinksMatch(n, k, names)
          THEN IF ~t.ok THEN Fails ELSE IF ~c.ok THEN Fails ELSE done
          ELSE Fails
  BY DEF MatchNode
<1>2. 1 \in DOMAIN n.fields /\ 1 \in DOMAIN k.fields
  BY DEF IsNode
<1>3. /\ f.type = g.type /\ f.type \in {"tensor", "category"}
      /\ nt = (IF f.type = "tensor" THEN n.fields ELSE <<>>)
      /\ kt = (IF f.type = "tensor" THEN k.fields ELSE <<>>)
      /\ nc = (IF f.type = "category" THEN n.fields ELSE <<>>)
      /\ kc = (IF f.type = "category" THEN k.fields ELSE <<>>)
  BY <1>2, FieldsOfOne DEF FieldEmbeds, IsNode
<1>4. CountsMatch(n, k)
  BY <1>3 DEF CountsMatch
<1>5. LinksMatch(n, k, names)
  BY DEF LinksMatch, ToSet
<1>6. kt \in Seq(ToSet(kt)) /\ kc \in Seq(ToSet(kc))
  BY OfTypeFields
<1>7. FieldNext(f, g, Fits(EmptyMap, EmptyMap), ca, cb).ok
  <2>1. HasDims(f) /\ HasDims(g)
    BY <1>2 DEF HasParts
  <2> DEFINE D == {f.dim[i].d : i \in DOMAIN f.dim}
             V == {g.dim[j].d : j \in DOMAIN g.dim}
  <2>2. Comparable(f, g, D, V, ca, cb)
    BY <1>2, <1>3 DEF Comparable, IsNode
  <2> HIDE DEF f, g, D, V
  <2>3. QED
    BY <2>1, <2>2, FieldAlone DEF f, g
<1>8. \A xs, ys, d, m : /\ xs = <<>> => FieldsMatch(xs, ys, d, m, ca, cb) = Fits(d, m)
                        /\ Len(xs) = 1 => FieldsMatch(xs, ys, d, m, ca, cb)
                                            = FieldNext(xs[1], ys[1], Fits(d, m), ca, cb)
  BY FewFields
<1>9. Fits(EmptyMap, EmptyMap).ok /\ \A d, m : Fits(d, m).ok /\ Fits(d, m).dims = d /\ Fits(d, m).classes = m
  BY DEF Fits
<1>10. t.ok /\ c.ok
  <2> HIDE DEF f, g
  <2>1. CASE f.type = "tensor"
    <3>1. nt = n.fields /\ kt = k.fields /\ nc = <<>> /\ kc = <<>>
      BY <1>3, <2>1
    <3> HIDE DEF nt, kt, nc, kc
    <3>2. FieldsMatch(nt, kt, EmptyMap, EmptyMap, ca, cb).ok
      BY <1>7, <1>8, <3>1 DEF f, g
    <3>3. t.ok
      BY <1>6, <3>2, FirstFieldOrder
    <3> HIDE DEF t
    <3>4. FieldsMatch(nc, kc, t.dims, t.classes, ca, cb).ok
      BY <1>8, <1>9, <3>1
    <3>5. c.ok
      BY <1>6, <3>4, FirstFieldOrder
    <3>6. QED
      BY <3>3, <3>5
  <2>2. CASE f.type = "category"
    <3>1. nt = <<>> /\ kt = <<>> /\ nc = n.fields /\ kc = k.fields
      BY <1>3, <2>2
    <3> HIDE DEF nt, kt, nc, kc
    <3> DEFINE s == FieldsMatch(nt, kt, EmptyMap, EmptyMap, ca, cb)
    <3>2. s.ok /\ s.dims = EmptyMap /\ s.classes = EmptyMap
      BY <1>8, <1>9, <3>1
    <3>3. t.ok /\ t.dims = EmptyMap /\ t.classes = EmptyMap
      BY <1>6, <3>2, FirstFieldOrder
    <3> HIDE DEF t
    <3>4. FieldsMatch(nc, kc, t.dims, t.classes, ca, cb).ok
      BY <1>7, <1>8, <3>1, <3>3 DEF f, g
    <3>5. c.ok
      BY <1>6, <3>4, FirstFieldOrder
    <3>6. QED
      BY <3>3, <3>5
  <2>3. QED
    BY <1>3, <2>1, <2>2
<1> HIDE DEF t, c, b
<1>11. r = done
  BY <1>1, <1>4, <1>5, <1>10
<1>12. QED
  BY <1>11

\* So does a list of one such node.
LEMMA NodesAlone ==
    ASSUME NEW ca, NEW cb, NEW names, NEW A, NEW B,
           MatchNode(A[1], B[1], EmptyMap, EmptyMap, names, ca, cb).ok
    PROVE  NodesMatch(1, A, B, EmptyMap, EmptyMap, names, ca, cb).ok
<1>1. PICK U : /\ NodesMatch(1, A, B, EmptyMap, EmptyMap, names, ca, cb) = U[1]
               /\ \A i \in 0 .. 1 : U[i] = NodeStep(A, B, NoNodes(EmptyMap, EmptyMap), names, ca, cb, U, i)
  BY NodesMatchSteps
<1> DEFINE u == U[0]
           t == MatchNode(A[1], B[1], u.dims, u.classes, names, ca, cb)
           joined == [ok |-> TRUE, dims |-> t.dims, classes |-> t.classes, built |-> Append(u.built, t.node)]
<1>2. u = NoNodes(EmptyMap, EmptyMap)
  BY <1>1 DEF NodeStep
<1>3. u.ok /\ u.dims = EmptyMap /\ u.classes = EmptyMap
  BY <1>2 DEF NoNodes
<1>4. U[1] = NodeNext(A[1], B[1], u, names, ca, cb)
  BY <1>1 DEF NodeStep
<1>5. U[1] = IF ~u.ok THEN Fails ELSE IF ~t.ok THEN Fails ELSE joined
  BY <1>4 DEF NodeNext
<1> HIDE DEF u
<1>6. t.ok
  BY <1>3
<1> HIDE DEF t
<1>7. U[1] = joined
  BY <1>3, <1>5, <1>6
<1>8. QED
  BY <1>1, <1>7

\* Each schema has one node, a singleton.
OneEach ==
    /\ Len(self.nodes) = 1 /\ Len(source.nodes) = 1
    /\ Singletons(self) # <<>> /\ Singletons(source) # <<>>

\* The nodes of a schema with one node, a singleton.
LEMMA OneNode ==
    ASSUME NEW s, IsSchema(s), Len(s.nodes) = 1, Singletons(s) # <<>>
    PROVE  /\ Singletons(s) = s.nodes /\ Nonsingletons(s) = <<>> /\ ToSet(s.nodes) = {s.nodes[1]}
           /\ s.nodes[1].singleton = TRUE /\ IsNode(s.nodes[1], s.classes)
           /\ Len(s.nodes[1].fields) = 1 /\ s.nodes[1].links = <<>>
<1> DEFINE P == {i \in DOMAIN s.nodes : s.nodes[i].singleton}
           Q == {i \in DOMAIN s.nodes : ~s.nodes[i].singleton}
<1>1. s.nodes \in Seq(ToSet(s.nodes))
  BY DEF IsSchema, IsList
<1>2. Singletons(s) = Picked(s.nodes, P) /\ Nonsingletons(s) = Picked(s.nodes, Q)
  BY DEF Singletons, Nonsingletons
<1>3. DOMAIN s.nodes = {1}
  BY <1>1
<1>4. (1 \in P <=> s.nodes[1].singleton) /\ (1 \in Q <=> ~s.nodes[1].singleton)
  BY <1>3
<1> HIDE DEF P, Q
<1>5. /\ Singletons(s) = (IF 1 \in P THEN s.nodes ELSE <<>>)
      /\ Nonsingletons(s) = (IF 1 \in Q THEN s.nodes ELSE <<>>)
  BY <1>1, <1>2, PickedOfOne
<1>6. Singletons(s) = s.nodes /\ Nonsingletons(s) = <<>>
  BY <1>4, <1>5
<1>7. IsNode(s.nodes[1], s.classes) /\ NodeOK(s.nodes[1]) /\ s.nodes[1].singleton
  BY <1>3, <1>4, <1>5 DEF IsSchema
<1>8. s.nodes[1].singleton = TRUE /\ Len(s.nodes[1].fields) = 1 /\ s.nodes[1].links = <<>>
  BY <1>7 DEF NodeOK
<1>9. ToSet(s.nodes) = {s.nodes[1]}
  BY <1>3 DEF ToSet
<1>10. QED
  BY <1>6, <1>7, <1>8, <1>9

\* If one of two such schemas embeds in the other, their nodes fit.
LEMMA EmbedsAlone ==
    ASSUME NEW a, IsSchema(a), Len(a.nodes) = 1, Singletons(a) # <<>>, \A n \in ToSet(a.nodes) : HasParts(n),
           NEW b, IsSchema(b), Len(b.nodes) = 1, Singletons(b) # <<>>, \A n \in ToSet(b.nodes) : HasParts(n),
           Embeds(a, b), NEW names
    PROVE  NodesMatch(1, Singletons(a), Singletons(b), EmptyMap, EmptyMap, names, a.classes, b.classes).ok
<1> DEFINE n == a.nodes[1]
           k == b.nodes[1]
<1>1. /\ Singletons(a) = a.nodes /\ ToSet(a.nodes) = {n} /\ IsNode(n, a.classes)
      /\ Len(n.fields) = 1 /\ n.links = <<>> /\ HasParts(n)
  BY OneNode
<1>2. /\ Singletons(b) = b.nodes /\ ToSet(b.nodes) = {k} /\ IsNode(k, b.classes)
      /\ Len(k.fields) = 1 /\ k.links = <<>> /\ HasParts(k)
  BY OneNode
<1>3. PICK mu \in [DimNames -> Dims(b) \cup {Null}], kappa \in [Names(a.classes) -> Names(b.classes)],
           pi \in Bijection(Names(a.nodes), Names(b.nodes)) :
        /\ \A c \in ToSet(a.classes) : Stands(c.dim, Get(b.classes, kappa[c.name]).dim, mu)
        /\ \A x \in ToSet(a.nodes) : NodeEmbeds(x, Get(b.nodes, pi[x.name]), mu, kappa, pi)
  BY DEF Embeds
<1>4. ClassesStand(a.classes, b.classes, mu, kappa)
  BY <1>3 DEF ClassesStand
<1>5. Get(b.nodes, pi[n.name]) = k
  <2>1. n.name \in Names(a.nodes)
    <3>1. 1 \in DOMAIN a.nodes
      BY DEF IsSchema, IsList
    <3>2. QED
      BY <3>1 DEF Names
  <2>2. pi \in [Names(a.nodes) -> Names(b.nodes)]
    BY <1>3 DEF Bijection, Injection
  <2>3. pi[n.name] \in Names(b.nodes)
    BY <2>1, <2>2
  <2>4. Get(b.nodes, pi[n.name]) \in ToSet(b.nodes)
    BY <2>3, GetFrom
  <2>5. QED
    BY <1>2, <2>4
<1>6. NodeEmbeds(n, k, mu, kappa, pi)
  BY <1>1, <1>3, <1>5
<1>7. FieldEmbeds(n.fields[1], k.fields[1], mu, kappa)
  <2>1. DOMAIN n.fields = {1} /\ DOMAIN k.fields = {1}
    BY <1>1, <1>2 DEF IsNode
  <2>2. PICK sigma \in Bijection(DOMAIN n.fields, DOMAIN k.fields) :
          \A i \in DOMAIN n.fields : FieldEmbeds(n.fields[i], k.fields[sigma[i]], mu, kappa)
    BY <1>6 DEF NodeEmbeds
  <2>3. sigma \in [{1} -> {1}]
    BY <2>1, <2>2 DEF Bijection, Injection
  <2>4. sigma[1] = 1
    BY <2>3
  <2>5. QED
    BY <2>1, <2>2, <2>4
<1> HIDE DEF n, k
<1>8. MatchNode(n, k, EmptyMap, EmptyMap, names, a.classes, b.classes).ok
  BY <1>1, <1>2, <1>4, <1>7, NodeAlone
<1>9. QED
  BY <1>1, <1>2, <1>8, NodesAlone DEF n, k

\* The inductive invariant of a call with two lists of dimensions: if one embeds in the
\* other, each loop is before its first order.
DecidedInv ==
    /\ MatchInv /\ DimListsDecided
    /\ OneEach /\ Embeds(self, source) =>
        /\ pc \in {"constraints", "singletons", "nonsingletons", "found"} =>
            \A n \in ToSet(self.nodes) \cup ToSet(source.nodes) : HasParts(n)
        /\ pc = "singletons" => orders = Permutation(Singletons(source))
        /\ pc = "nonsingletons" => orders = Permutation(Nonsingletons(source))

\* Such a call goes on to the end.
LEMMA DecidedStep ==
    ASSUME DecidedInv, pc # "idle", MatchNext, OneEach, Embeds(self, source)
    PROVE  \/ pc' = "singletons" /\ orders' = Permutation(Singletons(source))
           \/ pc' = "nonsingletons" /\ orders' = Permutation(Nonsingletons(source))
           \/ pc' = "found"
           \/ pc' = "done" /\ outcome' \in {"match", "exception"}
<1>1. pc \in {"constraints", "singletons", "nonsingletons", "found"}
  BY DEF MatchNext, LoadBoth, Constraints, SingletonOrder, NonsingletonOrder, NoOrderLeft, Build
<1>2. /\ IsSchema(self) /\ IsSchema(source)
      /\ \A n \in ToSet(self.nodes) : HasParts(n)
      /\ \A n \in ToSet(source.nodes) : HasParts(n)
      /\ pc = "singletons" => orders = Permutation(Singletons(source)) /\ dimMap = EmptyMap /\ classMap = EmptyMap
      /\ pc = "nonsingletons" => orders = Permutation(Nonsingletons(source))
  BY <1>1 DEF DecidedInv, MatchInv
<1>3. /\ Nonsingletons(self) = <<>> /\ Nonsingletons(source) = <<>> /\ Singletons(source) # <<>>
      /\ Singletons(self) = self.nodes /\ Singletons(source) = source.nodes
      /\ Len(self.nodes) = 1 /\ Len(source.nodes) = 1
  BY <1>2, OneNode DEF OneEach
<1>4. IsList(Singletons(source)) /\ IsList(Nonsingletons(source))
  BY <1>2, KindLengths
<1>5. CASE LoadBoth
  BY <1>5 DEF LoadBoth
<1>6. CASE Constraints
  <2>1. ConstraintsFit
    BY <1>3 DEF ConstraintsFit
  <2>2. QED
    BY <1>6, <2>1 DEF Constraints
<1>7. CASE SingletonOrder
  <2> DEFINE it == NextOrder(orders)
             A == Singletons(self)
             B == Singletons(source)
             there == Min({1, 1, Len(it.x)})
             r == NodesMatch(there, A, it.x, dimMap, classMap, nodeMap, self.classes, source.classes)
  <2>1. pc = "singletons" /\ HasNext(orders) /\ TryOrder(it, A, Len(B), nodeMap)
    BY <1>7 DEF SingletonOrder
  <2>2. Len(A) = 1 /\ Len(B) = 1
    BY <1>3
  <2> HIDE DEF A, B
  <2>3. Judge(it, r, A, there, 1)
    BY <2>1, <2>2 DEF TryOrder
  <2>4. it.x = B
    BY <1>2, <1>4, <2>1, FirstOrder DEF B
  <2> HIDE DEF it
  <2>5. there = 1
    <3>1. there = Min({1, 1, 1})
      BY <2>2, <2>4
    <3>2. 1 \in Nat
      OBVIOUS
    <3> HIDE DEF there
    <3>3. QED
      BY <3>1, <3>2, AllPairs
  <2>6. r.ok
    <3>1. r = NodesMatch(1, A, B, EmptyMap, EmptyMap, nodeMap, self.classes, source.classes)
      BY <1>2, <2>1, <2>4, <2>5
    <3>2. /\ Len(self.nodes) = 1 /\ Singletons(self) # <<>>
          /\ Len(source.nodes) = 1 /\ Singletons(source) # <<>>
      BY DEF OneEach
    <3> HIDE DEF r
    <3>3. QED
      BY <1>2, <3>1, <3>2, EmbedsAlone DEF A, B
  <2> HIDE DEF r, there
  <2>7. ~(there < 1) /\ 1 > 0
    BY <2>5
  <2>8. QED
    BY <2>1, <2>3, <2>6, <2>7 DEF Judge
<1>8. CASE NonsingletonOrder
  <2>1. pc = "nonsingletons" /\ HasNext(orders)
    BY <1>8 DEF NonsingletonOrder
  <2>2. ~HasNext(Permutation(Nonsingletons(source)))
    BY <1>3, <1>4, FirstOrder
  <2>3. QED
    BY <1>2, <2>1, <2>2
<1>9. CASE NoOrderLeft
  <2>1. pc \in {"singletons", "nonsingletons"} /\ ~HasNext(orders)
    BY <1>9 DEF NoOrderLeft
  <2>2. HasNext(Permutation(Singletons(source)))
    BY <1>3, <1>4, FirstOrder
  <2>3. pc = "nonsingletons" /\ orders = Permutation(Nonsingletons(source))
    BY <1>2, <2>1, <2>2
  <2>4. orders.x = <<>>
    BY <1>3, <1>4, <2>3, FirstOrder
  <2>5. QED
    BY <1>9, <2>3, <2>4 DEF NoOrderLeft
<1>10. CASE Build
  BY <1>10 DEF Build, Finish
<1>11. QED
  BY <1>5, <1>6, <1>7, <1>8, <1>9, <1>10 DEF MatchNext

\* The invariant is inductive.
LEMMA NextDecidedInv == DecidedInv /\ [MatchNext]_matchVars => DecidedInv'
<1> SUFFICES ASSUME DecidedInv, [MatchNext]_matchVars PROVE DecidedInv'
  OBVIOUS
<1>1. MatchInv /\ MatchInv'
  BY NextMatchInv DEF DecidedInv
<1>2. CASE LoadBoth
  <2>1. /\ self' = Load(call[1]) /\ source' = Load(call[2])
        /\ IF Malformed \in {self', source'} THEN pc' = "done" ELSE pc' = "constraints"
    BY <1>2 DEF LoadBoth
  <2>2. InputOK(call[1]) /\ InputOK(call[2])
    BY <1>1, CallsAssumption DEF MatchInv
  <2>3. CASE Malformed \in {self', source'}
    <3>1. pc' = "done" /\ ~Returned'
      BY <2>1, <2>3 DEF Returned
    <3>2. QED
      BY <1>1, <3>1 DEF DecidedInv, DimListsDecided
  <2>4. CASE Malformed \notin {self', source'}
    <3>1. pc' = "constraints"
      BY <2>1, <2>4
    <3>2. /\ \A n \in ToSet(self'.nodes) : HasParts(n)
          /\ \A n \in ToSet(source'.nodes) : HasParts(n)
      BY <2>1, <2>2, <2>4, LoadedHasParts
    <3>3. DimListsDecided'
      BY <3>1 DEF DimListsDecided, Returned
    <3>4. QED
      BY <1>1, <3>1, <3>2, <3>3 DEF DecidedInv
  <2>5. QED
    BY <2>3, <2>4
<1>3. CASE MatchNext /\ ~LoadBoth
  <2>1. pc \in {"constraints", "singletons", "nonsingletons", "found"} /\ self' = self /\ source' = source
    BY <1>3 DEF MatchNext, Constraints, SingletonOrder, NonsingletonOrder, NoOrderLeft, Build,
                TryOrder, Judge, Finish
  <2>2. IsSchema(self) /\ IsSchema(source)
    BY <1>1, <2>1 DEF MatchInv
  <2>3. OneEach' <=> OneEach
    BY <2>1 DEF OneEach
  <2>4. ASSUME OneEach, Embeds(self, source)
        PROVE  \/ pc' = "singletons" /\ orders' = Permutation(Singletons(source))
               \/ pc' = "nonsingletons" /\ orders' = Permutation(Nonsingletons(source))
               \/ pc' = "found"
               \/ pc' = "done" /\ outcome' \in {"match", "exception"}
    BY <1>3, <2>1, <2>4, DecidedStep
  <2>5. ASSUME Returned', OneEach
        PROVE  outcome' \in {"match", "nomatch"} /\ (outcome' = "match" => Embeds(self, source))
    <3>1. /\ Singletons(self) = self.nodes /\ Singletons(source) = source.nodes
          /\ Nonsingletons(self) = <<>> /\ Nonsingletons(source) = <<>>
          /\ Len(self.nodes) = 1 /\ Len(source.nodes) = 1
      BY <2>2, <2>5, OneNode DEF OneEach
    <3>2. SameCounts'
      BY <2>1, <3>1 DEF SameCounts
    <3>3. MatchIsSound'
      BY <1>1, <2>5 DEF MatchInv, Returned
    <3>4. QED
      BY <2>1, <2>5, <3>2, <3>3 DEF MatchIsSound
  <2>6. DimListsDecided'
    <3>1. SUFFICES ASSUME Returned', OneEach PROVE outcome' = "match" <=> Embeds(self, source)
      BY <2>1 DEF DimListsDecided, OneEach
    <3>2. pc' = "done"
      BY <3>1 DEF Returned
    <3>3. QED
      BY <2>4, <2>5, <3>1, <3>2
  <2>7. ASSUME OneEach, Embeds(self, source)
        PROVE  \A n \in ToSet(self.nodes) \cup ToSet(source.nodes) : HasParts(n)
    BY <2>1, <2>7 DEF DecidedInv
  <2>8. QED
    BY <1>1, <2>1, <2>3, <2>4, <2>6, <2>7 DEF DecidedInv
<1>4. CASE UNCHANGED matchVars
  <2>1. /\ pc' = pc /\ self' = self /\ source' = source /\ orders' = orders /\ outcome' = outcome
    BY <1>4 DEF matchVars
  <2>2. (DimListsDecided' <=> DimListsDecided) /\ (OneEach' <=> OneEach)
    BY <2>1 DEF DimListsDecided, Returned, OneEach
  <2>3. QED
    BY <1>1, <2>1, <2>2 DEF DecidedInv
<1>5. QED
  BY <1>2, <1>3, <1>4

\* match decides whether one list of dimensions fits another, whatever names, repeated and
\* optional dimensions there are in both: the recursion takes the first way that leads to
\* the end, and every pair of expansions that are equal shows a way.
THEOREM DimensionListsAreDecided == MatchSpec => []DimListsDecided
<1>1. MatchInit => DecidedInv
  <2>1. MatchInit => pc = "idle"
    BY DEF MatchInit
  <2>2. QED
    BY <2>1, InitMatchInv DEF DecidedInv, DimListsDecided, Returned
<1>2. DecidedInv /\ [MatchNext]_matchVars => DecidedInv'
  BY NextDecidedInv
<1>3. DecidedInv => DimListsDecided
  BY DEF DecidedInv
<1>4. QED
  BY <1>1, <1>2, <1>3, PTL DEF MatchSpec

------------------------------------------------------------------------------
(* Heap's algorithm gives every order of a list.                           *)

\* The place from which place i gets its element by the first t turns of a frame of size s.
From(s, t, i) ==
    IF i > s \/ t = 0 THEN i
    ELSE IF s % 2 = 0
    THEN IF i = 1 THEN s ELSE IF i = s THEN IF t < s THEN t ELSE s - 1
         ELSE IF i <= t THEN i - 1 ELSE i
    ELSE IF i > t THEN i - t ELSE i - t + s

\* What these turns make of y, the turns of the smaller frames between them included.
Moved(s, t, y) == [i \in DOMAIN y |-> y[From(s, t, i)]]

\* Of two neighbours, one is even.
LEMMA Parity ==
    ASSUME NEW s \in Nat, s # 0
    PROVE  s % 2 = 0 <=> (s - 1) % 2 # 0
OBVIOUS

\* The place is one of the list.
LEMMA FromPlace ==
    ASSUME NEW s \in Nat \ {0}, NEW t \in 0 .. s, NEW N \in Nat, s <= N, NEW i \in 1 .. N
    PROVE  From(s, t, i) \in 1 .. N /\ (i <= s => From(s, t, i) \in 1 .. s)
<1>1. s % 2 = 0 => s # 1
  OBVIOUS
<1>2. QED
  BY <1>1 DEF From

\* A function of the first N numbers.
OnPlaces(y, N) == y = [i \in 1 .. N |-> y[i]]

\* What is moved where, and what stays.
LEMMA MovedPlaces ==
    ASSUME NEW N \in Nat, NEW y, OnPlaces(y, N), NEW s \in 1 .. N, NEW t \in 0 .. s
    PROVE  /\ OnPlaces(Moved(s, t, y), N)
           /\ \A i \in 1 .. N : /\ From(s, t, i) \in 1 .. N
                                /\ Moved(s, t, y)[i] = y[From(s, t, i)]
                                /\ i > s => Moved(s, t, y)[i] = y[i]
<1>1. \A i \in 1 .. N : From(s, t, i) \in 1 .. N
  <2>1. s \in Nat \ {0} /\ s <= N
    OBVIOUS
  <2>2. QED
    BY <2>1, FromPlace
<1>2. \A i \in 1 .. N : i > s => From(s, t, i) = i
  BY DEF From
<1>3. DOMAIN y = 1 .. N
  BY DEF OnPlaces
<1>4. QED
  BY <1>1, <1>2, <1>3 DEF Moved, OnPlaces

\* The exchange after the turns of the smaller frames makes the next turn.
LEMMA TurnMoves ==
    ASSUME NEW N \in Nat, NEW y, OnPlaces(y, N), NEW s \in 2 .. N, NEW t \in 0 .. s - 1
    PROVE  Swapped(Moved(s - 1, s - 1, Moved(s, t, y)), s, t) = Moved(s, t + 1, y)
<1>0. /\ s \in 1 .. N /\ t \in 0 .. s /\ t + 1 \in 0 .. s
      /\ s - 1 \in 1 .. N /\ s - 1 \in 0 .. s - 1
  OBVIOUS
<1> DEFINE a == Moved(s, t, y)
<1>1. OnPlaces(a, N) /\ \A i \in 1 .. N : a[i] = y[From(s, t, i)]
  BY <1>0, MovedPlaces
<1> HIDE DEF a
<1> DEFINE c == Moved(s, t + 1, y)
<1>2. OnPlaces(c, N) /\ \A i \in 1 .. N : c[i] = y[From(s, t + 1, i)]
  BY <1>0, MovedPlaces
<1> HIDE DEF c
<1> DEFINE b == Moved(s - 1, s - 1, a)
<1>3. /\ OnPlaces(b, N)
      /\ \A i \in 1 .. N : From(s - 1, s - 1, i) \in 1 .. N /\ b[i] = a[From(s - 1, s - 1, i)]
  <2> DEFINE r == s - 1
  <2>1. r \in 1 .. N /\ r \in 0 .. r
    BY <1>0
  <2> HIDE DEF r
  <2>2. OnPlaces(Moved(r, r, a), N)
    BY <1>1, <2>1, MovedPlaces
  <2>3. ASSUME NEW i \in 1 .. N PROVE From(r, r, i) \in 1 .. N /\ Moved(r, r, a)[i] = a[From(r, r, i)]
    <3>1. OnPlaces(a, N)
      BY <1>1
    <3>2. QED
      BY <2>1, <3>1, MovedPlaces
  <2>4. QED
    BY <2>2, <2>3 DEF r
<1> HIDE DEF b
<1>5. \A i \in 1 .. N : b[i] = y[From(s, t, From(s - 1, s - 1, i))]
  BY <1>1, <1>3
<1>30. DOMAIN b = 1 .. N
  BY <1>3 DEF OnPlaces
<1>31. c = [i \in 1 .. N |-> c[i]]
  BY <1>2 DEF OnPlaces
<1>6. CASE s % 2 = 0
  <2>1. (s - 1) % 2 # 0
    BY <1>6, Parity
  <2>2. Swapped(b, s, t) = Swap(b, t + 1, s)
    BY <1>6 DEF Swapped
  <2> DEFINE d == Swap(b, t + 1, s)
  <2>3. \A i \in 1 .. N : d[i] = IF i = s THEN b[t + 1] ELSE IF i = t + 1 THEN b[s] ELSE b[i]
    BY <1>30 DEF Swap
  <2>4. d = [i \in 1 .. N |-> d[i]]
    BY <1>30 DEF Swap
  <2> HIDE DEF d
  <2>5. \A i \in 1 .. N : From(s - 1, s - 1, i) = i
    BY <2>1 DEF From
  <2>6. \A i \in 1 .. N : b[i] = y[From(s, t, i)]
    BY <1>5, <2>5
  <2>7. ASSUME NEW i \in 1 .. N
        PROVE  From(s, t + 1, i) = IF i = s THEN From(s, t, t + 1)
                                   ELSE IF i = t + 1 THEN From(s, t, s) ELSE From(s, t, i)
    BY <1>6 DEF From
  <2>8. t + 1 \in 1 .. N /\ s \in 1 .. N
    OBVIOUS
  <2>9. \A i \in 1 .. N : d[i] = c[i]
    BY <1>2, <2>3, <2>6, <2>7, <2>8
  <2>11. QED
    BY <1>31, <2>2, <2>4, <2>9 DEF a, b, c, d
<1>7. CASE s % 2 # 0
  <2>1. (s - 1) % 2 = 0
    BY <1>7, Parity
  <2>2. Swapped(b, s, t) = Swap(b, 1, s)
    BY <1>7 DEF Swapped
  <2> DEFINE d == Swap(b, 1, s)
  <2>3. \A i \in 1 .. N : d[i] = IF i = s THEN b[1] ELSE IF i = 1 THEN b[s] ELSE b[i]
    BY <1>30 DEF Swap
  <2>4. d = [i \in 1 .. N |-> d[i]]
    BY <1>30 DEF Swap
  <2> HIDE DEF d
  <2>5. \A i \in 1 .. N : From(s - 1, s - 1, i) = IF i >= s THEN i ELSE IF i = 1 THEN s - 1 ELSE i - 1
    BY <2>1 DEF From
  <2>7. \A i \in 1 .. N : From(s, t + 1, i) = IF i = s THEN From(s, t, s - 1)
                                              ELSE IF i = 1 THEN From(s, t, s)
                                              ELSE IF i > s THEN i ELSE From(s, t, i - 1)
    BY <1>7 DEF From
  <2>8. 1 \in 1 .. N /\ s \in 1 .. N
    OBVIOUS
  <2>9. \A i \in 1 .. N : d[i] = c[i]
    <3>1. \A i \in 1 .. N : i > s => From(s, t, i) = i
      BY DEF From
    <3>2. b[1] = y[From(s, t, s - 1)] /\ b[s] = y[From(s, t, s)]
      BY <1>5, <2>5, <2>8
    <3>3. \A i \in 1 .. N : i > s => b[i] = y[i]
      BY <1>5, <2>5, <3>1
    <3>4. \A i \in 1 .. N : i < s /\ i # 1 => b[i] = y[From(s, t, i - 1)]
      BY <1>5, <2>5
    <3>5. ASSUME NEW i \in 1 .. N PROVE d[i] = c[i]
      <4>1. c[i] = y[From(s, t + 1, i)] /\ d[i] = IF i = s THEN b[1] ELSE IF i = 1 THEN b[s] ELSE b[i]
        BY <1>2, <2>3
      <4>2. i = s \/ (i = 1 /\ i # s) \/ i > s \/ (i < s /\ i # 1)
        OBVIOUS
      <4>3. QED
        BY <2>7, <3>2, <3>3, <3>4, <4>1, <4>2
    <3>6. QED
      BY <3>5
  <2>11. QED
    BY <1>31, <2>2, <2>4, <2>9 DEF a, b, c, d
<1>8. QED
  BY <1>6, <1>7

\* The frames of sizes up to M + 1 have had all their turns.
AllTurns(index, M) == \A d \in 0 .. M : index[d] = d

\* When no turn is left up to a size, the frames up to it have had all of theirs.
LEMMA UsedUp ==
    ASSUME NEW N \in Nat, NEW F \in [0 .. N -> Nat \ {0}], NEW index, NEW rest, NEW returned,
           Odometer(N, F, index, rest, returned), NEW M \in 0 .. N - 1, rest[M] <= 0
    PROVE  AllTurns(index, M)
<1>1. /\ index \in [0 .. N - 1 -> Nat] /\ \A d \in 0 .. N - 1 : index[d] <= d
      /\ rest \in [0 .. N - 1 -> Int] /\ rest[0] = 0
      /\ \A d \in 1 .. N - 1 : rest[d] = rest[d - 1] + (d - index[d]) * F[d]
  BY DEF Odometer
<1> DEFINE Q(d) == rest[d] >= 0 /\ (rest[d] = 0 => \A e \in 0 .. d : index[e] = e)
           T == {d \in Nat : d <= N - 1 => Q(d)}
<1>2. 0 \in T
  <2>1. 0 \in 0 .. N - 1
    OBVIOUS
  <2>2. index[0] = 0
    BY <1>1, <2>1
  <2>3. QED
    BY <1>1, <2>2
<1>3. ASSUME NEW d \in Nat, d \in T PROVE d + 1 \in T
  <2>0. SUFFICES ASSUME d + 1 <= N - 1 PROVE Q(d + 1)
    OBVIOUS
  <2>1. Q(d) /\ d + 1 \in 1 .. N - 1 /\ d + 1 \in 0 .. N - 1 /\ d \in 0 .. N - 1 /\ (d + 1) - 1 = d
    BY <1>3, <2>0
  <2> DEFINE a == (d + 1) - index[d + 1]
             f == F[d + 1]
             p == rest[d]
             q == rest[d + 1]
  <2>2. a \in Nat /\ f \in Nat \ {0} /\ p \in Int /\ q \in Int /\ p >= 0
    <3>1. index[d + 1] \in Nat /\ index[d + 1] <= d + 1
      BY <1>1, <2>1
    <3>2. d + 1 \in 0 .. N
      BY <2>1
    <3>3. a \in Nat
      BY <3>1
    <3>4. f \in Nat \ {0}
      BY <3>2
    <3>5. p \in Int /\ q \in Int
      BY <1>1, <2>1
    <3>6. QED
      BY <2>1, <3>3, <3>4, <3>5
  <2>3. q = p + a * f
    BY <1>1, <2>1
  <2> HIDE DEF a, f, p, q
  <2>4. a * f \in Nat /\ (a # 0 => a * f > 0)
    BY <2>2
  <2>5. q >= 0 /\ (q = 0 => p = 0 /\ a = 0)
    BY <2>2, <2>3, <2>4
  <2>6. a = 0 => index[d + 1] = d + 1
    <3>1. index[d + 1] \in Nat
      BY <1>1, <2>1
    <3>2. QED
      BY <3>1 DEF a
  <2>7. ASSUME q = 0, NEW e \in 0 .. d + 1 PROVE index[e] = e
    <3>1. CASE e = d + 1
      BY <2>5, <2>6, <2>7, <3>1
    <3>2. CASE e # d + 1
      <4>1. e \in 0 .. d
        BY <3>2
      <4>2. QED
        BY <2>1, <2>5, <2>7, <4>1 DEF p
    <3>3. QED
      BY <3>1, <3>2
  <2>8. QED
    BY <2>5, <2>7 DEF q
<1>4. Nat \subseteq T
  <2> HIDE DEF T
  <2>1. QED
    BY <1>2, <1>3, SetInduction
<1>5. M \in T /\ M <= N - 1
  BY <1>4
<1>6. rest[M] = 0
  BY <1>1, <1>5
<1>7. QED
  BY <1>5, <1>6 DEF AllTurns

\* Only one frame is due.
LEMMA OneDue ==
    ASSUME NEW N \in Nat, NEW F \in [0 .. N -> Nat \ {0}], NEW index, NEW rest, NEW returned,
           Odometer(N, F, index, rest, returned), NEW D \in Nat, NEW E \in Nat,
           Due(D, N, index, rest), Due(E, N, index, rest)
    PROVE  D = E
<1>1. ASSUME NEW a \in Nat, NEW b \in Nat, Due(a, N, index, rest), Due(b, N, index, rest)
      PROVE  ~(a < b)
  <2>1. a \in 1 .. N - 1 /\ index[a] < a /\ b \in 1 .. N - 1 /\ rest[b - 1] = 0
    BY <1>1 DEF Due
  <2>2. SUFFICES ASSUME a < b PROVE FALSE
    OBVIOUS
  <2>3. b - 1 \in 0 .. N - 1 /\ a \in 0 .. b - 1
    BY <2>1, <2>2
  <2>4. index[a] = a
    <3>1. rest[b - 1] <= 0
      BY <2>1
    <3>2. AllTurns(index, b - 1)
      BY <2>3, <3>1, UsedUp
    <3>3. QED
      BY <2>3, <3>2 DEF AllTurns
  <2>5. QED
    BY <2>1, <2>4
<1>2. ~(D < E) /\ ~(E < D)
  BY <1>1
<1>3. QED
  BY <1>2

\* Y[s] is the list as the frames larger than s have arranged it, x as all have.
Chain(x, Y, N, index, list) ==
    /\ \A s \in 1 .. N : OnPlaces(Y[s], N)
    /\ Y[N] = list /\ Y[1] = x
    /\ \A s \in 2 .. N : Y[s - 1] = Moved(s, index[s - 1], Y[s])

\* A turn on the way up makes the next arrangement of its frame.
LEMMA ClimbMoves ==
    ASSUME NEW list, NEW N \in Nat, N = Len(list), NEW F \in [0 .. N -> Nat \ {0}],
           NEW index, NEW rest, NEW returned \in Nat,
           Odometer(N, F, index, rest, returned), returned < F[N], N # 0,
           NEW t \in Nat, NEW u, IsOrder(u.x, list), Climbing(u, t, N, index, rest),
           NEW x, NEW Y, Chain(x, Y, N, index, list), u.x = Moved(t + 1, t + 1, Y[t + 1])
    PROVE  \/ /\ Climbing(Turn(u), t + 1, N, index, rest)
              /\ Turn(u).x = Moved(t + 2, t + 2, Y[t + 2])
           \/ /\ Descending(Turn(u), t + 1, N, index, rest)
              /\ Due(t + 1, N, index, rest)
              /\ Turn(u).x = Moved(t + 2, index[t + 1] + 1, Y[t + 2])
<1>0. /\ index \in [0 .. N - 1 -> Nat] /\ \A d \in 0 .. N - 1 : index[d] <= d
      /\ rest[N - 1] + returned = F[N] /\ F[N] \in Nat
  BY DEF Odometer
<1>1. ~u.skipSwap /\ ~u.done /\ t <= N - 1 /\ rest[t] = 0 /\ IsStack(u.stack, N, index, N - 1 - t)
  BY DEF Climbing
<1>2. t # N - 1
  <2>1. SUFFICES ASSUME t = N - 1 PROVE FALSE
    OBVIOUS
  <2>2. rest[N - 1] = 0
    BY <1>1, <2>1
  <2>3. QED
    BY <1>0, <2>2
<1> DEFINE s == t + 2
           i == index[t + 1]
<1>3. /\ s \in 2 .. N /\ s - 1 = t + 1 /\ t + 1 \in 1 .. N - 1 /\ t + 1 \in 0 .. N - 1
      /\ s \in Nat /\ s # 1 /\ s \in 1 .. N
      /\ N - 1 - t \in Nat /\ N - 1 - t # 0 /\ N - (N - 1 - t) + 1 = s /\ N - (N - 1 - t) = t + 1
  BY <1>1, <1>2
<1>4. i \in Nat /\ i <= t + 1
  BY <1>0, <1>3
<1>5. Last(u.stack) = [n |-> s, index |-> i]
  <2> DEFINE l == N - 1 - t
             q == u.stack
  <2>1. IsStack(q, N, index, l) /\ l \in Nat /\ l # 0
    BY <1>1, <1>3
  <2> HIDE DEF l, q
  <2>2. Last(q) = [n |-> N - l + 1, index |-> index[N - l]]
    BY <2>1, StackFront
  <2>3. N - l + 1 = s /\ N - l = t + 1
    BY <1>3 DEF l
  <2>4. QED
    BY <2>2, <2>3 DEF q
<1> HIDE DEF s, i
<1>6. Turn(u).x = Swapped(u.x, s, i) /\ (i + 1 < s <=> Turn(u).skipSwap)
  <2>1. CASE i + 1 < s
    <3>1. /\ Turn(u).x = Swapped(u.x, s, i) /\ ~Turn(u).done /\ Turn(u).skipSwap
          /\ Turn(u).stack = Front(u.stack) \o <<[n |-> s, index |-> i + 1], [n |-> s - 1, index |-> 0]>>
      <4>1. ~u.done /\ ~u.skipSwap /\ s \in Nat /\ i \in Nat /\ s # 1 /\ i + 1 < s
        BY <1>1, <1>3, <1>4, <2>1
      <4>2. QED
        BY <1>5, <4>1, TurnTaken, Zenon
    <3>2. QED
      BY <2>1, <3>1
  <2>2. CASE ~(i + 1 < s)
    BY <1>1, <1>3, <1>4, <1>5, <2>2, TurnUsedUp
  <2>3. QED
    BY <2>1, <2>2
<1>7. Swapped(u.x, s, i) = Moved(s, i + 1, Y[s])
  <2> DEFINE y == Y[s]
  <2>1. OnPlaces(y, N) /\ Y[s - 1] = Moved(s, index[s - 1], y)
    BY <1>3 DEF Chain
  <2>2. u.x = Moved(s - 1, s - 1, Moved(s, i, y))
    BY <1>3, <2>1 DEF i
  <2>3. i \in 0 .. s - 1
    BY <1>3, <1>4
  <2> HIDE DEF y
  <2>4. Swapped(Moved(s - 1, s - 1, Moved(s, i, y)), s, i) = Moved(s, i + 1, y)
    BY <1>3, <2>1, <2>3, TurnMoves
  <2>5. QED
    BY <2>2, <2>4 DEF y
<1>8. \/ Climbing(Turn(u), t + 1, N, index, rest)
      \/ Descending(Turn(u), t + 1, N, index, rest)
  BY ClimbingTurn
<1>9. CASE Climbing(Turn(u), t + 1, N, index, rest)
  <2>1. ~(i + 1 < s)
    BY <1>6, <1>9 DEF Climbing
  <2>2. i + 1 = s
    BY <1>3, <1>4, <2>1
  <2>3. QED
    BY <1>6, <1>7, <1>9, <2>2 DEF s
<1>10. CASE Descending(Turn(u), t + 1, N, index, rest)
  <2>1. i + 1 < s
    BY <1>6, <1>10 DEF Descending
  <2>2. Due(t + 1, N, index, rest)
    <3>1. i < t + 1 /\ (t + 1) - 1 = t
      BY <1>3, <1>4, <2>1
    <3>2. QED
      BY <1>1, <1>3, <3>1 DEF Due, i
  <2>3. QED
    BY <1>6, <1>7, <1>10, <2>2 DEF s, i
<1>11. QED
  BY <1>8, <1>9, <1>10

\* A call of doNext that is not the first one makes the next arrangement of the frame that
\* is due.
LEMMA DoNextMoves ==
    ASSUME NEW list, NEW N \in Nat, N = Len(list), N # 0, NEW F \in [0 .. N -> Nat \ {0}],
           NEW index, NEW rest, NEW returned \in Nat,
           Odometer(N, F, index, rest, returned), returned < F[N],
           NEW x, IsOrder(x, list), Len(x) = N, NEW stack, IsStack(stack, N, index, N - 1),
           NEW Y, Chain(x, Y, N, index, list)
    PROVE  \E D \in Nat :
              /\ Due(D, N, index, rest)
              /\ IsStack(DoNext(x, stack).stack, N, Advanced(N, index, D), N - 1)
              /\ DoNext(x, stack).x = Moved(D + 1, index[D] + 1, Y[D + 1])
<1>0. PICK U : /\ U[0] = [x |-> x, stack |-> stack, skipSwap |-> FALSE, done |-> FALSE]
               /\ \A i \in 1 .. 2 * Len(x) : U[i] = Turn(U[i - 1])
               /\ DoNext(x, stack) = U[2 * Len(x)]
  <2>1. Len(x) \in Nat
    OBVIOUS
  <2>2. QED
    BY <2>1, DoNextTurns
<1>1. /\ U[0] = [x |-> x, stack |-> stack, skipSwap |-> FALSE, done |-> FALSE]
      /\ \A i \in 1 .. 2 * N : U[i] = Turn(U[i - 1])
      /\ DoNext(x, stack) = U[2 * N]
  BY <1>0
<1>2. index \in [0 .. N - 1 -> Nat] /\ rest[0] = 0
  BY DEF Odometer
<1> DEFINE Made(y) == \E D \in Nat : /\ Due(D, N, index, rest)
                                     /\ y = Moved(D + 1, index[D] + 1, Y[D + 1])
           Inv(t) == \/ /\ IsOrder(U[t].x, list)
                        /\ Climbing(U[t], t, N, index, rest)
                        /\ U[t].x = Moved(t + 1, t + 1, Y[t + 1])
                     \/ Descending(U[t], t, N, index, rest) /\ Made(U[t].x)
                     \/ Arrived(U[t], N, index, rest) /\ Made(U[t].x)
           T == {t \in Nat : t <= 2 * N => Inv(t)}
<1>3. 0 \in T
  <2>1. U[0].x = x /\ U[0].stack = stack /\ ~U[0].skipSwap /\ ~U[0].done /\ N - 1 - 0 = N - 1
    BY <1>1
  <2>2. Climbing(U[0], 0, N, index, rest)
    BY <1>2, <2>1 DEF Climbing
  <2>3. x = Moved(1, 1, Y[1])
    <3>1. OnPlaces(x, N) /\ Y[1] = x
      BY DEF Chain
    <3>2. \A i \in 1 .. N : From(1, 1, i) = i
      <4>1. 1 % 2 # 0
        OBVIOUS
      <4>2. QED
        BY <4>1 DEF From
    <3>3. QED
      BY <3>1, <3>2 DEF Moved, OnPlaces
  <2>4. QED
    BY <2>1, <2>2, <2>3
<1>4. ASSUME NEW t \in Nat, t \in T PROVE t + 1 \in T
  <2>0. SUFFICES ASSUME t + 1 <= 2 * N PROVE Inv(t + 1)
    OBVIOUS
  <2>1. t <= 2 * N /\ t + 1 \in 1 .. 2 * N /\ (t + 1) - 1 = t
    BY <2>0
  <2>2. Inv(t) /\ U[t + 1] = Turn(U[t])
    BY <1>1, <1>4, <2>1
  <2> DEFINE u == U[t]
  <2>3. CASE Climbing(u, t, N, index, rest) /\ IsOrder(u.x, list) /\ u.x = Moved(t + 1, t + 1, Y[t + 1])
    <3> HIDE DEF u
    <3>1. /\ IsOrder(Turn(u).x, list)
          /\ \/ Climbing(Turn(u), t + 1, N, index, rest)
             \/ Descending(Turn(u), t + 1, N, index, rest)
      BY <2>3, ClimbingTurn
    <3>2. \/ /\ Climbing(Turn(u), t + 1, N, index, rest)
             /\ Turn(u).x = Moved(t + 2, t + 2, Y[t + 2])
          \/ /\ Descending(Turn(u), t + 1, N, index, rest)
             /\ Due(t + 1, N, index, rest)
             /\ Turn(u).x = Moved(t + 2, index[t + 1] + 1, Y[t + 2])
      BY <2>3, ClimbMoves
    <3>3. t + 1 + 1 = t + 2 /\ t + 1 \in Nat
      OBVIOUS
    <3>4. Turn(u) = U[t + 1]
      BY <2>2 DEF u
    <3>5. CASE Climbing(Turn(u), t + 1, N, index, rest) /\ Turn(u).x = Moved(t + 2, t + 2, Y[t + 2])
      BY <3>1, <3>3, <3>4, <3>5
    <3>6. CASE /\ Descending(Turn(u), t + 1, N, index, rest)
               /\ Due(t + 1, N, index, rest)
               /\ Turn(u).x = Moved(t + 2, index[t + 1] + 1, Y[t + 2])
      <4>1. Made(Turn(u).x)
        BY <3>3, <3>6
      <4>2. QED
        BY <3>4, <3>6, <4>1
    <3>7. QED
      BY <3>2, <3>5, <3>6
  <2>4. CASE Descending(u, t, N, index, rest) /\ Made(u.x)
    <3> HIDE DEF u
    <3>2. /\ Turn(u).x = u.x
          /\ \/ Descending(Turn(u), t + 1, N, index, rest)
             \/ Arrived(Turn(u), N, index, rest)
      BY <1>2, <2>4, DescendingTurn
    <3>3. QED
      BY <2>2, <2>4, <3>2 DEF u
  <2>5. CASE Arrived(u, N, index, rest) /\ Made(u.x)
    <3>1. u.done
      BY <2>5 DEF Arrived
    <3>2. Turn(u) = u
      BY <3>1, TurnDone
    <3>3. QED
      BY <2>2, <2>5, <3>2
  <2>6. QED
    BY <2>2, <2>3, <2>4, <2>5
<1>5. Nat \subseteq T
  <2> HIDE DEF T
  <2>1. QED
    BY <1>3, <1>4, SetInduction
<1>6. Inv(2 * N)
  <2>1. 2 * N \in Nat /\ 2 * N <= 2 * N
    OBVIOUS
  <2> HIDE DEF Inv
  <2>2. QED
    BY <1>5, <2>1
<1> DEFINE v == U[2 * N]
<1>7. ~Climbing(v, 2 * N, N, index, rest)
  <2>1. ~(2 * N <= N - 1)
    OBVIOUS
  <2>2. QED
    BY <2>1 DEF Climbing
<1>8. ~Descending(v, 2 * N, N, index, rest)
  <2>1. SUFFICES ASSUME Descending(v, 2 * N, N, index, rest) PROVE FALSE
    OBVIOUS
  <2>2. PICK D \in Nat, l \in Nat : Due(D, N, index, rest) /\ l <= N /\ 2 * N = 2 * D - N - 1 + l
    BY <2>1 DEF Descending
  <2>3. D <= N - 1
    BY <2>2 DEF Due
  <2>4. QED
    BY <2>2, <2>3
<1>9. Arrived(v, N, index, rest) /\ Made(v.x)
  BY <1>6, <1>7, <1>8
<1>10. PICK D \in Nat : Due(D, N, index, rest) /\ v.x = Moved(D + 1, index[D] + 1, Y[D + 1])
  BY <1>9
<1>11. PICK E \in Nat : Due(E, N, index, rest) /\ IsStack(v.stack, N, Advanced(N, index, E), N - 1)
  BY <1>9 DEF Arrived
<1>12. D = E
  BY <1>10, <1>11, OneDue
<1>13. QED
  BY <1>1, <1>10, <1>11, <1>12

\* No turn moves nothing.
LEMMA MovedNothing ==
    ASSUME NEW N, NEW y, OnPlaces(y, N), NEW s
    PROVE  Moved(s, 0, y) = y
<1>1. \A i : From(s, 0, i) = i
  BY DEF From
<1>2. QED
  BY <1>1 DEF Moved, OnPlaces

\* The arrangements after the turn of the frame of size D + 1.
NextChain(Y, N, index, D) ==
    [s \in 1 .. N |-> IF s > D THEN Y[s] ELSE Moved(D + 1, index[D] + 1, Y[D + 1])]

\* A turn of the frame that is due makes the next arrangements out of the ones before it.
LEMMA ChainStep ==
    ASSUME NEW N \in Nat, N # 0, NEW index \in [0 .. N - 1 -> Nat], NEW x, NEW Y, NEW list,
           Chain(x, Y, N, index, list), NEW D \in 1 .. N - 1, index[D] < D
    PROVE  Chain(Moved(D + 1, index[D] + 1, Y[D + 1]), NextChain(Y, N, index, D), N,
                 Advanced(N, index, D), list)
<1> DEFINE Z == NextChain(Y, N, index, D)
           y == Moved(D + 1, index[D] + 1, Y[D + 1])
           next == Advanced(N, index, D)
<1>1. /\ \A s \in 1 .. N : OnPlaces(Y[s], N)
      /\ Y[N] = list /\ Y[1] = x
      /\ \A s \in 2 .. N : Y[s - 1] = Moved(s, index[s - 1], Y[s])
  BY DEF Chain
<1>2. D + 1 \in 1 .. N /\ index[D] \in Nat /\ index[D] + 1 \in 0 .. D + 1 /\ D \in 0 .. N - 1
  <2>1. D \in 0 .. N - 1 /\ D + 1 \in 1 .. N
    OBVIOUS
  <2>2. index[D] \in Nat
    BY <2>1
  <2>3. QED
    BY <2>1, <2>2
<1>3. OnPlaces(y, N)
  <2> DEFINE s == D + 1
             t == index[D] + 1
             z == Y[s]
  <2>1. s \in 1 .. N /\ t \in 0 .. s /\ OnPlaces(z, N)
    BY <1>1, <1>2
  <2> HIDE DEF s, t, z
  <2>2. OnPlaces(Moved(s, t, z), N)
    BY <2>1, MovedPlaces
  <2>3. QED
    BY <2>2 DEF s, t, z
<1>4. \A s \in 1 .. N : Z[s] = IF s > D THEN Y[s] ELSE y
  BY DEF NextChain
<1>5. \A d \in 0 .. N - 1 : next[d] = IF d < D THEN 0 ELSE IF d = D THEN index[d] + 1 ELSE index[d]
  BY DEF Advanced
<1>6. y = Moved(D + 1, index[D] + 1, Y[D + 1])
  OBVIOUS
<1> HIDE DEF Z, y, next
<1>7. \A s \in 1 .. N : OnPlaces(Z[s], N)
  BY <1>1, <1>3, <1>4
<1>8. Z[N] = list /\ Z[1] = y
  <2>1. N \in 1 .. N /\ 1 \in 1 .. N /\ N > D /\ ~(1 > D)
    OBVIOUS
  <2>2. QED
    BY <1>1, <1>4, <2>1
<1>9. ASSUME NEW s \in 2 .. N PROVE Z[s - 1] = Moved(s, next[s - 1], Z[s])
  <2>1. s - 1 \in 1 .. N /\ s \in 1 .. N /\ s - 1 \in 0 .. N - 1
    OBVIOUS
  <2>2. CASE s - 1 > D
    <3>1. s > D /\ ~(s - 1 < D) /\ s - 1 # D
      BY <2>2
    <3>2. Z[s - 1] = Y[s - 1] /\ Z[s] = Y[s] /\ next[s - 1] = index[s - 1]
      BY <1>4, <1>5, <2>1, <2>2, <3>1
    <3>3. QED
      BY <1>1, <3>2
  <2>3. CASE s - 1 = D
    <3>1. s > D /\ ~(s - 1 > D) /\ ~(s - 1 < D) /\ s = D + 1
      BY <2>3
    <3>2. Z[s - 1] = y /\ Z[s] = Y[s] /\ next[s - 1] = index[D] + 1
      BY <1>4, <1>5, <2>1, <2>3, <3>1
    <3>3. QED
      BY <1>6, <3>1, <3>2
  <2>4. CASE s - 1 < D
    <3>1. ~(s > D) /\ ~(s - 1 > D)
      BY <2>4
    <3>2. Z[s - 1] = y /\ Z[s] = y /\ next[s - 1] = 0
      BY <1>4, <1>5, <2>1, <2>4, <3>1
    <3>3. QED
      BY <1>3, <3>2, MovedNothing
  <2>5. QED
    BY <2>2, <2>3, <2>4
<1>10. QED
  BY <1>7, <1>8, <1>9 DEF Chain, Z, y, next

\* What is moved to a place.
LEMMA MovedPlace ==
    ASSUME NEW N \in Nat, NEW y, OnPlaces(y, N), NEW s \in 1 .. N, NEW t \in 0 .. s, NEW i \in 1 .. N
    PROVE  Moved(s, t, y)[i] = y[From(s, t, i)] /\ (i > s => Moved(s, t, y)[i] = y[i])
BY MovedPlaces

\* z is x from place D + 1 on.
AgreeBehind(z, x, D, N) == \A i \in D + 1 .. N : z[i] = x[i]

\* The order z is still to come: in a turn that some frame has left.
Pending(z, N, index, Y) ==
    \E D \in 1 .. N - 1 : \E t \in 1 .. D :
        /\ index[D] < t
        /\ AgreeBehind(z, Y[D + 1], D + 1, N)
        /\ z[D + 1] = Y[D + 1][From(D + 1, t, D + 1)]

\* z has the elements of list, each once.
IsPlaced(z, list, N) ==
    /\ OnPlaces(z, N)
    /\ \A i, j \in 1 .. N : z[i] = z[j] => i = j
    /\ \A i \in 1 .. N : \E j \in 1 .. N : z[i] = list[j]
    /\ \A j \in 1 .. N : \E i \in 1 .. N : z[i] = list[j]

\* An order and its elements.
LEMMA OrderIsPlaced ==
    ASSUME NEW list, NEW N \in Nat, N = Len(list), NEW z, IsOrder(z, list),
           IsInjective(list), DOMAIN list = 1 .. N
    PROVE  IsPlaced(z, list, N)
<1>1. PICK rho \in Arrangements(N) : z = [i \in 1 .. N |-> list[rho[i]]]
  BY DEF IsOrder
<1>2. /\ rho \in [1 .. N -> 1 .. N]
      /\ \A i, j \in 1 .. N : rho[i] = rho[j] => i = j
      /\ \A p \in 1 .. N : \E i \in 1 .. N : rho[i] = p
  BY DEF Arrangements
<1>3. \A i \in 1 .. N : z[i] = list[rho[i]] /\ rho[i] \in 1 .. N
  BY <1>1, <1>2
<1>4. OnPlaces(z, N)
  BY <1>1 DEF OnPlaces
<1>5. ASSUME NEW i \in 1 .. N, NEW j \in 1 .. N, z[i] = z[j] PROVE i = j
  <2>1. list[rho[i]] = list[rho[j]] /\ rho[i] \in 1 .. N /\ rho[j] \in 1 .. N
    BY <1>3, <1>5
  <2>2. rho[i] = rho[j]
    BY <2>1 DEF IsInjective
  <2>3. QED
    BY <1>2, <2>2
<1>6. \A i \in 1 .. N : \E j \in 1 .. N : z[i] = list[j]
  BY <1>3
<1>7. ASSUME NEW j \in 1 .. N PROVE \E i \in 1 .. N : z[i] = list[j]
  <2>1. PICK i \in 1 .. N : rho[i] = j
    BY <1>2
  <2>2. QED
    BY <1>3, <2>1
<1>8. QED
  BY <1>4, <1>5, <1>6, <1>7 DEF IsPlaced

\* In the last place of its arrangement a frame has every element, one in every turn.
LEMMA LeadExists ==
    ASSUME NEW D \in Nat, D # 0, NEW j \in 1 .. D
    PROVE  \E t \in 1 .. D : From(D + 1, t, D + 1) = j
<1>1. CASE (D + 1) % 2 = 0
  <2>1. From(D + 1, j, D + 1) = j
    BY <1>1 DEF From
  <2>2. QED
    BY <2>1
<1>2. CASE (D + 1) % 2 # 0
  <2>1. D + 1 - j \in 1 .. D
    OBVIOUS
  <2>2. From(D + 1, D + 1 - j, D + 1) = j
    BY <1>2 DEF From
  <2>3. QED
    BY <2>1, <2>2
<1>3. QED
  BY <1>1, <1>2

\* From x, the order z comes in a turn of some frame of size D or less.
Ahead(z, x, D, N) ==
    \E E \in 1 .. D - 1 : \E t \in 1 .. E :
        /\ AgreeBehind(z, x, E + 1, N)
        /\ z[E + 1] = x[From(E + 1, t, E + 1)]

\* An order that agrees with another behind the first D places is that order or to come, if
\* the frames of these places have all their turns left.
LEMMA SmallerPending ==
    ASSUME NEW list, NEW N \in Nat, N = Len(list), NEW z, IsOrder(z, list), NEW x, IsOrder(x, list),
           IsInjective(list), DOMAIN list = 1 .. N, NEW D \in 1 .. N, AgreeBehind(z, x, D, N), z # x
    PROVE  Ahead(z, x, D, N)
<1>1. /\ OnPlaces(z, N)
      /\ \A i, j \in 1 .. N : z[i] = z[j] => i = j
      /\ \A i \in 1 .. N : \E j \in 1 .. N : z[i] = list[j]
      /\ \A j \in 1 .. N : \E i \in 1 .. N : z[i] = list[j]
  <2>1. IsPlaced(z, list, N)
    BY OrderIsPlaced
  <2>2. QED
    BY <2>1 DEF IsPlaced
<1>2. /\ OnPlaces(x, N)
      /\ \A i, j \in 1 .. N : x[i] = x[j] => i = j
      /\ \A i \in 1 .. N : \E j \in 1 .. N : x[i] = list[j]
      /\ \A j \in 1 .. N : \E i \in 1 .. N : x[i] = list[j]
  <2>1. IsPlaced(x, list, N)
    BY OrderIsPlaced
  <2>2. QED
    BY <2>1 DEF IsPlaced
<1> DEFINE A == {i \in 1 .. N : z[i] # x[i]}
<1>3. A # {}
  <2>1. SUFFICES ASSUME A = {} PROVE FALSE
    OBVIOUS
  <2>2. \A i \in 1 .. N : z[i] = x[i]
    BY <2>1
  <2>3. z = [i \in 1 .. N |-> z[i]] /\ x = [i \in 1 .. N |-> x[i]]
    BY <1>1, <1>2 DEF OnPlaces
  <2>4. QED
    BY <2>2, <2>3
<1>4. PICK k \in A : \A i \in A : k >= i
  <2>1. A \in SUBSET (0 .. N)
    OBVIOUS
  <2> HIDE DEF A
  <2>2. QED
    BY <1>3, <2>1, LargestExists
<1>5. k \in 1 .. N /\ z[k] # x[k] /\ \A i \in 1 .. N : i > k => z[i] = x[i]
  BY <1>4
<1>6. k <= D
  <2>1. ~(k \in D + 1 .. N)
    BY <1>5 DEF AgreeBehind
  <2>2. QED
    BY <1>5, <2>1
<1> HIDE DEF A
<1>7. PICK j \in 1 .. N : x[j] = z[k]
  <2>1. PICK l \in 1 .. N : z[k] = list[l]
    BY <1>1, <1>5
  <2>2. QED
    BY <1>2, <2>1
<1>8. j < k
  <2>1. j # k
    BY <1>5, <1>7
  <2>2. ~(j > k)
    <3>1. SUFFICES ASSUME j > k PROVE FALSE
      OBVIOUS
    <3>2. z[j] = z[k]
      BY <1>5, <1>7, <3>1
    <3>3. QED
      BY <1>1, <1>5, <3>1, <3>2
  <2>3. QED
    BY <1>5, <2>1, <2>2
<1> DEFINE E == k - 1
<1>9. E \in 1 .. D - 1 /\ E \in Nat /\ E # 0 /\ j \in 1 .. E /\ E + 1 = k
  BY <1>5, <1>6, <1>8
<1> HIDE DEF E
<1>10. PICK t \in 1 .. E : From(E + 1, t, E + 1) = j
  BY <1>9, LeadExists
<1>11. AgreeBehind(z, x, E + 1, N)
  <2>1. \A i \in E + 1 + 1 .. N : i \in 1 .. N /\ i > k
    BY <1>9
  <2>2. QED
    BY <1>5, <2>1 DEF AgreeBehind
<1>12. QED
  BY <1>7, <1>9, <1>10, <1>11 DEF Ahead

\* Two lists of the same elements, one of them behind the other.
LEMMA PendingStep ==
    ASSUME NEW list, NEW N \in Nat, N = Len(list), N # 0,
           IsInjective(list), DOMAIN list = 1 .. N,
           NEW index \in [0 .. N - 1 -> Nat], NEW x, NEW Y, Chain(x, Y, N, index, list),
           NEW D \in 1 .. N - 1, index[D] < D, \A d \in 0 .. D - 1 : index[d] = d,
           NEW y, y = Moved(D + 1, index[D] + 1, Y[D + 1]), IsOrder(y, list),
           NEW z, IsOrder(z, list), Pending(z, N, index, Y)
    PROVE  z = y \/ Pending(z, N, Advanced(N, index, D), NextChain(Y, N, index, D))
<1> DEFINE Z == NextChain(Y, N, index, D)
           next == Advanced(N, index, D)
<1>1. \A s \in 1 .. N : Z[s] = IF s > D THEN Y[s] ELSE y
  BY DEF NextChain
<1>2. \A d \in 0 .. N - 1 : next[d] = IF d < D THEN 0 ELSE IF d = D THEN index[d] + 1 ELSE index[d]
  BY DEF Advanced
<1> HIDE DEF Z, next
<1>3. PICK E \in 1 .. N - 1 : \E t \in 1 .. E :
         /\ index[E] < t
         /\ AgreeBehind(z, Y[E + 1], E + 1, N)
         /\ z[E + 1] = Y[E + 1][From(E + 1, t, E + 1)]
  BY DEF Pending
<1>4. PICK t \in 1 .. E :
         /\ index[E] < t
         /\ AgreeBehind(z, Y[E + 1], E + 1, N)
         /\ z[E + 1] = Y[E + 1][From(E + 1, t, E + 1)]
  BY <1>3
<1>5. E >= D
  <2>1. SUFFICES ASSUME E < D PROVE FALSE
    OBVIOUS
  <2>2. index[E] = E
    BY <2>1
  <2>3. QED
    BY <1>4, <2>2
<1>6. E + 1 \in 1 .. N /\ E + 1 > D /\ E \in 0 .. N - 1 /\ ~(E < D) /\ index[E] \in Nat
  <2>1. E \in 0 .. N - 1
    OBVIOUS
  <2>2. QED
    BY <1>5, <2>1
<1>7. Z[E + 1] = Y[E + 1]
  BY <1>1, <1>6
<1>8. CASE next[E] < t
  BY <1>4, <1>7, <1>8 DEF Pending, Z, next
<1>9. CASE ~(next[E] < t)
  <2>1. E = D /\ t = index[D] + 1
    <3>1. E # D => next[E] = index[E]
      BY <1>2, <1>6
    <3>2. E = D
      BY <1>4, <1>9, <3>1
    <3>3. next[E] = index[E] + 1
      BY <1>2, <1>6, <3>2
    <3>4. QED
      BY <1>4, <1>6, <1>9, <3>2, <3>3
  <2> DEFINE s == D + 1
             w == Y[s]
  <2>2. OnPlaces(w, N) /\ s \in 1 .. N /\ t \in 0 .. s /\ y = Moved(s, t, w)
    BY <1>6, <2>1 DEF Chain
  <2>3. \A i \in s + 1 .. N : z[i] = w[i]
    BY <1>4, <2>1 DEF AgreeBehind
  <2>4. z[s] = w[From(s, t, s)]
    BY <1>4, <2>1
  <2> HIDE DEF s, w
  <2>5. ASSUME NEW i \in 1 .. N PROVE y[i] = w[From(s, t, i)] /\ (i > s => y[i] = w[i])
    <3>1. Moved(s, t, w)[i] = w[From(s, t, i)] /\ (i > s => Moved(s, t, w)[i] = w[i])
      BY <2>2, MovedPlace
    <3>2. QED
      BY <2>2, <3>1
  <2>6. AgreeBehind(z, y, D, N)
    <3>1. ASSUME NEW i \in D + 1 .. N PROVE z[i] = y[i]
      <4>1. i \in 1 .. N /\ (i = s \/ i \in s + 1 .. N)
        BY DEF s
      <4>2. CASE i = s
        BY <2>4, <2>5, <4>1, <4>2
      <4>3. CASE i \in s + 1 .. N
        <5>1. i > s
          BY <2>2, <4>3
        <5>2. QED
          BY <2>3, <2>5, <4>1, <4>3, <5>1
      <4>4. QED
        BY <4>1, <4>2, <4>3
    <3>2. QED
      BY <3>1 DEF AgreeBehind
  <2>7. CASE z # y
    <3>1. D \in 1 .. N
      OBVIOUS
    <3>2. PICK G \in 1 .. D - 1 : \E r \in 1 .. G :
             /\ AgreeBehind(z, y, G + 1, N)
             /\ z[G + 1] = y[From(G + 1, r, G + 1)]
      <4>1. Ahead(z, y, D, N)
        BY <2>6, <2>7, <3>1, SmallerPending
      <4>2. QED
        BY <4>1 DEF Ahead
    <3>3. PICK r \in 1 .. G :
             /\ AgreeBehind(z, y, G + 1, N)
             /\ z[G + 1] = y[From(G + 1, r, G + 1)]
      BY <3>2
    <3>4. G \in 1 .. N - 1 /\ G + 1 \in 1 .. N /\ ~(G + 1 > D) /\ G \in 0 .. N - 1 /\ G < D
      OBVIOUS
    <3>5. Z[G + 1] = y /\ next[G] = 0 /\ next[G] < r
      BY <1>1, <1>2, <3>4
    <3>6. Pending(z, N, next, Z)
      <4>1. AgreeBehind(z, Z[G + 1], G + 1, N) /\ z[G + 1] = Z[G + 1][From(G + 1, r, G + 1)]
        BY <3>3, <3>5
      <4>2. G \in 1 .. N - 1 /\ r \in 1 .. G /\ next[G] < r
        BY <3>4, <3>5
      <4>3. QED
        BY <4>1, <4>2 DEF Pending
    <3>7. QED
      BY <3>6 DEF Z, next
  <2>8. QED
    BY <2>7
<1>10. QED
  BY <1>8, <1>9

\* Every order of list that the iterator has not given yet is still to come; P are orders
\* that it has given.
Tried(it, list, P) ==
    LET N == Len(list)
    IN  IF it.iterations = 0 THEN it.x = list
        ELSE \E F, index, rest, Y :
                /\ Factors(F, N) /\ Odometer(N, F, index, rest, it.iterations)
                /\ IsStack(it.stack, N, index, N - 1) /\ Chain(it.x, Y, N, index, list)
                /\ \A z : IsOrder(z, list) => z \in P \/ Pending(z, N, index, Y)

\* After the first call all other orders are to come.
LEMMA FirstTried ==
    ASSUME NEW S, NEW list \in Seq(S), IsInjective(list), NEW it, IsIterator(it, list), HasNext(it),
           it.iterations = 0, it.x = list, NEW P, NextOrder(it).x \in P
    PROVE  Tried(NextOrder(it), list, P)
<1> DEFINE N == Len(list)
           after == NextOrder(it)
           index == [d \in 0 .. N - 1 |-> 0]
           Y == [s \in 1 .. N |-> list]
<1>1. N \in Nat /\ DOMAIN list = 1 .. N /\ OnPlaces(list, N)
  BY DEF OnPlaces
<1>2. N # 0
  <2>1. Factorial(0) = 0
    BY DEF Factorial
  <2>2. QED
    BY <2>1 DEF IsIterator, HasNext
<1>3. IsStack(it.stack, N, index, N)
  <2>1. ~Running(it, N)
    BY DEF Running
  <2>2. Fresh(it, N)
    BY <1>2, <2>1 DEF IsIterator
  <2>3. QED
    BY <2>2 DEF Fresh
<1>4. /\ after.x = DoNext(it.x, it.stack).x /\ after.stack = DoNext(it.x, it.stack).stack
      /\ after.iterations = 1
  BY DEF NextOrder
<1>5. PICK F : Factors(F, N)
  BY <1>1, <1>2, FactorsExist
<1> DEFINE rest == [d \in 0 .. N - 1 |-> F[d + 1] - 1]
<1>6. Odometer(N, F, index, rest, after.iterations)
  BY <1>1, <1>2, <1>4, <1>5, OdometerStart
<1>7. \A s \in 1 .. N : Y[s] = list
  OBVIOUS
<1>8. \A d \in 0 .. N - 1 : index[d] = 0
  OBVIOUS
<1> HIDE DEF N, index, rest, Y
<1>9. after.x = list /\ IsStack(after.stack, N, index, N - 1)
  <2> DEFINE x == it.x
             stack == it.stack
  <2>1. Len(x) = N /\ IsStack(stack, N, index, N)
    BY <1>3 DEF N
  <2> HIDE DEF x, stack
  <2>2. DoNext(x, stack).x = x /\ IsStack(DoNext(x, stack).stack, N, index, N - 1)
    BY <1>1, <1>2, <2>1, DoNextFirst
  <2>3. QED
    BY <1>4, <2>2 DEF x, stack
<1> HIDE DEF after
<1>10. Chain(after.x, Y, N, index, list)
  <2>1. \A s \in 2 .. N : s - 1 \in 1 .. N /\ s - 1 \in 0 .. N - 1 /\ s \in 1 .. N
    BY <1>1
  <2>2. \A s \in 2 .. N : Y[s - 1] = Moved(s, index[s - 1], Y[s])
    BY <1>1, <1>7, <1>8, <2>1, MovedNothing
  <2>3. N \in 1 .. N /\ 1 \in 1 .. N
    BY <1>1, <1>2
  <2>4. QED
    BY <1>1, <1>7, <1>9, <2>2, <2>3 DEF Chain
<1>11. ASSUME NEW z, IsOrder(z, list), z # list PROVE Pending(z, N, index, Y)
  <2>1. IsOrder(list, list)
    BY DEF IsIterator
  <2>2. AgreeBehind(z, list, N, N) /\ N \in 1 .. N
    BY <1>1, <1>2 DEF AgreeBehind
  <2>3. N = Len(list)
    BY DEF N
  <2>4. Ahead(z, list, N, N)
    BY <1>1, <1>11, <2>1, <2>2, <2>3, SmallerPending
  <2>5. PICK E \in 1 .. N - 1 : \E t \in 1 .. E :
           /\ AgreeBehind(z, list, E + 1, N) /\ z[E + 1] = list[From(E + 1, t, E + 1)]
    BY <2>4 DEF Ahead
  <2>6. PICK t \in 1 .. E :
           /\ AgreeBehind(z, list, E + 1, N) /\ z[E + 1] = list[From(E + 1, t, E + 1)]
    BY <2>5
  <2>7. E + 1 \in 1 .. N /\ E \in 0 .. N - 1 /\ 0 < t
    BY <1>1
  <2>8. Y[E + 1] = list /\ index[E] < t
    BY <1>7, <1>8, <2>7
  <2>9. QED
    BY <2>6, <2>8 DEF Pending
<1>12. \A z : IsOrder(z, list) => z \in P \/ Pending(z, N, index, Y)
  <2>1. list \in P
    BY <1>9 DEF after
  <2>2. QED
    BY <1>11, <2>1
<1>13. after.iterations # 0
  BY <1>4
<1>14. \E f, i, r, y : /\ Factors(f, N) /\ Odometer(N, f, i, r, after.iterations)
                       /\ IsStack(after.stack, N, i, N - 1) /\ Chain(after.x, y, N, i, list)
                       /\ \A z : IsOrder(z, list) => z \in P \/ Pending(z, N, i, y)
  BY <1>5, <1>6, <1>9, <1>10, <1>12
<1>15. QED
  BY <1>13, <1>14 DEF Tried, N, after

\* So they are after a later call.
LEMMA LaterTried ==
    ASSUME NEW S, NEW list \in Seq(S), IsInjective(list), NEW it, IsIterator(it, list), HasNext(it),
           it.iterations # 0, NEW P, Tried(it, list, P), NextOrder(it).x \in P
    PROVE  Tried(NextOrder(it), list, P)
<1> DEFINE N == Len(list)
           after == NextOrder(it)
<1>1. N \in Nat /\ DOMAIN list = 1 .. N
  OBVIOUS
<1>2. N # 0
  <2>1. Factorial(0) = 0
    BY DEF Factorial
  <2>2. QED
    BY <2>1 DEF IsIterator, HasNext
<1>3. PICK F, index, rest, Y :
         /\ Factors(F, N) /\ Odometer(N, F, index, rest, it.iterations)
         /\ IsStack(it.stack, N, index, N - 1) /\ Chain(it.x, Y, N, index, list)
         /\ \A z : IsOrder(z, list) => z \in P \/ Pending(z, N, index, Y)
  BY DEF Tried
<1>4. F \in [0 .. N -> Nat \ {0}] /\ it.iterations \in Nat /\ it.iterations < F[N]
  BY <1>3 DEF Factors, IsIterator, HasNext
<1>5. IsOrder(it.x, list) /\ Len(it.x) = N
  <2>1. IsOrder(it.x, list)
    BY DEF IsIterator
  <2>2. QED
    BY <2>1, OrderParts
<1>6. /\ after.x = DoNext(it.x, it.stack).x /\ after.stack = DoNext(it.x, it.stack).stack
      /\ after.iterations = it.iterations + 1
  BY DEF NextOrder
<1>7. N = Len(list)
  OBVIOUS
<1>8. IsOrder(after.x, list)
  <2>1. list \in Seq(ToSet(list))
    BY DEF ToSet
  <2>2. QED
    BY <2>1, NextIsIterator DEF IsIterator
<1> HIDE DEF N
<1>9. PICK D \in Nat :
         /\ Due(D, N, index, rest) /\ IsStack(after.stack, N, Advanced(N, index, D), N - 1)
         /\ after.x = Moved(D + 1, index[D] + 1, Y[D + 1])
  <2> DEFINE x == it.x
             stack == it.stack
             k == it.iterations
  <2>1. /\ k \in Nat /\ k < F[N] /\ IsOrder(x, list) /\ Len(x) = N
        /\ Odometer(N, F, index, rest, k) /\ IsStack(stack, N, index, N - 1) /\ Chain(x, Y, N, index, list)
    BY <1>3, <1>4, <1>5
  <2> HIDE DEF x, stack, k
  <2>2. \E D \in Nat :
           /\ Due(D, N, index, rest)
           /\ IsStack(DoNext(x, stack).stack, N, Advanced(N, index, D), N - 1)
           /\ DoNext(x, stack).x = Moved(D + 1, index[D] + 1, Y[D + 1])
    BY <1>1, <1>2, <1>4, <1>7, <2>1, DoNextMoves
  <2>3. QED
    BY <1>6, <2>2 DEF x, stack
<1> HIDE DEF after
<1>10. D \in 1 .. N - 1 /\ index[D] < D /\ rest[D - 1] = 0 /\ index \in [0 .. N - 1 -> Nat]
  BY <1>3, <1>9 DEF Due, Odometer
<1>11. \A d \in 0 .. D - 1 : index[d] = d
  <2> DEFINE E == D - 1
             k == it.iterations
  <2>1. E \in 0 .. N - 1 /\ rest[E] <= 0 /\ Odometer(N, F, index, rest, k)
    BY <1>1, <1>3, <1>10
  <2> HIDE DEF E, k
  <2>2. \A d \in 0 .. E : index[d] = d
    <3>1. N \in Nat /\ F \in [0 .. N -> Nat \ {0}]
      BY <1>1, <1>4
    <3>2. AllTurns(index, E)
      BY <2>1, <3>1, UsedUp
    <3>3. QED
      BY <3>2 DEF AllTurns
  <2>3. QED
    BY <2>2 DEF E
<1> DEFINE next == Advanced(N, index, D)
           Z == NextChain(Y, N, index, D)
           left == [d \in 0 .. N - 1 |-> IF d < D THEN F[d + 1] - 1 ELSE rest[d] - 1]
<1>12. Odometer(N, F, next, left, after.iterations)
  <2> DEFINE k == it.iterations
  <2>1. k \in Nat /\ Odometer(N, F, index, rest, k)
    BY <1>3, <1>4
  <2> HIDE DEF k
  <2>2. Odometer(N, F, next, left, k + 1)
    BY <1>1, <1>2, <1>3, <1>9, <2>1, OdometerStep
  <2>3. QED
    BY <1>6, <2>2 DEF k
<1>13. Chain(after.x, Z, N, next, list)
  <2> DEFINE x == it.x
  <2>1. Chain(x, Y, N, index, list)
    BY <1>3
  <2> HIDE DEF x
  <2>2. Chain(Moved(D + 1, index[D] + 1, Y[D + 1]), Z, N, next, list)
    BY <1>1, <1>2, <1>10, <2>1, ChainStep
  <2>3. QED
    BY <1>9, <2>2
<1>14. ASSUME NEW z, IsOrder(z, list) PROVE z \in P \/ Pending(z, N, next, Z)
  <2> DEFINE x == it.x
             y == after.x
  <2>1. Chain(x, Y, N, index, list) /\ y = Moved(D + 1, index[D] + 1, Y[D + 1]) /\ IsOrder(y, list)
        /\ y \in P
    BY <1>3, <1>8, <1>9 DEF after
  <2>2. z \in P \/ Pending(z, N, index, Y)
    BY <1>3, <1>14
  <2> HIDE DEF x, y
  <2>3. CASE Pending(z, N, index, Y)
    <3>1. z = y \/ Pending(z, N, next, Z)
      BY <1>1, <1>2, <1>7, <1>10, <1>11, <1>14, <2>1, <2>3, PendingStep
    <3>2. QED
      BY <2>1, <3>1
  <2>4. QED
    BY <2>2, <2>3
<1>15. after.iterations # 0
  BY <1>4, <1>6
<1>16. IsStack(after.stack, N, next, N - 1)
  BY <1>9
<1> HIDE DEF next, Z, left
<1>17. \E f, i, r, y : /\ Factors(f, N) /\ Odometer(N, f, i, r, after.iterations)
                       /\ IsStack(after.stack, N, i, N - 1) /\ Chain(after.x, y, N, i, list)
                       /\ \A z : IsOrder(z, list) => z \in P \/ Pending(z, N, i, y)
  BY <1>3, <1>12, <1>13, <1>14, <1>16
<1>18. QED
  BY <1>15, <1>17 DEF Tried, N, after

\* When no order is left, the iterator has given them all.
LEMMA AllTried ==
    ASSUME NEW S, NEW list \in Seq(S), list # <<>>, NEW it, IsIterator(it, list), ~HasNext(it),
           NEW P, Tried(it, list, P), NEW z, IsOrder(z, list)
    PROVE  z \in P
<1> DEFINE N == Len(list)
           k == it.iterations
<1>1. N \in Nat /\ N # 0 /\ k \in Nat /\ ~(k < Factorial(N))
  <2>1. k \in Nat /\ ~(k < Factorial(N))
    BY DEF IsIterator, HasNext
  <2>2. N \in Nat /\ N # 0
    OBVIOUS
  <2>3. QED
    BY <2>1, <2>2
<1> HIDE DEF N, k
<1>2. k # 0
  <2>1. PICK F : Factors(F, N)
    BY <1>1, FactorsExist
  <2>2. N \in 0 .. N /\ F[N] \in Nat \ {0} /\ Factorial(N) = F[N]
    BY <1>1, <2>1 DEF Factors
  <2>3. QED
    BY <1>1, <2>2
<1>3. PICK F, index, rest, Y :
         /\ Factors(F, N) /\ Odometer(N, F, index, rest, k)
         /\ \A y : IsOrder(y, list) => y \in P \/ Pending(y, N, index, Y)
  BY <1>2 DEF Tried, k, N
<1>4. /\ F \in [0 .. N -> Nat \ {0}] /\ Factorial(N) = F[N]
      /\ rest \in [0 .. N - 1 -> Int] /\ rest[N - 1] + k = F[N]
  BY <1>3 DEF Factors, Odometer
<1> DEFINE E == N - 1
<1>5. E \in 0 .. N - 1 /\ rest[E] <= 0
  <2>1. E \in 0 .. N - 1 /\ N \in 0 .. N
    BY <1>1
  <2>2. rest[E] \in Int /\ F[N] \in Int /\ rest[E] + k = F[N] /\ ~(k < F[N])
    BY <1>1, <1>4, <2>1
  <2>3. QED
    BY <1>1, <2>1, <2>2
<1> HIDE DEF E
<1>6. \A d \in 0 .. E : index[d] = d
  <2>1. Odometer(N, F, index, rest, k) /\ N \in Nat /\ F \in [0 .. N -> Nat \ {0}]
    BY <1>1, <1>3, <1>4
  <2>2. AllTurns(index, E)
    BY <1>5, <2>1, UsedUp
  <2>3. QED
    BY <2>2 DEF AllTurns
<1>7. ~Pending(z, N, index, Y)
  <2>1. \A D \in 1 .. N - 1 : D \in 0 .. E
    BY DEF E
  <2>2. \A D \in 1 .. N - 1 : \A t \in 1 .. D : ~(index[D] < t)
    BY <1>6, <2>1
  <2>3. QED
    BY <2>2 DEF Pending
<1>8. QED
  BY <1>3, <1>7

------------------------------------------------------------------------------
(* What obeys an embedding is found to fit.                                *)

\* No dimension of the list is a wildcard.
IsPlain(list) == \A i \in DOMAIN list : ~Wildcard(list[i])

\* A walk along a list without wildcards meets every dimension once.
LEMMA PlainWalk ==
    ASSUME NEW list, AreDimensions(list), IsPlain(list), NEW n \in Nat, NEW p, p \in Walks(list, n)
    PROVE  n = Len(list) /\ \A t \in 1 .. n : p[t] = t
<1> DEFINE L == Len(list)
<1>1. L \in Nat /\ DOMAIN list = 1 .. L
  BY DEF AreDimensions
<1>2. \A i \in 1 .. L : ~Skippable(list[i]) /\ ~Repeatable(list[i])
  BY <1>1 DEF IsPlain, Wildcard, Skippable, Repeatable
<1>3. /\ \A t \in 1 .. n : p[t] \in 1 .. L
      /\ \A t, u \in 1 .. n : t <= u => p[t] <= p[u]
      /\ \A i \in 1 .. L : \E t \in 1 .. n : p[t] = i
      /\ \A t, u \in 1 .. n : p[t] = p[u] => t = u
  <2>1. /\ p \in [1 .. n -> 1 .. L]
        /\ \A t, u \in 1 .. n : t <= u => p[t] <= p[u]
        /\ \A i \in 1 .. L : /\ \E t \in 1 .. n : p[t] = i
                             /\ \A t, u \in 1 .. n : p[t] = i /\ p[u] = i => t = u
    BY <1>1, <1>2 DEF Walks
  <2>2. QED
    BY <2>1
<1> HIDE DEF L
<1> DEFINE Met(s) == s <= n \/ s <= L => s <= n /\ s <= L /\ p[s] = s
           T == {t \in Nat : \A s \in 1 .. t : Met(s)}
<1>4. 0 \in T
  OBVIOUS
<1>5. ASSUME NEW t \in Nat, t \in T PROVE t + 1 \in T
  <2> DEFINE s == t + 1
  <2>1. s \in Nat /\ s >= 1 /\ \A u \in 1 .. s : u = s \/ u \in 1 .. t
    OBVIOUS
  <2>2. \A u \in 1 .. t : Met(u) /\ u < s
    BY <1>5
  <2> HIDE DEF s
  <2>3. ASSUME s <= L PROVE s <= n
    <3>1. PICK u \in 1 .. n : p[u] = s
      BY <1>1, <1>3, <2>1, <2>3
    <3>2. ~(u \in 1 .. t)
      BY <2>2, <3>1
    <3>3. u >= s
      BY <3>2 DEF s
    <3>4. QED
      BY <2>1, <3>3
  <2>4. ASSUME s <= n PROVE s <= L /\ p[s] = s
    <3>1. s \in 1 .. n /\ p[s] \in 1 .. L
      BY <1>3, <2>1, <2>4
    <3>2. ~(p[s] \in 1 .. t)
      <4>1. SUFFICES ASSUME p[s] \in 1 .. t PROVE FALSE
        OBVIOUS
      <4> DEFINE v == p[s]
      <4>2. v \in 1 .. t /\ v <= L /\ v \in 1 .. L
        BY <1>1, <3>1, <4>1
      <4>3. v <= n /\ p[v] = v /\ v < s
        BY <2>2, <4>2
      <4>4. v = s
        BY <1>3, <3>1, <4>2, <4>3
      <4>5. QED
        BY <2>1, <4>3, <4>4
    <3>3. p[s] >= s
      BY <1>1, <3>1, <3>2 DEF s
    <3>4. s \in 1 .. L
      BY <1>1, <2>1, <3>1, <3>3
    <3>5. PICK u \in 1 .. n : p[u] = s
      BY <1>3, <3>4
    <3>6. ~(u \in 1 .. t)
      BY <2>2, <3>5
    <3>7. s <= u
      BY <3>6 DEF s
    <3>8. p[s] <= s
      BY <1>3, <3>1, <3>5, <3>7
    <3>9. QED
      BY <1>1, <2>1, <3>1, <3>3, <3>4, <3>8
  <2>5. Met(s)
    BY <2>3, <2>4
  <2>6. \A u \in 1 .. s : Met(u)
    <3> HIDE DEF Met
    <3>1. QED
      BY <2>1, <2>2, <2>5
  <2>7. QED
    BY <2>1, <2>6 DEF s
<1>6. Nat \subseteq T
  <2> HIDE DEF T
  <2>1. QED
    BY <1>4, <1>5, SetInduction
<1>7. \A s \in Nat : s >= 1 => Met(s)
  <2>1. ASSUME NEW s \in Nat, s >= 1 PROVE Met(s)
    <3>1. s \in T
      BY <1>6
    <3>2. s \in 1 .. s
      BY <2>1
    <3> HIDE DEF Met
    <3>3. QED
      BY <3>1, <3>2
  <2> HIDE DEF Met
  <2>2. QED
    BY <2>1
<1>8. n <= L
  BY <1>1, <1>7
<1>9. L <= n
  BY <1>1, <1>7
<1>10. \A t \in 1 .. n : p[t] = t
  <2>1. \A t \in 1 .. n : t \in Nat /\ t >= 1 /\ t <= n
    OBVIOUS
  <2>2. QED
    BY <1>7, <2>1
<1>11. n = L
  BY <1>1, <1>8, <1>9
<1>12. QED
  BY <1>10, <1>11 DEF L

\* Lists without wildcards that agree have the same dimensions at the same places.
LEMMA PlainEmbed ==
    ASSUME NEW listA, AreDimensions(listA), IsPlain(listA), NEW listB, AreDimensions(listB), IsPlain(listB),
           NEW mu, DimsEmbed(listA, listB, mu)
    PROVE  Len(listA) = Len(listB) /\ \A i \in DOMAIN listA : Stands(listA[i].d, listB[i].d, mu)
<1>1. PICK n \in 0 .. Len(listA) + Len(listB) : \E p \in Walks(listA, n), q \in Walks(listB, n) :
        \A t \in 1 .. n : Stands(listA[p[t]].d, listB[q[t]].d, mu)
  BY DEF DimsEmbed
<1>2. PICK p \in Walks(listA, n), q \in Walks(listB, n) :
        \A t \in 1 .. n : Stands(listA[p[t]].d, listB[q[t]].d, mu)
  BY <1>1
<1>3. n \in Nat /\ DOMAIN listA = 1 .. Len(listA)
  BY DEF AreDimensions
<1>4. n = Len(listA) /\ \A t \in 1 .. n : p[t] = t
  BY <1>3, PlainWalk
<1>5. n = Len(listB) /\ \A t \in 1 .. n : q[t] = t
  BY <1>3, PlainWalk
<1>6. QED
  BY <1>2, <1>3, <1>4, <1>5

\* The maps of a comparison that follows the meanings mu and kappa.
FollowMaps(dims, classes, D, V, ca, cb, mu, kappa) ==
    MapsOK(dims, classes, D, V, ca, cb) /\ Obeys(mu, dims) /\ Obeys(kappa, classes)

\* A comparison that succeeds and leaves such maps.
Follows(r, D, V, ca, cb, mu, kappa) == r.ok /\ FollowMaps(r.dims, r.classes, D, V, ca, cb, mu, kappa)

\* What matchDimList binds is what the names stand for.
LEMMA DimsFollow ==
    ASSUME NEW listA, AreDimensions(listA), IsPlain(listA), \A i \in DOMAIN listA : listA[i] # NoDim,
           NEW listB, AreDimensions(listB), IsPlain(listB), \A j \in DOMAIN listB : listB[j] # NoDim,
           NEW values, \A j \in DOMAIN listB : listB[j].d \in values, NEW m \in DimMaps(values),
           NEW mu, Obeys(mu, m), DimsEmbed(listA, listB, mu)
    PROVE  MatchDimList(listA, listB, m).ok /\ Obeys(mu, MatchDimList(listA, listB, m).dims)
<1> DEFINE r == MatchDimList(listA, listB, m)
<1>1. r.ok
  BY MatchDimListComplete
<1>2. /\ r.dims \in DimMaps(values) /\ Extends(r.dims, m) /\ Binds(r.dims, m, listA)
      /\ \A nu : Obeys(nu, r.dims) => DimsEmbed(listA, listB, nu)
  BY <1>1, MatchDimListSound
<1> HIDE DEF r
<1> DEFINE d == r.dims
<1>3. DimsEmbed(listA, listB, d)
  BY <1>2 DEF Obeys
<1>4. Len(listA) = Len(listB) /\ \A i \in DOMAIN listA : Stands(listA[i].d, listB[i].d, d)
  BY <1>3, PlainEmbed
<1>5. \A i \in DOMAIN listA : Stands(listA[i].d, listB[i].d, mu)
  BY PlainEmbed
<1>6. DOMAIN d \subseteq DimNames
  BY <1>2 DEF DimMaps
<1>7. ASSUME NEW x \in DOMAIN d PROVE mu[x] = d[x]
  <2>1. CASE x \in DOMAIN m
    BY <1>2, <2>1 DEF Extends, Obeys
  <2>2. CASE x \notin DOMAIN m
    <3>1. PICK i \in DOMAIN listA : x = listA[i].d
      BY <1>2, <2>2 DEF Binds
    <3>2. QED
      BY <1>4, <1>5, <1>6, <3>1 DEF Stands
  <2>3. QED
    BY <2>1, <2>2
<1>8. QED
  BY <1>1, <1>7 DEF Obeys, r

\* A field that embeds fits, and what it binds is what the names stand for.
LEMMA FieldFollows ==
    ASSUME NEW D, NEW V, NEW ca, NEW cb, \A c \in ToSet(cb) : c.dim \in V,
           \A c \in ToSet(ca) : c.dim \in D,
           NEW mu, NEW kappa, ClassesStand(ca, cb, mu, kappa),
           NEW f, NEW g, Comparable(f, g, D, V, ca, cb), HasDims(f), HasDims(g),
           IsPlain(f.dim), IsPlain(g.dim), FieldEmbeds(f, g, mu, kappa),
           NEW u, Follows(u, D, V, ca, cb, mu, kappa)
    PROVE  Follows(FieldNext(f, g, u, ca, cb), D, V, ca, cb, mu, kappa)
<1> DEFINE dims == u.dims
           classes == u.classes
<1>1. MapsOK(dims, classes, D, V, ca, cb) /\ Obeys(mu, dims) /\ Obeys(kappa, classes) /\ u.ok
  BY DEF Follows, FollowMaps
<1> HIDE DEF dims, classes
<1>2. CASE f.type = "tensor"
  <2> DEFINE r == MatchDimList(f.dim, g.dim, dims)
             s == MatchTensor(f, g, dims, classes)
  <2>1. /\ AreDimensions(f.dim) /\ (\A i \in DOMAIN f.dim : f.dim[i] # NoDim) /\ dims \in DimMaps(V)
        /\ AreDimensions(g.dim) /\ (\A i \in DOMAIN g.dim : g.dim[i] # NoDim)
        /\ \A j \in DOMAIN g.dim : g.dim[j].d \in V
        /\ DimsEmbed(f.dim, g.dim, mu)
    BY <1>1, <1>2 DEF Comparable, HasDims, MapsOK, FieldEmbeds
  <2>2. r.ok /\ Obeys(mu, r.dims)
    BY <1>1, <2>1, DimsFollow
  <2>3. s = Fits(r.dims, classes)
    BY <2>2 DEF MatchTensor
  <2> HIDE DEF r, s
  <2>4. s.ok /\ s.dims = r.dims /\ s.classes = classes
    BY <2>3 DEF Fits
  <2>5. MapsOK(s.dims, s.classes, D, V, ca, cb)
    <3>1. Grown(s, dims, classes, D, V, ca, cb)
      BY <1>1, <1>2, <2>4, TensorSound DEF s
    <3>2. QED
      BY <3>1 DEF Grown
  <2>6. FieldNext(f, g, u, ca, cb) = s
    BY <1>1, <1>2 DEF FieldNext, s, dims, classes
  <2>7. QED
    BY <1>1, <2>2, <2>4, <2>5, <2>6 DEF Follows, FollowMaps
<1>3. CASE f.type # "tensor"
  <2> DEFINE s == MatchCategory(f, g, dims, classes, ca, cb)
             c == Get(ca, f.class)
             d == Get(cb, g.class)
             r == MatchClass(c, d, dims)
  <2>1. f.type = "category" /\ kappa[f.class] = g.class /\ f.class \in Names(ca)
    BY <1>3 DEF Comparable, FieldEmbeds
  <2>2. s.ok /\ Obeys(mu, s.dims) /\ Obeys(kappa, s.classes)
    <3>1. CASE f.class \in DOMAIN classes
      <4>1. classes[f.class] = g.class
        BY <1>1, <2>1, <3>1 DEF Obeys
      <4>2. s = Fits(dims, classes)
        BY <3>1, <4>1 DEF MatchCategory
      <4>3. s.ok /\ s.dims = dims /\ s.classes = classes
        BY <4>2 DEF Fits
      <4>4. QED
        BY <1>1, <4>3
    <3>2. CASE f.class \notin DOMAIN classes
      <4>0. Stands(c.dim, d.dim, mu)
        <5>1. c \in ToSet(ca) /\ c.name = f.class
          BY <2>1, GetFrom
        <5> HIDE DEF c
        <5>2. QED
          BY <2>1, <5>1 DEF ClassesStand
      <4> HIDE DEF c, d
      <4>1. r.ok /\ Obeys(mu, r.dims)
        <5>1. CASE c.dim \notin DimNames
          BY <1>1, <4>0, <5>1 DEF MatchClass, Stands
        <5>2. CASE c.dim \in DimNames /\ c.dim \in DOMAIN dims
          BY <1>1, <4>0, <5>2 DEF MatchClass, Obeys, Stands
        <5>3. CASE c.dim \in DimNames /\ c.dim \notin DOMAIN dims
          <6>1. r.ok /\ r.dims = Bind(dims, c.dim, d.dim)
            BY <5>3 DEF MatchClass
          <6>2. mu[c.dim] = d.dim
            BY <4>0, <5>3 DEF Stands
          <6>3. Obeys(mu, Bind(dims, c.dim, d.dim))
            BY <1>1, <6>2 DEF Obeys, Bind
          <6>4. QED
            BY <6>1, <6>3
        <5>4. QED
          BY <5>1, <5>2, <5>3
      <4>2. s = Fits(r.dims, Bind(classes, f.class, g.class))
        BY <3>2, <4>1 DEF MatchCategory, c, d
      <4> HIDE DEF s, r
      <4>3. s.ok /\ s.dims = r.dims /\ s.classes = Bind(classes, f.class, g.class)
        BY <4>2 DEF Fits
      <4>4. Obeys(kappa, Bind(classes, f.class, g.class))
        BY <1>1, <2>1 DEF Obeys, Bind
      <4>5. QED
        BY <4>1, <4>3, <4>4
    <3>3. QED
      BY <3>1, <3>2
  <2> HIDE DEF s
  <2>3. MapsOK(s.dims, s.classes, D, V, ca, cb)
    <3>1. Grown(s, dims, classes, D, V, ca, cb)
      BY <1>1, <2>1, <2>2, CategorySound DEF s
    <3>2. QED
      BY <3>1 DEF Grown
  <2>4. FieldNext(f, g, u, ca, cb) = s
    BY <1>1, <1>3 DEF FieldNext, s, dims, classes
  <2>5. QED
    BY <2>2, <2>3, <2>4 DEF Follows, FollowMaps
<1>4. QED
  BY <1>2, <1>3

\* A node with a field of a type at most, and without wildcards.
IsSimple(n) ==
    /\ Len(OfType(n, "tensor")) <= 1 /\ Len(OfType(n, "category")) <= 1
    /\ \A i \in DOMAIN n.fields : IsPlain(n.fields[i].dim)

\* sigma maps the fields of n to fields of k that they embed in.
FieldsEmbed(n, k, sigma, mu, kappa) ==
    /\ OneToOne(sigma, DOMAIN n.fields, DOMAIN k.fields)
    /\ \A i \in DOMAIN n.fields : FieldEmbeds(n.fields[i], k.fields[sigma[i]], mu, kappa)

\* A bijection is a pairing.
LEMMA BijectionIsOneToOne ==
    ASSUME NEW P, NEW Q, NEW g, g \in Bijection(P, Q)
    PROVE  OneToOne(g, P, Q)
<1>1. g \in [P -> Q] /\ (\A i, j \in DOMAIN g : g[i] = g[j] => i = j) /\ \A q \in Q : \E i \in P : g[i] = q
  BY DEF Bijection, Injection, Surjection, IsInjective
<1>2. QED
  BY <1>1 DEF OneToOne

\* A length of one at most.
LEMMA NoneOrOne ==
    ASSUME NEW m \in Nat, m <= 1
    PROVE  m \in {0, 1}
OBVIOUS

\* What is paired with no or one place.
LEMMA OnlyPlace ==
    ASSUME NEW m \in {0, 1}, NEW P, NEW h, OneToOne(h, 1 .. m, P)
    PROVE  (m = 0 <=> P = {}) /\ (m = 1 => h[1] \in P /\ \A i \in P : i = h[1])
<1>1. (\A i \in 1 .. m : h[i] \in P) /\ \A q \in P : \E i \in 1 .. m : h[i] = q
  BY DEF OneToOne
<1>2. CASE m = 0
  BY <1>1, <1>2
<1>3. CASE m = 1
  <2>1. 1 \in 1 .. m /\ \A i \in 1 .. m : i = 1
    BY <1>3
  <2>2. QED
    BY <1>1, <1>3, <2>1
<1>4. QED
  BY <1>2, <1>3

\* The only fields of a type of two nodes embed one in the other.
LEMMA TypeEmbeds ==
    ASSUME NEW ca, NEW cb, NEW n, IsNode(n, ca), NEW k, IsNode(k, cb), NEW type,
           Len(OfType(n, type)) <= 1, Len(OfType(k, type)) <= 1,
           NEW mu, NEW kappa, NEW sigma, FieldsEmbed(n, k, sigma, mu, kappa)
    PROVE  /\ Len(OfType(n, type)) = Len(OfType(k, type))
           /\ Len(OfType(n, type)) = 1 => FieldEmbeds(OfType(n, type)[1], OfType(k, type)[1], mu, kappa)
<1> DEFINE P == FieldPlaces(n, type)
           Q == FieldPlaces(k, type)
           xs == OfType(n, type)
           ys == OfType(k, type)
<1>1. /\ \A i \in DOMAIN n.fields : sigma[i] \in DOMAIN k.fields
      /\ \A i, j \in DOMAIN n.fields : sigma[i] = sigma[j] => i = j
      /\ \A j \in DOMAIN k.fields : \E i \in DOMAIN n.fields : sigma[i] = j
      /\ \A i \in DOMAIN n.fields : FieldEmbeds(n.fields[i], k.fields[sigma[i]], mu, kappa)
      /\ \A i \in DOMAIN n.fields : n.fields[i].type = k.fields[sigma[i]].type
  BY DEF FieldsEmbed, OneToOne, FieldEmbeds
<1>2. /\ \A i \in P : sigma[i] \in Q /\ FieldEmbeds(n.fields[i], k.fields[sigma[i]], mu, kappa)
      /\ \A i, j \in P : sigma[i] = sigma[j] => i = j
      /\ \A j \in Q : \E i \in P : sigma[i] = j
  BY <1>1 DEF FieldPlaces
<1>3. /\ n.fields \in Seq(ToSet(n.fields)) /\ P \in SUBSET DOMAIN n.fields
      /\ k.fields \in Seq(ToSet(k.fields)) /\ Q \in SUBSET DOMAIN k.fields
  BY DEF IsNode, FieldPlaces
<1>4. xs = Picked(n.fields, P) /\ Len(xs) \in Nat /\ ys = Picked(k.fields, Q) /\ Len(ys) \in Nat
  BY OfTypeFields
<1> HIDE DEF P, Q, xs, ys
<1>5. PICK h : OneToOne(h, 1 .. Len(xs), P) /\ \A m \in 1 .. Len(xs) : xs[m] = n.fields[h[m]]
  BY <1>3, <1>4, PickedOneToOne
<1>6. PICK e : OneToOne(e, 1 .. Len(ys), Q) /\ \A m \in 1 .. Len(ys) : ys[m] = k.fields[e[m]]
  BY <1>3, <1>4, PickedOneToOne
<1>7. Len(xs) \in {0, 1} /\ Len(ys) \in {0, 1}
  <2>1. Len(xs) <= 1 /\ Len(ys) <= 1
    BY DEF xs, ys
  <2>2. QED
    BY <1>4, <2>1, NoneOrOne
<1>8. (Len(xs) = 0 <=> P = {}) /\ (Len(xs) = 1 => h[1] \in P /\ \A i \in P : i = h[1])
  BY <1>5, <1>7, OnlyPlace
<1>9. (Len(ys) = 0 <=> Q = {}) /\ (Len(ys) = 1 => e[1] \in Q /\ \A i \in Q : i = e[1])
  BY <1>6, <1>7, OnlyPlace
<1>10. Len(xs) = Len(ys)
  BY <1>2, <1>7, <1>8, <1>9
<1>11. ASSUME Len(xs) = 1 PROVE FieldEmbeds(xs[1], ys[1], mu, kappa)
  <2>1. xs[1] = n.fields[h[1]] /\ ys[1] = k.fields[e[1]]
    BY <1>5, <1>6, <1>10, <1>11
  <2>2. h[1] \in P /\ sigma[h[1]] = e[1]
    BY <1>2, <1>8, <1>9, <1>10, <1>11
  <2>3. QED
    BY <1>2, <2>1, <2>2
<1>12. QED
  BY <1>10, <1>11 DEF xs, ys

\* The first order of such fields is taken, and what is bound is what the names stand for.
LEMMA TypeFollows ==
    ASSUME NEW D, NEW V, NEW ca, NEW cb, \A c \in ToSet(cb) : c.dim \in V,
           \A c \in ToSet(ca) : c.dim \in D,
           NEW mu, NEW kappa, ClassesStand(ca, cb, mu, kappa),
           NEW n, IsNode(n, ca), DimsIn(n, D), HasParts(n), IsSimple(n),
           NEW k, IsNode(k, cb), DimsIn(k, V), HasParts(k), IsSimple(k),
           NEW sigma, FieldsEmbed(n, k, sigma, mu, kappa), NEW type \in {"tensor", "category"},
           NEW dims, NEW classes, FollowMaps(dims, classes, D, V, ca, cb, mu, kappa)
    PROVE  /\ Len(OfType(n, type)) = Len(OfType(k, type))
           /\ Follows(FieldOrder(OfType(n, type), OfType(k, type), dims, classes, ca, cb),
                      D, V, ca, cb, mu, kappa)
<1> DEFINE xs == OfType(n, type)
           ys == OfType(k, type)
           s == FieldsMatch(xs, ys, dims, classes, ca, cb)
           r == FieldOrder(xs, ys, dims, classes, ca, cb)
           u == Fits(dims, classes)
<1>1. Len(xs) <= 1 /\ Len(ys) <= 1
  BY DEF IsSimple
<1>2. Len(xs) = Len(ys) /\ (Len(xs) = 1 => FieldEmbeds(xs[1], ys[1], mu, kappa))
  BY <1>1, TypeEmbeds
<1>3. AllComparable(xs, ys, D, V, ca, cb)
  BY OfTypeComparable
<1>4. /\ xs \in Seq(ToSet(xs))
      /\ \A p \in DOMAIN xs : \E i \in FieldPlaces(n, type) : xs[p] = n.fields[i]
  BY OfTypeFields
<1>5. /\ ys \in Seq(ToSet(ys))
      /\ \A p \in DOMAIN ys : \E i \in FieldPlaces(k, type) : ys[p] = k.fields[i]
  BY OfTypeFields
<1>6. Follows(u, D, V, ca, cb, mu, kappa)
  BY DEF Follows, Fits
<1>7. s = IF Len(xs) = 0 THEN u ELSE FieldNext(xs[1], ys[1], u, ca, cb)
  <2>1. Len(xs) = 0 \/ Len(xs) = 1
    <3>1. Len(xs) \in Nat /\ Len(xs) <= 1
      BY <1>1, <1>4
    <3>2. QED
      BY <3>1, NoneOrOne
  <2>2. QED
    BY <2>1, FewFields
<1> HIDE DEF xs, ys, u, s
<1>8. Follows(s, D, V, ca, cb, mu, kappa)
  <2>1. CASE Len(xs) = 0
    BY <1>6, <1>7, <2>1
  <2>2. CASE Len(xs) # 0
    <3> DEFINE f == xs[1]
               g == ys[1]
    <3>1. Len(xs) = 1 /\ 1 \in DOMAIN xs /\ 1 \in DOMAIN ys
      BY <1>1, <1>2, <1>4, <1>5, <2>2
    <3>2. Comparable(f, g, D, V, ca, cb) /\ FieldEmbeds(f, g, mu, kappa)
      BY <1>2, <1>3, <3>1 DEF AllComparable
    <3>3. HasDims(f) /\ IsPlain(f.dim)
      <4>1. PICK i \in DOMAIN n.fields : f = n.fields[i]
        BY <1>4, <3>1 DEF FieldPlaces
      <4>2. QED
        BY <4>1 DEF HasParts, IsSimple
    <3>4. HasDims(g) /\ IsPlain(g.dim)
      <4>1. PICK i \in DOMAIN k.fields : g = k.fields[i]
        BY <1>5, <3>1 DEF FieldPlaces
      <4>2. QED
        BY <4>1 DEF HasParts, IsSimple
    <3>5. s = FieldNext(f, g, u, ca, cb)
      BY <1>7, <2>2
    <3> HIDE DEF f, g
    <3>6. QED
      BY <1>6, <3>2, <3>3, <3>4, <3>5, FieldFollows
  <2>3. QED
    BY <2>1, <2>2
<1>9. r.ok /\ r.dims = s.dims /\ r.classes = s.classes
  BY <1>5, <1>8, FirstFieldOrder DEF s, Follows
<1> HIDE DEF r
<1>10. Follows(r, D, V, ca, cb, mu, kappa)
  BY <1>8, <1>9 DEF Follows
<1>11. QED
  BY <1>2, <1>10 DEF r, xs, ys

\* A node that embeds fits, if names leads its links where pi leads them.
LEMMA NodeFollows ==
    ASSUME NEW D, NEW V, NEW ca, NEW cb, \A c \in ToSet(cb) : c.dim \in V,
           \A c \in ToSet(ca) : c.dim \in D,
           NEW mu, NEW kappa, ClassesStand(ca, cb, mu, kappa),
           NEW n, IsNode(n, ca), DimsIn(n, D), HasParts(n), IsSimple(n),
           NEW k, IsNode(k, cb), DimsIn(k, V), HasParts(k), IsSimple(k),
           NEW pi, NEW P, NEW Q, OneToOne(pi, P, Q), NodeEmbeds(n, k, mu, kappa, pi),
           NEW names, \A l \in ToSet(n.links) : l.name \in P /\ l.name \in DOMAIN names /\ names[l.name] = pi[l.name],
           NEW dims, NEW classes, FollowMaps(dims, classes, D, V, ca, cb, mu, kappa)
    PROVE  Follows(MatchNode(n, k, dims, classes, names, ca, cb), D, V, ca, cb, mu, kappa)
<1> DEFINE r == MatchNode(n, k, dims, classes, names, ca, cb)
           nt == OfType(n, "tensor")
           kt == OfType(k, "tensor")
           nc == OfType(n, "category")
           kc == OfType(k, "category")
           t == FieldOrder(nt, kt, dims, classes, ca, cb)
           c == FieldOrder(nc, kc, t.dims, t.classes, ca, cb)
           b == BuildNode(n, k, t.order, c.order)
           done == [ok |-> TRUE, dims |-> c.dims, classes |-> c.classes, node |-> b]
<1>1. r = IF CountsMatch(n, k) /\ LinksMatch(n, k, names)
          THEN IF ~t.ok THEN Fails ELSE IF ~c.ok THEN Fails ELSE done
          ELSE Fails
  BY DEF MatchNode
<1>2. PICK sigma : FieldsEmbed(n, k, sigma, mu, kappa)
  <2>1. PICK sigma \in Bijection(DOMAIN n.fields, DOMAIN k.fields) :
          \A i \in DOMAIN n.fields : FieldEmbeds(n.fields[i], k.fields[sigma[i]], mu, kappa)
    BY DEF NodeEmbeds
  <2>2. OneToOne(sigma, DOMAIN n.fields, DOMAIN k.fields)
    BY BijectionIsOneToOne
  <2>3. QED
    BY <2>1, <2>2 DEF FieldsEmbed
<1>3. Len(nt) = Len(kt) /\ Follows(t, D, V, ca, cb, mu, kappa)
  BY <1>2, TypeFollows
<1> HIDE DEF t
<1>4. FollowMaps(t.dims, t.classes, D, V, ca, cb, mu, kappa) /\ t.ok
  BY <1>3 DEF Follows
<1>5. Len(nc) = Len(kc) /\ Follows(c, D, V, ca, cb, mu, kappa)
  BY <1>2, <1>4, TypeFollows
<1>6. Len(n.links) = Len(k.links)
  <2> DEFINE A == Names(n.links)
             B == Names(k.links)
             h == [x \in A |-> pi[x]]
  <2>1. A = {l.name : l \in ToSet(n.links)}
    BY DEF Names, ToSet
  <2>2. B = {pi[l.name] : l \in ToSet(n.links)}
    BY DEF NodeEmbeds
  <2>3. A \subseteq P /\ \A x, y \in P : pi[x] = pi[y] => x = y
    BY <2>1 DEF OneToOne
  <2>4. IsFiniteSet(A) /\ Cardinality(A) = Len(n.links) /\ IsFiniteSet(B) /\ Cardinality(B) = Len(k.links)
    BY NamesCounted DEF IsNode, IsList
  <2> HIDE DEF A, B
  <2>5. OneToOne(h, A, B)
    BY <2>1, <2>2, <2>3 DEF OneToOne
  <2> HIDE DEF h
  <2>6. ExistsBijection(A, B)
    BY <2>5, OneToOneIsBijection DEF ExistsBijection
  <2>7. QED
    BY <2>4, <2>6, FS_Bijection
<1>7. CountsMatch(n, k)
  BY <1>3, <1>5, <1>6 DEF CountsMatch
<1>8. LinksMatch(n, k, names)
  <2>1. /\ Names(k.links) = {pi[l.name] : l \in ToSet(n.links)}
        /\ \A l \in ToSet(n.links) : MatchLink(l, Get(k.links, pi[l.name]))
    BY DEF NodeEmbeds
  <2>2. QED
    BY <2>1 DEF LinksMatch
<1> HIDE DEF c, b, done
<1>9. r = done
  BY <1>1, <1>4, <1>5, <1>7, <1>8 DEF Follows
<1>10. r.ok /\ r.dims = c.dims /\ r.classes = c.classes
  BY <1>9 DEF done
<1> HIDE DEF r
<1>11. Follows(r, D, V, ca, cb, mu, kappa)
  BY <1>5, <1>10 DEF Follows
<1>12. QED
  BY <1>11 DEF r

------------------------------------------------------------------------------
(* An order that follows an embedding is not refused.                      *)

\* n embeds in k, and names leads its links where pi leads them.
NodeLeads(n, k, names, mu, kappa, pi) ==
    /\ NodeEmbeds(n, k, mu, kappa, pi)
    /\ \A l \in ToSet(n.links) : l.name \in DOMAIN pi /\ l.name \in DOMAIN names /\ names[l.name] = pi[l.name]

\* Nodes that embed fit one after the other.
LEMMA NodesFollow ==
    ASSUME NEW D, NEW V, NEW ca, NEW cb, \A c \in ToSet(cb) : c.dim \in V,
           \A c \in ToSet(ca) : c.dim \in D,
           NEW mu, NEW kappa, ClassesStand(ca, cb, mu, kappa),
           NEW M \in Nat, NEW xs, NEW ys, NEW names, NEW pi, NEW P, NEW Q, OneToOne(pi, P, Q),
           \A i \in 1 .. M : /\ IsNode(xs[i], ca) /\ DimsIn(xs[i], D) /\ HasParts(xs[i]) /\ IsSimple(xs[i])
                             /\ IsNode(ys[i], cb) /\ DimsIn(ys[i], V) /\ HasParts(ys[i]) /\ IsSimple(ys[i])
                             /\ NodeLeads(xs[i], ys[i], names, mu, kappa, pi),
           NEW dims, NEW classes, FollowMaps(dims, classes, D, V, ca, cb, mu, kappa)
    PROVE  NodesMatch(M, xs, ys, dims, classes, names, ca, cb).ok
<1>0. PICK U : /\ NodesMatch(M, xs, ys, dims, classes, names, ca, cb) = U[M]
               /\ \A i \in 0 .. M : U[i] = NodeStep(xs, ys, NoNodes(dims, classes), names, ca, cb, U, i)
  BY NodesMatchSteps
<1> DEFINE Inv(i) == Follows(U[i], D, V, ca, cb, mu, kappa)
           T == {i \in Nat : i <= M => Inv(i)}
<1>2. 0 \in T
  <2>1. U[0] = NoNodes(dims, classes)
    BY <1>0 DEF NodeStep
  <2>2. U[0].ok /\ U[0].dims = dims /\ U[0].classes = classes
    BY <2>1 DEF NoNodes
  <2>3. QED
    BY <2>2 DEF Follows
<1>3. ASSUME NEW i \in Nat, i \in T PROVE i + 1 \in T
  <2>0. SUFFICES ASSUME i + 1 <= M PROVE Inv(i + 1)
    OBVIOUS
  <2>1. i + 1 \in 0 .. M /\ i + 1 # 0 /\ (i + 1) - 1 = i /\ i <= M /\ i + 1 \in 1 .. M
    BY <2>0
  <2> DEFINE u == U[i]
             v == U[i + 1]
             n == xs[i + 1]
             k == ys[i + 1]
             t == MatchNode(n, k, u.dims, u.classes, names, ca, cb)
             joined == [ok |-> TRUE, dims |-> t.dims, classes |-> t.classes, built |-> Append(u.built, t.node)]
  <2>2. v = IF ~u.ok THEN Fails ELSE IF ~t.ok THEN Fails ELSE joined
    BY <1>0, <2>1 DEF NodeStep, NodeNext
  <2>3. Follows(u, D, V, ca, cb, mu, kappa)
    BY <1>3, <2>1
  <2>4. /\ IsNode(n, ca) /\ DimsIn(n, D) /\ HasParts(n) /\ IsSimple(n)
        /\ IsNode(k, cb) /\ DimsIn(k, V) /\ HasParts(k) /\ IsSimple(k)
        /\ NodeLeads(n, k, names, mu, kappa, pi)
    BY <2>1
  <2> HIDE DEF u, v, n, k
  <2>5. u.ok /\ FollowMaps(u.dims, u.classes, D, V, ca, cb, mu, kappa)
    BY <2>3 DEF Follows
  <2>6. Follows(t, D, V, ca, cb, mu, kappa)
    <3>1. NodeEmbeds(n, k, mu, kappa, pi)
      BY <2>4 DEF NodeLeads
    <3>2. \A l \in ToSet(n.links) : l.name \in P /\ l.name \in DOMAIN names /\ names[l.name] = pi[l.name]
      BY <2>4 DEF NodeLeads, OneToOne
    <3>3. QED
      BY <2>4, <2>5, <3>1, <3>2, NodeFollows
  <2> HIDE DEF t, joined
  <2>7. v = joined
    BY <2>2, <2>5, <2>6 DEF Follows
  <2>8. v.ok /\ v.dims = t.dims /\ v.classes = t.classes
    BY <2>7 DEF joined
  <2>9. Follows(v, D, V, ca, cb, mu, kappa)
    BY <2>6, <2>8 DEF Follows
  <2>10. QED
    BY <2>9 DEF v
<1>4. Nat \subseteq T
  <2> HIDE DEF T
  <2>1. QED
    BY <1>2, <1>3, SetInduction
<1>5. Inv(M)
  <2> HIDE DEF Inv
  <2>1. QED
    BY <1>4
<1>6. QED
  BY <1>0, <1>5 DEF Follows

\* The nodes of a kind.
OfKind(s, kind) == IF kind THEN Singletons(s) ELSE Nonsingletons(s)

\* They are the nodes with that flag.
LEMMA OfKindParts ==
    ASSUME NEW s, IsSchema(s), NEW kind \in BOOLEAN
    PROVE  /\ KindOf(OfKind(s, kind), s, kind)
           /\ \A n \in ToSet(s.nodes) : n.singleton = kind => n \in ToSet(OfKind(s, kind))
<1>1. KindOf(Singletons(s), s, TRUE) /\ KindOf(Nonsingletons(s), s, FALSE)
  BY Kinds
<1>2. ASSUME NEW n \in ToSet(s.nodes), n.singleton = kind PROVE n \in ToSet(OfKind(s, kind))
  <2>1. n \in ToSet(Singletons(s)) \/ n \in ToSet(Nonsingletons(s))
    BY KindsCover
  <2>2. (\A x \in ToSet(Singletons(s)) : x.singleton = TRUE) /\ \A x \in ToSet(Nonsingletons(s)) : x.singleton = FALSE
    BY <1>1 DEF KindOf, ToSet
  <2>3. QED
    BY <1>2, <2>1, <2>2 DEF OfKind
<1>3. KindOf(OfKind(s, kind), s, kind)
  BY <1>1 DEF OfKind
<1>4. QED
  BY <1>2, <1>3

\* The nodes that those of A stand for under pi.
ImageOf(A, b, pi) == [i \in DOMAIN A |-> Get(b.nodes, pi[A[i].name])]

\* How the nodes of a embed in those of b.
NodesEmbed(a, b, mu, kappa, pi) ==
    /\ OneToOne(pi, Names(a.nodes), Names(b.nodes))
    /\ \A n \in ToSet(a.nodes) : NodeEmbeds(n, Get(b.nodes, pi[n.name]), mu, kappa, pi)

\* What a node stands for.
LEMMA NodeImage ==
    ASSUME NEW a, NEW b, NEW mu, NEW kappa, NEW pi, NodesEmbed(a, b, mu, kappa, pi), NEW n \in ToSet(a.nodes)
    PROVE  /\ n.name \in Names(a.nodes)
           /\ Get(b.nodes, pi[n.name]) \in ToSet(b.nodes) /\ Get(b.nodes, pi[n.name]).name = pi[n.name]
           /\ Get(b.nodes, pi[n.name]).singleton = n.singleton
           /\ NodeEmbeds(n, Get(b.nodes, pi[n.name]), mu, kappa, pi)
<1>1. n.name \in Names(a.nodes)
  BY DEF Names, ToSet
<1>2. pi[n.name] \in Names(b.nodes)
  BY <1>1 DEF NodesEmbed, OneToOne
<1>3. NodeEmbeds(n, Get(b.nodes, pi[n.name]), mu, kappa, pi)
  BY DEF NodesEmbed
<1>4. Get(b.nodes, pi[n.name]).singleton = n.singleton
  BY <1>3 DEF NodeEmbeds
<1>5. QED
  BY <1>1, <1>2, <1>3, <1>4, GetFrom

\* They are the nodes of that kind in some order.
LEMMA ImageIsOrder ==
    ASSUME NEW a, IsSchema(a), NEW b, IsSchema(b), NEW kind \in BOOLEAN,
           Len(OfKind(a, kind)) = Len(OfKind(b, kind)),
           NEW mu, NEW kappa, NEW pi, NodesEmbed(a, b, mu, kappa, pi)
    PROVE  IsOrder(ImageOf(OfKind(a, kind), b, pi), OfKind(b, kind))
<1> DEFINE A == OfKind(a, kind)
           B == OfKind(b, kind)
           N == Len(B)
           z == ImageOf(A, b, pi)
<1>1. /\ KindOf(A, a, kind) /\ KindOf(B, b, kind)
      /\ \A k \in ToSet(b.nodes) : k.singleton = kind => k \in ToSet(B)
  BY OfKindParts
<1>2. Len(A) = N /\ N \in Nat /\ DOMAIN A = 1 .. N /\ DOMAIN B = 1 .. N
  BY <1>1, ListOfElements DEF KindOf
<1> HIDE DEF A, B, N
<1>3. ASSUME NEW i \in 1 .. N PROVE z[i].name = pi[A[i].name] /\ \E j \in 1 .. N : z[i] = B[j]
  <2> DEFINE n == A[i]
             k == Get(b.nodes, pi[n.name])
  <2>1. n \in ToSet(a.nodes) /\ n.singleton = kind
    BY <1>1, <1>2 DEF KindOf
  <2>2. z[i] = k
    BY <1>2 DEF ImageOf
  <2> HIDE DEF n
  <2>3. k \in ToSet(b.nodes) /\ k.name = pi[n.name] /\ k.singleton = kind
    BY <2>1, NodeImage
  <2> HIDE DEF k, z
  <2>4. k \in ToSet(B)
    BY <1>1, <2>3
  <2>5. QED
    BY <1>2, <2>2, <2>3, <2>4 DEF ToSet, n
<1>4. z = [i \in 1 .. N |-> z[i]]
  BY <1>2 DEF ImageOf
<1> HIDE DEF z
<1> DEFINE rho == [i \in 1 .. N |-> CHOOSE j \in 1 .. N : z[i] = B[j]]
<1>5. \A i \in 1 .. N : rho[i] \in 1 .. N /\ z[i] = B[rho[i]]
  BY <1>3
<1>6. rho \in [1 .. N -> 1 .. N]
  BY <1>5
<1> HIDE DEF rho
<1>7. ASSUME NEW i \in 1 .. N, NEW j \in 1 .. N, rho[i] = rho[j] PROVE i = j
  <2>1. pi[A[i].name] = pi[A[j].name]
    <3>1. z[i] = z[j]
      BY <1>5, <1>7
    <3>2. z[i].name = pi[A[i].name] /\ z[j].name = pi[A[j].name]
      BY <1>3
    <3>3. QED
      BY <3>1, <3>2
  <2>2. A[i].name \in Names(a.nodes) /\ A[j].name \in Names(a.nodes)
    BY <1>1, <1>2 DEF KindOf, Names, ToSet
  <2>3. A[i].name = A[j].name
    BY <2>1, <2>2 DEF NodesEmbed, OneToOne
  <2>4. QED
    BY <1>1, <1>2, <2>3 DEF KindOf, DistinctNames
<1>8. \A j \in 1 .. N : \E i \in 1 .. N : rho[i] = j
  <2>1. rho \in Injection(1 .. N, 1 .. N)
    BY <1>6, <1>7 DEF Injection, IsInjective
  <2>2. IsFiniteSet(1 .. N)
    BY <1>2, FirstNumbers
  <2>3. rho \in Surjection(1 .. N, 1 .. N)
    BY <2>1, <2>2, FS_Injection
  <2>4. QED
    BY <2>3 DEF Surjection
<1>9. rho \in Arrangements(N)
  BY <1>6, <1>7, <1>8 DEF Arrangements
<1>10. z = [i \in 1 .. N |-> B[rho[i]]]
  BY <1>4, <1>5
<1>11. IsOrder(z, B)
  BY <1>9, <1>10 DEF IsOrder, N
<1>12. QED
  BY <1>11 DEF z, A, B

\* The links of a node lead to nodes that are not singletons.
LEMMA LinkLeads ==
    ASSUME NEW s, IsSchema(s), NEW n \in ToSet(s.nodes), NEW l \in ToSet(n.links)
    PROVE  l.name \in Names(Nonsingletons(s)) /\ l.name \in Names(s.nodes)
<1> DEFINE to == Get(s.nodes, l.name)
<1>1. l.name \in Names(s.nodes) /\ ~to.singleton
  BY DEF IsSchema, SchemaOK, LinksOK
<1>2. to \in ToSet(s.nodes) /\ to.name = l.name
  BY <1>1, GetFrom
<1> HIDE DEF to
<1>3. to \in ToSet(Singletons(s)) \/ to \in ToSet(Nonsingletons(s))
  BY <1>2, KindsCover
<1>4. \A i \in DOMAIN Singletons(s) : Singletons(s)[i].singleton = TRUE
  BY Kinds DEF KindOf
<1>5. to \in ToSet(Nonsingletons(s))
  BY <1>1, <1>3, <1>4 DEF ToSet
<1>6. QED
  BY <1>1, <1>2, <1>5 DEF ToSet, Names

\* The names that an order gives the nodes of a kind, if no names are known before.
NamesFor(a, kind, z) == IF kind THEN EmptyMap ELSE Assign(EmptyMap, NameMap(Nonsingletons(a), z))

\* The orders of the nodes of a kind of b that those of a do not fit.
Refused(a, b, kind) ==
    {z \in Seq(ToSet(OfKind(b, kind))) :
        ~NodesMatch(Len(OfKind(b, kind)), OfKind(a, kind), z, EmptyMap, EmptyMap, NamesFor(a, kind, z),
                    a.classes, b.classes).ok}

\* The nodes of the schema have their parts, and nothing in them has to be guessed.
IsSimpleSchema(s) == \A n \in ToSet(s.nodes) : HasParts(n) /\ IsSimple(n)

\* The names that the image of the nodes gives are those of pi.
LEMMA ImageNames ==
    ASSUME NEW a, IsSchema(a), NEW b, IsSchema(b), NEW kind \in BOOLEAN,
           Len(OfKind(a, kind)) = Len(OfKind(b, kind)),
           NEW mu, NEW kappa, NEW pi, NodesEmbed(a, b, mu, kappa, pi), NEW i \in DOMAIN OfKind(a, kind)
    PROVE  LET A == OfKind(a, kind)
               z == ImageOf(A, b, pi)
           IN  NodeLeads(A[i], z[i], NamesFor(a, kind, z), mu, kappa, pi) /\ z[i] \in ToSet(b.nodes)
<1> DEFINE A == OfKind(a, kind)
           B == OfKind(b, kind)
           z == ImageOf(A, b, pi)
           names == NamesFor(a, kind, z)
           n == A[i]
<1>1. KindOf(A, a, kind) /\ KindOf(B, b, kind) /\ IsOrder(z, B)
  BY OfKindParts, ImageIsOrder
<1>2. \A j \in DOMAIN A : A[j] \in ToSet(a.nodes) /\ z[j] = Get(b.nodes, pi[A[j].name])
  BY <1>1 DEF KindOf, ImageOf
<1>3. \A j \in DOMAIN A : z[j].name = pi[A[j].name]
  BY <1>2, NodeImage
<1>4. n \in ToSet(a.nodes) /\ NodeEmbeds(n, z[i], mu, kappa, pi) /\ z[i] \in ToSet(b.nodes)
  BY <1>2, NodeImage
<1>5. ASSUME NEW l \in ToSet(n.links)
      PROVE  l.name \in DOMAIN pi /\ l.name \in DOMAIN names /\ names[l.name] = pi[l.name]
  <2>1. l.name \in Names(Nonsingletons(a)) /\ l.name \in Names(a.nodes)
    BY <1>4, LinkLeads
  <2>2. kind = FALSE
    <3>1. SUFFICES ASSUME kind = TRUE PROVE FALSE
      OBVIOUS
    <3>2. NodeOK(n) /\ n.singleton = TRUE
      BY <1>1, <3>1 DEF KindOf
    <3>3. n.links = <<>>
      BY <3>2 DEF NodeOK
    <3>4. QED
      BY <3>3 DEF ToSet
  <2>3. A = Nonsingletons(a)
    BY <2>2 DEF OfKind
  <2> DEFINE map == NameMap(A, z)
  <2>4. OneToOne(map, Names(A), Names(B)) /\ \A j \in DOMAIN A : map[A[j].name] = z[j].name
    BY <1>1, NameMapOneToOne DEF KindOf
  <2>5. names = map
    <3>1. map = [x \in DOMAIN map |-> map[x]]
      BY NameMapIsMap
    <3>2. names = Assign(EmptyMap, map)
      BY <2>2, <2>3 DEF NamesFor
    <3> HIDE DEF map, names
    <3>3. QED
      BY <3>1, <3>2, AssignEmpty
  <2> HIDE DEF map, names, z
  <2>6. PICK j \in DOMAIN A : A[j].name = l.name
    BY <2>1, <2>3 DEF Names
  <2>7. DOMAIN map = Names(A) /\ DOMAIN pi = Names(a.nodes)
    BY <2>4 DEF OneToOne, NodesEmbed
  <2>8. QED
    BY <1>3, <2>1, <2>3, <2>4, <2>5, <2>6, <2>7
<1> HIDE DEF names
<1>6. NodeLeads(n, z[i], names, mu, kappa, pi)
  <2> HIDE DEF n, z
  <2>1. QED
    BY <1>4, <1>5 DEF NodeLeads
<1>7. QED
  BY <1>4, <1>6 DEF names

\* If one of two such schemas embeds in the other, some order of the nodes of a kind fits.
LEMMA SomeOrderFits ==
    ASSUME NEW a, IsSchema(a), IsSimpleSchema(a), NEW b, IsSchema(b), IsSimpleSchema(b), Embeds(a, b),
           NEW kind \in BOOLEAN, Len(OfKind(a, kind)) = Len(OfKind(b, kind))
    PROVE  \E z : IsOrder(z, OfKind(b, kind)) /\ z \notin Refused(a, b, kind)
<1> DEFINE A == OfKind(a, kind)
           B == OfKind(b, kind)
           N == Len(B)
           ca == a.classes
           cb == b.classes
           D == Occurring(a)
           V == Meanings(b)
<1>1. PICK mu \in [DimNames -> Dims(b) \cup {Null}], kappa \in [Names(a.classes) -> Names(b.classes)],
           pi \in Bijection(Names(a.nodes), Names(b.nodes)) :
        /\ \A c \in ToSet(a.classes) : Stands(c.dim, Get(b.classes, kappa[c.name]).dim, mu)
        /\ \A x \in ToSet(a.nodes) : NodeEmbeds(x, Get(b.nodes, pi[x.name]), mu, kappa, pi)
  BY DEF Embeds
<1>2. NodesEmbed(a, b, mu, kappa, pi)
  BY <1>1, BijectionIsOneToOne DEF NodesEmbed
<1>3. ClassesStand(ca, cb, mu, kappa)
  BY <1>1 DEF ClassesStand
<1> DEFINE z == ImageOf(A, b, pi)
           names == NamesFor(a, kind, z)
<1>4. IsOrder(z, B)
  BY <1>2, ImageIsOrder
<1>5. KindOf(A, a, kind) /\ KindOf(B, b, kind)
  BY OfKindParts
<1>6. N \in Nat /\ DOMAIN A = 1 .. N
  BY <1>5, ListOfElements DEF KindOf
<1>7. (\A c \in ToSet(cb) : c.dim \in V) /\ \A c \in ToSet(ca) : c.dim \in D
  BY ClassDimsIn, ClassDimsOccur
<1>8. ASSUME NEW i \in 1 .. N
      PROVE  /\ IsNode(A[i], ca) /\ DimsIn(A[i], D) /\ HasParts(A[i]) /\ IsSimple(A[i])
             /\ IsNode(z[i], cb) /\ DimsIn(z[i], V) /\ HasParts(z[i]) /\ IsSimple(z[i])
             /\ NodeLeads(A[i], z[i], names, mu, kappa, pi)
  <2> DEFINE n == A[i]
             k == z[i]
  <2>1. IsNode(n, ca) /\ n \in ToSet(a.nodes)
    BY <1>5, <1>6 DEF KindOf
  <2>2. NodeLeads(n, k, names, mu, kappa, pi) /\ k \in ToSet(b.nodes)
    BY <1>2, <1>6, ImageNames
  <2> HIDE DEF n, k, names
  <2>3. IsNode(k, cb)
    BY <2>2 DEF IsSchema, ToSet
  <2>4. DimsIn(n, D) /\ DimsIn(k, V)
    BY <2>1, <2>2, TensorDimsIn, TensorDimsOccur
  <2>5. HasParts(n) /\ IsSimple(n) /\ HasParts(k) /\ IsSimple(k)
    BY <2>1, <2>2 DEF IsSimpleSchema
  <2>6. QED
    BY <2>1, <2>2, <2>3, <2>4, <2>5 DEF n, k
<1>9. FollowMaps(EmptyMap, EmptyMap, D, V, ca, cb, mu, kappa)
  <2>1. MapsOK(EmptyMap, EmptyMap, D, V, ca, cb)
    BY EmptyMapsOK
  <2>2. DOMAIN EmptyMap = {}
    BY DEF EmptyMap
  <2>3. QED
    BY <2>1, <2>2 DEF FollowMaps, Obeys
<1>10. OneToOne(pi, Names(a.nodes), Names(b.nodes))
  BY <1>2 DEF NodesEmbed
<1> HIDE DEF A, B, N, ca, cb, D, V, z, names
<1>11. NodesMatch(N, A, z, EmptyMap, EmptyMap, names, ca, cb).ok
  BY <1>3, <1>6, <1>7, <1>8, <1>9, <1>10, NodesFollow
<1>12. z \notin Refused(a, b, kind)
  BY <1>11 DEF Refused, N, A, B, ca, cb, names
<1>13. QED
  BY <1>4, <1>12 DEF B

------------------------------------------------------------------------------
(* No match is returned only after every order was refused.                *)

\* The next order of nodes with different names is tried, too.
LEMMA NextTried ==
    ASSUME NEW B, IsList(B), DistinctNames(B), NEW it, IsIterator(it, B), HasNext(it),
           NEW P, Tried(it, B, P), NextOrder(it).x \in P
    PROVE  Tried(NextOrder(it), B, P)
<1>1. B \in Seq(ToSet(B)) /\ IsInjective(B)
  BY DEF IsList, IsInjective, DistinctNames
<1>2. CASE it.iterations = 0
  <2>1. it.x = B
    BY <1>2 DEF Tried
  <2>2. QED
    BY <1>1, <1>2, <2>1, FirstTried
<1>3. CASE it.iterations # 0
  BY <1>1, <1>3, LaterTried
<1>4. QED
  BY <1>2, <1>3

\* The orders are not refused all, if one of two schemas embeds in the other.
LEMMA NotAllRefused ==
    ASSUME NEW a, IsSchema(a), IsSimpleSchema(a), NEW b, IsSchema(b), IsSimpleSchema(b), Embeds(a, b),
           NEW kind \in BOOLEAN, Len(OfKind(a, kind)) = Len(OfKind(b, kind)), OfKind(b, kind) # <<>>,
           NEW it, IsIterator(it, OfKind(b, kind)), Tried(it, OfKind(b, kind), Refused(a, b, kind))
    PROVE  HasNext(it)
<1> DEFINE B == OfKind(b, kind)
           P == Refused(a, b, kind)
<1>1. B \in Seq(ToSet(B))
  BY OfKindParts DEF KindOf, IsList
<1>2. PICK z : IsOrder(z, B) /\ z \notin P
  BY SomeOrderFits
<1>3. B # <<>> /\ IsIterator(it, B) /\ Tried(it, B, P)
  OBVIOUS
<1> HIDE DEF B, P
<1>4. QED
  BY <1>1, <1>2, <1>3, AllTried

\* The call is one in which a match exists and nothing has to be guessed.
Findable == SameCounts /\ Determined /\ ConstraintsFit /\ Embeds(self, source)

\* In such a call the lists of nodes have equal lengths, and one of them is empty.
LEMMA FindableParts ==
    ASSUME Findable, IsSchema(self), IsSchema(source),
           \A n \in ToSet(self.nodes) \cup ToSet(source.nodes) : HasParts(n)
    PROVE  /\ IsSimpleSchema(self) /\ IsSimpleSchema(source) /\ Embeds(self, source)
           /\ \A kind \in BOOLEAN : Len(OfKind(self, kind)) = Len(OfKind(source, kind))
           /\ Singletons(source) = <<>> \/ Nonsingletons(source) = <<>>
<1>1. Embeds(self, source) /\ SameCounts /\ Determined
  BY DEF Findable
<1>2. \A n \in ToSet(self.nodes) \cup ToSet(source.nodes) : IsSimple(n)
  <2>1. ASSUME NEW n \in ToSet(self.nodes) \cup ToSet(source.nodes), NEW i \in DOMAIN n.fields
        PROVE  IsPlain(n.fields[i].dim)
    <3>1. n.fields[i] \in ToSet(n.fields)
      BY DEF ToSet
    <3>2. QED
      BY <1>1, <3>1 DEF Determined, IsPlain
  <2>2. QED
    BY <1>1, <2>1 DEF Determined, IsSimple
<1>3. \A kind \in BOOLEAN : Len(OfKind(self, kind)) = Len(OfKind(source, kind))
  BY <1>1 DEF SameCounts, OfKind
<1>4. Singletons(source) = <<>> \/ Nonsingletons(source) = <<>>
  <2>1. Len(Singletons(source)) = 0 \/ Len(Nonsingletons(source)) = 0
    BY <1>1 DEF SameCounts, Determined
  <2>2. IsList(Singletons(source)) /\ IsList(Nonsingletons(source))
    BY KindLengths
  <2>3. QED
    BY <2>1, <2>2, EmptyListIs
<1>5. QED
  BY <1>1, <1>2, <1>3, <1>4 DEF IsSimpleSchema

\* The inductive invariant of such a call: the orders that were given so far are refused,
\* and all others are to come.
FoundInv ==
    /\ MatchInv
    /\ pc \in {"constraints", "singletons", "nonsingletons", "found"} =>
        \A n \in ToSet(self.nodes) \cup ToSet(source.nodes) : HasParts(n)
    /\ Findable =>
        /\ pc = "singletons" => Tried(orders, Singletons(source), Refused(self, source, TRUE))
        /\ pc = "nonsingletons" /\ Singletons(source) = <<>> =>
            /\ dimMap = EmptyMap /\ classMap = EmptyMap /\ nodeMap = EmptyMap
            /\ Tried(orders, Nonsingletons(source), Refused(self, source, FALSE))
        /\ pc = "done" => outcome # "nomatch"

\* A new iterator has all orders to come.
LEMMA FreshTried ==
    ASSUME NEW B, NEW P
    PROVE  Tried(Permutation(B), B, P)
BY DEF Tried, Permutation

\* An order of the nodes of a kind that was given and does not fit is refused.
LEMMA OrderRefused ==
    ASSUME NEW a, NEW b, IsSchema(b), NEW kind \in BOOLEAN, Len(OfKind(a, kind)) = Len(OfKind(b, kind)),
           NEW it, IsIterator(it, OfKind(b, kind)), HasNext(it), Tried(it, OfKind(b, kind), Refused(a, b, kind)),
           NEW there, there = Min({Len(OfKind(b, kind)), Len(OfKind(b, kind)), Len(NextOrder(it).x)}),
           NEW names, names = NamesFor(a, kind, NextOrder(it).x),
           ~NodesMatch(there, OfKind(a, kind), NextOrder(it).x, EmptyMap, EmptyMap, names, a.classes, b.classes).ok
    PROVE  Tried(NextOrder(it), OfKind(b, kind), Refused(a, b, kind))
<1> DEFINE B == OfKind(b, kind)
           z == NextOrder(it).x
<1>1. IsList(B) /\ DistinctNames(B)
  BY OfKindParts DEF KindOf
<1>2. IsOrder(z, B) /\ Len(z) = Len(B) /\ Len(B) \in Nat
  <2> DEFINE next == NextOrder(it)
  <2>1. IsIterator(next, B)
    BY <1>1, IteratorParts
  <2> HIDE DEF next, B
  <2>2. IsOrder(next.x, B) /\ Len(next.x) = Len(B)
    BY <1>1, <2>1, IteratorParts
  <2>3. QED
    BY <1>1, <2>2, ListOfElements DEF next
<1>3. there = Len(B)
  <2>1. there = Min({Len(B), Len(B), Len(B)})
    BY <1>2
  <2> HIDE DEF B
  <2>2. QED
    BY <1>2, <2>1, AllPairs
<1>4. z \in Seq(ToSet(B))
  <2> HIDE DEF z, B
  <2>1. QED
    BY <1>1, <1>2, OrderParts DEF IsList
<1>5. z \in Refused(a, b, kind)
  BY <1>3, <1>4 DEF Refused
<1> HIDE DEF B
<1>6. IsIterator(it, B) /\ Tried(it, B, Refused(a, b, kind))
  BY DEF B
<1>7. Tried(NextOrder(it), B, Refused(a, b, kind))
  BY <1>1, <1>5, <1>6, NextTried
<1>8. QED
  BY <1>7 DEF B

\* The loop over the singletons,
LEMMA FoundSingletons ==
    ASSUME FoundInv, SingletonOrder, Findable
    PROVE  \/ pc' = "done" /\ outcome' = "crash"
           \/ pc' = "nonsingletons" /\ Singletons(source) # <<>>
           \/ pc' = "singletons" /\ Tried(orders', Singletons(source), Refused(self, source, TRUE))
<1> DEFINE it == NextOrder(orders)
           A == Singletons(self)
           B == Singletons(source)
           there == Min({Len(B), Len(A), Len(it.x)})
           r == NodesMatch(there, A, it.x, dimMap, classMap, nodeMap, self.classes, source.classes)
<1>1. pc = "singletons" /\ HasNext(orders) /\ Judge(it, r, A, there, Len(B))
  BY DEF SingletonOrder, TryOrder
<1>2. /\ IsSchema(self) /\ IsSchema(source) /\ dimMap = EmptyMap /\ classMap = EmptyMap /\ nodeMap = EmptyMap
      /\ IsIterator(orders, B) /\ Tried(orders, B, Refused(self, source, TRUE))
      /\ \A n \in ToSet(self.nodes) \cup ToSet(source.nodes) : HasParts(n)
  BY <1>1 DEF FoundInv, MatchInv
<1>3. OfKind(self, TRUE) = A /\ OfKind(source, TRUE) = B /\ Len(A) = Len(B) /\ NamesFor(self, TRUE, it.x) = EmptyMap
  BY DEF OfKind, NamesFor, Findable, SameCounts
<1>4. ~r.ok => Tried(it, B, Refused(self, source, TRUE))
  <2>1. there = Min({Len(B), Len(B), Len(it.x)})
    BY <1>3
  <2>2. r = NodesMatch(there, A, it.x, EmptyMap, EmptyMap, EmptyMap, self.classes, source.classes)
    BY <1>2
  <2>3. TRUE \in BOOLEAN
    OBVIOUS
  <2> HIDE DEF A, B, there, r
  <2>4. QED
    BY <1>1, <1>2, <1>3, <2>1, <2>2, <2>3, OrderRefused
<1>5. B # <<>> /\ Len(B) > 0
  <2>1. IsList(B) /\ Len(B) \in Nat
    BY <1>2, KindLengths
  <2>2. Len(B) = 0 => Factorial(Len(B)) = 0
    BY DEF Factorial
  <2>3. Len(B) # 0
    BY <1>1, <1>2, <2>2 DEF IsIterator, HasNext
  <2>4. QED
    BY <2>1, <2>3, EmptyListIs
<1> HIDE DEF it, A, there, r, B
<1>6. CASE r.ok
  BY <1>1, <1>5, <1>6 DEF Judge, Finish, B
<1>7. CASE ~r.ok
  <2>1. pc' = pc /\ orders' = it
    BY <1>1, <1>7 DEF Judge
  <2>2. QED
    BY <1>1, <1>4, <1>7, <2>1 DEF B
<1>8. QED
  BY <1>6, <1>7

\* and the loop over the other nodes.
LEMMA FoundNonsingletons ==
    ASSUME FoundInv, NonsingletonOrder, Findable, Singletons(source) = <<>>
    PROVE  \/ pc' = "done" /\ outcome' = "crash"
           \/ pc' = "found"
           \/ /\ pc' = "nonsingletons" /\ dimMap' = EmptyMap /\ classMap' = EmptyMap /\ nodeMap' = EmptyMap
              /\ Tried(orders', Nonsingletons(source), Refused(self, source, FALSE))
<1> DEFINE it == NextOrder(orders)
           A == Nonsingletons(self)
           B == Nonsingletons(source)
           names == Assign(nodeMap, NameMap(A, it.x))
           there == Min({Len(A), Len(A), Len(it.x)})
           r == NodesMatch(there, A, it.x, dimMap, classMap, names, self.classes, source.classes)
<1>1. pc = "nonsingletons" /\ HasNext(orders) /\ Judge(it, r, A, there, Len(A))
  BY DEF NonsingletonOrder, TryOrder
<1>2. /\ IsSchema(self) /\ IsSchema(source) /\ dimMap = EmptyMap /\ classMap = EmptyMap /\ nodeMap = EmptyMap
      /\ IsIterator(orders, B) /\ Tried(orders, B, Refused(self, source, FALSE))
      /\ \A n \in ToSet(self.nodes) \cup ToSet(source.nodes) : HasParts(n)
  BY <1>1 DEF FoundInv, MatchInv
<1>3. OfKind(self, FALSE) = A /\ OfKind(source, FALSE) = B /\ Len(A) = Len(B) /\ NamesFor(self, FALSE, it.x) = names
  BY <1>2 DEF OfKind, NamesFor, Findable, SameCounts
<1>4. ~r.ok => Tried(it, B, Refused(self, source, FALSE))
  <2>1. there = Min({Len(B), Len(B), Len(it.x)})
    BY <1>3
  <2>2. r = NodesMatch(there, A, it.x, EmptyMap, EmptyMap, names, self.classes, source.classes)
    BY <1>2
  <2>3. FALSE \in BOOLEAN
    OBVIOUS
  <2> HIDE DEF A, B, there, r, names
  <2>4. QED
    BY <1>1, <1>2, <1>3, <2>1, <2>2, <2>3, OrderRefused
<1>5. Len(A) > 0
  <2>1. IsList(B) /\ Len(B) \in Nat
    BY <1>2, KindLengths
  <2>2. Len(B) = 0 => Factorial(Len(B)) = 0
    BY DEF Factorial
  <2>3. Len(B) # 0
    BY <1>1, <1>2, <2>2 DEF IsIterator, HasNext
  <2> HIDE DEF A, B
  <2>4. QED
    BY <1>3, <2>1, <2>3
<1> HIDE DEF it, A, there, r, B, names
<1>6. CASE r.ok
  BY <1>1, <1>5, <1>6 DEF Judge, Finish
<1>7. CASE ~r.ok
  <2>1. pc' = pc /\ orders' = it /\ UNCHANGED maps
    BY <1>1, <1>7 DEF Judge
  <2>2. QED
    BY <1>1, <1>2, <1>4, <1>7, <2>1 DEF B, maps
<1>8. QED
  BY <1>6, <1>7

\* A loop without an order had nothing to order.
LEMMA FoundNoOrder ==
    ASSUME FoundInv, NoOrderLeft, Findable
    PROVE  \/ pc = "nonsingletons" /\ pc' = "found"
           \/ /\ pc = "singletons" /\ pc' = "nonsingletons" /\ orders' = Permutation(Nonsingletons(source))
              /\ dimMap' = EmptyMap /\ classMap' = EmptyMap /\ nodeMap' = EmptyMap
<1>1. pc \in {"singletons", "nonsingletons"} /\ ~HasNext(orders)
  BY DEF NoOrderLeft
<1>2. /\ IsSchema(self) /\ IsSchema(source)
      /\ \A n \in ToSet(self.nodes) \cup ToSet(source.nodes) : HasParts(n)
      /\ pc = "singletons" => /\ dimMap = EmptyMap /\ classMap = EmptyMap /\ nodeMap = EmptyMap
                              /\ IsIterator(orders, Singletons(source))
                              /\ Tried(orders, Singletons(source), Refused(self, source, TRUE))
      /\ pc = "nonsingletons" => IsIterator(orders, Nonsingletons(source))
      /\ pc = "nonsingletons" /\ Singletons(source) = <<>> =>
            Tried(orders, Nonsingletons(source), Refused(self, source, FALSE))
  BY <1>1 DEF FoundInv, MatchInv
<1>3. /\ IsSimpleSchema(self) /\ IsSimpleSchema(source) /\ Embeds(self, source)
      /\ \A kind \in BOOLEAN : Len(OfKind(self, kind)) = Len(OfKind(source, kind))
      /\ Singletons(source) = <<>> \/ Nonsingletons(source) = <<>>
  BY <1>2, FindableParts
<1>4. OfKind(source, TRUE) = Singletons(source) /\ OfKind(source, FALSE) = Nonsingletons(source)
  BY DEF OfKind
<1>5. ASSUME NEW kind \in BOOLEAN, IsIterator(orders, OfKind(source, kind)),
             OfKind(source, kind) # <<>> => Tried(orders, OfKind(source, kind), Refused(self, source, kind))
      PROVE  orders.x = <<>>
  <2>1. OfKind(source, kind) = <<>>
    BY <1>1, <1>2, <1>3, <1>5, NotAllRefused
  <2>2. IsList(OfKind(source, kind))
    BY <1>2, OfKindParts DEF KindOf
  <2> DEFINE B == OfKind(source, kind)
  <2>3. B = <<>> /\ IsList(B) /\ IsIterator(orders, B)
    BY <1>5, <2>1, <2>2
  <2> HIDE DEF B
  <2>4. IsOrder(orders.x, B) /\ Len(orders.x) = 0
    BY <2>3, IteratorParts
  <2>5. orders.x \in Seq(ToSet(B))
    BY <2>3, <2>4, OrderParts DEF IsList
  <2>6. QED
    BY <2>4, <2>5
<1>6. orders.x = <<>>
  <2>1. CASE pc = "singletons"
    <3>1. TRUE \in BOOLEAN
      OBVIOUS
    <3>2. QED
      BY <1>2, <1>4, <1>5, <2>1, <3>1
  <2>2. CASE pc = "nonsingletons"
    <3>1. FALSE \in BOOLEAN
      OBVIOUS
    <3>2. QED
      BY <1>2, <1>3, <1>4, <1>5, <2>2, <3>1
  <2>3. QED
    BY <1>1, <2>1, <2>2
<1>7. /\ pc' = (IF pc = "singletons" THEN "nonsingletons" ELSE "found")
      /\ orders' = Permutation(Nonsingletons(source)) /\ UNCHANGED maps
  BY <1>6 DEF NoOrderLeft
<1>8. dimMap' = dimMap /\ classMap' = classMap /\ nodeMap' = nodeMap
  BY <1>7 DEF maps
<1>9. QED
  BY <1>1, <1>2, <1>7, <1>8

\* The invariant is inductive.
LEMMA NextFoundInv == FoundInv /\ [MatchNext]_matchVars => FoundInv'
<1> SUFFICES ASSUME FoundInv, [MatchNext]_matchVars PROVE FoundInv'
  OBVIOUS
<1>1. MatchInv /\ MatchInv'
  BY NextMatchInv DEF FoundInv
<1>2. CASE LoadBoth
  <2>1. /\ self' = Load(call[1]) /\ source' = Load(call[2])
        /\ IF Malformed \in {self', source'} THEN pc' = "done" /\ outcome' = "exception"
                                             ELSE pc' = "constraints"
    BY <1>2 DEF LoadBoth
  <2>2. InputOK(call[1]) /\ InputOK(call[2])
    BY <1>1, CallsAssumption DEF MatchInv
  <2>3. CASE Malformed \in {self', source'}
    BY <1>1, <2>1, <2>3 DEF FoundInv
  <2>4. CASE Malformed \notin {self', source'}
    <3>1. pc' = "constraints"
      BY <2>1, <2>4
    <3>2. /\ \A n \in ToSet(self'.nodes) : HasParts(n)
          /\ \A n \in ToSet(source'.nodes) : HasParts(n)
      BY <2>1, <2>2, <2>4, LoadedHasParts
    <3>3. QED
      BY <1>1, <3>1, <3>2 DEF FoundInv
  <2>5. QED
    BY <2>3, <2>4
<1>3. CASE MatchNext /\ ~LoadBoth
  <2>1. pc \in {"constraints", "singletons", "nonsingletons", "found"} /\ self' = self /\ source' = source
    BY <1>3 DEF MatchNext, Constraints, SingletonOrder, NonsingletonOrder, NoOrderLeft, Build,
                TryOrder, Judge, Finish
  <2>2. Findable' <=> Findable
    BY <2>1 DEF Findable, SameCounts, Determined, ConstraintsFit
  <2>3. \A n \in ToSet(self'.nodes) \cup ToSet(source'.nodes) : HasParts(n)
    BY <2>1 DEF FoundInv
  <2>4. SUFFICES ASSUME Findable
                 PROVE  /\ pc' = "singletons" => Tried(orders', Singletons(source), Refused(self, source, TRUE))
                        /\ pc' = "nonsingletons" /\ Singletons(source) = <<>> =>
                            /\ dimMap' = EmptyMap /\ classMap' = EmptyMap /\ nodeMap' = EmptyMap
                            /\ Tried(orders', Nonsingletons(source), Refused(self, source, FALSE))
                        /\ pc' = "done" => outcome' # "nomatch"
    BY <1>1, <2>1, <2>2, <2>3 DEF FoundInv
  <2>5. CASE Constraints
    <3>1. ConstraintsFit
      BY <2>4 DEF Findable
    <3>2. pc' = "singletons" /\ orders' = Permutation(Singletons(source))
      BY <2>5, <3>1 DEF Constraints
    <3>3. QED
      BY <3>2, FreshTried
  <2>6. CASE SingletonOrder
    BY <2>4, <2>6, FoundSingletons
  <2>7. CASE NonsingletonOrder
    <3>1. CASE Singletons(source) = <<>>
      BY <2>4, <2>7, <3>1, FoundNonsingletons
    <3>2. CASE Singletons(source) # <<>>
      <4>1. pc = "nonsingletons" /\ (pc' = "done" => outcome' = "crash") /\ pc' # "singletons"
        BY <2>7 DEF NonsingletonOrder, TryOrder, Judge, Finish
      <4>2. QED
        BY <3>2, <4>1
    <3>3. QED
      BY <3>1, <3>2
  <2>8. CASE NoOrderLeft
    BY <2>4, <2>8, FoundNoOrder, FreshTried
  <2>9. CASE Build
    BY <2>9 DEF Build, Finish
  <2>10. QED
    BY <1>3, <2>5, <2>6, <2>7, <2>8, <2>9 DEF MatchNext
<1>4. CASE UNCHANGED matchVars
  <2>1. /\ pc' = pc /\ self' = self /\ source' = source /\ orders' = orders /\ outcome' = outcome
        /\ dimMap' = dimMap /\ classMap' = classMap /\ nodeMap' = nodeMap
    BY <1>4 DEF matchVars, maps
  <2>2. Findable' <=> Findable
    BY <2>1 DEF Findable, SameCounts, Determined, ConstraintsFit
  <2>3. QED
    BY <1>1, <2>1, <2>2 DEF FoundInv
<1>5. QED
  BY <1>2, <1>3, <1>4

\* A match that exists is found, if nothing has to be guessed: Heap's algorithm gives every
\* order of the nodes, an order is refused only if it does not fit, and the first
\* comparison of the nodes in the order of an embedding succeeds.
THEOREM DeterminedMatchesAreFound == MatchSpec => []DeterminedMatchIsFound
<1>1. MatchInit => FoundInv
  <2>1. MatchInit => pc = "idle"
    BY DEF MatchInit
  <2>2. QED
    BY <2>1, InitMatchInv DEF FoundInv
<1>2. FoundInv /\ [MatchNext]_matchVars => FoundInv'
  BY NextFoundInv
<1>3. FoundInv => DeterminedMatchIsFound
  <2>1. SUFFICES ASSUME FoundInv, Returned, SameCounts, Determined, ConstraintsFit, Embeds(self, source)
                 PROVE  outcome = "match"
    BY DEF DeterminedMatchIsFound
  <2>2. pc = "done" /\ MatchIsSound
    BY <2>1 DEF FoundInv, MatchInv, Returned
  <2>3. outcome \in {"match", "nomatch"}
    BY <2>1, <2>2 DEF MatchIsSound
  <2>4. outcome # "nomatch"
    BY <2>1, <2>2 DEF FoundInv, Findable
  <2>5. QED
    BY <2>3, <2>4
<1>4. QED
  BY <1>1, <1>2, <1>3, PTL DEF MatchSpec

==============================================================================
