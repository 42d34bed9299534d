--------------------------- MODULE SequenceLemmas ---------------------------
(***************************************************************************)
(* What is left of a sequence of calls in flight, as the models of the web *)
(* interface keep them, when one of the calls ends; induction over numbers *)
(* and what is taken from a sequence, for the schema library.              *)
(***************************************************************************)
EXTENDS NamedSequences, SequenceTheorems, WellFoundedInduction, TLAPS

LEMMA ConcatParts ==
    ASSUME NEW S, NEW a \in Seq(S), NEW b \in Seq(S)
    PROVE  /\ a \o b \in Seq(S)
           /\ DOMAIN (a \o b) = 1 .. Len(a) + Len(b)
           /\ \A k \in 1 .. Len(a) + Len(b) :
                 (a \o b)[k] = IF k <= Len(a) THEN a[k] ELSE b[k - Len(a)]
<1>1. /\ a \o b \in Seq(S) /\ Len(a \o b) = Len(a) + Len(b)
      /\ \A k \in 1 .. Len(a) + Len(b) :
            (a \o b)[k] = IF k <= Len(a) THEN a[k] ELSE b[k - Len(a)]
  BY ConcatProperties
<1>2. QED
  BY <1>1

\* The place that the element at k had before the one at i was removed.
Former(k, i) == IF k < i THEN k ELSE k + 1

\* Every element that is left was at a place of its own, other than that of the element
\* that was removed.
LEMMA RemovedAt ==
    ASSUME NEW S, NEW s \in Seq(S), NEW i \in DOMAIN s
    PROVE  /\ RemoveAt(s, i) \in Seq(S)
           /\ DOMAIN RemoveAt(s, i) = 1 .. Len(s) - 1
           /\ \A k \in DOMAIN RemoveAt(s, i) :
                 /\ Former(k, i) \in DOMAIN s /\ Former(k, i) # i
                 /\ RemoveAt(s, i)[k] = s[Former(k, i)]
<1>1. i \in 1 .. Len(s) /\ DOMAIN s = 1 .. Len(s) /\ Len(s) \in Nat
  OBVIOUS
<1> DEFINE before == SubSeq(s, 1, i - 1)
           after == SubSeq(s, i + 1, Len(s))
<1>2. /\ before \in Seq(S) /\ Len(before) = i - 1
      /\ \A k \in 1 .. i - 1 : before[k] = s[k]
  BY <1>1
<1>3. /\ after \in Seq(S) /\ Len(after) = Len(s) - i
      /\ \A k \in 1 .. Len(s) - i : after[k] = s[i + k]
  BY <1>1
<1>4. RemoveAt(s, i) = before \o after
  BY DEF RemoveAt
<1> HIDE DEF before, after
<1>5. /\ before \o after \in Seq(S)
      /\ DOMAIN (before \o after) = 1 .. Len(before) + Len(after)
      /\ \A k \in 1 .. Len(before) + Len(after) :
            (before \o after)[k] =
               IF k <= Len(before) THEN before[k] ELSE after[k - Len(before)]
  BY <1>2, <1>3, ConcatParts
<1>6. /\ Len(before) + Len(after) = Len(s) - 1
      /\ DOMAIN (before \o after) = 1 .. Len(s) - 1
  BY <1>1, <1>2, <1>3, <1>5
<1>7. ASSUME NEW k \in 1 .. Len(s) - 1
      PROVE  /\ Former(k, i) \in DOMAIN s /\ Former(k, i) # i
             /\ (before \o after)[k] = s[Former(k, i)]
  <2>0. (before \o after)[k] = IF k <= i - 1 THEN before[k] ELSE after[k - (i - 1)]
    <3>1. k \in 1 .. Len(before) + Len(after)
      BY <1>6
    <3>2. (before \o after)[k] =
             IF k <= Len(before) THEN before[k] ELSE after[k - Len(before)]
      BY <1>5, <3>1
    <3>3. QED
      BY <1>2, <3>2
  <2>1. CASE k < i
    <3>1. k <= i - 1 /\ k \in 1 .. i - 1 /\ Former(k, i) = k
      BY <1>1, <2>1 DEF Former
    <3>2. (before \o after)[k] = s[k]
      BY <1>2, <2>0, <3>1
    <3>3. QED
      BY <1>1, <2>1, <3>1, <3>2
  <2>2. CASE ~(k < i)
    <3>1. /\ ~(k <= i - 1) /\ k - (i - 1) \in 1 .. Len(s) - i
          /\ i + (k - (i - 1)) = k + 1 /\ Former(k, i) = k + 1
      BY <1>1, <2>2 DEF Former
    <3>2. (before \o after)[k] = s[k + 1]
      BY <1>3, <2>0, <3>1
    <3>3. QED
      BY <1>1, <2>2, <3>1, <3>2
  <2>3. QED
    BY <2>1, <2>2
<1>8. QED
  BY <1>4, <1>5, <1>6, <1>7, Zenon

\* What is left of a sequence was in it before.
LEMMA RemovedSeq ==
    ASSUME NEW S, NEW s \in Seq(S), NEW i \in DOMAIN s
    PROVE  /\ RemoveAt(s, i) \in Seq(S)
           /\ \A k \in DOMAIN RemoveAt(s, i) : \E l \in DOMAIN s : RemoveAt(s, i)[k] = s[l]
<1>1. /\ RemoveAt(s, i) \in Seq(S)
      /\ \A k \in DOMAIN RemoveAt(s, i) :
            Former(k, i) \in DOMAIN s /\ RemoveAt(s, i)[k] = s[Former(k, i)]
  BY RemovedAt
<1>2. QED
  BY <1>1, Zenon

\* Different elements that are left were at different places.
LEMMA FormerIsOneToOne ==
    ASSUME NEW i \in Int, NEW j \in Int, NEW k \in Int, Former(j, i) = Former(k, i)
    PROVE  j = k
BY DEF Former

------------------------------------------------------------------------------
(***************************************************************************)
(* Induction on the natural numbers, for sets of numbers.  Every nonempty  *)
(* set of natural numbers has a least element, so a set with 0 and with    *)
(* the successor of each of its numbers has them all.                      *)
(***************************************************************************)

\* The numbers are well ordered.
LEMMA LessWellFounded == IsWellFoundedOn({p \in Nat \X Nat : p[1] < p[2]}, Nat)
BY NatLessThanWellFounded DEF OpToRel

\* Induction: what a set of numbers must have to be all of them.
LEMMA SetInduction ==
    ASSUME NEW T, 0 \in T, \A n \in Nat : n \in T => n + 1 \in T
    PROVE  Nat \subseteq T
<1> SUFFICES ASSUME Nat \ T # {} PROVE FALSE
  OBVIOUS
<1> DEFINE B == Nat \ T
           R == {p \in Nat \X Nat : p[1] < p[2]}
<1>1. IsWellFoundedOn(R, Nat)
  BY LessWellFounded
<1>2. \E x \in B : \A y \in B : ~(<<y, x>> \in R)
  <2> HIDE DEF R
  <2>1. B \subseteq Nat /\ B # {}
    OBVIOUS
  <2> HIDE DEF B
  <2>2. QED
    BY <1>1, <2>1, WFMin
<1>3. PICK x \in B : \A y \in B : ~(<<y, x>> \in R)
  BY <1>2
<1>4. x # 0 /\ x - 1 \in Nat /\ (x - 1) + 1 = x
  OBVIOUS
<1>5. x - 1 \in T
  <2> SUFFICES ASSUME x - 1 \notin T PROVE FALSE
    OBVIOUS
  <2>1. x - 1 \in B /\ x \in Nat /\ x - 1 < x
    BY <1>4
  <2>2. <<x - 1, x>> \in R
    BY <1>4, <2>1
  <2>3. QED
    BY <1>3, <2>1, <2>2
<1>6. QED
  BY <1>4, <1>5

\* A nonempty set of numbers with an upper bound has a largest one.
LEMMA LargestExists ==
    ASSUME NEW n \in Nat, NEW A \in SUBSET (0 .. n), A # {}
    PROVE  \E x \in A : \A y \in A : x >= y
<1> DEFINE Q(m) == \A B \in SUBSET (0 .. m) : B # {} => \E x \in B : \A y \in B : x >= y
           T == {m \in Nat : Q(m)}
<1>1. 0 \in T
  <2>1. ASSUME NEW B \in SUBSET (0 .. 0), B # {} PROVE \E x \in B : \A y \in B : x >= y
    <3>1. \A y \in B : y = 0
      OBVIOUS
    <3>2. PICK x \in B : TRUE
      BY <2>1
    <3>3. QED
      BY <3>1, <3>2
  <2>2. QED
    BY <2>1
<1>2. ASSUME NEW m \in Nat, m \in T PROVE m + 1 \in T
  <2>0. Q(m)
    BY <1>2
  <2> HIDE DEF Q
  <2>1. SUFFICES Q(m + 1)
    OBVIOUS
  <2>2. ASSUME NEW B \in SUBSET (0 .. m + 1), B # {} PROVE \E x \in B : \A y \in B : x >= y
    <3>1. CASE m + 1 \in B
      BY <3>1
    <3>2. CASE m + 1 \notin B
      <4>1. B \in SUBSET (0 .. m)
        BY <3>2
      <4>2. QED
        BY <2>0, <2>2, <4>1 DEF Q
    <3>3. QED
      BY <3>1, <3>2
  <2>3. QED
    BY <2>2 DEF Q
<1>3. n \in T
  <2> HIDE DEF T
  <2>1. QED
    BY <1>1, <1>2, SetInduction
<1>4. QED
  BY <1>3

\* What Max returns.
LEMMA MaxProperties ==
    ASSUME NEW n \in Nat, NEW A \in SUBSET (0 .. n), A # {}
    PROVE  Max(A) \in A /\ \A y \in A : Max(A) >= y
<1>1. \E x \in A : \A y \in A : x >= y
  BY LargestExists
<1>2. QED
  BY <1>1 DEF Max

\* What Min returns.
LEMMA MinProperties ==
    ASSUME NEW n \in Nat, NEW A \in SUBSET (0 .. n), A # {}
    PROVE  Min(A) \in A /\ \A y \in A : Min(A) =< y
<1> DEFINE B == {n - a : a \in A}
<1>1. B \in SUBSET (0 .. n) /\ B # {}
  <2>1. \A a \in A : n - a \in 0 .. n
    OBVIOUS
  <2>2. PICK a \in A : TRUE
    OBVIOUS
  <2>3. n - a \in B
    OBVIOUS
  <2>4. QED
    BY <2>1, <2>3
<1>2. PICK x \in B : \A y \in B : x >= y
  <2> HIDE DEF B
  <2>1. QED
    BY <1>1, LargestExists
<1>3. PICK a \in A : x = n - a
  OBVIOUS
<1>4. \A y \in A : a =< y
  <2>1. SUFFICES ASSUME NEW y \in A PROVE a =< y
    OBVIOUS
  <2>2. n - y \in B
    OBVIOUS
  <2>3. n - a >= n - y
    BY <1>2, <1>3, <2>2
  <2>4. QED
    BY <2>3
<1>5. QED
  BY <1>4 DEF Min

------------------------------------------------------------------------------
(* Picking elements of a sequence.                                         *)

PickStep(s, P, U, n) ==
    IF n = 0 THEN <<>> ELSE IF n \in P THEN Append(U[n - 1], s[n]) ELSE U[n - 1]

\* The function that Picked is defined by exists.
LEMMA PickedSteps ==
    ASSUME NEW s, Len(s) \in Nat, NEW P
    PROVE  \E U : /\ U = [n \in 0 .. Len(s) |-> PickStep(s, P, U, n)]
                  /\ Picked(s, P) = U[Len(s)]
<1> DEFINE Good(U, m) == U = [n \in 0 .. m |-> PickStep(s, P, U, n)]
           T == {m \in Nat : \E U : Good(U, m)}
<1>1. 0 \in T
  <2>1. Good([n \in 0 .. 0 |-> <<>>], 0)
    BY DEF PickStep
  <2>2. QED
    BY <2>1
<1>2. ASSUME NEW m \in Nat, m \in T PROVE m + 1 \in T
  <2>1. PICK U : Good(U, m)
    BY <1>2
  <2> DEFINE W == [n \in 0 .. m + 1 |-> IF n <= m THEN U[n] ELSE PickStep(s, P, U, n)]
  <2>2. \A n \in 0 .. m : W[n] = U[n] /\ U[n] = PickStep(s, P, U, n)
    BY <2>1
  <2>3. W[m + 1] = PickStep(s, P, U, m + 1)
    OBVIOUS
  <2>4. W = [n \in 0 .. m + 1 |-> W[n]]
    OBVIOUS
  <2>5. ASSUME NEW n \in 0 .. m + 1 PROVE W[n] = PickStep(s, P, W, n)
    <3> HIDE DEF W
    <3>1. CASE n = m + 1
      <4>1. n # 0 /\ n - 1 = m /\ m \in 0 .. m
        BY <3>1
      <4>2. QED
        BY <3>1, <4>1, <2>2, <2>3 DEF PickStep
    <3>2. CASE n = 0
      BY <2>2, <3>2 DEF PickStep
    <3>3. CASE n # 0 /\ n # m + 1
      <4>1. n \in 0 .. m /\ n - 1 \in 0 .. m
        BY <3>3
      <4>2. QED
        BY <3>3, <4>1, <2>2 DEF PickStep
    <3>4. QED
      BY <3>1, <3>2, <3>3
  <2>6. Good(W, m + 1)
    <3> HIDE DEF W
    <3>1. QED
      BY <2>4, <2>5
  <2> HIDE DEF Good, W
  <2>7. QED
    BY <2>6
<1>3. Nat \subseteq T
  <2> HIDE DEF T
  <2>1. QED
    BY <1>1, <1>2, SetInduction
<1>4. PICK U : Good(U, Len(s))
  BY <1>3
<1>5. Good(CHOOSE V : Good(V, Len(s)), Len(s))
  BY <1>4
<1>6. QED
  BY <1>5 DEF Picked, PickStep

\* q has the elements of s at the places of P up to n, and h says where they were.
PickedUpTo(s, P, n, q, h) ==
    /\ h \in [1 .. Len(q) -> {i \in 1 .. n : i \in P}]
    /\ \A m \in 1 .. Len(q) : q[m] = s[h[m]]
    /\ \A a, b \in 1 .. Len(q) : h[a] = h[b] => a = b
    /\ \A i \in 1 .. n : i \in P => \E m \in 1 .. Len(q) : h[m] = i

\* Picked takes every element at a place of P once.
LEMMA PickedPlaces ==
    ASSUME NEW S, NEW s \in Seq(S), NEW P
    PROVE  /\ Picked(s, P) \in Seq(S)
           /\ \E h : PickedUpTo(s, P, Len(s), Picked(s, P), h)
<1>0. Len(s) \in Nat /\ DOMAIN s = 1 .. Len(s) /\ \A i \in 1 .. Len(s) : s[i] \in S
  OBVIOUS
<1>1. PICK U : /\ U = [n \in 0 .. Len(s) |-> PickStep(s, P, U, n)]
               /\ Picked(s, P) = U[Len(s)]
  BY <1>0, PickedSteps
<1>2. \A n \in 0 .. Len(s) : U[n] = PickStep(s, P, U, n)
  BY <1>1
<1> DEFINE Q(n) == U[n] \in Seq(S) /\ \E h : PickedUpTo(s, P, n, U[n], h)
           T == {n \in Nat : n <= Len(s) => Q(n)}
<1>3. 0 \in T
  <2>1. U[0] = <<>>
    BY <1>0, <1>2 DEF PickStep
  <2>2. PickedUpTo(s, P, 0, <<>>, [m \in 1 .. 0 |-> m])
    <3>1. 1 .. Len(<<>>) = {} /\ 1 .. 0 = {}
      OBVIOUS
    <3>2. QED
      BY <3>1 DEF PickedUpTo
  <2>3. \E h : PickedUpTo(s, P, 0, U[0], h)
    BY <2>1, <2>2, Zenon
  <2>4. U[0] \in Seq(S)
    BY <2>1
  <2>5. QED
    BY <2>3, <2>4
<1>4. ASSUME NEW n \in Nat, n \in T PROVE n + 1 \in T
  <2>0. SUFFICES ASSUME n + 1 <= Len(s) PROVE Q(n + 1)
    OBVIOUS
  <2>1. Q(n) /\ n \in 0 .. Len(s) /\ n + 1 \in 0 .. Len(s) /\ n + 1 \in 1 .. Len(s)
    BY <1>0, <1>4, <2>0
  <2>2. PICK h : PickedUpTo(s, P, n, U[n], h)
    BY <2>1
  <2>3. U[n + 1] = IF n + 1 \in P THEN Append(U[n], s[n + 1]) ELSE U[n]
    <3>1. n + 1 # 0 /\ (n + 1) - 1 = n
      OBVIOUS
    <3>2. QED
      BY <1>2, <2>1, <3>1 DEF PickStep
  <2> DEFINE q == U[n]
  <2>4. q \in Seq(S) /\ Len(q) \in Nat
    BY <2>1
  <2>5. PickedUpTo(s, P, n, q, h)
    BY <2>2
  <2> HIDE DEF q
  <2>6. CASE n + 1 \in P
    <3> DEFINE r == Append(q, s[n + 1])
               g == [m \in 1 .. Len(q) + 1 |-> IF m <= Len(q) THEN h[m] ELSE n + 1]
    <3>1. /\ r \in Seq(S) /\ Len(r) = Len(q) + 1 /\ r[Len(q) + 1] = s[n + 1]
          /\ \A m \in 1 .. Len(q) : r[m] = q[m]
      BY <1>0, <2>1, <2>4
    <3>h. \A m \in 1 .. Len(q) : h[m] \in 1 .. n /\ h[m] \in P
      BY <2>5 DEF PickedUpTo
    <3>g. \A m \in 1 .. Len(q) : g[m] = h[m]
      BY <2>4
    <3>l. g[Len(q) + 1] = n + 1
      BY <2>4
    <3>2. /\ \A m \in 1 .. Len(q) : g[m] = h[m] /\ h[m] \in 1 .. n /\ h[m] \in P
          /\ g[Len(q) + 1] = n + 1
      BY <3>h, <3>g, <3>l
    <3>3. g \in [1 .. Len(r) -> {i \in 1 .. n + 1 : i \in P}]
      <4>1. \A m \in 1 .. Len(q) + 1 : m <= Len(q) => m \in 1 .. Len(q)
        BY <2>4
      <4>2. \A m \in 1 .. Len(q) + 1 :
                (IF m <= Len(q) THEN h[m] ELSE n + 1) \in {i \in 1 .. n + 1 : i \in P}
        BY <2>6, <3>h, <4>1
      <4>3. QED
        BY <3>1, <4>2
    <3> HIDE DEF g, r
    <3>n. \A m \in 1 .. Len(r) : m \in 1 .. Len(q) \/ m = Len(q) + 1
      BY <2>4, <3>1
    <3>4. \A m \in 1 .. Len(r) : r[m] = s[g[m]]
      <4>1. \A m \in 1 .. Len(q) : q[m] = s[h[m]]
        BY <2>5 DEF PickedUpTo
      <4>2. QED
        BY <3>1, <3>2, <3>n, <4>1
    <3>5. \A a, b \in 1 .. Len(r) : g[a] = g[b] => a = b
      <4>1. \A a, b \in 1 .. Len(q) : h[a] = h[b] => a = b
        BY <2>5 DEF PickedUpTo
      <4>2. n + 1 \notin 1 .. n
        OBVIOUS
      <4>3. QED
        BY <3>2, <3>n, <4>1, <4>2
    <3>6. \A i \in 1 .. n + 1 : i \in P => \E m \in 1 .. Len(r) : g[m] = i
      <4>1. SUFFICES ASSUME NEW i \in 1 .. n + 1, i \in P PROVE \E m \in 1 .. Len(r) : g[m] = i
        OBVIOUS
      <4>2. CASE i = n + 1
        BY <2>4, <3>1, <3>2, <4>2
      <4>3. CASE i # n + 1
        <5>1. i \in 1 .. n
          BY <4>3
        <5>2. PICK m \in 1 .. Len(q) : h[m] = i
          BY <2>5, <4>1, <5>1 DEF PickedUpTo
        <5>3. QED
          BY <2>4, <3>1, <3>2, <5>2
      <4>4. QED
        BY <4>2, <4>3
    <3>7. PickedUpTo(s, P, n + 1, r, g)
      BY <3>3, <3>4, <3>5, <3>6 DEF PickedUpTo
    <3>8. U[n + 1] = r
      BY <2>3, <2>6 DEF q, r
    <3>9. QED
      BY <3>1, <3>7, <3>8
  <2>7. CASE n + 1 \notin P
    <3>1. U[n + 1] = q
      BY <2>3, <2>7 DEF q
    <3>2. {i \in 1 .. n : i \in P} = {i \in 1 .. n + 1 : i \in P}
      BY <2>7
    <3>3. PickedUpTo(s, P, n + 1, q, h)
      BY <2>5, <2>7, <3>2 DEF PickedUpTo
    <3>4. QED
      BY <2>4, <3>1, <3>3
  <2>8. QED
    BY <2>6, <2>7
<1>5. Len(s) \in T
  <2> HIDE DEF T
  <2>1. QED
    BY <1>0, <1>3, <1>4, SetInduction
<1>6. QED
  BY <1>0, <1>1, <1>5

\* What is picked, and that it has different names if s has.
LEMMA PickedParts ==
    ASSUME NEW S, NEW s \in Seq(S), NEW P
    PROVE  /\ Picked(s, P) \in Seq(S)
           /\ ToSet(Picked(s, P)) = {s[i] : i \in {i \in DOMAIN s : i \in P}}
           /\ DistinctNames(s) => DistinctNames(Picked(s, P))
<1> DEFINE q == Picked(s, P)
<1>1. q \in Seq(S) /\ \E h : PickedUpTo(s, P, Len(s), q, h)
  BY PickedPlaces
<1>2. PICK h : PickedUpTo(s, P, Len(s), q, h)
  BY <1>1
<1> HIDE DEF q
<1>3. DOMAIN q = 1 .. Len(q) /\ DOMAIN s = 1 .. Len(s)
  BY <1>1
<1>4. /\ \A m \in DOMAIN q : h[m] \in DOMAIN s /\ h[m] \in P /\ q[m] = s[h[m]]
      /\ \A a, b \in DOMAIN q : h[a] = h[b] => a = b
      /\ \A i \in DOMAIN s : i \in P => \E m \in DOMAIN q : h[m] = i
  BY <1>2, <1>3 DEF PickedUpTo
<1>5. ToSet(q) = {s[i] : i \in {i \in DOMAIN s : i \in P}}
  BY <1>4 DEF ToSet
<1>6. DistinctNames(s) => DistinctNames(q)
  BY <1>4 DEF DistinctNames
<1>7. QED
  BY <1>1, <1>5, <1>6 DEF q

\* Get finds an element by its name.
LEMMA GetNamed ==
    ASSUME NEW s, DistinctNames(s), NEW i \in DOMAIN s
    PROVE  Get(s, s[i].name) = s[i]
BY DEF Get, DistinctNames

\* The same for a name.
LEMMA GetFrom ==
    ASSUME NEW s, NEW name \in Names(s)
    PROVE  /\ Get(s, name) \in ToSet(s) /\ Get(s, name).name = name
           /\ \E i \in DOMAIN s : Get(s, name) = s[i] /\ s[i].name = name
<1>1. \E i \in DOMAIN s : s[i].name = name
  BY DEF Names
<1>2. /\ (CHOOSE i \in DOMAIN s : s[i].name = name) \in DOMAIN s
      /\ s[CHOOSE i \in DOMAIN s : s[i].name = name].name = name
  BY <1>1
<1>3. QED
  BY <1>2 DEF Get, ToSet
==============================================================================
