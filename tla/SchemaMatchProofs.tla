-------------------------- MODULE SchemaMatchProofs --------------------------
(***************************************************************************)
(* Theorems about SchemaMatch, for every set of calls.  From the inside    *)
(* out: the iterator goes through orders of its list; lists of dimensions, *)
(* fields, lists of fields and nodes that match fit under the maps found,  *)
(* and go on to fit when the maps grow; what load accepts is a schema;     *)
(* two schemas all of whose nodes fit embed one in the other; and every    *)
(* step of a call keeps the invariant MatchInv.  What was found in the end *)
(* makes the schema that is built say of every part what it stands for,    *)
(* and this schema can be written and read again.  At last, two equal      *)
(* schemas match.                                                          *)
(***************************************************************************)
EXTENDS SchemaMatch, SequenceLemmas, FiniteSetTheorems

------------------------------------------------------------------------------
(* The iterator over permutations.                                         *)

\* What the definition of Factorial says of i.
FactorialStep(F, i) == IF i = 0 THEN 1 ELSE i * F[i - 1]

\* The function that Factorial is defined by exists.
LEMMA FactorialSteps ==
    ASSUME NEW N \in Nat, N # 0
    PROVE  \E F \in [0 .. N -> Nat \ {0}] :
              /\ F[0] = 1 /\ Factorial(N) = F[N]
              /\ \A d \in 1 .. N : F[d] = d * F[d - 1]
<1> DEFINE Good(F, m) == F = [i \in 0 .. m |-> FactorialStep(F, i)]
           T == {m \in Nat : \E F : Good(F, m)}
<1>1. 0 \in T
  <2>1. Good([n \in 0 .. 0 |-> 1], 0)
    BY DEF FactorialStep
  <2>2. QED
    BY <2>1
<1>2. ASSUME NEW m \in Nat, m \in T PROVE m + 1 \in T
  <2>1. PICK U : Good(U, m)
    BY <1>2
  <2> DEFINE W == [n \in 0 .. m + 1 |-> IF n <= m THEN U[n] ELSE FactorialStep(U, n)]
  <2>2. \A n \in 0 .. m : W[n] = U[n] /\ U[n] = FactorialStep(U, n)
    BY <2>1
  <2>3. W[m + 1] = FactorialStep(U, m + 1) /\ W = [n \in 0 .. m + 1 |-> W[n]]
    OBVIOUS
  <2>4. ASSUME NEW n \in 0 .. m + 1 PROVE W[n] = FactorialStep(W, n)
    <3> HIDE DEF W
    <3>1. CASE n = m + 1
      <4>1. n # 0 /\ n - 1 = m /\ m \in 0 .. m
        BY <3>1
      <4>2. QED
        BY <3>1, <4>1, <2>2, <2>3 DEF FactorialStep
    <3>2. CASE n = 0
      BY <2>2, <3>2 DEF FactorialStep
    <3>3. CASE n # 0 /\ n # m + 1
      <4>1. n \in 0 .. m /\ n - 1 \in 0 .. m
        BY <3>3
      <4>2. QED
        BY <3>3, <4>1, <2>2 DEF FactorialStep
    <3>4. QED
      BY <3>1, <3>2, <3>3
  <2>5. Good(W, m + 1)
    <3> HIDE DEF W
    <3>1. QED
      BY <2>3, <2>4
  <2> HIDE DEF Good, W
  <2>6. QED
    BY <2>5
<1>3. Nat \subseteq T
  <2> HIDE DEF T
  <2>1. QED
    BY <1>1, <1>2, SetInduction
<1>4. PICK U : Good(U, N)
  BY <1>3
<1> DEFINE F == CHOOSE V : Good(V, N)
<1>5. Good(F, N)
  BY <1>4
<1>6. Factorial(N) = F[N]
  BY DEF Factorial, FactorialStep
<1> HIDE DEF F
<1>7. \A d \in 0 .. N : F[d] = FactorialStep(F, d)
  BY <1>5
<1>8. F = [d \in 0 .. N |-> F[d]]
  BY <1>5
<1>9. F[0] = 1
  BY <1>7 DEF FactorialStep
<1>10. ASSUME NEW d \in 1 .. N PROVE F[d] = d * F[d - 1]
  <2>1. d # 0 /\ d \in 0 .. N
    OBVIOUS
  <2>2. QED
    BY <1>7, <2>1 DEF FactorialStep
<1>11. \A d \in 0 .. N : F[d] \in Nat \ {0}
  <2> DEFINE R == {d \in Nat : d <= N => F[d] \in Nat \ {0}}
  <2>1. 0 \in R
    BY <1>9
  <2>2. ASSUME NEW d \in Nat, d \in R PROVE d + 1 \in R
    <3>0. SUFFICES ASSUME d + 1 <= N PROVE F[d + 1] \in Nat \ {0}
      OBVIOUS
    <3>1. F[d] \in Nat \ {0} /\ d + 1 \in 1 .. N /\ (d + 1) - 1 = d
      BY <2>2, <3>0
    <3>2. F[d + 1] = (d + 1) * F[d]
      BY <1>10, <3>1
    <3>3. \A a, b \in Nat \ {0} : a * b \in Nat \ {0}
      OBVIOUS
    <3>4. d + 1 \in Nat \ {0}
      OBVIOUS
    <3>5. QED
      BY <3>1, <3>2, <3>3, <3>4
  <2>3. Nat \subseteq R
    <3> HIDE DEF R
    <3>1. QED
      BY <2>1, <2>2, SetInduction
  <2>4. QED
    BY <2>3
<1>12. QED
  BY <1>6, <1>8, <1>9, <1>10, <1>11

\* An order of the N places of a list.
Arrangements(N) ==
    {rho \in [1 .. N -> 1 .. N] :
        /\ \A i, j \in 1 .. N : rho[i] = rho[j] => i = j
        /\ \A p \in 1 .. N : \E i \in 1 .. N : rho[i] = p}

\* x has the elements of list in some order.
IsOrder(x, list) ==
    \E rho \in Arrangements(Len(list)) : x = [i \in 1 .. Len(list) |-> list[rho[i]]]

\* A list is an order of itself.
LEMMA ListIsOrder ==
    ASSUME NEW list, list \in Seq(ToSet(list))
    PROVE  IsOrder(list, list)
<1> DEFINE rho == [i \in 1 .. Len(list) |-> i]
<1>1. rho \in Arrangements(Len(list))
  BY DEF Arrangements
<1>2. list = [i \in 1 .. Len(list) |-> list[rho[i]]]
  OBVIOUS
<1> HIDE DEF rho
<1>3. QED
  BY <1>1, <1>2 DEF IsOrder

\* An exchange of two elements leaves an order of the list.
LEMMA SwapIsOrder ==
    ASSUME NEW list, Len(list) \in Nat, NEW x, IsOrder(x, list),
           NEW a \in 1 .. Len(list), NEW b \in 1 .. Len(list)
    PROVE  IsOrder(Swap(x, a, b), list)
<1> DEFINE N == Len(list)
<1>1. PICK rho \in Arrangements(N) : x = [i \in 1 .. N |-> list[rho[i]]]
  BY DEF IsOrder
<1>2. /\ rho \in [1 .. N -> 1 .. N]
      /\ \A i, j \in 1 .. N : rho[i] = rho[j] => i = j
      /\ \A p \in 1 .. N : \E i \in 1 .. N : rho[i] = p
  BY DEF Arrangements
<1> DEFINE tau == [rho EXCEPT ![a] = rho[b], ![b] = rho[a]]
<1>3. tau \in [1 .. N -> 1 .. N]
  BY <1>2
<1>4. \A i \in 1 .. N : tau[i] = IF i = b THEN rho[a] ELSE IF i = a THEN rho[b] ELSE rho[i]
  BY <1>2
<1> HIDE DEF tau
<1>5. tau \in Arrangements(N)
  <2>1. \A i, j \in 1 .. N : tau[i] = tau[j] => i = j
    BY <1>2, <1>4
  <2>2. ASSUME NEW p \in 1 .. N PROVE \E i \in 1 .. N : tau[i] = p
    <3>1. PICK i \in 1 .. N : rho[i] = p
      BY <1>2
    <3>2. QED
      BY <1>4, <3>1
  <2>3. QED
    BY <1>3, <2>1, <2>2 DEF Arrangements
<1>6. Swap(x, a, b) = [i \in 1 .. N |-> list[tau[i]]]
  BY <1>1, <1>4 DEF Swap
<1>7. QED
  BY <1>5, <1>6 DEF IsOrder

------------------------------------------------------------------------------
(* The stack holds one frame for each size from N down to some size; the   *)
(* frame of size d + 1 has had index[d] of its d + 1 turns.                *)

\* The frames of the stack.
Frames == [n : Nat, index : Nat]

\* The l frames from the size N down, with the turns they have had.
IsStack(s, N, index, l) ==
    /\ s \in Seq(Frames) /\ Len(s) = l
    /\ \A i \in 1 .. l : s[i] = [n |-> N - i + 1, index |-> index[N - i]]

\* The stack without its top.
LEMMA StackFront ==
    ASSUME NEW s, NEW N \in Nat, NEW index, NEW l \in Nat, l # 0, IsStack(s, N, index, l)
    PROVE  /\ IsStack(Front(s), N, index, l - 1)
           /\ Last(s) = [n |-> N - l + 1, index |-> index[N - l]]
<1>1. s \in Seq(Frames) /\ Len(s) = l /\ l \in 1 .. l
  BY DEF IsStack
<1>2. Last(s) = s[l]
  BY <1>1 DEF Last
<1>3. /\ Front(s) \in Seq(Frames) /\ Len(Front(s)) = l - 1
      /\ \A i \in 1 .. l - 1 : Front(s)[i] = s[i]
  BY <1>1 DEF Front
<1>4. QED
  BY <1>1, <1>2, <1>3 DEF IsStack

\* The stack with the two frames that a turn pushes.
LEMMA StackPush ==
    ASSUME NEW s, NEW N \in Nat, NEW index \in [0 .. N - 1 -> Nat], NEW old,
           NEW l \in Nat, l + 2 <= N, IsStack(s, N, old, l),
           \A i \in 1 .. l : index[N - i] = old[N - i],
           NEW a, a = [n |-> N - (l + 1) + 1, index |-> index[N - (l + 1)]],
           NEW b, b = [n |-> N - (l + 2) + 1, index |-> index[N - (l + 2)]]
    PROVE  IsStack(s \o <<a, b>>, N, index, l + 2)
<1>1. a \in Frames /\ b \in Frames
  <2>1. N - (l + 1) \in 0 .. N - 1 /\ N - (l + 2) \in 0 .. N - 1
    OBVIOUS
  <2>2. index[N - (l + 1)] \in Nat /\ index[N - (l + 2)] \in Nat
    BY <2>1
  <2>3. N - (l + 1) + 1 \in Nat /\ N - (l + 2) + 1 \in Nat
    OBVIOUS
  <2>4. QED
    BY <2>2, <2>3 DEF Frames
<1> DEFINE t == <<a, b>>
<1>2. t \in Seq(Frames) /\ Len(t) = 2 /\ t[1] = a /\ t[2] = b
  BY <1>1
<1>3. s \in Seq(Frames) /\ Len(s) = l
  BY DEF IsStack
<1> HIDE DEF t
<1>4. /\ s \o t \in Seq(Frames) /\ Len(s \o t) = l + 2
      /\ \A k \in 1 .. l + 2 : (s \o t)[k] = IF k <= l THEN s[k] ELSE t[k - l]
  <2>1. /\ s \o t \in Seq(Frames) /\ Len(s \o t) = Len(s) + Len(t)
        /\ \A k \in 1 .. Len(s) + Len(t) :
              (s \o t)[k] = IF k <= Len(s) THEN s[k] ELSE t[k - Len(s)]
    BY <1>2, <1>3, ConcatProperties
  <2>2. QED
    BY <1>2, <1>3, <2>1
<1>5. ASSUME NEW k \in 1 .. l + 2 PROVE (s \o t)[k] = [n |-> N - k + 1, index |-> index[N - k]]
  <2>1. CASE k <= l
    <3>1. k \in 1 .. l
      BY <2>1
    <3>2. QED
      BY <1>4, <2>1, <3>1 DEF IsStack
  <2>2. CASE k = l + 1
    <3>1. ~(k <= l) /\ k - l = 1
      BY <2>2
    <3>2. QED
      BY <1>2, <1>4, <2>2, <3>1
  <2>3. CASE k = l + 2
    <3>1. ~(k <= l) /\ k - l = 2
      BY <2>3
    <3>2. QED
      BY <1>2, <1>4, <2>3, <3>1
  <2>4. k <= l \/ k = l + 1 \/ k = l + 2
    OBVIOUS
  <2>5. QED
    BY <2>1, <2>2, <2>3, <2>4
<1>6. QED
  BY <1>4, <1>5 DEF IsStack, t

\* The turns of the frames after a call in which the frame of size D + 1 has had its turn.
Advanced(N, index, D) ==
    [d \in 0 .. N - 1 |-> IF d < D THEN 0 ELSE IF d = D THEN index[d] + 1 ELSE index[d]]

\* Between two calls: rest[d] orders are left that move the first d + 1 places only, and
\* with those returned so far they are all.
Odometer(N, F, index, rest, returned) ==
    /\ index \in [0 .. N - 1 -> Nat] /\ \A d \in 0 .. N - 1 : index[d] <= d
    /\ rest \in [0 .. N - 1 -> Int] /\ rest[0] = 0
    /\ \A d \in 1 .. N - 1 : rest[d] = rest[d - 1] + (d - index[d]) * F[d]
    /\ rest[N - 1] + returned = F[N]

\* In a call, after t turns: the frames up to size t + 1 were found used up; or the frame of
\* size D + 1 had a turn and smaller ones are put back; or the call has ended.
Climbing(u, t, N, index, rest) ==
    /\ ~u.skipSwap /\ ~u.done
    /\ t <= N - 1 /\ rest[t] = 0
    /\ IsStack(u.stack, N, index, N - 1 - t)

\* D is the frame that has a turn left, all smaller ones having none.
Due(D, N, index, rest) == D \in 1 .. N - 1 /\ index[D] < D /\ rest[D - 1] = 0

\* After the exchange new frames are pushed, down to size 1.
Descending(u, t, N, index, rest) ==
    /\ u.skipSwap /\ ~u.done
    /\ \E D, l \in Nat :
        /\ Due(D, N, index, rest)
        /\ N - D + 1 <= l /\ l <= N /\ t = 2 * D - N - 1 + l
        /\ IsStack(u.stack, N, Advanced(N, index, D), l)

\* The call has ended: the frame D has had one more turn, the smaller ones none.
Arrived(u, N, index, rest) ==
    /\ u.done
    /\ \E D \in Nat : /\ Due(D, N, index, rest)
                      /\ IsStack(u.stack, N, Advanced(N, index, D), N - 1)

\* Advancing the counters of the frames leaves counters.
LEMMA AdvancedTypes ==
    ASSUME NEW N \in Nat, NEW index \in [0 .. N - 1 -> Nat], NEW D
    PROVE  Advanced(N, index, D) \in [0 .. N - 1 -> Nat]
BY DEF Advanced


\* What a turn makes of a call.
Swapped(x, n, index) == IF n % 2 = 0 THEN Swap(x, index + 1, n) ELSE Swap(x, 1, n)

\* A turn with a frame of size 1, which ends the call.
LEMMA TurnLast ==
    ASSUME NEW u, NEW index, ~u.done, Last(u.stack) = [n |-> 1, index |-> index]
    PROVE  /\ Turn(u).x = u.x /\ Turn(u).stack = Front(u.stack) /\ Turn(u).skipSwap = u.skipSwap
           /\ Turn(u).done
BY DEF Turn

\* A turn with a frame that has no turn left.
LEMMA TurnUsedUp ==
    ASSUME NEW u, NEW n \in Nat, NEW index \in Nat, ~u.done, ~u.skipSwap,
           Last(u.stack) = [n |-> n, index |-> index], n # 1, ~(index + 1 < n)
    PROVE  /\ Turn(u).x = Swapped(u.x, n, index) /\ ~Turn(u).done /\ ~Turn(u).skipSwap
           /\ Turn(u).stack = Front(u.stack) \o <<>>
<1>1. Last(u.stack).n = n /\ Last(u.stack).index = index
  OBVIOUS
<1> DEFINE top == Last(u.stack)
           y == IF top.n % 2 = 0 THEN Swap(u.x, top.index + 1, top.n) ELSE Swap(u.x, 1, top.n)
<1>2. Turn(u) = [x |-> y, skipSwap |-> FALSE, done |-> FALSE, stack |-> Front(u.stack) \o <<>>]
  BY <1>1 DEF Turn
<1>3. y = Swapped(u.x, n, index)
  BY <1>1 DEF Swapped
<1> HIDE DEF y
<1>4. QED
  BY <1>2, <1>3

\* A turn with a frame that has its turn.
LEMMA TurnTaken ==
    ASSUME NEW u, NEW n \in Nat, NEW index \in Nat, ~u.done, ~u.skipSwap,
           Last(u.stack) = [n |-> n, index |-> index], n # 1, index + 1 < n
    PROVE  /\ Turn(u).x = Swapped(u.x, n, index) /\ ~Turn(u).done /\ Turn(u).skipSwap
           /\ Turn(u).stack = Front(u.stack) \o <<[n |-> n, index |-> index + 1],
                                                  [n |-> n - 1, index |-> 0]>>
<1>1. Last(u.stack).n = n /\ Last(u.stack).index = index
  OBVIOUS
<1> DEFINE top == Last(u.stack)
           y == IF top.n % 2 = 0 THEN Swap(u.x, top.index + 1, top.n) ELSE Swap(u.x, 1, top.n)
           two == <<[n |-> top.n, index |-> top.index + 1], [n |-> top.n - 1, index |-> 0]>>
<1>2. Turn(u) = [x |-> y, skipSwap |-> TRUE, done |-> FALSE, stack |-> Front(u.stack) \o two]
  BY <1>1 DEF Turn
<1>3. y = Swapped(u.x, n, index)
  BY <1>1 DEF Swapped
<1>4. two = <<[n |-> n, index |-> index + 1], [n |-> n - 1, index |-> 0]>>
  BY <1>1
<1> HIDE DEF y, two
<1>5. QED
  BY <1>2, <1>3, <1>4
\* A turn that puts a frame back with a smaller one.
LEMMA TurnDown ==
    ASSUME NEW u, NEW n \in Nat, NEW index \in Nat, ~u.done, u.skipSwap,
           Last(u.stack) = [n |-> n, index |-> index], n # 1, index < n
    PROVE  /\ Turn(u).x = u.x /\ ~Turn(u).done /\ Turn(u).skipSwap
           /\ Turn(u).stack = Front(u.stack) \o <<[n |-> n, index |-> index], [n |-> n - 1, index |-> 0]>>
<1>1. Last(u.stack).n = n /\ Last(u.stack).index = index
  OBVIOUS
<1> DEFINE top == Last(u.stack)
           two == <<[n |-> top.n, index |-> top.index], [n |-> top.n - 1, index |-> 0]>>
<1>2. Turn(u) = [x |-> u.x, skipSwap |-> TRUE, done |-> FALSE, stack |-> Front(u.stack) \o two]
  BY <1>1 DEF Turn
<1>3. QED
  BY <1>1, <1>2

\* A turn of a call that has ended.
LEMMA TurnDone == ASSUME NEW u, u.done PROVE Turn(u) = u
BY DEF Turn

\* A turn on the way up.
LEMMA ClimbingTurn ==
    ASSUME NEW list, NEW N \in Nat, N = Len(list), NEW F \in [0 .. N -> Nat \ {0}],
           NEW index, NEW rest, NEW returned \in Nat,
           Odometer(N, F, index, rest, returned), returned < F[N], N # 0,
           NEW t \in Nat, NEW u, IsOrder(u.x, list), Climbing(u, t, N, index, rest)
    PROVE  /\ IsOrder(Turn(u).x, list)
           /\ \/ Climbing(Turn(u), t + 1, N, index, rest)
              \/ Descending(Turn(u), t + 1, N, index, rest)
<1>0. /\ index \in [0 .. N - 1 -> Nat] /\ \A d \in 0 .. N - 1 : index[d] <= d
      /\ rest[N - 1] + returned = F[N] /\ F[N] \in Nat
  BY DEF Odometer
<1>1. ~u.skipSwap /\ ~u.done /\ t <= N - 1 /\ rest[t] = 0 /\ IsStack(u.stack, N, index, N - 1 - t)
  BY DEF Climbing
<1>2. t # N - 1
  BY <1>0, <1>1
<1> DEFINE d == t + 1
           k == N - 2 - t
<1>3. k \in Nat /\ k + 1 = N - 1 - t /\ k + 2 <= N /\ d \in 1 .. N - 1 /\ N - (k + 1) = d /\ N - (k + 2) = d - 1
  BY <1>1, <1>2
<1>31. k = N - 1 - (t + 1) /\ d \in 0 .. N - 1 /\ d - 1 = t /\ (k + 1) - 1 = k
       /\ N - d + 1 <= k + 2 /\ t + 1 = 2 * d - N - 1 + (k + 2)
  BY <1>1, <1>2
<1>32. t + 1 = d
  OBVIOUS
<1> HIDE DEF d, k
<1>4. IsStack(Front(u.stack), N, index, k) /\ Last(u.stack) = [n |-> d + 1, index |-> index[d]]
  <2>1. IsStack(u.stack, N, index, k + 1)
    BY <1>1, <1>3
  <2>2. k + 1 \in Nat /\ k + 1 # 0
    BY <1>3
  <2>3. /\ IsStack(Front(u.stack), N, index, (k + 1) - 1)
        /\ Last(u.stack) = [n |-> N - (k + 1) + 1, index |-> index[N - (k + 1)]]
    BY <2>1, <2>2, StackFront
  <2>4. QED
    BY <1>3, <1>31, <2>3
<1>5. index[d] \in Nat /\ index[d] <= d /\ d + 1 \in Nat /\ d + 1 # 1 /\ d \in Nat
  <2>1. d \in 0 .. N - 1 /\ d \in 1 .. N - 1
    BY <1>3, <1>31
  <2>2. index[d] \in Nat /\ index[d] <= d
    BY <1>0, <2>1
  <2>3. QED
    BY <2>1, <2>2
<1>6. rest[d] = (d - index[d]) * F[d]
  <2>1. rest[d] = rest[d - 1] + (d - index[d]) * F[d]
    BY <1>3 DEF Odometer
  <2>2. (d - index[d]) * F[d] \in Int
    <3>1. F[d] \in Int /\ d - index[d] \in Int
      BY <1>3, <1>5
    <3>2. QED
      BY <3>1
  <2>3. QED
    BY <1>1, <1>31, <2>1, <2>2
<1>7. IsOrder(Swapped(u.x, d + 1, index[d]), list)
  <2>1. d + 1 \in 1 .. Len(list) /\ index[d] + 1 \in 1 .. Len(list) /\ 1 \in 1 .. Len(list) /\ Len(list) \in Nat
    BY <1>3, <1>5
  <2>2. /\ IsOrder(Swap(u.x, index[d] + 1, d + 1), list)
        /\ IsOrder(Swap(u.x, 1, d + 1), list)
    BY <2>1, SwapIsOrder
  <2>3. QED
    BY <2>2 DEF Swapped
<1>8. CASE index[d] = d
  <2>0. ~(index[d] + 1 < d + 1)
    BY <1>5, <1>8
  <2>1. /\ Turn(u).x = Swapped(u.x, d + 1, index[d]) /\ ~Turn(u).done /\ ~Turn(u).skipSwap
        /\ Turn(u).stack = Front(u.stack) \o <<>>
    BY <1>1, <1>4, <1>5, <2>0, TurnUsedUp
  <2>2. Front(u.stack) \o <<>> = Front(u.stack)
    BY <1>4 DEF IsStack
  <2>3. rest[d] = 0
    <3>1. F[d] \in Int
      BY <1>3
    <3>2. d - index[d] = 0 /\ 0 * F[d] = 0
      BY <1>5, <1>8, <3>1
    <3>3. QED
      BY <1>6, <3>2
  <2>4. t + 1 <= N - 1
    BY <1>3, <1>32
  <2>5. Climbing(Turn(u), t + 1, N, index, rest)
    BY <1>4, <1>31, <1>32, <2>1, <2>2, <2>3, <2>4 DEF Climbing
  <2>6. QED
    BY <1>7, <2>1, <2>5
<1>9. CASE index[d] # d
  <2> DEFINE a == [n |-> d + 1, index |-> index[d] + 1]
             b == [n |-> (d + 1) - 1, index |-> 0]
             next == Advanced(N, index, d)
  <2>0. index[d] + 1 < d + 1
    BY <1>5, <1>9
  <2>1. /\ Turn(u).x = Swapped(u.x, d + 1, index[d]) /\ ~Turn(u).done /\ Turn(u).skipSwap
        /\ Turn(u).stack = Front(u.stack) \o <<a, b>>
    <3> DEFINE m == d + 1
               i == index[d]
    <3>1. i \in Nat /\ m \in Nat /\ m # 1 /\ Last(u.stack) = [n |-> m, index |-> i] /\ i + 1 < m
      BY <1>4, <1>5, <2>0
    <3> HIDE DEF m, i
    <3>2. /\ Turn(u).x = Swapped(u.x, m, i) /\ ~Turn(u).done /\ Turn(u).skipSwap
          /\ Turn(u).stack = Front(u.stack) \o <<[n |-> m, index |-> i + 1], [n |-> m - 1, index |-> 0]>>
      <4>1. ~u.done /\ ~u.skipSwap
        BY <1>1
      <4>2. QED
        BY <3>1, <4>1, TurnTaken, Zenon
    <3>3. QED
      BY <3>2 DEF m, i
  <2>2. Due(d, N, index, rest)
    BY <1>1, <1>3, <1>31, <1>5, <1>9 DEF Due
  <2>3. next \in [0 .. N - 1 -> Nat] /\ next[d] = index[d] + 1 /\ next[d - 1] = 0
        /\ \A e \in 0 .. N - 1 : e > d => next[e] = index[e]
    BY <1>0, <1>3 DEF Advanced
  <2> HIDE DEF next
  <2>4. IsStack(Front(u.stack) \o <<a, b>>, N, next, k + 2)
    <3>2. \A i \in 1 .. k : next[N - i] = index[N - i]
      <4>1. \A i \in 1 .. k : N - i \in 0 .. N - 1 /\ N - i > d
        BY <1>3
      <4>2. QED
        BY <2>3, <4>1
    <3>3. a = [n |-> N - (k + 1) + 1, index |-> next[N - (k + 1)]]
      BY <1>3, <2>3
    <3>4. b = [n |-> N - (k + 2) + 1, index |-> next[N - (k + 2)]]
      BY <1>3, <2>3
    <3> HIDE DEF a, b
    <3>5. k \in Nat /\ k + 2 <= N /\ next \in [0 .. N - 1 -> Nat] /\ IsStack(Front(u.stack), N, index, k)
      BY <1>3, <1>4, <2>3
    <3>6. QED
      BY <3>2, <3>3, <3>4, <3>5, StackPush, Zenon
  <2>5. d \in Nat /\ k + 2 \in Nat
    BY <1>3
  <2> HIDE DEF a, b
  <2>6. IsStack(Turn(u).stack, N, Advanced(N, index, d), k + 2)
    BY <2>1, <2>4 DEF next
  <2>7. Descending(Turn(u), t + 1, N, index, rest)
    BY <1>3, <1>31, <2>1, <2>2, <2>5, <2>6 DEF Descending
  <2>8. QED
    BY <1>7, <2>1, <2>7
<1>10. QED
  BY <1>8, <1>9

\* A turn on the way down.
LEMMA DescendingTurn ==
    ASSUME NEW N \in Nat, NEW index \in [0 .. N - 1 -> Nat], NEW rest,
           NEW t \in Nat, NEW u, Descending(u, t, N, index, rest)
    PROVE  /\ Turn(u).x = u.x
           /\ \/ Descending(Turn(u), t + 1, N, index, rest)
              \/ Arrived(Turn(u), N, index, rest)
<1>1. u.skipSwap /\ ~u.done
  BY DEF Descending
<1>2. PICK D \in Nat, l \in Nat :
        /\ Due(D, N, index, rest)
        /\ N - D + 1 <= l /\ l <= N /\ t = 2 * D - N - 1 + l
        /\ IsStack(u.stack, N, Advanced(N, index, D), l)
  BY DEF Descending
<1> DEFINE next == Advanced(N, index, D)
           k == l - 1
<1>3. D \in 1 .. N - 1
  BY <1>2 DEF Due
<1>4. k \in Nat /\ k + 1 = l /\ l # 0 /\ N - l < D /\ N - l \in 0 .. N - 1 /\ (l < N => N - l - 1 \in 0 .. N - 1)
  BY <1>2, <1>3
<1>5. next \in [0 .. N - 1 -> Nat] /\ next[N - l] = 0 /\ (l < N => next[N - l - 1] = 0)
  BY <1>4, <1>3 DEF Advanced
<1> HIDE DEF next, k
<1>6. IsStack(Front(u.stack), N, next, l - 1) /\ Last(u.stack) = [n |-> N - l + 1, index |-> 0]
  <2>1. IsStack(u.stack, N, next, l)
    BY <1>2 DEF next
  <2>2. QED
    BY <1>4, <1>5, <2>1, StackFront
<1>7. CASE l = N
  <2>1. N - l + 1 = 1
    BY <1>7
  <2>2. Turn(u).x = u.x /\ Turn(u).stack = Front(u.stack) /\ Turn(u).done
    BY <1>1, <1>6, <2>1, TurnLast
  <2>3. IsStack(Turn(u).stack, N, Advanced(N, index, D), N - 1)
    BY <1>6, <1>7, <2>2 DEF next
  <2>4. Arrived(Turn(u), N, index, rest)
    BY <1>2, <2>2, <2>3 DEF Arrived
  <2>5. QED
    BY <2>2, <2>4
<1>8. CASE l # N
  <2> DEFINE a == [n |-> N - l + 1, index |-> 0]
             b == [n |-> (N - l + 1) - 1, index |-> 0]
  <2>0. N - l + 1 \in Nat /\ N - l + 1 # 1 /\ 0 < N - l + 1 /\ 0 \in Nat
    BY <1>2, <1>8
  <2>1. /\ Turn(u).x = u.x /\ ~Turn(u).done /\ Turn(u).skipSwap
        /\ Turn(u).stack = Front(u.stack) \o <<a, b>>
    BY <1>1, <1>6, <2>0, TurnDown
  <2>2. IsStack(Front(u.stack) \o <<a, b>>, N, next, k + 2)
    <3>1. k + 2 <= N /\ N - (k + 1) = N - l /\ N - (k + 2) = N - l - 1
      BY <1>2, <1>4, <1>8
    <3>2. a = [n |-> N - (k + 1) + 1, index |-> next[N - (k + 1)]]
      BY <1>5, <3>1
    <3>3. b = [n |-> N - (k + 2) + 1, index |-> next[N - (k + 2)]]
      <4>1. l < N
        BY <1>2, <1>8
      <4>2. next[N - (k + 2)] = 0
        BY <1>5, <3>1, <4>1
      <4>3. (N - l + 1) - 1 = N - (k + 2) + 1
        BY <1>2, <3>1
      <4>4. QED
        BY <4>2, <4>3
    <3>4. IsStack(Front(u.stack), N, next, k)
      BY <1>6 DEF k
    <3>5. \A i \in 1 .. k : next[N - i] = next[N - i]
      OBVIOUS
    <3> HIDE DEF a, b
    <3>6. QED
      BY <1>4, <1>5, <3>1, <3>2, <3>3, <3>4, <3>5, StackPush
  <2>3. /\ k + 2 \in Nat /\ N - D + 1 <= k + 2 /\ k + 2 <= N /\ t + 1 = 2 * D - N - 1 + (k + 2)
    BY <1>2, <1>4, <1>8
  <2> HIDE DEF a, b
  <2>4. IsStack(Turn(u).stack, N, Advanced(N, index, D), k + 2)
    BY <2>1, <2>2 DEF next
  <2>5. Descending(Turn(u), t + 1, N, index, rest)
    BY <1>2, <2>1, <2>3, <2>4 DEF Descending
  <2>6. QED
    BY <2>1, <2>5
<1>9. QED
  BY <1>7, <1>8

\* What the definition of DoNext says of i.
TurnStep(start, U, i) == IF i = 0 THEN start ELSE Turn(U[i - 1])

\* The function that DoNext is defined by exists.
LEMMA TurnsExist ==
    ASSUME NEW M \in Nat, NEW start
    PROVE  \E U : U = [i \in 0 .. M |-> TurnStep(start, U, i)]
<1> DEFINE Good(F, m) == F = [i \in 0 .. m |-> TurnStep(start, F, i)]
           T == {m \in Nat : \E F : Good(F, m)}
<1>1. 0 \in T
  <2>1. Good([n \in 0 .. 0 |-> TurnStep(start, <<>>, 0)], 0)
    BY DEF TurnStep
  <2>2. QED
    BY <2>1
<1>2. ASSUME NEW m \in Nat, m \in T PROVE m + 1 \in T
  <2>1. PICK U : Good(U, m)
    BY <1>2
  <2> DEFINE W == [n \in 0 .. m + 1 |-> IF n <= m THEN U[n] ELSE TurnStep(start, U, n)]
  <2>2. \A n \in 0 .. m : W[n] = U[n] /\ U[n] = TurnStep(start, U, n)
    BY <2>1
  <2>3. W[m + 1] = TurnStep(start, U, m + 1) /\ W = [n \in 0 .. m + 1 |-> W[n]]
    OBVIOUS
  <2>4. ASSUME NEW n \in 0 .. m + 1 PROVE W[n] = TurnStep(start, W, n)
    <3> HIDE DEF W
    <3>1. CASE n = m + 1
      <4>1. n # 0 /\ n - 1 = m /\ m \in 0 .. m
        BY <3>1
      <4>2. QED
        BY <3>1, <4>1, <2>2, <2>3 DEF TurnStep
    <3>2. CASE n = 0
      BY <2>2, <3>2 DEF TurnStep
    <3>3. CASE n # 0 /\ n # m + 1
      <4>1. n \in 0 .. m /\ n - 1 \in 0 .. m
        BY <3>3
      <4>2. QED
        BY <3>3, <4>1, <2>2 DEF TurnStep
    <3>4. QED
      BY <3>1, <3>2, <3>3
  <2>5. Good(W, m + 1)
    <3> HIDE DEF W
    <3>1. QED
      BY <2>3, <2>4
  <2> HIDE DEF Good, W
  <2>6. QED
    BY <2>5
<1>3. Nat \subseteq T
  <2> HIDE DEF T
  <2>1. QED
    BY <1>1, <1>2, SetInduction
<1>4. QED
  BY <1>3

\* The function that DoNext is defined by exists.
LEMMA DoNextTurns ==
    ASSUME NEW x, NEW stack, Len(x) \in Nat
    PROVE  \E U : /\ U[0] = [x |-> x, stack |-> stack, skipSwap |-> FALSE, done |-> FALSE]
                  /\ \A i \in 1 .. 2 * Len(x) : U[i] = Turn(U[i - 1])
                  /\ DoNext(x, stack) = U[2 * Len(x)]
<1> DEFINE start == [x |-> x, stack |-> stack, skipSwap |-> FALSE, done |-> FALSE]
           M == 2 * Len(x)
           Good(F) == F = [i \in 0 .. M |-> TurnStep(start, F, i)]
           U == CHOOSE F : Good(F)
<1>1. M \in Nat
  OBVIOUS
<1>2. \E F : Good(F)
  <2> HIDE DEF M, start
  <2>1. QED
    BY <1>1, TurnsExist
<1>3. Good(U)
  BY <1>2
<1>4. DoNext(x, stack) = U[M]
  BY DEF DoNext, TurnStep
<1> HIDE DEF U
<1>5. \A i \in 0 .. M : U[i] = TurnStep(start, U, i)
  BY <1>3
<1>6. U[0] = start /\ \A i \in 1 .. M : U[i] = Turn(U[i - 1])
  <2> HIDE DEF start, M
  <2>1. 0 \in 0 .. M /\ \A i \in 1 .. M : i \in 0 .. M /\ i # 0
    BY <1>1
  <2>2. QED
    BY <1>5, <2>1 DEF TurnStep
<1>7. QED
  BY <1>4, <1>6

\* A call of doNext that is not the first one.
LEMMA DoNextLater ==
    ASSUME NEW list, NEW N \in Nat, N = Len(list), N # 0, NEW F \in [0 .. N -> Nat \ {0}],
           NEW index, NEW rest, NEW returned \in Nat,
           Odometer(N, F, index, rest, returned), returned < F[N],
           NEW x, IsOrder(x, list), Len(x) = N, NEW stack, IsStack(stack, N, index, N - 1)
    PROVE  /\ IsOrder(DoNext(x, stack).x, list)
           /\ \E D \in Nat : /\ Due(D, N, index, rest)
                             /\ IsStack(DoNext(x, stack).stack, N, Advanced(N, index, D), N - 1)
<1>0. PICK U : /\ U[0] = [x |-> x, stack |-> stack, skipSwap |-> FALSE, done |-> FALSE]
               /\ \A i \in 1 .. 2 * Len(x) : U[i] = Turn(U[i - 1])
               /\ DoNext(x, stack) = U[2 * Len(x)]
  <2>1. Len(x) \in Nat
    OBVIOUS
  <2>2. QED
    BY <2>1, DoNextTurns, Zenon
<1>1. /\ U[0] = [x |-> x, stack |-> stack, skipSwap |-> FALSE, done |-> FALSE]
      /\ \A i \in 1 .. 2 * N : U[i] = Turn(U[i - 1])
      /\ DoNext(x, stack) = U[2 * N]
  BY <1>0
<1>2. index \in [0 .. N - 1 -> Nat] /\ rest[0] = 0
  BY DEF Odometer
<1> DEFINE Inv(t) == /\ IsOrder(U[t].x, list)
                     /\ \/ Climbing(U[t], t, N, index, rest)
                        \/ Descending(U[t], t, N, index, rest)
                        \/ Arrived(U[t], N, index, rest)
           T == {t \in Nat : t <= 2 * N => Inv(t)}
<1>3. 0 \in T
  <2>1. U[0].x = x /\ U[0].stack = stack /\ ~U[0].skipSwap /\ ~U[0].done /\ N - 1 - 0 = N - 1
    BY <1>1
  <2>2. Climbing(U[0], 0, N, index, rest)
    BY <1>2, <2>1 DEF Climbing
  <2>3. QED
    BY <2>1, <2>2
<1>4. ASSUME NEW t \in Nat, t \in T PROVE t + 1 \in T
  <2>0. SUFFICES ASSUME t + 1 <= 2 * N PROVE Inv(t + 1)
    OBVIOUS
  <2>1. t <= 2 * N /\ t + 1 \in 1 .. 2 * N /\ (t + 1) - 1 = t
    BY <2>0
  <2>2. Inv(t) /\ U[t + 1] = Turn(U[t])
    BY <1>1, <1>4, <2>1
  <2> DEFINE u == U[t]
  <2>3. CASE Climbing(u, t, N, index, rest)
    <3>1. IsOrder(u.x, list)
      BY <2>2
    <3> HIDE DEF u
    <3>2. /\ IsOrder(Turn(u).x, list)
          /\ \/ Climbing(Turn(u), t + 1, N, index, rest)
             \/ Descending(Turn(u), t + 1, N, index, rest)
      BY <2>3, <3>1, ClimbingTurn
    <3>3. QED
      BY <2>2, <3>2 DEF u
  <2>4. CASE Descending(u, t, N, index, rest)
    <3>1. IsOrder(u.x, list)
      BY <2>2
    <3> HIDE DEF u
    <3>2. /\ Turn(u).x = u.x
          /\ \/ Descending(Turn(u), t + 1, N, index, rest)
             \/ Arrived(Turn(u), N, index, rest)
      BY <1>2, <2>4, DescendingTurn
    <3>3. QED
      BY <2>2, <3>1, <3>2 DEF u
  <2>5. CASE Arrived(u, N, index, rest)
    <3>1. u.done
      BY <2>5 DEF Arrived
    <3>2. Turn(u) = u
      BY <3>1, TurnDone
    <3>3. QED
      BY <2>2, <2>5, <3>2
  <2>6. QED
    BY <2>2, <2>3, <2>4, <2>5
<1>5. Nat \subseteq T
  <2> HIDE DEF T
  <2>1. QED
    BY <1>3, <1>4, SetInduction
<1>6. Inv(2 * N)
  <2>1. 2 * N \in Nat /\ 2 * N <= 2 * N
    OBVIOUS
  <2> HIDE DEF Inv
  <2>2. QED
    BY <1>5, <2>1
<1> DEFINE v == U[2 * N]
<1>7. ~Climbing(v, 2 * N, N, index, rest)
  <2>1. ~(2 * N <= N - 1)
    OBVIOUS
  <2>2. QED
    BY <2>1 DEF Climbing
<1>8. ~Descending(v, 2 * N, N, index, rest)
  <2>1. SUFFICES ASSUME Descending(v, 2 * N, N, index, rest) PROVE FALSE
    OBVIOUS
  <2>2. PICK D \in Nat, l \in Nat : Due(D, N, index, rest) /\ l <= N /\ 2 * N = 2 * D - N - 1 + l
    BY <2>1 DEF Descending
  <2>3. D <= N - 1
    BY <2>2 DEF Due
  <2>4. QED
    BY <2>2, <2>3
<1>9. QED
  BY <1>1, <1>6, <1>7, <1>8 DEF Arrived

\* The first call, which only takes the frame of size 1 away.
LEMMA DoNextFirst ==
    ASSUME NEW N \in Nat, N # 0, NEW index, NEW x, Len(x) = N,
           NEW stack, IsStack(stack, N, index, N)
    PROVE  DoNext(x, stack).x = x /\ IsStack(DoNext(x, stack).stack, N, index, N - 1)
<1>1. PICK U : /\ U[0] = [x |-> x, stack |-> stack, skipSwap |-> FALSE, done |-> FALSE]
               /\ \A i \in 1 .. 2 * N : U[i] = Turn(U[i - 1])
               /\ DoNext(x, stack) = U[2 * N]
  BY DoNextTurns
<1>2. IsStack(Front(stack), N, index, N - 1) /\ Last(stack) = [n |-> 1, index |-> index[0]]
  <2>1. N - N + 1 = 1 /\ N - N = 0
    OBVIOUS
  <2>2. QED
    BY <2>1, StackFront
<1> DEFINE Inv(t) == U[t].x = x /\ U[t].stack = Front(stack) /\ U[t].done
           T == {t \in Nat : t + 1 <= 2 * N => Inv(t + 1)}
<1>3. 0 \in T
  <2> DEFINE u == U[0]
  <2>1. u.x = x /\ u.stack = stack /\ ~u.done
    BY <1>1
  <2>2. U[1] = Turn(u)
    BY <1>1
  <2> HIDE DEF u
  <2>3. /\ Turn(u).x = u.x /\ Turn(u).stack = Front(u.stack) /\ Turn(u).done
    BY <1>2, <2>1, TurnLast
  <2>4. QED
    BY <2>1, <2>2, <2>3
<1>4. ASSUME NEW t \in Nat, t \in T PROVE t + 1 \in T
  <2>0. SUFFICES ASSUME t + 1 + 1 <= 2 * N PROVE Inv(t + 1 + 1)
    OBVIOUS
  <2>1. t + 1 <= 2 * N /\ t + 1 + 1 \in 1 .. 2 * N /\ (t + 1 + 1) - 1 = t + 1
    BY <2>0
  <2>2. Inv(t + 1) /\ U[t + 1 + 1] = Turn(U[t + 1])
    BY <1>1, <1>4, <2>1
  <2>3. Turn(U[t + 1]) = U[t + 1]
    BY <2>2, TurnDone
  <2>4. QED
    BY <2>2, <2>3
<1>5. Nat \subseteq T
  <2> HIDE DEF T
  <2>1. QED
    BY <1>3, <1>4, SetInduction
<1>6. Inv(2 * N)
  <2>1. 2 * N - 1 \in Nat /\ (2 * N - 1) + 1 = 2 * N /\ 2 * N <= 2 * N
    OBVIOUS
  <2>2. 2 * N - 1 \in T
    BY <1>5, <2>1
  <2> HIDE DEF Inv
  <2>3. QED
    BY <2>1, <2>2
<1>7. QED
  BY <1>1, <1>2, <1>6

\* An iterator over the orders of a list between two calls.
Factors(F, N) ==
    /\ F \in [0 .. N -> Nat \ {0}] /\ F[0] = 1 /\ Factorial(N) = F[N]
    /\ \A d \in 1 .. N : F[d] = d * F[d - 1]

\* No order was asked for yet.
Fresh(it, N) == it.iterations = 0 /\ IsStack(it.stack, N, [d \in 0 .. N - 1 |-> 0], N)

\* The stack shows how many orders were given.
Running(it, N) ==
    it.iterations # 0 /\ \E F, index, rest :
        /\ Factors(F, N) /\ Odometer(N, F, index, rest, it.iterations)
        /\ IsStack(it.stack, N, index, N - 1)

\* The invariant of an iterator over the orders of list.
IsIterator(it, list) ==
    /\ IsOrder(it.x, list) /\ it.max = Factorial(Len(list)) /\ it.iterations \in Nat
    /\ Len(list) # 0 => Fresh(it, Len(list)) \/ Running(it, Len(list))

\* An order has the elements and the length of the list.
LEMMA OrderParts ==
    ASSUME NEW S, NEW list \in Seq(S), NEW x, IsOrder(x, list)
    PROVE  x \in Seq(S) /\ Len(x) = Len(list) /\ ToSet(x) = ToSet(list)
<1>1. PICK rho \in Arrangements(Len(list)) : x = [i \in 1 .. Len(list) |-> list[rho[i]]]
  BY DEF IsOrder
<1>2. /\ rho \in [1 .. Len(list) -> 1 .. Len(list)]
      /\ \A p \in 1 .. Len(list) : \E i \in 1 .. Len(list) : rho[i] = p
  BY DEF Arrangements
<1>3. DOMAIN x = 1 .. Len(list) /\ Len(list) \in Nat /\ DOMAIN list = 1 .. Len(list)
  BY <1>1
<1>4. \A i \in 1 .. Len(list) : x[i] \in S
  <2>1. ASSUME NEW i \in 1 .. Len(list) PROVE x[i] \in S
    <3>1. rho[i] \in DOMAIN list /\ x[i] = list[rho[i]]
      BY <1>1, <1>2
    <3>2. \A j \in DOMAIN list : list[j] \in S
      OBVIOUS
    <3>3. QED
      BY <3>1, <3>2
  <2>2. QED
    BY <2>1
<1>5. x \in [1 .. Len(list) -> S]
  BY <1>1, <1>4
<1>6. x \in Seq(S) /\ Len(x) = Len(list)
  BY <1>3, <1>5
<1>7. ToSet(x) = ToSet(list)
  BY <1>1, <1>2, <1>3, SMTT(30) DEF ToSet
<1>8. QED
  BY <1>6, <1>7

\* The factorials up to a number exist.
LEMMA FactorsExist ==
    ASSUME NEW N \in Nat, N # 0
    PROVE  \E F : Factors(F, N)
BY FactorialSteps, ZenonT(30) DEF Factors

\* The iterator that is made for a list.
LEMMA PermutationIsIterator ==
    ASSUME NEW list, list \in Seq(ToSet(list))
    PROVE  IsIterator(Permutation(list), list) /\ Permutation(list).x = list /\ Permutation(list).iterations = 0
<1> DEFINE N == Len(list)
           it == Permutation(list)
           index == [d \in 0 .. N - 1 |-> 0]
<1>0. N \in Nat /\ DOMAIN list = 1 .. N
  OBVIOUS
<1>1. /\ it.x = list /\ it.iterations = 0 /\ it.max = Factorial(N)
      /\ it.stack = [i \in 1 .. N |-> [n |-> N - i + 1, index |-> 0]]
  BY <1>0 DEF Permutation
<1> HIDE DEF N
<1>2. IsStack(it.stack, N, index, N)
  <2> DEFINE st == [i \in 1 .. N |-> [n |-> N - i + 1, index |-> 0]]
  <2>1. \A i \in 1 .. N : [n |-> N - i + 1, index |-> 0] \in Frames
    BY <1>0 DEF Frames
  <2>2. st \in Seq(Frames) /\ Len(st) = N
    <3>1. st \in [1 .. N -> Frames] /\ DOMAIN st = 1 .. N
      BY <2>1
    <3> HIDE DEF st
    <3>2. QED
      BY <1>0, <3>1
  <2>3. \A i \in 1 .. N : st[i] = [n |-> N - i + 1, index |-> index[N - i]]
    <3>1. \A i \in 1 .. N : N - i \in 0 .. N - 1
      BY <1>0
    <3>2. \A i \in 1 .. N : index[N - i] = 0
      BY <3>1
    <3> HIDE DEF index
    <3>3. QED
      BY <3>2
  <2> HIDE DEF st, index
  <2>4. IsStack(st, N, index, N)
    BY <2>2, <2>3 DEF IsStack
  <2>5. QED
    BY <1>1, <2>4 DEF st
<1>3. IsOrder(it.x, list)
  BY <1>1, ListIsOrder
<1>4. QED
  BY <1>0, <1>1, <1>2, <1>3 DEF IsIterator, Fresh, N

\* The turns that are left after the first call.
LEMMA OdometerStart ==
    ASSUME NEW N \in Nat, N # 0, NEW F, Factors(F, N)
    PROVE  Odometer(N, F, [d \in 0 .. N - 1 |-> 0], [d \in 0 .. N - 1 |-> F[d + 1] - 1], 1)
<1>1. /\ F \in [0 .. N -> Nat \ {0}] /\ F[0] = 1
      /\ \A d \in 1 .. N : F[d] = d * F[d - 1]
  BY DEF Factors
<1> DEFINE index == [d \in 0 .. N - 1 |-> 0]
           rest == [d \in 0 .. N - 1 |-> F[d + 1] - 1]
<1>2. F[1] = 1
  <2>1. 1 \in 1 .. N /\ 1 - 1 = 0
    OBVIOUS
  <2>2. F[1] = 1 * F[0]
    BY <1>1, <2>1
  <2>3. QED
    BY <1>1, <2>2
<1>3. \A d \in 0 .. N - 1 : F[d + 1] \in Nat
  <2>1. F \in [0 .. N -> Nat \ {0}]
    BY <1>1
  <2>2. \A d \in 0 .. N - 1 : d + 1 \in 0 .. N
    OBVIOUS
  <2>3. QED
    BY <2>1, <2>2
<1>4. ASSUME NEW d \in 1 .. N - 1 PROVE rest[d] = rest[d - 1] + (d - index[d]) * F[d]
  <2>1. d + 1 \in 1 .. N /\ (d + 1) - 1 = d /\ d \in 0 .. N - 1 /\ d - 1 \in 0 .. N - 1 /\ (d - 1) + 1 = d /\ d \in Int
    OBVIOUS
  <2>2. F[d + 1] = (d + 1) * F[d]
    BY <1>1, <2>1
  <2>3. F[d] \in Int
    BY <1>1, <2>1
  <2>4. \A a, f \in Int : (a + 1) * f = f + a * f
    OBVIOUS
  <2>5. (d + 1) * F[d] = F[d] + d * F[d] /\ d * F[d] \in Int
    <3>1. d * F[d] \in Int
      BY <2>1, <2>3
    <3>2. QED
      BY <2>1, <2>3, <2>4, <3>1
  <2>6. rest[d] = F[d + 1] - 1 /\ rest[d - 1] = F[d] - 1 /\ d - index[d] = d
    BY <2>1
  <2> HIDE DEF rest, index
  <2>7. QED
    BY <2>2, <2>3, <2>5, <2>6
<1>5. rest[N - 1] + 1 = F[N]
  BY <1>1
<1>6. index \in [0 .. N - 1 -> Nat] /\ \A d \in 0 .. N - 1 : index[d] <= d
  OBVIOUS
<1>7. rest \in [0 .. N - 1 -> Int] /\ rest[0] = 0
  BY <1>2, <1>3
<1> HIDE DEF index, rest
<1>8. Odometer(N, F, index, rest, 1)
  BY <1>4, <1>5, <1>6, <1>7 DEF Odometer
<1>9. QED
  BY <1>8 DEF index, rest

\* The turns that are left after another call.
LEMMA OdometerStep ==
    ASSUME NEW N \in Nat, N # 0, NEW F, Factors(F, N), NEW index, NEW rest,
           NEW returned \in Nat, Odometer(N, F, index, rest, returned),
           NEW D \in Nat, Due(D, N, index, rest)
    PROVE  Odometer(N, F, Advanced(N, index, D),
                    [d \in 0 .. N - 1 |-> IF d < D THEN F[d + 1] - 1 ELSE rest[d] - 1], returned + 1)
<1>1. /\ F \in [0 .. N -> Nat \ {0}] /\ F[0] = 1
      /\ \A d \in 1 .. N : F[d] = d * F[d - 1]
  BY DEF Factors
<1>2. /\ index \in [0 .. N - 1 -> Nat] /\ \A d \in 0 .. N - 1 : index[d] <= d
      /\ rest \in [0 .. N - 1 -> Int] /\ rest[0] = 0
      /\ \A d \in 1 .. N - 1 : rest[d] = rest[d - 1] + (d - index[d]) * F[d]
      /\ rest[N - 1] + returned = F[N]
  BY DEF Odometer
<1>3. D \in 1 .. N - 1 /\ index[D] < D /\ rest[D - 1] = 0
  BY DEF Due
<1> DEFINE next == Advanced(N, index, D)
           left == [d \in 0 .. N - 1 |-> IF d < D THEN F[d + 1] - 1 ELSE rest[d] - 1]
<1>4. \A d \in 0 .. N - 1 : next[d] = IF d < D THEN 0 ELSE IF d = D THEN index[d] + 1 ELSE index[d]
  BY DEF Advanced
<1>5. next \in [0 .. N - 1 -> Nat]
  BY <1>2, AdvancedTypes
<1>20. /\ F \in [0 .. N -> Nat \ {0}] /\ rest \in [0 .. N - 1 -> Int]
       /\ index \in [0 .. N - 1 -> Nat] /\ \A d \in 0 .. N - 1 : index[d] <= d
  BY <1>1, <1>2
<1>6. \A d \in 0 .. N - 1 : F[d + 1] \in Int /\ F[d] \in Int /\ rest[d] \in Int /\ index[d] \in Int
  <2>1. \A d \in 0 .. N - 1 : d + 1 \in 0 .. N /\ d \in 0 .. N
    OBVIOUS
  <2>2. QED
    BY <1>20, <2>1
<1>7. left \in [0 .. N - 1 -> Int]
  BY <1>6
<1>8. \A d \in 0 .. N - 1 : left[d] = IF d < D THEN F[d + 1] - 1 ELSE rest[d] - 1
  OBVIOUS
<1> HIDE DEF next, left
<1>9. ASSUME NEW d \in 0 .. N - 1 PROVE next[d] <= d
  <2>1. next[d] = IF d < D THEN 0 ELSE IF d = D THEN index[d] + 1 ELSE index[d]
    BY <1>4
  <2>2. index[d] \in Int /\ index[d] <= d /\ index[D] < D /\ D \in Int /\ d \in Int
    <3>1. index[d] \in Int /\ d \in Int /\ D \in Int
      BY <1>6
    <3>2. index[d] <= d
      BY <1>20
    <3>3. QED
      BY <1>3, <3>1, <3>2
  <2>3. QED
    BY <2>1, <2>2
<1>10. left[0] = 0
  <2>1. 1 \in 1 .. N /\ 1 - 1 = 0 /\ 0 \in 0 .. N - 1 /\ 0 < D /\ 0 + 1 = 1
    BY <1>3
  <2>2. F[1] = 1 * F[0]
    BY <1>1, <2>1
  <2>3. F[0] = 1
    BY <1>1
  <2>4. QED
    BY <1>8, <2>1, <2>2, <2>3
<1>11. left[N - 1] + (returned + 1) = F[N]
  <2>1. N - 1 \in 0 .. N - 1 /\ ~(N - 1 < D)
    BY <1>3
  <2>2. left[N - 1] = rest[N - 1] - 1 /\ rest[N - 1] \in Int
    BY <1>6, <1>8, <2>1
  <2>3. QED
    BY <1>2, <2>2
<1>12. ASSUME NEW d \in 1 .. N - 1 PROVE left[d] = left[d - 1] + (d - next[d]) * F[d]
  <2>1. d \in 0 .. N - 1 /\ d - 1 \in 0 .. N - 1 /\ (d - 1) + 1 = d /\ d \in Int /\ D \in Int
        /\ d + 1 \in 1 .. N /\ (d + 1) - 1 = d
    BY <1>3
  <2>2. F[d] \in Int /\ F[d + 1] = (d + 1) * F[d] /\ rest[d] \in Int /\ rest[d - 1] \in Int /\ index[d] \in Int
    <3>1. F[d + 1] = (d + 1) * F[d]
      BY <1>1, <2>1
    <3>2. QED
      BY <1>6, <2>1, <3>1
  <2>3. rest[d] = rest[d - 1] + (d - index[d]) * F[d]
    BY <1>2
  <2>4. CASE d < D
    <3>1. \A a, f \in Int : (a + 1) * f = f + a * f
      OBVIOUS
    <3>2. (d + 1) * F[d] = F[d] + d * F[d] /\ d * F[d] \in Int
      <4>1. d * F[d] \in Int
        BY <2>1, <2>2
      <4>2. QED
        BY <2>1, <2>2, <3>1, <4>1
    <3>3. left[d] = F[d + 1] - 1 /\ left[d - 1] = F[d] - 1 /\ d - next[d] = d
      <4>1. d - 1 < D
        BY <2>1, <2>4
      <4>2. QED
        BY <1>4, <1>8, <2>1, <2>4, <4>1
    <3>4. QED
      BY <2>2, <3>2, <3>3
  <2>5. CASE d = D
    <3>1. \A a, f \in Int : a * f = f + (a - 1) * f
      OBVIOUS
    <3>2. d - index[d] \in Int /\ (d - index[d]) * F[d] = F[d] + ((d - index[d]) - 1) * F[d]
      BY <2>1, <2>2, <3>1
    <3>3. ((d - index[d]) - 1) * F[d] \in Int
      <4>1. (d - index[d]) - 1 \in Int
        BY <3>2
      <4>2. \A a, f \in Int : a * f \in Int
        OBVIOUS
      <4>3. QED
        BY <2>2, <4>1, <4>2
    <3>4. left[d] = rest[d] - 1 /\ left[d - 1] = F[d] - 1
      <4>1. d - 1 < D /\ ~(d < D)
        BY <2>1, <2>5
      <4>2. QED
        BY <1>8, <2>1, <4>1
    <3>5. d - next[d] = (d - index[d]) - 1
      <4>1. next[d] = index[d] + 1
        BY <1>4, <2>1, <2>5
      <4>2. QED
        BY <2>1, <2>2, <4>1
    <3>6. rest[d - 1] = 0
      BY <1>3, <2>5
    <3>7. QED
      BY <2>2, <2>3, <3>2, <3>3, <3>4, <3>5, <3>6
  <2>6. CASE d > D
    <3>1. left[d] = rest[d] - 1 /\ left[d - 1] = rest[d - 1] - 1 /\ next[d] = index[d]
      <4>1. ~(d - 1 < D) /\ ~(d < D) /\ d # D
        BY <2>1, <2>6
      <4>2. QED
        BY <1>4, <1>8, <2>1, <4>1
    <3>2. (d - index[d]) * F[d] \in Int
      <4>1. d - index[d] \in Int
        BY <2>1, <2>2
      <4>2. \A a, f \in Int : a * f \in Int
        OBVIOUS
      <4>3. QED
        BY <2>2, <4>1, <4>2
    <3>3. QED
      BY <2>2, <2>3, <3>1, <3>2
  <2>7. d < D \/ d = D \/ d > D
    BY <2>1
  <2>8. QED
    BY <2>4, <2>5, <2>6, <2>7
<1>13. Odometer(N, F, next, left, returned + 1)
  BY <1>5, <1>7, <1>9, <1>10, <1>11, <1>12 DEF Odometer
<1>14. QED
  BY <1>13 DEF next, left

\* A call of next: what it returns is an order of the list, and so is what the calls after
\* it return.
LEMMA NextIsIterator ==
    ASSUME NEW list, list \in Seq(ToSet(list)), NEW it, IsIterator(it, list), HasNext(it)
    PROVE  /\ IsIterator(NextOrder(it), list)
           /\ NextOrder(it).iterations = it.iterations + 1
           /\ it.iterations = 0 => NextOrder(it).x = it.x
<1> DEFINE N == Len(list)
           r == DoNext(it.x, it.stack)
           after == NextOrder(it)
<1>1. /\ IsOrder(it.x, list) /\ it.max = Factorial(N) /\ it.iterations \in Nat
      /\ N # 0 => Fresh(it, N) \/ Running(it, N)
  BY DEF IsIterator
<1>2. N \in Nat /\ N # 0 /\ it.iterations < Factorial(N)
  <2>1. N \in Nat /\ it.iterations < Factorial(N)
    BY <1>1 DEF HasNext
  <2>2. N # 0
    <3>1. Factorial(0) = 0
      BY DEF Factorial
    <3>2. QED
      BY <1>1, <2>1, <3>1
  <2>3. QED
    BY <2>1, <2>2
<1>3. Len(it.x) = N
  BY <1>1, OrderParts
<1>4. /\ after.x = r.x /\ after.stack = r.stack /\ after.max = it.max
      /\ after.iterations = it.iterations + 1
  BY DEF NextOrder
<1>5. after.iterations \in Nat /\ after.iterations # 0
  BY <1>1, <1>4
<1> HIDE DEF N, r, after
<1>6. CASE Fresh(it, N)
  <2> DEFINE index == [d \in 0 .. N - 1 |-> 0]
  <2>1. it.iterations = 0 /\ IsStack(it.stack, N, index, N)
    BY <1>6 DEF Fresh
  <2>2. PICK F : Factors(F, N)
    BY <1>2, FactorsExist
  <2>3. Odometer(N, F, index, [d \in 0 .. N - 1 |-> F[d + 1] - 1], after.iterations)
    <3>1. after.iterations = 1
      BY <1>4, <2>1
    <3>2. QED
      BY <1>2, <2>2, <3>1, OdometerStart
  <2> HIDE DEF index
  <2>4. r.x = it.x /\ IsStack(r.stack, N, index, N - 1)
    BY <1>2, <1>3, <2>1, DoNextFirst DEF r
  <2>5. Running(after, N)
    BY <1>4, <1>5, <2>2, <2>3, <2>4 DEF Running
  <2>6. QED
    BY <1>1, <1>4, <1>5, <2>4, <2>5 DEF IsIterator, N, after
<1>7. CASE Running(it, N)
  <2>1. PICK F, index, rest : /\ Factors(F, N) /\ Odometer(N, F, index, rest, it.iterations)
                              /\ IsStack(it.stack, N, index, N - 1)
    BY <1>7 DEF Running
  <2>2. F \in [0 .. N -> Nat \ {0}] /\ it.iterations < F[N]
    BY <1>2, <2>1 DEF Factors
  <2>3. N = Len(list)
    BY DEF N
  <2>4. /\ IsOrder(r.x, list)
        /\ \E D \in Nat : /\ Due(D, N, index, rest)
                          /\ IsStack(r.stack, N, Advanced(N, index, D), N - 1)
    <3> DEFINE k == it.iterations
               x == it.x
               stack == it.stack
    <3>1. k \in Nat /\ Odometer(N, F, index, rest, k) /\ k < F[N] /\ IsOrder(x, list) /\ Len(x) = N
          /\ IsStack(stack, N, index, N - 1) /\ r = DoNext(x, stack)
      BY <1>1, <1>3, <2>1, <2>2 DEF r
    <3> HIDE DEF k, x, stack
    <3>2. QED
      BY <1>2, <2>2, <2>3, <3>1, DoNextLater
  <2>5. PICK D \in Nat : Due(D, N, index, rest) /\ IsStack(r.stack, N, Advanced(N, index, D), N - 1)
    BY <2>4
  <2>6. Odometer(N, F, Advanced(N, index, D),
                 [d \in 0 .. N - 1 |-> IF d < D THEN F[d + 1] - 1 ELSE rest[d] - 1],
                 after.iterations)
    BY <1>1, <1>2, <1>4, <2>1, <2>5, OdometerStep, SMTT(30)
  <2>7. Running(after, N)
    BY <1>4, <1>5, <2>1, <2>5, <2>6 DEF Running
  <2>8. it.iterations # 0
    BY <1>7 DEF Running
  <2>9. QED
    BY <1>1, <1>4, <1>5, <2>4, <2>7, <2>8 DEF IsIterator, N, after
<1>8. QED
  BY <1>1, <1>2, <1>6, <1>7

\* What the definition of Orders says of i.
OrderStep(list, U, i) == IF i = 0 THEN Permutation(list) ELSE NextOrder(U[i - 1])

\* The function that Orders is defined by exists.
LEMMA OrderStepsExist ==
    ASSUME NEW M \in Nat, NEW list
    PROVE  \E U : U = [i \in 0 .. M |-> OrderStep(list, U, i)]
<1> DEFINE Good(F, m) == F = [i \in 0 .. m |-> OrderStep(list, F, i)]
           T == {m \in Nat : \E F : Good(F, m)}
<1>1. 0 \in T
  <2>1. Good([n \in 0 .. 0 |-> OrderStep(list, <<>>, 0)], 0)
    BY DEF OrderStep
  <2>2. QED
    BY <2>1
<1>2. ASSUME NEW m \in Nat, m \in T PROVE m + 1 \in T
  <2>1. PICK U : Good(U, m)
    BY <1>2
  <2> DEFINE W == [n \in 0 .. m + 1 |-> IF n <= m THEN U[n] ELSE OrderStep(list, U, n)]
  <2>2. \A n \in 0 .. m : W[n] = U[n] /\ U[n] = OrderStep(list, U, n)
    BY <2>1
  <2>3. W[m + 1] = OrderStep(list, U, m + 1) /\ W = [n \in 0 .. m + 1 |-> W[n]]
    OBVIOUS
  <2>4. ASSUME NEW n \in 0 .. m + 1 PROVE W[n] = OrderStep(list, W, n)
    <3> HIDE DEF W
    <3>1. CASE n = m + 1
      <4>1. n # 0 /\ n - 1 = m /\ m \in 0 .. m
        BY <3>1
      <4>2. QED
        BY <3>1, <4>1, <2>2, <2>3 DEF OrderStep
    <3>2. CASE n = 0
      BY <2>2, <3>2 DEF OrderStep
    <3>3. CASE n # 0 /\ n # m + 1
      <4>1. n \in 0 .. m /\ n - 1 \in 0 .. m
        BY <3>3
      <4>2. QED
        BY <3>3, <4>1, <2>2 DEF OrderStep
    <3>4. QED
      BY <3>1, <3>2, <3>3
  <2>5. Good(W, m + 1)
    <3> HIDE DEF W
    <3>1. QED
      BY <2>3, <2>4
  <2> HIDE DEF Good, W
  <2>6. QED
    BY <2>5
<1>3. Nat \subseteq T
  <2> HIDE DEF T
  <2>1. QED
    BY <1>1, <1>2, SetInduction
<1>4. QED
  BY <1>3

\* Orders: what the iterator returns are orders of the list, and the list is the first one.
LEMMA OrdersOfList ==
    ASSUME NEW list, list \in Seq(ToSet(list)), list # <<>>
    PROVE  /\ Factorial(Len(list)) \in Nat \ {0}
           /\ DOMAIN Orders(list) = 1 .. Factorial(Len(list))
           /\ \A i \in DOMAIN Orders(list) : IsOrder(Orders(list)[i], list)
           /\ Orders(list)[1] = list
<1> DEFINE M == Factorial(Len(list))
           Good(F) == F = [i \in 0 .. M |-> OrderStep(list, F, i)]
           U == CHOOSE F : Good(F)
<1>1. M \in Nat \ {0}
  <2>1. Len(list) \in Nat /\ Len(list) # 0
    OBVIOUS
  <2>2. PICK F : Factors(F, Len(list))
    BY <2>1, FactorsExist
  <2>3. F \in [0 .. Len(list) -> Nat \ {0}] /\ M = F[Len(list)]
    BY <2>2 DEF Factors
  <2> HIDE DEF M
  <2>4. QED
    BY <2>1, <2>3
<1>2. Orders(list) = [i \in 1 .. M |-> U[i].x]
  BY DEF Orders, OrderStep
<1> HIDE DEF M
<1>3. \E F : Good(F)
  BY <1>1, OrderStepsExist
<1>4. Good(U)
  BY <1>3
<1> HIDE DEF U
<1>5. \A i \in 0 .. M : U[i] = OrderStep(list, U, i)
  BY <1>4
<1>6. U[0] = Permutation(list) /\ \A i \in 1 .. M : U[i] = NextOrder(U[i - 1])
  <2>1. 0 \in 0 .. M /\ \A i \in 1 .. M : i \in 0 .. M /\ i # 0
    BY <1>1
  <2>2. QED
    BY <1>5, <2>1 DEF OrderStep
<1> DEFINE Inv(i) == IsIterator(U[i], list) /\ U[i].iterations = i
           T == {i \in Nat : i <= M => Inv(i)}
<1>7. 0 \in T
  BY <1>6, PermutationIsIterator
<1>8. ASSUME NEW i \in Nat, i \in T PROVE i + 1 \in T
  <2>0. SUFFICES ASSUME i + 1 <= M PROVE Inv(i + 1)
    OBVIOUS
  <2>1. i <= M /\ i < M /\ i + 1 \in 1 .. M /\ (i + 1) - 1 = i
    BY <1>1, <2>0
  <2> DEFINE it == U[i]
  <2>2. IsIterator(it, list) /\ it.iterations = i /\ U[i + 1] = NextOrder(it)
    BY <1>6, <1>8, <2>1
  <2> HIDE DEF it
  <2>3. HasNext(it)
    BY <2>1, <2>2 DEF HasNext, IsIterator, M
  <2>4. IsIterator(NextOrder(it), list) /\ NextOrder(it).iterations = it.iterations + 1
    BY <2>2, <2>3, NextIsIterator
  <2>5. QED
    BY <2>2, <2>4
<1>9. Nat \subseteq T
  <2> HIDE DEF T
  <2>1. QED
    BY <1>7, <1>8, SetInduction
<1>10. ASSUME NEW i \in 1 .. M PROVE IsOrder(U[i].x, list)
  <2>1. i \in Nat /\ i <= M
    BY <1>1
  <2>2. Inv(i)
    BY <1>9, <2>1
  <2>3. QED
    BY <2>2 DEF IsIterator
<1>11. U[1].x = list
  <2>1. 1 \in 1 .. M /\ 1 - 1 = 0 /\ 0 < M
    BY <1>1
  <2> DEFINE it == Permutation(list)
  <2>2. U[1] = NextOrder(it)
    BY <1>6, <2>1
  <2>3. IsIterator(it, list) /\ it.x = list /\ it.iterations = 0
    BY PermutationIsIterator
  <2> HIDE DEF it
  <2>4. HasNext(it)
    BY <2>1, <2>3 DEF HasNext, IsIterator, M
  <2>5. NextOrder(it).x = it.x
    BY <2>3, <2>4, NextIsIterator
  <2>6. QED
    BY <2>2, <2>3, <2>5
<1>12. QED
  BY <1>1, <1>2, <1>10, <1>11 DEF M

------------------------------------------------------------------------------
(* Lists of dimensions.                                                    *)

\* FirstFit returns a result that is a match.
LEMMA FirstFitFits ==
    ASSUME NEW tried, NEW n \in Nat, DOMAIN tried = 1 .. n, FirstFit(tried).ok
    PROVE  \E w \in 1 .. n : tried[w].ok /\ FirstFit(tried) = tried[w]
<1> DEFINE fits == {i \in DOMAIN tried : tried[i].ok}
<1>1. CASE fits = {}
  <2>1. FirstFit(tried) = Fails
    BY <1>1 DEF FirstFit
  <2>2. ~Fails.ok
    BY DEF Fails
  <2>3. QED
    BY <2>1, <2>2
<1>2. CASE fits # {}
  <2>1. fits \in SUBSET (0 .. n)
    OBVIOUS
  <2>2. Min(fits) \in fits
    <3> HIDE DEF fits
    <3>1. QED
      BY <1>2, <2>1, MinProperties
  <2>3. FirstFit(tried) = tried[Min(fits)]
    BY <1>2 DEF FirstFit
  <2> DEFINE w == Min(fits)
  <2>4. w \in 1 .. n /\ tried[w].ok /\ FirstFit(tried) = tried[w]
    BY <2>2, <2>3
  <2> HIDE DEF w
  <2>5. QED
    BY <2>4
<1>3. QED
  BY <1>1, <1>2

\* big has what small has.
Extends(big, small) == DOMAIN small \subseteq DOMAIN big /\ \A x \in DOMAIN small : big[x] = small[x]

\* All that big has and small has not are names in list.
Binds(big, small, list) ==
    \A x \in DOMAIN big : x \in DOMAIN small \/ \E i \in DOMAIN list : x = list[i].d

\* mu gives the names the values that m gives them.
Obeys(mu, m) == \A x \in DOMAIN m : mu[x] = m[x]

\* The maps that the comparison of two lists can meet.
Values(listB, m) == {listB[j].d : j \in DOMAIN listB} \cup {m[x] : x \in DOMAIN m}

\* The calls of matchDimList for suffixes of two lists.
Places(listA, listB, values) ==
    (1 .. Len(listA) + 1) \X (1 .. Len(listB) + 1) \X DimMaps(values)

\* What is left to compare.
Size(listA, listB, q) == (Len(listA) + 1 - q[1]) + (Len(listB) + 1 - q[2])

\* The ways at two places.
WaysAt(listA, listB, q) == WaysOf(DimAt(listA, q[1]), DimAt(listB, q[2]), q[1], q[2], q[3])

\* Both lists are at their end.
AtEnd(listA, listB, q) == q[1] > Len(listA) /\ q[2] > Len(listB)

\* What the definition of MatchDimList says of two places.
FitStep(listA, listB, fit, q) ==
    IF AtEnd(listA, listB, q) THEN Fits(q[3], EmptyMap)
    ELSE FirstFit([w \in DOMAIN WaysAt(listA, listB, q) |->
                     IF WaysAt(listA, listB, q)[w].can THEN fit[WaysAt(listA, listB, q)[w].to] ELSE Fails])

\* A list of dimensions.
AreDimensions(list) == list \in Seq(ToSet(list))

\* A dimension that is there, or has a modifier, is one of the list.
LEMMA DimAtPlaces ==
    ASSUME NEW list, AreDimensions(list), NEW i \in 1 .. Len(list) + 1
    PROVE  /\ DimAt(list, i) # NoDim \/ Skippable(DimAt(list, i)) \/ Repeatable(DimAt(list, i)) =>
                i \in 1 .. Len(list) /\ DimAt(list, i) = list[i]
<1>1. DOMAIN list = 1 .. Len(list)
  BY DEF AreDimensions
<1>2. CASE i \in DOMAIN list
  BY <1>1, <1>2 DEF DimAt
<1>3. CASE i \notin DOMAIN list
  <2>1. DimAt(list, i) = NoDim
    BY <1>3 DEF DimAt
  <2>2. ~Skippable(NoDim) /\ ~Repeatable(NoDim)
    BY DEF Skippable, Repeatable, NoDim
  <2>3. QED
    BY <2>1, <2>2
<1>4. QED
  BY <1>2, <1>3

\* What has to hold for each of the five ways, and where it leads.
LEMMA WaysParts ==
    ASSUME NEW a, NEW b, NEW i, NEW j, NEW m
    PROVE  LET ways == WaysOf(a, b, i, j, m)
               with == IF a.d \in DimNames THEN Bind(m, a.d, b.d) ELSE m
               match == FirstsMatch(a, b, m)
           IN  /\ DOMAIN ways = 1 .. 5
               /\ ways[1].to = <<i + 1, j + 1, with>> /\ (ways[1].can <=> match)
               /\ ways[2].to = <<i + 1, j, with>> /\ (ways[2].can <=> match /\ Repeatable(b))
               /\ ways[3].to = <<i + 1, j, m>> /\ (ways[3].can <=> Skippable(a))
               /\ ways[4].to = <<i, j + 1, with>> /\ (ways[4].can <=> match /\ Repeatable(a))
               /\ ways[5].to = <<i, j + 1, m>> /\ (ways[5].can <=> Skippable(b))
<1> DEFINE with == IF a.d \in DimNames THEN Bind(m, a.d, b.d) ELSE m
           match == FirstsMatch(a, b, m)
           w1 == [can |-> match, to |-> <<i + 1, j + 1, with>>]
           w2 == [can |-> match /\ Repeatable(b), to |-> <<i + 1, j, with>>]
           w3 == [can |-> Skippable(a), to |-> <<i + 1, j, m>>]
           w4 == [can |-> match /\ Repeatable(a), to |-> <<i, j + 1, with>>]
           w5 == [can |-> Skippable(b), to |-> <<i, j + 1, m>>]
<1>1. WaysOf(a, b, i, j, m) = <<w1, w2, w3, w4, w5>>
  BY DEF WaysOf, Ways
<1>2. w1.to = <<i + 1, j + 1, with>> /\ (w1.can <=> match)
  OBVIOUS
<1>3. w2.to = <<i + 1, j, with>> /\ (w2.can <=> match /\ Repeatable(b))
  OBVIOUS
<1>4. w3.to = <<i + 1, j, m>> /\ (w3.can <=> Skippable(a))
  OBVIOUS
<1>5. w4.to = <<i, j + 1, with>> /\ (w4.can <=> match /\ Repeatable(a))
  OBVIOUS
<1>6. w5.to = <<i, j + 1, m>> /\ (w5.can <=> Skippable(b))
  OBVIOUS
<1> HIDE DEF w1, w2, w3, w4, w5
<1> DEFINE ws == <<w1, w2, w3, w4, w5>>
<1>7. DOMAIN ws = 1 .. 5 /\ ws[1] = w1 /\ ws[2] = w2 /\ ws[3] = w3 /\ ws[4] = w4 /\ ws[5] = w5
  OBVIOUS
<1> HIDE DEF ws, with, match
<1>8. WaysOf(a, b, i, j, m) = ws
  BY <1>1 DEF ws
<1>9. QED
  BY <1>2, <1>3, <1>4, <1>5, <1>6, <1>7, <1>8 DEF with, match

\* Binding a name that is free, or has that value already, extends the map.
LEMMA BindParts ==
    ASSUME NEW values, NEW m \in DimMaps(values), NEW d \in DimNames, NEW v \in values,
           d \in DOMAIN m => m[d] = v
    PROVE  /\ Bind(m, d, v) \in DimMaps(values) /\ Extends(Bind(m, d, v), m)
           /\ d \in DOMAIN Bind(m, d, v) /\ Bind(m, d, v)[d] = v
<1>1. PICK names \in SUBSET DimNames : m \in [names -> values]
  BY DEF DimMaps
<1>2. DOMAIN Bind(m, d, v) = names \cup {d} /\ \A x \in names \cup {d} : Bind(m, d, v)[x] = IF x = d THEN v ELSE m[x]
  BY <1>1 DEF Bind
<1>3. Bind(m, d, v) \in [names \cup {d} -> values]
  BY <1>1 DEF Bind
<1>4. names \cup {d} \in SUBSET DimNames
  OBVIOUS
<1>5. QED
  BY <1>1, <1>2, <1>3, <1>4 DEF DimMaps, Extends

\* Binding a name of a list binds one of its names.
LEMMA BindBinds ==
    ASSUME NEW m, NEW list, NEW i \in DOMAIN list, NEW v
    PROVE  Binds(Bind(m, list[i].d, v), m, list)
BY DEF Bind, Binds

\* What adds nothing binds nothing.
LEMMA BindsNothing == \A m, list : Binds(m, m, list)
BY DEF Binds

\* Names that are bound on the way are bound in the end.
LEMMA BindsTransitive ==
    ASSUME NEW a, NEW b, NEW c, NEW list, Binds(a, b, list), Binds(b, c, list)
    PROVE  Binds(a, c, list)
BY DEF Binds

\* What extends an extension extends the first map.
LEMMA ExtendsTransitive ==
    ASSUME NEW a, NEW b, NEW c, Extends(a, b), Extends(b, c)
    PROVE  Extends(a, c)
BY DEF Extends

\* Sizes that obey a map obey what it extends.
LEMMA ObeysLess ==
    ASSUME NEW mu, NEW a, NEW b, Obeys(mu, a), Extends(a, b)
    PROVE  Obeys(mu, b)
BY DEF Obeys, Extends

\* The step along a way: each list is left where it is or has one dimension less; what is
\* consumed is matched; what is kept may be repeated and what is left out skipped.
Leads(listA, listB, values, q, to) ==
    LET i == q[1]
        j == q[2]
        met == /\ i \in 1 .. Len(listA) /\ j \in 1 .. Len(listB)
               /\ \A mu : Obeys(mu, to[3]) => Stands(listA[i].d, listB[j].d, mu)
    IN  /\ to \in Places(listA, listB, values) /\ Extends(to[3], q[3]) /\ Binds(to[3], q[3], listA)
        /\ \/ met /\ to[1] = i + 1 /\ to[2] = j + 1
           \/ met /\ to[1] = i + 1 /\ to[2] = j /\ Repeatable(listB[j])
           \/ i \in 1 .. Len(listA) /\ to[1] = i + 1 /\ to[2] = j /\ Skippable(listA[i])
           \/ met /\ to[1] = i /\ to[2] = j + 1 /\ Repeatable(listA[i])
           \/ j \in 1 .. Len(listB) /\ to[1] = i /\ to[2] = j + 1 /\ Skippable(listB[j])

\* Each of the five ways that matchDimList may go is a step of Leads.
LEMMA WaysLead ==
    ASSUME NEW listA, AreDimensions(listA), NEW listB, AreDimensions(listB),
           NEW values, \A j \in DOMAIN listB : listB[j].d \in values,
           NEW q \in Places(listA, listB, values),
           NEW w \in 1 .. 5, WaysAt(listA, listB, q)[w].can
    PROVE  Leads(listA, listB, values, q, WaysAt(listA, listB, q)[w].to)
<1> DEFINE i == q[1]
           j == q[2]
           m == q[3]
           a == DimAt(listA, i)
           b == DimAt(listB, j)
           with == IF a.d \in DimNames THEN Bind(m, a.d, b.d) ELSE m
           ways == WaysOf(a, b, i, j, m)
           to == ways[w].to
<1>0. ways = WaysAt(listA, listB, q)
  BY DEF WaysAt
<1>1. /\ i \in 1 .. Len(listA) + 1 /\ j \in 1 .. Len(listB) + 1 /\ m \in DimMaps(values)
  BY DEF Places
<1>2. /\ Len(listA) \in Nat /\ DOMAIN listA = 1 .. Len(listA)
      /\ Len(listB) \in Nat /\ DOMAIN listB = 1 .. Len(listB)
  BY DEF AreDimensions
<1> HIDE DEF i, j, m
<1>3. /\ (a # NoDim \/ Skippable(a) \/ Repeatable(a)) => i \in 1 .. Len(listA) /\ a = listA[i]
      /\ (b # NoDim \/ Skippable(b) \/ Repeatable(b)) => j \in 1 .. Len(listB) /\ b = listB[j]
  BY <1>1, DimAtPlaces
<1>4. /\ ways[1].to = <<i + 1, j + 1, with>> /\ (ways[1].can => FirstsMatch(a, b, m))
      /\ ways[2].to = <<i + 1, j, with>> /\ (ways[2].can => FirstsMatch(a, b, m) /\ Repeatable(b))
      /\ ways[3].to = <<i + 1, j, m>> /\ (ways[3].can => Skippable(a))
      /\ ways[4].to = <<i, j + 1, with>> /\ (ways[4].can => FirstsMatch(a, b, m) /\ Repeatable(a))
      /\ ways[5].to = <<i, j + 1, m>> /\ (ways[5].can => Skippable(b))
  BY WaysParts
<1> HIDE DEF ways, a, b
<1> DEFINE met(n) == /\ i \in 1 .. Len(listA) /\ j \in 1 .. Len(listB) /\ n \in DimMaps(values) /\ Extends(n, m)
                     /\ Binds(n, m, listA)
                     /\ \A mu : Obeys(mu, n) => Stands(listA[i].d, listB[j].d, mu)
<1>5. ASSUME FirstsMatch(a, b, m) PROVE met(with) /\ a = listA[i] /\ b = listB[j]
  <2>1. a # NoDim /\ b # NoDim /\ (IF a.d \in DimNames THEN a.d \in DOMAIN m => m[a.d] = b.d ELSE a.d = b.d)
    BY <1>5 DEF FirstsMatch
  <2>2. i \in 1 .. Len(listA) /\ a = listA[i] /\ j \in 1 .. Len(listB) /\ b = listB[j]
    BY <1>3, <2>1
  <2>3. CASE a.d \in DimNames
    <3>1. b.d \in values /\ (a.d \in DOMAIN m => m[a.d] = b.d) /\ with = Bind(m, a.d, b.d)
      BY <1>2, <2>1, <2>2, <2>3
    <3>2. with \in DimMaps(values) /\ Extends(with, m) /\ a.d \in DOMAIN with /\ with[a.d] = b.d
      BY <1>1, <2>3, <3>1, BindParts
    <3>21. Binds(with, m, listA)
      <4>1. i \in DOMAIN listA /\ a.d = listA[i].d
        BY <1>2, <2>2
      <4> HIDE DEF with
      <4>2. QED
        BY <3>1, <4>1, BindBinds
    <3> HIDE DEF with
    <3>3. \A mu : Obeys(mu, with) => Stands(a.d, b.d, mu)
      BY <2>3, <3>2 DEF Obeys, Stands
    <3>4. QED
      BY <2>2, <3>2, <3>21, <3>3
  <2>4. CASE a.d \notin DimNames
    <3>1. with = m /\ a.d = b.d
      BY <2>1, <2>4
    <3>2. \A mu : Stands(a.d, b.d, mu)
      BY <2>4, <3>1 DEF Stands
    <3>3. Extends(m, m) /\ Binds(m, m, listA)
      BY BindsNothing DEF Extends
    <3> HIDE DEF with
    <3>4. QED
      BY <1>1, <2>2, <3>1, <3>2, <3>3
  <2>5. QED
    BY <2>3, <2>4
<1> HIDE DEF with
<1>6. Extends(m, m) /\ Binds(m, m, listA)
  BY BindsNothing DEF Extends
<1>7. CASE w = 1
  <2>1. met(with)
    BY <1>0, <1>4, <1>5, <1>7
  <2>2. to = <<i + 1, j + 1, with>> /\ i + 1 \in 1 .. Len(listA) + 1 /\ j + 1 \in 1 .. Len(listB) + 1
    BY <1>2, <1>4, <1>7, <2>1
  <2>3. to[1] = i + 1 /\ to[2] = j + 1 /\ to[3] = with /\ to \in Places(listA, listB, values)
    BY <2>1, <2>2 DEF Places
  <2> HIDE DEF to
  <2>4. QED
    BY <1>0, <2>1, <2>3 DEF Leads, i, j, m, to
<1>8. CASE w = 2
  <2>1. met(with) /\ Repeatable(listB[j])
    BY <1>0, <1>4, <1>5, <1>8
  <2>2. to = <<i + 1, j, with>> /\ i + 1 \in 1 .. Len(listA) + 1
    BY <1>2, <1>4, <1>8, <2>1
  <2>3. to[1] = i + 1 /\ to[2] = j /\ to[3] = with /\ to \in Places(listA, listB, values)
    BY <1>1, <2>1, <2>2 DEF Places
  <2> HIDE DEF to
  <2>4. QED
    BY <1>0, <2>1, <2>3 DEF Leads, i, j, m, to
<1>9. CASE w = 3
  <2>1. i \in 1 .. Len(listA) /\ Skippable(listA[i])
    BY <1>0, <1>3, <1>4, <1>9
  <2>2. to = <<i + 1, j, m>> /\ i + 1 \in 1 .. Len(listA) + 1
    BY <1>2, <1>4, <1>9, <2>1
  <2>3. to[1] = i + 1 /\ to[2] = j /\ to[3] = m /\ to \in Places(listA, listB, values)
    BY <1>1, <2>2 DEF Places
  <2> HIDE DEF to
  <2>4. QED
    BY <1>0, <1>6, <2>1, <2>3 DEF Leads, i, j, m, to
<1>10. CASE w = 4
  <2>1. met(with) /\ Repeatable(listA[i])
    BY <1>0, <1>4, <1>5, <1>10
  <2>2. to = <<i, j + 1, with>> /\ j + 1 \in 1 .. Len(listB) + 1
    BY <1>2, <1>4, <1>10, <2>1
  <2>3. to[1] = i /\ to[2] = j + 1 /\ to[3] = with /\ to \in Places(listA, listB, values)
    BY <1>1, <2>1, <2>2 DEF Places
  <2> HIDE DEF to
  <2>4. QED
    BY <1>0, <2>1, <2>3 DEF Leads, i, j, m, to
<1>11. CASE w = 5
  <2>1. j \in 1 .. Len(listB) /\ Skippable(listB[j])
    BY <1>0, <1>3, <1>4, <1>11
  <2>2. to = <<i, j + 1, m>> /\ j + 1 \in 1 .. Len(listB) + 1
    BY <1>2, <1>4, <1>11, <2>1
  <2>3. to[1] = i /\ to[2] = j + 1 /\ to[3] = m /\ to \in Places(listA, listB, values)
    BY <1>1, <2>2 DEF Places
  <2> HIDE DEF to
  <2>4. QED
    BY <1>0, <1>6, <2>1, <2>3 DEF Leads, i, j, m, to
<1>12. QED
  BY <1>7, <1>8, <1>9, <1>10, <1>11

\* Every way leaves less to compare, so the recursion of matchDimList ends.
LEMMA SizeShrinks ==
    ASSUME NEW listA, AreDimensions(listA), NEW listB, AreDimensions(listB), NEW values,
           NEW q \in Places(listA, listB, values)
    PROVE  /\ Size(listA, listB, q) \in Nat
           /\ \A to : Leads(listA, listB, values, q, to) =>
                to \in Places(listA, listB, values) /\ Size(listA, listB, to) < Size(listA, listB, q)
<1>1. Len(listA) \in Nat /\ Len(listB) \in Nat
  BY DEF AreDimensions
<1>2. q[1] \in 1 .. Len(listA) + 1 /\ q[2] \in 1 .. Len(listB) + 1
  BY DEF Places
<1>3. Size(listA, listB, q) \in Nat
  <2>1. \A a, b \in Nat : \A i \in 1 .. a + 1, j \in 1 .. b + 1 : (a + 1 - i) + (b + 1 - j) \in Nat
    OBVIOUS
  <2>2. QED
    BY <1>1, <1>2, <2>1 DEF Size
<1>4. ASSUME NEW to, Leads(listA, listB, values, q, to)
      PROVE  to \in Places(listA, listB, values) /\ Size(listA, listB, to) < Size(listA, listB, q)
  <2>1. to \in Places(listA, listB, values)
    BY <1>4 DEF Leads
  <2>2. \/ to[1] = q[1] + 1 /\ to[2] = q[2] + 1
        \/ to[1] = q[1] + 1 /\ to[2] = q[2]
        \/ to[1] = q[1] /\ to[2] = q[2] + 1
    BY <1>4 DEF Leads
  <2>3. (Len(listA) + 1 - to[1]) + (Len(listB) + 1 - to[2]) < (Len(listA) + 1 - q[1]) + (Len(listB) + 1 - q[2])
    <3>1. \A a, b, i, j \in Int : /\ (a + 1 - (i + 1)) + (b + 1 - (j + 1)) < (a + 1 - i) + (b + 1 - j)
                                 /\ (a + 1 - (i + 1)) + (b + 1 - j) < (a + 1 - i) + (b + 1 - j)
                                 /\ (a + 1 - i) + (b + 1 - (j + 1)) < (a + 1 - i) + (b + 1 - j)
      OBVIOUS
    <3>2. Len(listA) \in Int /\ Len(listB) \in Int /\ q[1] \in Int /\ q[2] \in Int
      BY <1>1, <1>2
    <3>3. QED
      BY <2>2, <3>1, <3>2
  <2>4. QED
    BY <2>1, <2>3 DEF Size
<1>5. QED
  BY <1>3, <1>4

\* A step only depends on what the ways lead to.
LEMMA FitStepLocal ==
    ASSUME NEW listA, NEW listB, NEW q, NEW f, NEW g,
           DOMAIN WaysAt(listA, listB, q) = 1 .. 5,
           \A w \in 1 .. 5 : WaysAt(listA, listB, q)[w].can =>
                f[WaysAt(listA, listB, q)[w].to] = g[WaysAt(listA, listB, q)[w].to]
    PROVE  FitStep(listA, listB, f, q) = FitStep(listA, listB, g, q)
<1> DEFINE ways == WaysAt(listA, listB, q)
           Tried(h) == [w \in DOMAIN ways |-> IF ways[w].can THEN h[ways[w].to] ELSE Fails]
<1>1. Tried(f) = Tried(g)
  <2> HIDE DEF ways
  <2>1. DOMAIN ways = 1 .. 5 /\ \A w \in 1 .. 5 : ways[w].can => f[ways[w].to] = g[ways[w].to]
    BY DEF ways
  <2>2. QED
    BY <2>1
<1>2. FitStep(listA, listB, f, q) = IF AtEnd(listA, listB, q) THEN Fits(q[3], EmptyMap) ELSE FirstFit(Tried(f))
  BY DEF FitStep
<1>3. FitStep(listA, listB, g, q) = IF AtEnd(listA, listB, q) THEN Fits(q[3], EmptyMap) ELSE FirstFit(Tried(g))
  BY DEF FitStep
<1> HIDE DEF Tried
<1>4. QED
  BY <1>1, <1>2, <1>3

\* The function that MatchDimList is defined by exists.
LEMMA FitExists ==
    ASSUME NEW listA, AreDimensions(listA), NEW listB, AreDimensions(listB),
           NEW values, \A j \in DOMAIN listB : listB[j].d \in values
    PROVE  \E f : f = [q \in Places(listA, listB, values) |-> FitStep(listA, listB, f, q)]
<1> DEFINE S == Places(listA, listB, values)
           Sz(q) == Size(listA, listB, q)
           Upto(n) == {q \in S : Sz(q) < n}
           St(f, q) == FitStep(listA, listB, f, q)
           Good(f, n) == f = [q \in Upto(n) |-> St(f, q)]
           T == {n \in Nat : \E f : Good(f, n)}
<1>1. \A q \in S : Sz(q) \in Nat
  BY SizeShrinks
<1>2. ASSUME NEW q \in S, NEW f, NEW g, \A to \in S : Sz(to) < Sz(q) => f[to] = g[to]
      PROVE  St(f, q) = St(g, q)
  <2>1. DOMAIN WaysAt(listA, listB, q) = 1 .. 5
    BY WaysParts DEF WaysAt
  <2>2. ASSUME NEW w \in 1 .. 5, WaysAt(listA, listB, q)[w].can
        PROVE  f[WaysAt(listA, listB, q)[w].to] = g[WaysAt(listA, listB, q)[w].to]
    <3> DEFINE to == WaysAt(listA, listB, q)[w].to
    <3>1. Leads(listA, listB, values, q, to)
      BY <2>2, WaysLead
    <3> HIDE DEF to
    <3>2. to \in S /\ Sz(to) < Sz(q)
      BY <3>1, SizeShrinks
    <3>3. f[to] = g[to]
      BY <1>2, <3>2
    <3>4. QED
      BY <3>3 DEF to
  <2>3. QED
    BY <2>1, <2>2, FitStepLocal
<1> HIDE DEF S, Sz, St
<1>3. 0 \in T
  <2>1. Upto(0) = {}
    BY <1>1
  <2>2. Good([q \in {} |-> 0], 0)
    BY <2>1
  <2>3. QED
    BY <2>2
<1>4. ASSUME NEW n \in Nat, n \in T PROVE n + 1 \in T
  <2>1. PICK f : Good(f, n)
    BY <1>4
  <2> DEFINE g == [q \in Upto(n + 1) |-> St(f, q)]
  <2>2. \A q \in Upto(n) : q \in Upto(n + 1) /\ g[q] = f[q]
    <3>1. \A q \in Upto(n) : q \in Upto(n + 1)
      BY <1>1
    <3>2. \A q \in Upto(n) : f[q] = St(f, q)
      BY <2>1
    <3>3. QED
      BY <3>1, <3>2
  <2>3. ASSUME NEW q \in Upto(n + 1) PROVE g[q] = St(g, q)
    <3>1. q \in S /\ \A to \in S : Sz(to) < Sz(q) => to \in Upto(n)
      BY <1>1
    <3>2. g[q] = St(f, q)
      OBVIOUS
    <3> HIDE DEF g
    <3>3. \A to \in S : Sz(to) < Sz(q) => f[to] = g[to]
      BY <2>2, <3>1
    <3>4. St(f, q) = St(g, q)
      BY <1>2, <3>1, <3>3
    <3>5. QED
      BY <3>2, <3>4
  <2>4. g = [q \in Upto(n + 1) |-> g[q]]
    OBVIOUS
  <2> HIDE DEF g
  <2>5. Good(g, n + 1)
    BY <2>3, <2>4
  <2> HIDE DEF Good
  <2>6. QED
    BY <2>5
<1>5. Nat \subseteq T
  <2> HIDE DEF T
  <2>1. QED
    BY <1>3, <1>4, SetInduction
<1> DEFINE N == Len(listA) + Len(listB) + 1
<1>6. N \in Nat /\ \A q \in S : Sz(q) < N
  <2>1. Len(listA) \in Nat /\ Len(listB) \in Nat
    BY DEF AreDimensions
  <2>2. \A q \in S : q[1] \in 1 .. Len(listA) + 1 /\ q[2] \in 1 .. Len(listB) + 1
    BY DEF S, Places
  <2>3. QED
    BY <2>1, <2>2 DEF Sz, Size
<1> HIDE DEF N
<1>7. Upto(N) = S
  BY <1>6
<1>8. PICK f : Good(f, N)
  BY <1>5, <1>6
<1>9. QED
  BY <1>7, <1>8 DEF S, St

------------------------------------------------------------------------------
(* A walk along the part of a list that begins at a place.                 *)

\* p walks along the list from the place i to its end.
WalkFrom(list, i, n, p) ==
    /\ p \in [1 .. n -> i .. Len(list)]
    /\ \A t, u \in 1 .. n : t <= u => p[t] <= p[u]
    /\ \A k \in i .. Len(list) :
        /\ Skippable(list[k]) \/ \E t \in 1 .. n : p[t] = k
        /\ Repeatable(list[k]) \/ \A t, u \in 1 .. n : p[t] = k /\ p[u] = k => t = u

\* The walk p with the place i in front.
Prepend(i, p, n) == [t \in 1 .. n + 1 |-> IF t = 1 THEN i ELSE p[t - 1]]

\* The places of p ascend.
Ascends(p, n) == \A t, u \in 1 .. n : t <= u => p[t] <= p[u]

\* What is known of a walk with a place in front.
Prepended(r, i, p, n, N) ==
    /\ r \in [1 .. n + 1 -> i .. N] /\ Ascends(r, n + 1)
    /\ r[1] = i
    /\ \A t \in 1 .. n : t + 1 \in 1 .. n + 1 /\ r[t + 1] = p[t]
    /\ \A t \in 1 .. n + 1 : t = 1 \/ (t - 1 \in 1 .. n /\ r[t] = p[t - 1])

\* An ascending walk with an earlier place in front ascends.
LEMMA PrependParts ==
    ASSUME NEW N \in Nat, NEW i \in 1 .. N, NEW j \in Int, i <= j, NEW n \in Nat,
           NEW p \in [1 .. n -> j .. N], Ascends(p, n)
    PROVE  Prepended(Prepend(i, p, n), i, p, n, N)
<1> DEFINE r == Prepend(i, p, n)
<1>1. \A t \in 1 .. n + 1 : r[t] = IF t = 1 THEN i ELSE p[t - 1]
  BY DEF Prepend
<1>2. \A t \in 1 .. n + 1 : t # 1 => t - 1 \in 1 .. n
  OBVIOUS
<1>3. \A t \in 1 .. n : p[t] \in j .. N
  OBVIOUS
<1>4. \A t \in 1 .. n + 1 : r[t] \in i .. N
  BY <1>1, <1>2, <1>3
<1>5. r \in [1 .. n + 1 -> i .. N]
  BY <1>4 DEF Prepend
<1> HIDE DEF r
<1>6. r[1] = i /\ \A t \in 1 .. n : t + 1 \in 1 .. n + 1 /\ t + 1 # 1 /\ (t + 1) - 1 = t
  BY <1>1
<1>7. \A t \in 1 .. n : r[t + 1] = p[t]
  BY <1>1, <1>6
<1>8. ASSUME NEW t \in 1 .. n + 1, NEW u \in 1 .. n + 1, t <= u PROVE r[t] <= r[u]
  <2>1. CASE t = 1
    BY <1>4, <1>6, <2>1
  <2>2. CASE t # 1
    <3>1. u # 1 /\ t - 1 \in 1 .. n /\ u - 1 \in 1 .. n /\ t - 1 <= u - 1
      BY <1>8, <2>2
    <3>2. r[t] = p[t - 1] /\ r[u] = p[u - 1]
      BY <1>1, <2>2, <3>1
    <3>3. QED
      BY <3>1, <3>2 DEF Ascends
  <2>3. QED
    BY <2>1, <2>2
<1>9. \A t \in 1 .. n + 1 : t = 1 \/ (t - 1 \in 1 .. n /\ r[t] = p[t - 1])
  BY <1>1, <1>2
<1>10. QED
  BY <1>5, <1>6, <1>7, <1>8, <1>9 DEF r, Prepended, Ascends

\* A walk from the next place on, with this place before it.
LEMMA WalkOn ==
    ASSUME NEW list, Len(list) \in Nat, NEW i \in 1 .. Len(list), NEW n \in Nat,
           NEW p, WalkFrom(list, i + 1, n, p)
    PROVE  WalkFrom(list, i, n + 1, Prepend(i, p, n))
<1> DEFINE N == Len(list)
           r == Prepend(i, p, n)
<1>1. /\ p \in [1 .. n -> i + 1 .. N] /\ \A t, u \in 1 .. n : t <= u => p[t] <= p[u]
      /\ \A k \in i + 1 .. N :
          /\ Skippable(list[k]) \/ \E t \in 1 .. n : p[t] = k
          /\ Repeatable(list[k]) \/ \A t, u \in 1 .. n : p[t] = k /\ p[u] = k => t = u
  BY DEF WalkFrom
<1>2. i + 1 \in Int /\ i <= i + 1 /\ N \in Nat /\ i \in 1 .. N
  OBVIOUS
<1>21. p \in [1 .. n -> i + 1 .. N] /\ Ascends(p, n)
  BY <1>1 DEF Ascends
<1> HIDE DEF N
<1>3. /\ r \in [1 .. n + 1 -> i .. N]
      /\ \A t, u \in 1 .. n + 1 : t <= u => r[t] <= r[u]
      /\ r[1] = i
      /\ \A t \in 1 .. n : t + 1 \in 1 .. n + 1 /\ r[t + 1] = p[t]
      /\ \A t \in 1 .. n + 1 : t = 1 \/ (t - 1 \in 1 .. n /\ r[t] = p[t - 1])
  <2>1. Prepended(r, i, p, n, N)
    BY <1>2, <1>21, PrependParts
  <2>2. QED
    BY <2>1 DEF Prepended, Ascends
<1> HIDE DEF r
<1>4. ASSUME NEW k \in i .. N
      PROVE  /\ Skippable(list[k]) \/ \E t \in 1 .. n + 1 : r[t] = k
             /\ Repeatable(list[k]) \/ \A t, u \in 1 .. n + 1 : r[t] = k /\ r[u] = k => t = u
  <2>1. CASE k = i
    <3>1. \E t \in 1 .. n + 1 : r[t] = k
      BY <1>3, <2>1
    <3>2. \A t \in 1 .. n + 1 : r[t] = k => t = 1
      <4>1. \A t \in 1 .. n : p[t] # k
        BY <1>1, <2>1
      <4>2. QED
        BY <1>3, <4>1
    <3>3. QED
      BY <3>1, <3>2
  <2>2. CASE k # i
    <3>0. k \in i + 1 .. N
      BY <2>2
    <3>1. ASSUME NEW t \in 1 .. n, p[t] = k PROVE \E u \in 1 .. n + 1 : r[u] = k
      BY <1>3, <3>1
    <3>2. ASSUME \A t, u \in 1 .. n : p[t] = k /\ p[u] = k => t = u,
                 NEW t \in 1 .. n + 1, NEW u \in 1 .. n + 1, r[t] = k, r[u] = k
          PROVE  t = u
      <4>1. t # 1 /\ u # 1
        BY <1>3, <2>2, <3>2
      <4>2. t - 1 \in 1 .. n /\ u - 1 \in 1 .. n /\ p[t - 1] = k /\ p[u - 1] = k
        BY <1>3, <3>2, <4>1
      <4>3. t - 1 = u - 1
        BY <3>2, <4>2
      <4>4. QED
        BY <4>3
    <3>3. QED
      BY <1>1, <3>0, <3>1, <3>2
  <2>3. QED
    BY <2>1, <2>2
<1>5. QED
  BY <1>3, <1>4 DEF WalkFrom, N, r

\* A walk from this place on, with this place, which may be repeated, before it.
LEMMA WalkStays ==
    ASSUME NEW list, Len(list) \in Nat, NEW i \in 1 .. Len(list), NEW n \in Nat,
           NEW p, WalkFrom(list, i, n, p),
           Repeatable(list[i])
    PROVE  WalkFrom(list, i, n + 1, Prepend(i, p, n))
<1> DEFINE N == Len(list)
           r == Prepend(i, p, n)
<1>1. /\ p \in [1 .. n -> i .. N] /\ \A t, u \in 1 .. n : t <= u => p[t] <= p[u]
      /\ \A k \in i .. N :
          /\ Skippable(list[k]) \/ \E t \in 1 .. n : p[t] = k
          /\ Repeatable(list[k]) \/ \A t, u \in 1 .. n : p[t] = k /\ p[u] = k => t = u
  BY DEF WalkFrom
<1>2. i \in Int /\ i <= i /\ N \in Nat /\ i \in 1 .. N
  OBVIOUS
<1>21. p \in [1 .. n -> i .. N] /\ Ascends(p, n)
  BY <1>1 DEF Ascends
<1> HIDE DEF N
<1>3. /\ r \in [1 .. n + 1 -> i .. N]
      /\ \A t, u \in 1 .. n + 1 : t <= u => r[t] <= r[u]
      /\ r[1] = i
      /\ \A t \in 1 .. n : t + 1 \in 1 .. n + 1 /\ r[t + 1] = p[t]
      /\ \A t \in 1 .. n + 1 : t = 1 \/ (t - 1 \in 1 .. n /\ r[t] = p[t - 1])
  <2>1. Prepended(r, i, p, n, N)
    BY <1>2, <1>21, PrependParts
  <2>2. QED
    BY <2>1 DEF Prepended, Ascends
<1> HIDE DEF r
<1>4. ASSUME NEW k \in i .. N
      PROVE  /\ Skippable(list[k]) \/ \E t \in 1 .. n + 1 : r[t] = k
             /\ Repeatable(list[k]) \/ \A t, u \in 1 .. n + 1 : r[t] = k /\ r[u] = k => t = u
  <2>1. CASE k = i
    <3>1. \E t \in 1 .. n + 1 : r[t] = k
      BY <1>3, <2>1
    <3>2. QED
      BY <2>1, <3>1
  <2>2. CASE k # i
    <3>1. ASSUME NEW t \in 1 .. n, p[t] = k PROVE \E u \in 1 .. n + 1 : r[u] = k
      BY <1>3, <3>1
    <3>2. ASSUME \A t, u \in 1 .. n : p[t] = k /\ p[u] = k => t = u,
                 NEW t \in 1 .. n + 1, NEW u \in 1 .. n + 1, r[t] = k, r[u] = k
          PROVE  t = u
      <4>1. t # 1 /\ u # 1
        BY <1>3, <2>2, <3>2
      <4>2. t - 1 \in 1 .. n /\ u - 1 \in 1 .. n /\ p[t - 1] = k /\ p[u - 1] = k
        BY <1>3, <3>2, <4>1
      <4>3. t - 1 = u - 1
        BY <3>2, <4>2
      <4>4. QED
        BY <4>3
    <3>3. QED
      BY <1>1, <3>1, <3>2
  <2>3. QED
    BY <2>1, <2>2
<1>5. QED
  BY <1>3, <1>4 DEF WalkFrom, N, r

\* A walk from the next place on, which leaves out this one.
LEMMA WalkSkips ==
    ASSUME NEW list, Len(list) \in Nat, NEW i \in 1 .. Len(list), NEW n \in Nat,
           NEW p, WalkFrom(list, i + 1, n, p),
           Skippable(list[i])
    PROVE  WalkFrom(list, i, n, p)
<1>1. /\ p \in [1 .. n -> i + 1 .. Len(list)] /\ \A t, u \in 1 .. n : t <= u => p[t] <= p[u]
      /\ \A k \in i + 1 .. Len(list) :
          /\ Skippable(list[k]) \/ \E t \in 1 .. n : p[t] = k
          /\ Repeatable(list[k]) \/ \A t, u \in 1 .. n : p[t] = k /\ p[u] = k => t = u
  BY DEF WalkFrom
<1>2. p \in [1 .. n -> i .. Len(list)] /\ \A t \in 1 .. n : p[t] # i
  <2>1. i + 1 .. Len(list) \subseteq i .. Len(list) /\ \A k \in i + 1 .. Len(list) : k # i
    OBVIOUS
  <2>2. QED
    BY <1>1, <2>1
<1>3. \A k \in i .. Len(list) : k = i \/ k \in i + 1 .. Len(list)
  OBVIOUS
<1>4. QED
  BY <1>1, <1>2, <1>3 DEF WalkFrom

\* One can walk along both lists, from two places on, and meet the same dimensions.
AgreeFrom(listA, listB, i, j, mu) ==
    \E n, p, r :
        /\ n \in Nat
        /\ n <= (Len(listA) + 1 - i) + (Len(listB) + 1 - j)
        /\ WalkFrom(listA, i, n, p) /\ WalkFrom(listB, j, n, r)
        /\ \A t \in 1 .. n : Stands(listA[p[t]].d, listB[r[t]].d, mu)

\* The dimensions at i and j before two walks that meet the same dimensions.
LEMMA MetBefore ==
    ASSUME NEW listA, NEW listB, NEW i, NEW j, NEW n \in Nat, NEW p, NEW r, NEW mu,
           Stands(listA[i].d, listB[j].d, mu),
           \A t \in 1 .. n : Stands(listA[p[t]].d, listB[r[t]].d, mu)
    PROVE  \A t \in 1 .. n + 1 : Stands(listA[Prepend(i, p, n)[t]].d, listB[Prepend(j, r, n)[t]].d, mu)
<1>1. SUFFICES ASSUME NEW t \in 1 .. n + 1
               PROVE  Stands(listA[Prepend(i, p, n)[t]].d, listB[Prepend(j, r, n)[t]].d, mu)
  OBVIOUS
<1>2. CASE t = 1
  BY <1>2 DEF Prepend
<1>3. CASE t # 1
  <2>1. t - 1 \in 1 .. n
    BY <1>3
  <2>2. Prepend(i, p, n)[t] = p[t - 1] /\ Prepend(j, r, n)[t] = r[t - 1]
    BY <1>3 DEF Prepend
  <2>3. QED
    BY <2>1, <2>2
<1>4. QED
  BY <1>2, <1>3

\* What a way leads to agrees, and so does what it comes from.
LEMMA AgreesBefore ==
    ASSUME NEW listA, AreDimensions(listA), NEW listB, AreDimensions(listB), NEW values,
           NEW q \in Places(listA, listB, values), NEW to, Leads(listA, listB, values, q, to),
           NEW mu, Obeys(mu, to[3]), AgreeFrom(listA, listB, to[1], to[2], mu)
    PROVE  AgreeFrom(listA, listB, q[1], q[2], mu)
<1> DEFINE i == q[1]
           j == q[2]
           A == Len(listA)
           B == Len(listB)
<1>1. A \in Nat /\ B \in Nat
  BY DEF AreDimensions
<1>2. i \in 1 .. A + 1 /\ j \in 1 .. B + 1
  BY DEF Places
<1>3. PICK n, p, r :
        /\ n \in Nat
        /\ n <= (A + 1 - to[1]) + (B + 1 - to[2])
        /\ WalkFrom(listA, to[1], n, p) /\ WalkFrom(listB, to[2], n, r)
        /\ \A t \in 1 .. n : Stands(listA[p[t]].d, listB[r[t]].d, mu)
  BY DEF AgreeFrom
<1> DEFINE met == /\ i \in 1 .. A /\ j \in 1 .. B /\ Stands(listA[i].d, listB[j].d, mu)
<1>4. \/ met /\ to[1] = i + 1 /\ to[2] = j + 1
      \/ met /\ to[1] = i + 1 /\ to[2] = j /\ Repeatable(listB[j])
      \/ i \in 1 .. A /\ to[1] = i + 1 /\ to[2] = j /\ Skippable(listA[i])
      \/ met /\ to[1] = i /\ to[2] = j + 1 /\ Repeatable(listA[i])
      \/ j \in 1 .. B /\ to[1] = i /\ to[2] = j + 1 /\ Skippable(listB[j])
  BY DEF Leads
<1>5. n + 1 \in Nat
  BY <1>3
<1> HIDE DEF i, j
<1>6. ASSUME met PROVE \A t \in 1 .. n + 1 : Stands(listA[Prepend(i, p, n)[t]].d, listB[Prepend(j, r, n)[t]].d, mu)
  BY <1>3, <1>6, MetBefore
<1>7. CASE met /\ to[1] = i + 1 /\ to[2] = j + 1
  <2>1. WalkFrom(listA, i, n + 1, Prepend(i, p, n)) /\ WalkFrom(listB, j, n + 1, Prepend(j, r, n))
    BY <1>1, <1>3, <1>7, WalkOn
  <2>2. n + 1 <= (A + 1 - i) + (B + 1 - j)
    BY <1>1, <1>2, <1>3, <1>7
  <2>3. QED
    BY <1>5, <1>6, <1>7, <2>1, <2>2 DEF AgreeFrom, i, j
<1>8. CASE met /\ to[1] = i + 1 /\ to[2] = j /\ Repeatable(listB[j])
  <2>1. WalkFrom(listA, i, n + 1, Prepend(i, p, n)) /\ WalkFrom(listB, j, n + 1, Prepend(j, r, n))
    BY <1>1, <1>3, <1>8, WalkOn, WalkStays
  <2>2. n + 1 <= (A + 1 - i) + (B + 1 - j)
    BY <1>1, <1>2, <1>3, <1>8
  <2>3. QED
    BY <1>5, <1>6, <1>8, <2>1, <2>2 DEF AgreeFrom, i, j
<1>9. CASE i \in 1 .. A /\ to[1] = i + 1 /\ to[2] = j /\ Skippable(listA[i])
  <2>1. WalkFrom(listA, i, n, p) /\ WalkFrom(listB, j, n, r)
    BY <1>1, <1>3, <1>9, WalkSkips
  <2>2. n <= (A + 1 - i) + (B + 1 - j)
    BY <1>1, <1>2, <1>3, <1>9
  <2>3. QED
    BY <1>3, <2>1, <2>2 DEF AgreeFrom, i, j
<1>10. CASE met /\ to[1] = i /\ to[2] = j + 1 /\ Repeatable(listA[i])
  <2>1. WalkFrom(listA, i, n + 1, Prepend(i, p, n)) /\ WalkFrom(listB, j, n + 1, Prepend(j, r, n))
    BY <1>1, <1>3, <1>10, WalkOn, WalkStays
  <2>2. n + 1 <= (A + 1 - i) + (B + 1 - j)
    BY <1>1, <1>2, <1>3, <1>10
  <2>3. QED
    BY <1>5, <1>6, <1>10, <2>1, <2>2 DEF AgreeFrom, i, j
<1>11. CASE j \in 1 .. B /\ to[1] = i /\ to[2] = j + 1 /\ Skippable(listB[j])
  <2>1. WalkFrom(listA, i, n, p) /\ WalkFrom(listB, j, n, r)
    BY <1>1, <1>3, <1>11, WalkSkips
  <2>2. n <= (A + 1 - i) + (B + 1 - j)
    BY <1>1, <1>2, <1>3, <1>11
  <2>3. QED
    BY <1>3, <2>1, <2>2 DEF AgreeFrom, i, j
<1>12. QED
  BY <1>4, <1>7, <1>8, <1>9, <1>10, <1>11

\* What a result for two lists of dimensions promises.
FitsFrom(listA, listB, values, q, r) ==
    /\ r.dims \in DimMaps(values) /\ Extends(r.dims, q[3]) /\ Binds(r.dims, q[3], listA)
    /\ \A mu : Obeys(mu, r.dims) => AgreeFrom(listA, listB, q[1], q[2], mu)

\* What the recursion finds for two places fits from there on.
LEMMA FitSound ==
    ASSUME NEW listA, AreDimensions(listA), NEW listB, AreDimensions(listB),
           NEW values, \A j \in DOMAIN listB : listB[j].d \in values,
           NEW f, f = [q \in Places(listA, listB, values) |-> FitStep(listA, listB, f, q)]
    PROVE  \A q \in Places(listA, listB, values) : f[q].ok => FitsFrom(listA, listB, values, q, f[q])
<1> DEFINE S == Places(listA, listB, values)
           Sz(q) == Size(listA, listB, q)
           Sound(q) == f[q].ok => FitsFrom(listA, listB, values, q, f[q])
           T == {n \in Nat : \A q \in S : Sz(q) < n => Sound(q)}
<1>1. \A q \in S : Sz(q) \in Nat
  BY SizeShrinks
<1>2. ASSUME NEW q \in S, \A to \in S : Sz(to) < Sz(q) => Sound(to), f[q].ok
      PROVE  FitsFrom(listA, listB, values, q, f[q])
  <2>0. f[q] = FitStep(listA, listB, f, q)
    OBVIOUS
  <2>1. CASE AtEnd(listA, listB, q)
    <3>1. f[q].dims = q[3]
      BY <2>0, <2>1 DEF FitStep, Fits
    <3>2. /\ q[1] \in 1 .. Len(listA) + 1 /\ q[2] \in 1 .. Len(listB) + 1 /\ q[3] \in DimMaps(values)
          /\ Len(listA) \in Nat /\ Len(listB) \in Nat
      BY DEF Places, AreDimensions
    <3>3. q[1] = Len(listA) + 1 /\ q[2] = Len(listB) + 1
      BY <2>1, <3>2 DEF AtEnd
    <3>4. \A list : Len(list) \in Nat => WalkFrom(list, Len(list) + 1, 0, [t \in 1 .. 0 |-> 0])
      BY DEF WalkFrom
    <3>5. \A mu : AgreeFrom(listA, listB, q[1], q[2], mu)
      <4>1. 0 <= (Len(listA) + 1 - q[1]) + (Len(listB) + 1 - q[2]) /\ 0 \in Nat
        BY <3>2, <3>3
      <4> DEFINE e == [t \in 1 .. 0 |-> 0]
      <4>2. WalkFrom(listA, q[1], 0, e) /\ WalkFrom(listB, q[2], 0, e)
        BY <3>2, <3>3, <3>4
      <4> HIDE DEF e
      <4>3. \A mu : \A t \in 1 .. 0 : Stands(listA[e[t]].d, listB[e[t]].d, mu)
        OBVIOUS
      <4>4. QED
        BY <4>1, <4>2, <4>3 DEF AgreeFrom
    <3>6. QED
      BY <3>1, <3>2, <3>5, BindsNothing DEF FitsFrom, Extends
  <2>2. CASE ~AtEnd(listA, listB, q)
    <3> DEFINE ways == WaysAt(listA, listB, q)
               tried == [w \in DOMAIN ways |-> IF ways[w].can THEN f[ways[w].to] ELSE Fails]
    <3>1. f[q] = FirstFit(tried)
      BY <2>0, <2>2 DEF FitStep
    <3>2. DOMAIN ways = 1 .. 5
      BY WaysParts DEF WaysAt
    <3>3. \A w \in 1 .. 5 : tried[w] = IF ways[w].can THEN f[ways[w].to] ELSE Fails
      BY <3>2
    <3>4. DOMAIN tried = 1 .. 5
      BY <3>2
    <3> HIDE DEF tried
    <3>5. PICK w \in 1 .. 5 : tried[w].ok /\ f[q] = tried[w]
      BY <1>2, <3>1, <3>4, FirstFitFits
    <3>6. ways[w].can
      <4>1. ~Fails.ok
        BY DEF Fails
      <4> HIDE DEF ways
      <4>2. QED
        BY <3>3, <3>5, <4>1
    <3> DEFINE to == ways[w].to
    <3>7. Leads(listA, listB, values, q, to)
      BY <3>6, WaysLead
    <3>8. f[q] = f[to]
      BY <3>3, <3>5, <3>6
    <3> HIDE DEF to, ways
    <3>9. to \in S /\ Sz(to) < Sz(q)
      BY <3>7, SizeShrinks
    <3>10. FitsFrom(listA, listB, values, to, f[q])
      BY <1>2, <3>8, <3>9
    <3>11. f[q].dims \in DimMaps(values) /\ Extends(f[q].dims, to[3]) /\ Binds(f[q].dims, to[3], listA)
           /\ \A mu : Obeys(mu, f[q].dims) => AgreeFrom(listA, listB, to[1], to[2], mu)
      BY <3>10 DEF FitsFrom
    <3>12. Extends(to[3], q[3]) /\ Binds(to[3], q[3], listA)
      BY <3>7 DEF Leads
    <3>13. Extends(f[q].dims, q[3]) /\ Binds(f[q].dims, q[3], listA)
      BY <3>11, <3>12, ExtendsTransitive, BindsTransitive
    <3>14. ASSUME NEW mu, Obeys(mu, f[q].dims) PROVE AgreeFrom(listA, listB, q[1], q[2], mu)
      <4>1. Obeys(mu, to[3])
        BY <3>11, <3>14, ObeysLess
      <4>2. QED
        BY <3>7, <3>11, <3>14, <4>1, AgreesBefore
    <3>15. QED
      BY <3>11, <3>13, <3>14 DEF FitsFrom
  <2>3. QED
    BY <2>1, <2>2
<1> HIDE DEF S, Sz
<1>3. 0 \in T
  BY <1>1
<1>4. ASSUME NEW n \in Nat, n \in T PROVE n + 1 \in T
  <2>1. ASSUME NEW q \in S, Sz(q) < n + 1 PROVE Sound(q)
    <3>1. \A to \in S : Sz(to) < Sz(q) => Sz(to) < n
      BY <1>1, <2>1
    <3> HIDE DEF Sound
    <3>2. \A to \in S : Sz(to) < Sz(q) => Sound(to)
      BY <1>4, <3>1
    <3>3. QED
      BY <1>2, <3>2 DEF Sound
  <2> HIDE DEF Sound
  <2>2. QED
    BY <2>1
<1>5. Nat \subseteq T
  <2> HIDE DEF T
  <2>1. QED
    BY <1>3, <1>4, SetInduction
<1>6. ASSUME NEW q \in S PROVE Sound(q)
  <2> HIDE DEF Sound
  <2>1. Sz(q) + 1 \in Nat /\ Sz(q) < Sz(q) + 1
    BY <1>1
  <2>2. QED
    BY <1>5, <2>1
<1>7. QED
  BY <1>6 DEF S

\* A walk from the first place to the end is a walk along the list.
LEMMA WholeWalk ==
    ASSUME NEW list, AreDimensions(list), NEW n \in Nat, NEW p, WalkFrom(list, 1, n, p)
    PROVE  p \in Walks(list, n)
<1>1. DOMAIN list = 1 .. Len(list)
  BY DEF AreDimensions
<1>2. QED
  BY <1>1 DEF WalkFrom, Walks

\* The function that MatchDimList is defined by, for all places it can meet.
LEMMA MatchDimListSteps ==
    ASSUME NEW listA, AreDimensions(listA), NEW listB, AreDimensions(listB), NEW m
    PROVE  \E f : /\ f = [q \in Places(listA, listB, Values(listB, m)) |-> FitStep(listA, listB, f, q)]
                  /\ MatchDimList(listA, listB, m) = f[<<1, 1, m>>]
<1> DEFINE V == {listB[j].d : j \in DOMAIN listB} \cup {m[x] : x \in DOMAIN m}
           Good(f) == f = [q \in (1 .. Len(listA) + 1) \X (1 .. Len(listB) + 1) \X DimMaps(V) |->
                              FitStep(listA, listB, f, q)]
           f == CHOOSE g : Good(g)
<1>1. MatchDimList(listA, listB, m) = f[<<1, 1, m>>]
  BY DEF MatchDimList, FitStep, AtEnd, WaysAt
<1>2. \A j \in DOMAIN listB : listB[j].d \in V
  OBVIOUS
<1>3. V = Values(listB, m)
  BY DEF Values
<1> HIDE DEF V
<1>4. \E g : Good(g)
  <2>1. PICK g : g = [r \in Places(listA, listB, V) |-> FitStep(listA, listB, g, r)]
    BY <1>2, FitExists
  <2>2. Good(g)
    BY <2>1 DEF Places
  <2> HIDE DEF Good
  <2>3. QED
    BY <2>2
<1>5. Good(f)
  BY <1>4
<1> HIDE DEF f
<1>6. f = [r \in Places(listA, listB, V) |-> FitStep(listA, listB, f, r)]
  BY <1>5 DEF Places
<1>7. QED
  BY <1>1, <1>3, <1>6

\* matchDimList finds only lists that agree: with the names that it binds standing for what
\* it binds them to, one can walk along both lists and meet the same dimensions.
LEMMA MatchDimListSound ==
    ASSUME NEW listA, AreDimensions(listA), NEW listB, AreDimensions(listB),
           NEW values, \A j \in DOMAIN listB : listB[j].d \in values,
           NEW m \in DimMaps(values), MatchDimList(listA, listB, m).ok
    PROVE  LET r == MatchDimList(listA, listB, m)
           IN  /\ r.dims \in DimMaps(values) /\ Extends(r.dims, m) /\ Binds(r.dims, m, listA)
               /\ \A mu : Obeys(mu, r.dims) => DimsEmbed(listA, listB, mu)
<1> DEFINE V == Values(listB, m)
           q == <<1, 1, m>>
<1>1. PICK f : /\ f = [r \in Places(listA, listB, V) |-> FitStep(listA, listB, f, r)]
               /\ MatchDimList(listA, listB, m) = f[q]
  BY MatchDimListSteps
<1>2. \A j \in DOMAIN listB : listB[j].d \in V
  BY DEF Values
<1>3. V \subseteq values /\ m \in DimMaps(V)
  <2>1. PICK names \in SUBSET DimNames : m \in [names -> values]
    BY DEF DimMaps
  <2>2. m \in [names -> V]
    BY <2>1 DEF Values
  <2>3. V \subseteq values
    BY <2>1 DEF Values
  <2>4. QED
    BY <2>2, <2>3 DEF DimMaps
<1> HIDE DEF V
<1>6. f = [r \in Places(listA, listB, V) |-> FitStep(listA, listB, f, r)]
  BY <1>1
<1>7. \A r \in Places(listA, listB, V) : f[r].ok => FitsFrom(listA, listB, V, r, f[r])
  BY <1>2, <1>6, FitSound
<1>8. q \in Places(listA, listB, V) /\ q[1] = 1 /\ q[2] = 1 /\ q[3] = m
  <2>1. Len(listA) \in Nat /\ Len(listB) \in Nat
    BY DEF AreDimensions
  <2>2. 1 \in 1 .. Len(listA) + 1 /\ 1 \in 1 .. Len(listB) + 1
    BY <2>1
  <2>3. QED
    BY <1>3, <2>2 DEF Places
<1> HIDE DEF q
<1>9. FitsFrom(listA, listB, V, q, f[q])
  BY <1>1, <1>7, <1>8
<1>10. f[q].dims \in DimMaps(values)
  <2>1. f[q].dims \in DimMaps(V)
    BY <1>9 DEF FitsFrom
  <2>2. PICK names \in SUBSET DimNames : f[q].dims \in [names -> V]
    BY <2>1 DEF DimMaps
  <2>3. f[q].dims \in [names -> values]
    BY <1>3, <2>2
  <2>4. QED
    BY <2>3 DEF DimMaps
<1>11. ASSUME NEW mu, Obeys(mu, f[q].dims) PROVE DimsEmbed(listA, listB, mu)
  <2>1. AgreeFrom(listA, listB, 1, 1, mu)
    BY <1>8, <1>9, <1>11 DEF FitsFrom
  <2>2. PICK n, p, r :
          /\ n \in Nat
          /\ n <= (Len(listA) + 1 - 1) + (Len(listB) + 1 - 1)
          /\ WalkFrom(listA, 1, n, p) /\ WalkFrom(listB, 1, n, r)
          /\ \A t \in 1 .. n : Stands(listA[p[t]].d, listB[r[t]].d, mu)
    BY <2>1 DEF AgreeFrom
  <2>3. p \in Walks(listA, n) /\ r \in Walks(listB, n)
    BY <2>2, WholeWalk
  <2>4. n \in 0 .. Len(listA) + Len(listB)
    <3>1. Len(listA) \in Nat /\ Len(listB) \in Nat
      BY DEF AreDimensions
    <3>2. QED
      BY <2>2, <3>1
  <2>5. QED
    BY <2>2, <2>3, <2>4 DEF DimsEmbed
<1>12. Extends(f[q].dims, m) /\ Binds(f[q].dims, m, listA)
  BY <1>8, <1>9 DEF FitsFrom
<1>13. QED
  BY <1>1, <1>10, <1>11, <1>12

------------------------------------------------------------------------------
(* Fields.                                                                 *)

\* What the maps of a comparison are: the classes are mapped to classes of the source, with
\* sizes that the names of dimensions stand for.  The names are among D, what they stand
\* for is in V.
MapsOK(dims, classes, D, V, ca, cb) ==
    /\ dims \in DimMaps(V) /\ DOMAIN dims \subseteq D
    /\ classes \in [DOMAIN classes -> Names(cb)] /\ DOMAIN classes \subseteq Names(ca)
    /\ \A c \in DOMAIN classes : \A mu : Obeys(mu, dims) =>
        Stands(Get(ca, c).dim, Get(cb, classes[c]).dim, mu)

\* Later maps have what earlier ones have.
Grown(r, dims, classes, D, V, ca, cb) ==
    MapsOK(r.dims, r.classes, D, V, ca, cb) /\ Extends(r.dims, dims) /\ Extends(r.classes, classes)

\* A field of self and one of the source that can be compared.
Comparable(f, g, D, V, ca, cb) ==
    /\ f.type = g.type /\ f.type \in {"tensor", "category"}
    /\ f.type = "tensor" => /\ AreDimensions(f.dim) /\ AreDimensions(g.dim)
                            /\ \A j \in DOMAIN g.dim : g.dim[j].d \in V
                            /\ \A i \in DOMAIN f.dim : f.dim[i].d \in D
    /\ f.type = "category" => f.class \in Names(ca) /\ g.class \in Names(cb)

\* What is known of two fields that fit.
FieldFits(f, g, dims, classes) ==
    /\ f.type = "tensor" => \A mu : Obeys(mu, dims) => DimsEmbed(f.dim, g.dim, mu)
    /\ f.type = "category" => f.class \in DOMAIN classes /\ classes[f.class] = g.class

\* Fields that fit still fit when the maps grow.
LEMMA FitsStill ==
    ASSUME NEW f, NEW g, NEW dims, NEW classes, FieldFits(f, g, dims, classes),
           NEW moreDims, NEW moreClasses, Extends(moreDims, dims), Extends(moreClasses, classes)
    PROVE  FieldFits(f, g, moreDims, moreClasses)
<1>1. \A mu : Obeys(mu, moreDims) => Obeys(mu, dims)
  BY ObeysLess
<1>2. QED
  BY <1>1 DEF FieldFits, Extends

\* Binding more dimensions keeps the class map right.
LEMMA MapsStill ==
    ASSUME NEW D, NEW V, NEW ca, NEW cb, NEW dims,
           NEW classes, MapsOK(dims, classes, D, V, ca, cb),
           NEW more \in DimMaps(V), Extends(more, dims),
           DOMAIN more \subseteq D
    PROVE  MapsOK(more, classes, D, V, ca, cb)
<1>1. \A mu : Obeys(mu, more) => Obeys(mu, dims)
  BY ObeysLess
<1>2. QED
  BY <1>1 DEF MapsOK

\* A map extends itself.
LEMMA ExtendsItself == \A m : Extends(m, m)
BY DEF Extends

\* Two tensors that match have the same dimensions for the sizes found.
LEMMA TensorSound ==
    ASSUME NEW D, NEW V, NEW ca, NEW cb, \A c \in ToSet(cb) : c.dim \in V,
           \A c \in ToSet(ca) : c.dim \in D,
           NEW f, NEW g, Comparable(f, g, D, V, ca, cb), f.type = "tensor", NEW dims,
           NEW classes, MapsOK(dims, classes, D, V, ca, cb),
           MatchTensor(f, g, dims, classes).ok
    PROVE  /\ Grown(MatchTensor(f, g, dims, classes), dims, classes, D, V, ca, cb)
           /\ FieldFits(f, g, MatchTensor(f, g, dims, classes).dims, MatchTensor(f, g, dims, classes).classes)
<1> DEFINE r == MatchDimList(f.dim, g.dim, dims)
           s == MatchTensor(f, g, dims, classes)
<1>1. s = IF r.ok THEN Fits(r.dims, classes) ELSE Fails
  BY DEF MatchTensor
<1>2. ~Fails.ok
  BY DEF Fails
<1> HIDE DEF r
<1>3. r.ok /\ s = Fits(r.dims, classes)
  BY <1>1, <1>2
<1>4. s.dims = r.dims /\ s.classes = classes
  BY <1>3 DEF Fits
<1>5. /\ AreDimensions(f.dim) /\ AreDimensions(g.dim) /\ \A j \in DOMAIN g.dim : g.dim[j].d \in V
      /\ dims \in DimMaps(V) /\ DOMAIN dims \subseteq D /\ \A i \in DOMAIN f.dim : f.dim[i].d \in D
  BY DEF Comparable, MapsOK
<1>6. /\ r.dims \in DimMaps(V) /\ Extends(r.dims, dims) /\ Binds(r.dims, dims, f.dim)
      /\ \A mu : Obeys(mu, r.dims) => DimsEmbed(f.dim, g.dim, mu)
  BY <1>3, <1>5, MatchDimListSound DEF r
<1>61. DOMAIN r.dims \subseteq D
  BY <1>5, <1>6 DEF Binds
<1> HIDE DEF s
<1>7. MapsOK(r.dims, classes, D, V, ca, cb)
  BY <1>6, <1>61, MapsStill
<1>8. Grown(s, dims, classes, D, V, ca, cb)
  BY <1>4, <1>6, <1>7, ExtendsItself DEF Grown
<1>9. FieldFits(f, g, s.dims, s.classes)
  BY <1>4, <1>6 DEF FieldFits
<1>10. QED
  BY <1>8, <1>9 DEF s

\* Two classes fit: their sizes are equal, or the name of the one stands for the other.
LEMMA ClassSound ==
    ASSUME NEW V, NEW c, NEW d, NEW dims \in DimMaps(V), d.dim \in V, MatchClass(c, d, dims).ok
    PROVE  LET r == MatchClass(c, d, dims)
           IN  /\ r.dims \in DimMaps(V) /\ Extends(r.dims, dims)
               /\ DOMAIN r.dims \subseteq DOMAIN dims \cup {c.dim}
               /\ \A mu : Obeys(mu, r.dims) => Stands(c.dim, d.dim, mu)
<1>1. CASE c.dim \notin DimNames
  <2>1. c.dim = d.dim /\ MatchClass(c, d, dims).dims = dims
    BY <1>1 DEF MatchClass
  <2>2. QED
    BY <1>1, <2>1, ExtendsItself DEF Stands
<1>2. CASE c.dim \in DimNames /\ c.dim \in DOMAIN dims
  <2>1. dims[c.dim] = d.dim /\ MatchClass(c, d, dims).dims = dims
    BY <1>2 DEF MatchClass
  <2>2. QED
    BY <1>2, <2>1, ExtendsItself DEF Stands, Obeys
<1>3. CASE c.dim \in DimNames /\ c.dim \notin DOMAIN dims
  <2> DEFINE more == Bind(dims, c.dim, d.dim)
  <2>1. MatchClass(c, d, dims).dims = more
    BY <1>3 DEF MatchClass
  <2>2. /\ more \in DimMaps(V) /\ Extends(more, dims) /\ c.dim \in DOMAIN more /\ more[c.dim] = d.dim
    BY <1>3, BindParts
  <2>21. DOMAIN more = DOMAIN dims \cup {c.dim}
    BY DEF Bind
  <2> HIDE DEF more
  <2>3. QED
    BY <1>3, <2>1, <2>2, <2>21 DEF Stands, Obeys
<1>4. QED
  BY <1>1, <1>2, <1>3

\* Two categories that match have classes of the same size.
LEMMA CategorySound ==
    ASSUME NEW D, NEW V, NEW ca, NEW cb, \A c \in ToSet(cb) : c.dim \in V,
           \A c \in ToSet(ca) : c.dim \in D,
           NEW f, NEW g, Comparable(f, g, D, V, ca, cb), f.type = "category", NEW dims,
           NEW classes, MapsOK(dims, classes, D, V, ca, cb),
           MatchCategory(f, g, dims, classes, ca, cb).ok
    PROVE  /\ Grown(MatchCategory(f, g, dims, classes, ca, cb), dims, classes, D, V, ca, cb)
           /\ FieldFits(f, g, MatchCategory(f, g, dims, classes, ca, cb).dims, MatchCategory(f, g, dims, classes, ca, cb).classes)
<1> DEFINE s == MatchCategory(f, g, dims, classes, ca, cb)
           c == Get(ca, f.class)
           d == Get(cb, g.class)
           r == MatchClass(c, d, dims)
<1>0. ~Fails.ok /\ f.type # "tensor"
  BY DEF Fails
<1>1. CASE f.class \in DOMAIN classes
  <2>1. s = IF classes[f.class] = g.class THEN Fits(dims, classes) ELSE Fails
    BY <1>1 DEF MatchCategory
  <2>2. s = Fits(dims, classes) /\ classes[f.class] = g.class
    BY <1>0, <2>1
  <2>3. s.dims = dims /\ s.classes = classes
    BY <2>2 DEF Fits
  <2> HIDE DEF s
  <2>4. Grown(s, dims, classes, D, V, ca, cb) /\ FieldFits(f, g, s.dims, s.classes)
    BY <1>0, <1>1, <2>2, <2>3, ExtendsItself DEF Grown, FieldFits
  <2>5. QED
    BY <2>4 DEF s
<1>2. CASE f.class \notin DOMAIN classes
  <2> DEFINE more == Bind(classes, f.class, g.class)
  <2>1. s = IF r.ok THEN Fits(r.dims, more) ELSE Fails
    BY <1>2 DEF MatchCategory
  <2>2. f.class \in Names(ca) /\ g.class \in Names(cb)
    BY DEF Comparable
  <2>3. dims \in DimMaps(V) /\ d.dim \in V /\ DOMAIN dims \subseteq D /\ c.dim \in D
    <3>1. d \in ToSet(cb) /\ c \in ToSet(ca)
      BY <2>2, GetFrom
    <3> HIDE DEF d, c
    <3>2. QED
      BY <3>1 DEF MapsOK
  <2> HIDE DEF r, more
  <2>4. r.ok /\ s = Fits(r.dims, more)
    BY <1>0, <2>1
  <2>5. s.dims = r.dims /\ s.classes = more
    BY <2>4 DEF Fits
  <2> HIDE DEF s, c, d
  <2>6. /\ r.dims \in DimMaps(V) /\ Extends(r.dims, dims)
        /\ DOMAIN r.dims \subseteq DOMAIN dims \cup {c.dim}
        /\ \A mu : Obeys(mu, r.dims) => Stands(c.dim, d.dim, mu)
    BY <2>3, <2>4, ClassSound DEF r
  <2>61. DOMAIN r.dims \subseteq D
    BY <2>3, <2>6
  <2>7. MapsOK(r.dims, classes, D, V, ca, cb)
    BY <2>6, <2>61, MapsStill
  <2>8. /\ DOMAIN more = DOMAIN classes \cup {f.class} /\ more[f.class] = g.class
        /\ \A x \in DOMAIN classes : more[x] = classes[x]
        /\ more = [x \in DOMAIN more |-> more[x]]
    BY <1>2 DEF more, Bind
  <2>9. MapsOK(r.dims, more, D, V, ca, cb)
    <3>1. /\ classes \in [DOMAIN classes -> Names(cb)] /\ DOMAIN classes \subseteq Names(ca)
          /\ \A x \in DOMAIN classes : \A mu : Obeys(mu, r.dims) =>
                Stands(Get(ca, x).dim, Get(cb, classes[x]).dim, mu)
      BY <2>7 DEF MapsOK
    <3>2. more \in [DOMAIN more -> Names(cb)] /\ DOMAIN more \subseteq Names(ca)
      BY <2>2, <2>8, <3>1
    <3>3. ASSUME NEW x \in DOMAIN more, NEW mu, Obeys(mu, r.dims)
          PROVE  Stands(Get(ca, x).dim, Get(cb, more[x]).dim, mu)
      <4>1. CASE x \in DOMAIN classes
        BY <2>8, <3>1, <3>3, <4>1
      <4>2. CASE x = f.class
        BY <2>6, <2>8, <3>3, <4>2 DEF c, d
      <4>3. QED
        BY <2>8, <4>1, <4>2
    <3>4. QED
      BY <2>6, <2>61, <3>2, <3>3 DEF MapsOK
  <2>10. Extends(more, classes)
    BY <2>8 DEF Extends
  <2>11. Grown(s, dims, classes, D, V, ca, cb)
    BY <2>5, <2>6, <2>9, <2>10 DEF Grown
  <2>12. FieldFits(f, g, s.dims, s.classes)
    BY <1>0, <2>5, <2>8 DEF FieldFits
  <2>13. QED
    BY <2>11, <2>12 DEF s
<1>3. QED
  BY <1>1, <1>2

\* One turn of the loop over two lists of fields.
FieldNext(f, g, r, ca, cb) ==
    IF ~r.ok THEN Fails
    ELSE IF f.type = "tensor" THEN MatchTensor(f, g, r.dims, r.classes)
    ELSE MatchCategory(f, g, r.dims, r.classes, ca, cb)

\* What the definition of FieldsMatch says of i.
FieldStep(xs, ys, start, ca, cb, U, i) == IF i = 0 THEN start ELSE FieldNext(xs[i], ys[i], U[i - 1], ca, cb)

\* The function FieldsMatch is defined by, up to M.
FieldRun(F, M, xs, ys, start, ca, cb) == F = [i \in 0 .. M |-> FieldStep(xs, ys, start, ca, cb, F, i)]

\* The function that FieldsMatch is defined by exists.
LEMMA FieldRunExists ==
    ASSUME NEW M \in Nat, NEW xs, NEW ys, NEW start, NEW ca, NEW cb
    PROVE  \E F : FieldRun(F, M, xs, ys, start, ca, cb)
<1> DEFINE Good(F, m) == F = [i \in 0 .. m |-> FieldStep(xs, ys, start, ca, cb, F, i)]
           T == {m \in Nat : \E F : Good(F, m)}
<1>1. 0 \in T
  <2>1. Good([n \in 0 .. 0 |-> FieldStep(xs, ys, start, ca, cb, <<>>, 0)], 0)
    BY DEF FieldStep
  <2>2. QED
    BY <2>1
<1>2. ASSUME NEW m \in Nat, m \in T PROVE m + 1 \in T
  <2>1. PICK U : Good(U, m)
    BY <1>2
  <2> DEFINE W == [n \in 0 .. m + 1 |-> IF n <= m THEN U[n] ELSE FieldStep(xs, ys, start, ca, cb, U, n)]
  <2>2. \A n \in 0 .. m : W[n] = U[n] /\ U[n] = FieldStep(xs, ys, start, ca, cb, U, n)
    BY <2>1
  <2>3. W[m + 1] = FieldStep(xs, ys, start, ca, cb, U, m + 1) /\ W = [n \in 0 .. m + 1 |-> W[n]]
    OBVIOUS
  <2>4. ASSUME NEW n \in 0 .. m + 1 PROVE W[n] = FieldStep(xs, ys, start, ca, cb, W, n)
    <3> HIDE DEF W
    <3>1. CASE n = m + 1
      <4>1. n # 0 /\ n - 1 = m /\ m \in 0 .. m
        BY <3>1
      <4>2. QED
        BY <3>1, <4>1, <2>2, <2>3 DEF FieldStep
    <3>2. CASE n = 0
      BY <2>2, <3>2 DEF FieldStep
    <3>3. CASE n # 0 /\ n # m + 1
      <4>1. n \in 0 .. m /\ n - 1 \in 0 .. m
        BY <3>3
      <4>2. QED
        BY <3>3, <4>1, <2>2 DEF FieldStep
    <3>4. QED
      BY <3>1, <3>2, <3>3
  <2>5. Good(W, m + 1)
    <3> HIDE DEF W
    <3>1. QED
      BY <2>3, <2>4
  <2> HIDE DEF Good, W
  <2>6. QED
    BY <2>5
<1>3. Nat \subseteq T
  <2> HIDE DEF T
  <2>1. QED
    BY <1>1, <1>2, SetInduction
<1>4. PICK F : Good(F, M)
  BY <1>3
<1>5. FieldRun(F, M, xs, ys, start, ca, cb)
  BY <1>4 DEF FieldRun
<1>6. QED
  BY <1>5

\* FieldsMatch takes the fields one after the other and hands the maps on.
LEMMA FieldsMatchSteps ==
    ASSUME NEW xs, Len(xs) \in Nat, NEW ys, NEW dims, NEW classes, NEW ca, NEW cb
    PROVE  \E U : /\ FieldsMatch(xs, ys, dims, classes, ca, cb) = U[Len(xs)]
                  /\ \A i \in 0 .. Len(xs) : U[i] = FieldStep(xs, ys, Fits(dims, classes), ca, cb, U, i)
<1> DEFINE U == CHOOSE F : FieldRun(F, Len(xs), xs, ys, Fits(dims, classes), ca, cb)
<1>1. FieldsMatch(xs, ys, dims, classes, ca, cb) = U[Len(xs)]
  BY DEF FieldsMatch, FieldRun, FieldStep, FieldNext
<1>2. FieldRun(U, Len(xs), xs, ys, Fits(dims, classes), ca, cb)
  BY FieldRunExists
<1> HIDE DEF U
<1>5. \A i \in 0 .. Len(xs) : U[i] = FieldStep(xs, ys, Fits(dims, classes), ca, cb, U, i)
  BY <1>2 DEF FieldRun
<1>6. QED
  BY <1>1, <1>5

\* Fields that are found to fit do, with the maps that result.
LEMMA FieldsMatchSound ==
    ASSUME NEW D, NEW V, NEW ca, NEW cb, \A c \in ToSet(cb) : c.dim \in V,
           \A c \in ToSet(ca) : c.dim \in D,
           NEW xs, Len(xs) \in Nat, NEW ys, NEW dims,
           NEW classes, MapsOK(dims, classes, D, V, ca, cb),
           \A i \in 1 .. Len(xs) : Comparable(xs[i], ys[i], D, V, ca, cb),
           FieldsMatch(xs, ys, dims, classes, ca, cb).ok
    PROVE  LET r == FieldsMatch(xs, ys, dims, classes, ca, cb)
           IN  /\ Grown(r, dims, classes, D, V, ca, cb)
               /\ \A i \in 1 .. Len(xs) : FieldFits(xs[i], ys[i], r.dims, r.classes)
<1> DEFINE M == Len(xs)
           r == FieldsMatch(xs, ys, dims, classes, ca, cb)
<1>0. PICK U : /\ r = U[M]
               /\ \A i \in 0 .. M : U[i] = FieldStep(xs, ys, Fits(dims, classes), ca, cb, U, i)
  BY FieldsMatchSteps
<1>1. r = U[M]
  BY <1>0
<1>4. M \in Nat
  OBVIOUS
<1> HIDE DEF M
<1>5. \A i \in 0 .. M : U[i] = FieldStep(xs, ys, Fits(dims, classes), ca, cb, U, i)
  BY <1>0
<1> DEFINE Inv(i) == U[i].ok => /\ Grown(U[i], dims, classes, D, V, ca, cb)
                                /\ \A k \in 1 .. i : FieldFits(xs[k], ys[k], U[i].dims, U[i].classes)
           T == {i \in Nat : i <= M => Inv(i)}
<1>6. 0 \in T
  <2>1. U[0] = Fits(dims, classes)
    BY <1>4, <1>5 DEF FieldStep
  <2>2. U[0].dims = dims /\ U[0].classes = classes
    BY <2>1 DEF Fits
  <2>3. Grown(U[0], dims, classes, D, V, ca, cb)
    BY <2>2, ExtendsItself DEF Grown
  <2>4. Inv(0)
    BY <2>3
  <2> HIDE DEF Inv
  <2>5. QED
    BY <2>4
<1>7. ASSUME NEW i \in Nat, i \in T PROVE i + 1 \in T
  <2>0. SUFFICES ASSUME i + 1 <= M, U[i + 1].ok PROVE Inv(i + 1)
    <3>1. (i + 1 <= M => Inv(i + 1)) => i + 1 \in T
      <4> HIDE DEF Inv
      <4>1. QED
        OBVIOUS
    <3>2. ~U[i + 1].ok => Inv(i + 1)
      OBVIOUS
    <3> HIDE DEF Inv
    <3>3. QED
      BY <3>1, <3>2
  <2>1. i + 1 \in 0 .. M /\ i + 1 # 0 /\ (i + 1) - 1 = i /\ i <= M /\ i + 1 \in 1 .. M
    BY <1>4, <2>0
  <2> DEFINE u == U[i]
             v == U[i + 1]
             f == xs[i + 1]
             g == ys[i + 1]
  <2>2. v = IF ~u.ok THEN Fails
            ELSE IF f.type = "tensor" THEN MatchTensor(f, g, u.dims, u.classes)
            ELSE MatchCategory(f, g, u.dims, u.classes, ca, cb)
    BY <1>5, <2>1 DEF FieldStep, FieldNext
  <2>3. Comparable(f, g, D, V, ca, cb)
    BY <2>1 DEF M
  <2>4. u.ok => /\ Grown(u, dims, classes, D, V, ca, cb) /\ \A k \in 1 .. i : FieldFits(xs[k], ys[k], u.dims, u.classes)
    BY <1>7, <2>1
  <2>5. ~Fails.ok /\ v.ok
    BY <2>0 DEF Fails
  <2> HIDE DEF u, v, f, g
  <2>6. u.ok
    BY <2>2, <2>5
  <2>7. MapsOK(u.dims, u.classes, D, V, ca, cb)
    BY <2>4, <2>6 DEF Grown
  <2>8. Grown(v, u.dims, u.classes, D, V, ca, cb) /\ FieldFits(f, g, v.dims, v.classes)
    <3>1. CASE f.type = "tensor"
      <4>1. v = MatchTensor(f, g, u.dims, u.classes)
        BY <2>2, <2>6, <3>1
      <4>2. QED
        BY <2>3, <2>5, <2>7, <3>1, <4>1, TensorSound
    <3>2. CASE f.type # "tensor"
      <4>1. v = MatchCategory(f, g, u.dims, u.classes, ca, cb) /\ f.type = "category"
        BY <2>2, <2>3, <2>6, <3>2 DEF Comparable
      <4>2. QED
        BY <2>3, <2>5, <2>7, <4>1, CategorySound
    <3>3. QED
      BY <3>1, <3>2
  <2>9. /\ MapsOK(v.dims, v.classes, D, V, ca, cb) /\ Extends(v.dims, u.dims) /\ Extends(v.classes, u.classes)
        /\ Extends(u.dims, dims) /\ Extends(u.classes, classes)
    BY <2>4, <2>6, <2>8 DEF Grown
  <2>10. Grown(v, dims, classes, D, V, ca, cb)
    BY <2>9, ExtendsTransitive DEF Grown
  <2>11. ASSUME NEW k \in 1 .. i + 1 PROVE FieldFits(xs[k], ys[k], v.dims, v.classes)
    <3>1. CASE k = i + 1
      BY <2>8, <3>1 DEF f, g
    <3>2. CASE k # i + 1
      <4>1. k \in 1 .. i
        BY <3>2
      <4>2. FieldFits(xs[k], ys[k], u.dims, u.classes)
        BY <2>4, <2>6, <4>1
      <4>3. QED
        BY <2>9, <4>2, FitsStill
    <3>3. QED
      BY <3>1, <3>2
  <2>12. QED
    BY <2>10, <2>11 DEF v
<1>8. Nat \subseteq T
  <2> HIDE DEF T
  <2>1. QED
    BY <1>6, <1>7, SetInduction
<1>9. Inv(M)
  <2> HIDE DEF Inv
  <2>1. QED
    BY <1>4, <1>8
<1>10. QED
  BY <1>1, <1>9 DEF M

------------------------------------------------------------------------------
(* Orders of fields.                                                       *)

\* The fields of one type of a node and those of another one can be compared.
AllComparable(xs, ys, D, V, ca, cb) ==
    \A i \in DOMAIN xs, j \in DOMAIN ys : Comparable(xs[i], ys[j], D, V, ca, cb)

\* What an order of fields that was taken has.
OrderFits(xs, ys, r) ==
    IsOrder(r.order, ys) /\ \A i \in 1 .. Len(xs) : FieldFits(xs[i], r.order[i], r.dims, r.classes)

\* What the loop over the fields of a type tries are orders of them.
LEMMA OrdersToTry ==
    ASSUME NEW ys, ys \in Seq(ToSet(ys)),
           NEW all, all = IF ys = <<>> THEN <<<<>>>> ELSE Orders(ys)
    PROVE  \E n \in Nat : DOMAIN all = 1 .. n /\ \A i \in 1 .. n : IsOrder(all[i], ys)
<1>1. CASE ys = <<>>
  <2>1. DOMAIN all = 1 .. 1 /\ all[1] = <<>>
    BY <1>1
  <2>2. IsOrder(<<>>, ys)
    BY <1>1, ListIsOrder
  <2>3. \A i \in 1 .. 1 : IsOrder(all[i], ys)
    BY <2>1, <2>2
  <2>4. 1 \in Nat
    OBVIOUS
  <2>5. QED
    BY <2>1, <2>3, <2>4, Zenon
<1>2. CASE ys # <<>>
  <2>1. all = Orders(ys)
    BY <1>2
  <2>2. QED
    BY <1>2, <2>1, OrdersOfList
<1>3. QED
  BY <1>1, <1>2

\* The elements of x are elements of list.
DrawnFrom(x, list) == \A i \in DOMAIN x : \E j \in DOMAIN list : x[i] = list[j]

\* An order of a list is a list of the same length with its elements.
LEMMA OrderPlaces ==
    ASSUME NEW list, list \in Seq(ToSet(list)), NEW x, IsOrder(x, list)
    PROVE  /\ x \in Seq(ToSet(list)) /\ Len(x) = Len(list) /\ DOMAIN x = DOMAIN list
           /\ DrawnFrom(x, list)
<1>1. PICK rho \in Arrangements(Len(list)) : x = [i \in 1 .. Len(list) |-> list[rho[i]]]
  BY DEF IsOrder
<1>2. rho \in [1 .. Len(list) -> 1 .. Len(list)] /\ Len(list) \in Nat /\ DOMAIN list = 1 .. Len(list)
  BY <1>1 DEF Arrangements
<1>3. \A i \in 1 .. Len(list) : list[rho[i]] \in ToSet(list)
  BY <1>2
<1>4. x \in [1 .. Len(list) -> ToSet(list)]
  BY <1>1, <1>3
<1>5. x \in Seq(ToSet(list)) /\ Len(x) = Len(list) /\ DOMAIN x = DOMAIN list
  BY <1>2, <1>4
<1>6. \A i \in DOMAIN x : rho[i] \in DOMAIN list /\ x[i] = list[rho[i]]
  BY <1>1, <1>2, <1>5
<1>7. QED
  BY <1>5, <1>6 DEF DrawnFrom

\* Fields that can be compared can be in any order.
LEMMA OrderComparable ==
    ASSUME NEW D, NEW V, NEW ca, NEW cb,
           NEW xs, xs \in Seq(ToSet(xs)), NEW ys, ys \in Seq(ToSet(ys)), Len(xs) = Len(ys),
           AllComparable(xs, ys, D, V, ca, cb), NEW x, IsOrder(x, ys)
    PROVE  \A i \in 1 .. Len(xs) : Comparable(xs[i], x[i], D, V, ca, cb)
<1>1. DrawnFrom(x, ys)
  BY OrderPlaces
<1>2. DOMAIN x = 1 .. Len(xs) /\ DOMAIN xs = 1 .. Len(xs)
  BY OrderPlaces
<1>3. QED
  BY <1>1, <1>2 DEF AllComparable, DrawnFrom

\* An order of fields that is taken fits field by field.
LEMMA FieldOrderSound ==
    ASSUME NEW D, NEW V, NEW ca, NEW cb, \A c \in ToSet(cb) : c.dim \in V,
           \A c \in ToSet(ca) : c.dim \in D,
           NEW xs, xs \in Seq(ToSet(xs)), NEW ys, ys \in Seq(ToSet(ys)), Len(xs) = Len(ys),
           AllComparable(xs, ys, D, V, ca, cb),
           NEW dims, NEW classes, MapsOK(dims, classes, D, V, ca, cb),
           FieldOrder(xs, ys, dims, classes, ca, cb).ok
    PROVE  /\ Grown(FieldOrder(xs, ys, dims, classes, ca, cb), dims, classes, D, V, ca, cb)
           /\ OrderFits(xs, ys, FieldOrder(xs, ys, dims, classes, ca, cb))
<1> DEFINE r == FieldOrder(xs, ys, dims, classes, ca, cb)
           all == IF ys = <<>> THEN <<<<>>>> ELSE Orders(ys)
           Fm(order) == FieldsMatch(xs, order, dims, classes, ca, cb)
           Try(order) == [ok |-> Fm(order).ok, dims |-> Fm(order).dims, classes |-> Fm(order).classes,
                          order |-> order]
           tried == [i \in DOMAIN all |-> Try(all[i])]
<1>1. r = FirstFit(tried)
  BY DEF FieldOrder
<1>2. PICK n \in Nat : DOMAIN all = 1 .. n /\ \A i \in 1 .. n : IsOrder(all[i], ys)
  BY OrdersToTry
<1>3. DOMAIN tried = 1 .. n /\ \A i \in 1 .. n : tried[i] = Try(all[i])
  BY <1>2
<1> HIDE DEF all, tried
<1>4. PICK w \in 1 .. n : tried[w].ok /\ r = tried[w]
  BY <1>1, <1>3, FirstFitFits
<1> DEFINE x == all[w]
           s == FieldsMatch(xs, x, dims, classes, ca, cb)
<1>5. IsOrder(x, ys)
  BY <1>2, <1>4
<1>6. r = Try(x) /\ s.ok
  BY <1>3, <1>4
<1> HIDE DEF r, x
<1>7. r.dims = s.dims /\ r.classes = s.classes /\ r.order = x
  BY <1>6
<1>8. \A i \in 1 .. Len(xs) : Comparable(xs[i], x[i], D, V, ca, cb)
  BY <1>5, OrderComparable
<1> HIDE DEF s
<1>9. /\ Grown(s, dims, classes, D, V, ca, cb)
      /\ \A i \in 1 .. Len(xs) : FieldFits(xs[i], x[i], s.dims, s.classes)
  BY <1>6, <1>8, FieldsMatchSound DEF s
<1>10. Grown(r, dims, classes, D, V, ca, cb)
  BY <1>7, <1>9 DEF Grown
<1>11. OrderFits(xs, ys, r)
  BY <1>5, <1>7, <1>9 DEF OrderFits
<1>12. QED
  BY <1>10, <1>11 DEF r

------------------------------------------------------------------------------
(* Pairings.                                                               *)

\* g pairs the elements of P with those of Q.
OneToOne(g, P, Q) ==
    /\ g \in [P -> Q]
    /\ \A i, j \in P : g[i] = g[j] => i = j
    /\ \A q \in Q : \E i \in P : g[i] = q

\* g leads from the places P of s to the places Q of u, by way of the lists of what is at
\* those places.
Pairs(g, s, P, u, Q, order) ==
    /\ OneToOne(g, P, Q)
    /\ \A i \in P : \E p \in 1 .. Len(Picked(s, P)) : Picked(s, P)[p] = s[i] /\ order[p] = u[g[i]]

\* The elements that are picked stand for the places they were picked from.
LEMMA PickedOneToOne ==
    ASSUME NEW s, s \in Seq(ToSet(s)), NEW P \in SUBSET DOMAIN s
    PROVE  \E h : /\ OneToOne(h, 1 .. Len(Picked(s, P)), P)
                  /\ \A m \in 1 .. Len(Picked(s, P)) : Picked(s, P)[m] = s[h[m]]
<1>1. PICK h : PickedUpTo(s, P, Len(s), Picked(s, P), h)
  BY PickedPlaces
<1>2. {i \in 1 .. Len(s) : i \in P} = P /\ \A i \in P : i \in 1 .. Len(s)
  OBVIOUS
<1> DEFINE q == Picked(s, P)
<1>3. h \in [1 .. Len(q) -> P]
  BY <1>1, <1>2 DEF PickedUpTo
<1>4. \A a, b \in 1 .. Len(q) : h[a] = h[b] => a = b
  BY <1>1 DEF PickedUpTo
<1>5. \A i \in P : \E m \in 1 .. Len(q) : h[m] = i
  BY <1>1, <1>2 DEF PickedUpTo
<1>6. \A m \in 1 .. Len(q) : q[m] = s[h[m]]
  BY <1>1 DEF PickedUpTo
<1>7. OneToOne(h, 1 .. Len(q), P)
  BY <1>3, <1>4, <1>5 DEF OneToOne
<1>8. QED
  BY <1>6, <1>7

\* An order of picked elements pairs the places they were picked from.
LEMMA PairsExist ==
    ASSUME NEW s, s \in Seq(ToSet(s)), NEW P \in SUBSET DOMAIN s,
           NEW u, u \in Seq(ToSet(u)), NEW Q \in SUBSET DOMAIN u,
           Len(Picked(s, P)) = Len(Picked(u, Q)), NEW order, IsOrder(order, Picked(u, Q))
    PROVE  \E g : Pairs(g, s, P, u, Q, order)
<1> DEFINE a == Picked(s, P)
           b == Picked(u, Q)
           L == Len(a)
<1>1. PICK h : OneToOne(h, 1 .. L, P) /\ \A m \in 1 .. L : a[m] = s[h[m]]
  BY PickedOneToOne
<1>2. PICK k : OneToOne(k, 1 .. L, Q) /\ \A m \in 1 .. L : b[m] = u[k[m]]
  BY PickedOneToOne
<1>3. PICK rho \in Arrangements(L) : order = [i \in 1 .. L |-> b[rho[i]]]
  BY DEF IsOrder
<1>4. OneToOne(rho, 1 .. L, 1 .. L)
  BY <1>3 DEF Arrangements, OneToOne
<1> DEFINE at(i) == CHOOSE p \in 1 .. L : h[p] = i
           g == [i \in P |-> k[rho[at(i)]]]
<1> HIDE DEF a, b, L
<1>5. \A i \in P : at(i) \in 1 .. L /\ h[at(i)] = i
  BY <1>1 DEF OneToOne
<1>6. \A p \in 1 .. L : h[p] \in P /\ at(h[p]) = p
  BY <1>1, <1>5 DEF OneToOne
<1> HIDE DEF at
<1>7. g \in [P -> Q]
  BY <1>2, <1>4, <1>5 DEF OneToOne
<1>8. ASSUME NEW i \in P, NEW j \in P, g[i] = g[j] PROVE i = j
  <2>1. k[rho[at(i)]] = k[rho[at(j)]]
    BY <1>8
  <2>2. rho[at(i)] = rho[at(j)]
    BY <1>2, <1>4, <1>5, <2>1, SMTT(30) DEF OneToOne
  <2>3. at(i) = at(j)
    BY <1>4, <1>5, <2>2 DEF OneToOne
  <2>4. QED
    BY <1>5, <2>3
<1>9. ASSUME NEW q \in Q PROVE \E i \in P : g[i] = q
  <2>1. PICK m \in 1 .. L : k[m] = q
    BY <1>2 DEF OneToOne
  <2>2. PICK p \in 1 .. L : rho[p] = m
    BY <1>4 DEF OneToOne
  <2>3. h[p] \in P /\ g[h[p]] = q
    BY <1>6, <2>1, <2>2
  <2>4. QED
    BY <2>3
<1>10. OneToOne(g, P, Q)
  BY <1>7, <1>8, <1>9 DEF OneToOne
<1>11. ASSUME NEW i \in P PROVE \E p \in 1 .. L : a[p] = s[i] /\ order[p] = u[g[i]]
  <2>1. at(i) \in 1 .. L /\ h[at(i)] = i
    BY <1>5
  <2>2. rho[at(i)] \in 1 .. L
    BY <1>4, <2>1 DEF OneToOne
  <2>3. a[at(i)] = s[i] /\ order[at(i)] = u[g[i]]
    BY <1>1, <1>2, <1>3, <2>1, <2>2
  <2>4. QED
    BY <2>1, <2>3
<1> HIDE DEF g
<1>12. Pairs(g, s, P, u, Q, order)
  BY <1>10, <1>11 DEF Pairs, a, L
<1>13. QED
  BY <1>12

------------------------------------------------------------------------------
(* The fields of a node.                                                   *)

\* Pairings of disjoint sets join to one.
LEMMA JoinOneToOne ==
    ASSUME NEW A, NEW B, NEW C,
           NEW D, \A x : ~(x \in A /\ x \in B), \A x : ~(x \in C /\ x \in D),
           NEW g, OneToOne(g, A, C), NEW h, OneToOne(h, B, D)
    PROVE  OneToOne([i \in A \cup B |-> IF i \in A THEN g[i] ELSE h[i]], A \cup B, C \cup D)
<1> DEFINE s == [i \in A \cup B |-> IF i \in A THEN g[i] ELSE h[i]]
<1>1. (\A i \in A : s[i] = g[i] /\ g[i] \in C) /\ \A i \in B : s[i] = h[i] /\ h[i] \in D
  BY DEF OneToOne
<1>2. s \in [A \cup B -> C \cup D]
  BY <1>1
<1> HIDE DEF s
<1>3. ASSUME NEW i \in A \cup B, NEW j \in A \cup B, s[i] = s[j] PROVE i = j
  BY <1>1, <1>3 DEF OneToOne
<1>4. ASSUME NEW q \in C \cup D PROVE \E i \in A \cup B : s[i] = q
  BY <1>1 DEF OneToOne
<1>5. QED
  BY <1>2, <1>3, <1>4 DEF OneToOne, s

\* A node whose parts can be compared.
IsNode(n, classes) ==
    /\ n.fields \in Seq(ToSet(n.fields)) /\ DistinctNames(n.fields)
    /\ n.links \in Seq(ToSet(n.links)) /\ DistinctNames(n.links)
    /\ \A i \in DOMAIN n.fields :
        /\ n.fields[i].type \in {"tensor", "category"}
        /\ n.fields[i].type = "tensor" => AreDimensions(n.fields[i].dim)
        /\ n.fields[i].type = "category" => n.fields[i].class \in Names(classes)

\* The dimensions of its tensors are among V.
DimsIn(k, V) ==
    \A i \in DOMAIN k.fields : k.fields[i].type = "tensor" =>
        \A j \in DOMAIN k.fields[i].dim : k.fields[i].dim[j].d \in V

\* The places of the fields of a type.
FieldPlaces(n, type) == {i \in DOMAIN n.fields : n.fields[i].type = type}

\* The fields of a type are fields of the node, in its order.
LEMMA OfTypeFields ==
    ASSUME NEW n, NEW classes, IsNode(n, classes), NEW type
    PROVE  /\ OfType(n, type) = Picked(n.fields, FieldPlaces(n, type))
           /\ OfType(n, type) \in Seq(ToSet(OfType(n, type))) /\ DistinctNames(OfType(n, type))
           /\ \A p \in DOMAIN OfType(n, type) : \E i \in FieldPlaces(n, type) :
                OfType(n, type)[p] = n.fields[i]
<1> DEFINE q == OfType(n, type)
           P == FieldPlaces(n, type)
<1>1. q = Picked(n.fields, P)
  BY DEF OfType, FieldPlaces
<1>2. n.fields \in Seq(ToSet(n.fields)) /\ DistinctNames(n.fields)
  BY DEF IsNode
<1>3. /\ q \in Seq(ToSet(n.fields)) /\ ToSet(q) = {n.fields[i] : i \in {i \in DOMAIN n.fields : i \in P}}
      /\ DistinctNames(q)
  BY <1>1, <1>2, PickedParts
<1> HIDE DEF q, P
<1>4. q \in Seq(ToSet(q)) /\ \A p \in DOMAIN q : q[p] \in ToSet(q)
  BY <1>3 DEF ToSet
<1>5. \A p \in DOMAIN q : \E i \in P : q[p] = n.fields[i]
  BY <1>3, <1>4
<1>6. QED
  BY <1>1, <1>3, <1>4, <1>5 DEF q, P

\* The fields of a type of two nodes that were read can be compared.
LEMMA OfTypeComparable ==
    ASSUME NEW D, NEW V, NEW ca, NEW cb, NEW n, IsNode(n, ca), DimsIn(n, D),
           NEW k, IsNode(k, cb), DimsIn(k, V), NEW type \in {"tensor", "category"}
    PROVE  AllComparable(OfType(n, type), OfType(k, type), D, V, ca, cb)
<1> SUFFICES ASSUME NEW p \in DOMAIN OfType(n, type), NEW q \in DOMAIN OfType(k, type)
             PROVE  Comparable(OfType(n, type)[p], OfType(k, type)[q], D, V, ca, cb)
  BY DEF AllComparable
<1>1. PICK i \in FieldPlaces(n, type) : OfType(n, type)[p] = n.fields[i]
  BY OfTypeFields
<1>2. PICK j \in FieldPlaces(k, type) : OfType(k, type)[q] = k.fields[j]
  BY OfTypeFields
<1>3. i \in DOMAIN n.fields /\ n.fields[i].type = type /\ j \in DOMAIN k.fields /\ k.fields[j].type = type
  BY DEF FieldPlaces
<1>4. /\ type = "tensor" => /\ AreDimensions(n.fields[i].dim) /\ AreDimensions(k.fields[j].dim)
                            /\ \A d \in DOMAIN n.fields[i].dim : n.fields[i].dim[d].d \in D
                            /\ \A d \in DOMAIN k.fields[j].dim : k.fields[j].dim[d].d \in V
      /\ type = "category" => n.fields[i].class \in Names(ca) /\ k.fields[j].class \in Names(cb)
  BY <1>3 DEF IsNode, DimsIn
<1>5. QED
  BY <1>1, <1>2, <1>3, <1>4 DEF Comparable

------------------------------------------------------------------------------
(* Nodes.                                                                  *)

\* The fields of n are those of k under sigma.
FieldsFit(n, k, sigma, dims, classes) ==
    /\ OneToOne(sigma, DOMAIN n.fields, DOMAIN k.fields)
    /\ \A i \in DOMAIN n.fields : /\ n.fields[i].type = k.fields[sigma[i]].type
                                  /\ FieldFits(n.fields[i], k.fields[sigma[i]], dims, classes)

\* b is n with the names that its parts have in k.
IsBuilt(b, n, k, sigma) ==
    b = [name |-> n.name, singleton |-> n.singleton, srcName |-> k.name, links |-> n.links,
         fields |-> [i \in DOMAIN n.fields |-> BuildField(n.fields[i], k.fields[sigma[i]])]]

\* n fits k, and b is what was built of it.
NodeFits(n, k, b, dims, classes, names) ==
    /\ Len(n.links) = Len(k.links) /\ LinksMatch(n, k, names)
    /\ \E sigma : FieldsFit(n, k, sigma, dims, classes) /\ IsBuilt(b, n, k, sigma)

\* The place of a field in a list of fields.
PlaceOf(f, fs) == CHOOSE i \in DOMAIN fs : fs[i].name = f.name

\* The fields of one type that an order pairs.
TypeFit(n, k, type, r, g) ==
    /\ OneToOne(g, FieldPlaces(n, type), FieldPlaces(k, type))
    /\ \A i \in FieldPlaces(n, type) :
        /\ r.order[PlaceOf(n.fields[i], OfType(n, type))] = k.fields[g[i]]
        /\ FieldFits(n.fields[i], k.fields[g[i]], r.dims, r.classes)

\* An order of the fields of a type that fits pairs their places.
LEMMA TypeFitExists ==
    ASSUME NEW ca, NEW cb, NEW n, IsNode(n, ca), NEW k, IsNode(k, cb), NEW type,
           Len(OfType(n, type)) = Len(OfType(k, type)),
           NEW r, OrderFits(OfType(n, type), OfType(k, type), r)
    PROVE  \E g : TypeFit(n, k, type, r, g)
<1> DEFINE P == FieldPlaces(n, type)
           Q == FieldPlaces(k, type)
           xs == OfType(n, type)
           ys == OfType(k, type)
<1>1. xs = Picked(n.fields, P) /\ ys = Picked(k.fields, Q)
  BY OfTypeFields
<1>2. xs \in Seq(ToSet(xs)) /\ DistinctNames(xs)
  BY OfTypeFields
<1>3. n.fields \in Seq(ToSet(n.fields)) /\ k.fields \in Seq(ToSet(k.fields))
  BY DEF IsNode
<1>4. P \in SUBSET DOMAIN n.fields /\ Q \in SUBSET DOMAIN k.fields
  BY DEF FieldPlaces
<1>5. IsOrder(r.order, ys) /\ Len(xs) = Len(ys)
  BY DEF OrderFits
<1>6. \A p \in 1 .. Len(xs) : FieldFits(xs[p], r.order[p], r.dims, r.classes)
  BY DEF OrderFits
<1>7. \E g : Pairs(g, n.fields, P, k.fields, Q, r.order)
  <2> DEFINE s == n.fields
             u == k.fields
             o == r.order
  <2>1. /\ s \in Seq(ToSet(s)) /\ u \in Seq(ToSet(u)) /\ P \in SUBSET DOMAIN s /\ Q \in SUBSET DOMAIN u
        /\ Len(Picked(s, P)) = Len(Picked(u, Q)) /\ IsOrder(o, Picked(u, Q))
    BY <1>1, <1>3, <1>4, <1>5
  <2> HIDE DEF P, Q, xs, ys, s, u, o
  <2>2. \E g : Pairs(g, s, P, u, Q, o)
    BY <2>1, PairsExist
  <2>3. QED
    BY <2>2 DEF s, u, o
<1>8. PICK g : Pairs(g, n.fields, P, k.fields, Q, r.order)
  BY <1>7
<1> HIDE DEF P, Q, xs, ys
<1>9. OneToOne(g, P, Q)
  BY <1>8 DEF Pairs
<1>10. ASSUME NEW i \in P
       PROVE  /\ r.order[PlaceOf(n.fields[i], xs)] = k.fields[g[i]]
              /\ FieldFits(n.fields[i], k.fields[g[i]], r.dims, r.classes)
  <2>1. PICK p \in 1 .. Len(xs) : xs[p] = n.fields[i] /\ r.order[p] = k.fields[g[i]]
    BY <1>1, <1>8 DEF Pairs
  <2>2. DOMAIN xs = 1 .. Len(xs)
    BY <1>2
  <2>3. \A m \in DOMAIN xs : xs[m].name = n.fields[i].name => m = p
    BY <1>2, <2>1, <2>2 DEF DistinctNames
  <2>4. PlaceOf(n.fields[i], xs) = p
    BY <2>1, <2>2, <2>3 DEF PlaceOf
  <2>5. FieldFits(xs[p], r.order[p], r.dims, r.classes)
    BY <1>6, <2>1
  <2>6. QED
    BY <2>1, <2>4, <2>5
<1>11. TypeFit(n, k, type, r, g)
  BY <1>9, <1>10 DEF TypeFit, P, Q, xs
<1>12. QED
  BY <1>11

\* Both types together.
LEMMA TypesJoin ==
    ASSUME NEW ca, NEW cb, NEW n, IsNode(n, ca), NEW k, IsNode(k, cb),
           NEW t, NEW g, TypeFit(n, k, "tensor", t, g),
           NEW c, NEW h, TypeFit(n, k, "category", c, h),
           Extends(c.dims, t.dims), Extends(c.classes, t.classes)
    PROVE  \E sigma : /\ FieldsFit(n, k, sigma, c.dims, c.classes)
                      /\ IsBuilt(BuildNode(n, k, t.order, c.order), n, k, sigma)
<1> DEFINE A == FieldPlaces(n, "tensor")
           B == FieldPlaces(n, "category")
           C == FieldPlaces(k, "tensor")
           D == FieldPlaces(k, "category")
           sigma == [i \in A \cup B |-> IF i \in A THEN g[i] ELSE h[i]]
<1>1. DOMAIN n.fields = A \cup B /\ DOMAIN k.fields = C \cup D
  BY DEF FieldPlaces, IsNode
<1>2. (\A x : ~(x \in A /\ x \in B)) /\ (\A x : ~(x \in C /\ x \in D))
  BY DEF FieldPlaces
<1>3. OneToOne(g, A, C) /\ OneToOne(h, B, D)
  BY DEF TypeFit
<1>4. OneToOne(sigma, A \cup B, C \cup D)
  <2> HIDE DEF A, B, C, D
  <2>1. QED
    BY <1>2, <1>3, JoinOneToOne
<1>5. (\A i \in A : sigma[i] = g[i] /\ g[i] \in C) /\ \A i \in B : sigma[i] = h[i] /\ h[i] \in D
  <2> HIDE DEF A, B, C, D
  <2>1. QED
    BY <1>2, <1>3 DEF OneToOne
<1> HIDE DEF sigma
<1> DEFINE From(i) == IF n.fields[i].type = "tensor" THEN t.order[PlaceOf(n.fields[i], OfType(n, "tensor"))]
                      ELSE c.order[PlaceOf(n.fields[i], OfType(n, "category"))]
<1>6. ASSUME NEW i \in A
      PROVE  /\ From(i) = k.fields[sigma[i]] /\ n.fields[i].type = k.fields[sigma[i]].type
             /\ FieldFits(n.fields[i], k.fields[sigma[i]], c.dims, c.classes)
  <2>1. sigma[i] = g[i] /\ g[i] \in C
    BY <1>5
  <2>2. n.fields[i].type = "tensor" /\ k.fields[sigma[i]].type = "tensor"
    BY <2>1 DEF FieldPlaces
  <2>3. From(i) = k.fields[g[i]] /\ FieldFits(n.fields[i], k.fields[g[i]], t.dims, t.classes)
    BY <2>2 DEF TypeFit
  <2>4. FieldFits(n.fields[i], k.fields[g[i]], c.dims, c.classes)
    BY <2>3, FitsStill
  <2>5. QED
    BY <2>1, <2>2, <2>3, <2>4
<1>7. ASSUME NEW i \in B
      PROVE  /\ From(i) = k.fields[sigma[i]] /\ n.fields[i].type = k.fields[sigma[i]].type
             /\ FieldFits(n.fields[i], k.fields[sigma[i]], c.dims, c.classes)
  <2>1. sigma[i] = h[i] /\ h[i] \in D
    BY <1>5
  <2>2. n.fields[i].type = "category" /\ k.fields[sigma[i]].type = "category"
    BY <2>1 DEF FieldPlaces
  <2>3. From(i) = k.fields[h[i]] /\ FieldFits(n.fields[i], k.fields[h[i]], c.dims, c.classes)
    BY <2>2 DEF TypeFit
  <2>5. QED
    BY <2>1, <2>2, <2>3
<1> HIDE DEF A, B, C, D
<1>8. FieldsFit(n, k, sigma, c.dims, c.classes)
  BY <1>1, <1>4, <1>6, <1>7 DEF FieldsFit
<1>9. BuildNode(n, k, t.order, c.order) =
        [name |-> n.name, singleton |-> n.singleton, srcName |-> k.name, links |-> n.links,
         fields |-> [i \in DOMAIN n.fields |-> BuildField(n.fields[i], From(i))]]
  BY DEF BuildNode, PlaceOf
<1>10. \A i \in DOMAIN n.fields : From(i) = k.fields[sigma[i]]
  BY <1>1, <1>6, <1>7
<1> HIDE DEF From
<1>11. [i \in DOMAIN n.fields |-> BuildField(n.fields[i], From(i))]
         = [i \in DOMAIN n.fields |-> BuildField(n.fields[i], k.fields[sigma[i]])]
  BY <1>10
<1>12. IsBuilt(BuildNode(n, k, t.order, c.order), n, k, sigma)
  BY <1>9, <1>11 DEF IsBuilt
<1>13. QED
  BY <1>8, <1>12

\* Two nodes that match fit.
LEMMA MatchNodeSound ==
    ASSUME NEW D, NEW V, NEW ca, NEW cb, \A c \in ToSet(cb) : c.dim \in V,
           \A c \in ToSet(ca) : c.dim \in D,
           NEW n, IsNode(n, ca), DimsIn(n, D), NEW k, IsNode(k, cb), DimsIn(k, V),
           NEW dims, NEW classes, MapsOK(dims, classes, D, V, ca, cb), NEW names,
           MatchNode(n, k, dims, classes, names, ca, cb).ok
    PROVE  LET r == MatchNode(n, k, dims, classes, names, ca, cb)
           IN  /\ Grown(r, dims, classes, D, V, ca, cb)
               /\ NodeFits(n, k, r.node, r.dims, r.classes, names)
<1> DEFINE r == MatchNode(n, k, dims, classes, names, ca, cb)
           nt == OfType(n, "tensor")
           kt == OfType(k, "tensor")
           nc == OfType(n, "category")
           kc == OfType(k, "category")
           t == FieldOrder(nt, kt, dims, classes, ca, cb)
           c == FieldOrder(nc, kc, t.dims, t.classes, ca, cb)
           b == BuildNode(n, k, t.order, c.order)
           done == [ok |-> TRUE, dims |-> c.dims, classes |-> c.classes, node |-> b]
<1>1. r = IF CountsMatch(n, k) /\ LinksMatch(n, k, names)
          THEN IF ~t.ok THEN Fails ELSE IF ~c.ok THEN Fails ELSE done
          ELSE Fails
  BY DEF MatchNode
<1>2. ~Fails.ok
  BY DEF Fails
<1> HIDE DEF t, c, b, done
<1>3. CountsMatch(n, k) /\ LinksMatch(n, k, names) /\ t.ok /\ c.ok /\ r = done
  BY <1>1, <1>2
<1>4. r.dims = c.dims /\ r.classes = c.classes /\ r.node = b
  BY <1>3 DEF done
<1>5. Len(nt) = Len(kt) /\ Len(nc) = Len(kc) /\ Len(n.links) = Len(k.links)
  BY <1>3 DEF CountsMatch
<1>6. /\ nt \in Seq(ToSet(nt)) /\ kt \in Seq(ToSet(kt)) /\ nc \in Seq(ToSet(nc)) /\ kc \in Seq(ToSet(kc))
  BY OfTypeFields
<1>7. AllComparable(nt, kt, D, V, ca, cb) /\ AllComparable(nc, kc, D, V, ca, cb)
  BY OfTypeComparable
<1> HIDE DEF r, nt, kt, nc, kc
<1>8. Grown(t, dims, classes, D, V, ca, cb) /\ OrderFits(nt, kt, t)
  BY <1>3, <1>5, <1>6, <1>7, FieldOrderSound DEF t
<1>9. MapsOK(t.dims, t.classes, D, V, ca, cb) /\ Extends(t.dims, dims) /\ Extends(t.classes, classes)
  BY <1>8 DEF Grown
<1>10. Grown(c, t.dims, t.classes, D, V, ca, cb) /\ OrderFits(nc, kc, c)
  BY <1>3, <1>5, <1>6, <1>7, <1>9, FieldOrderSound DEF c
<1>11. MapsOK(c.dims, c.classes, D, V, ca, cb) /\ Extends(c.dims, t.dims) /\ Extends(c.classes, t.classes)
  BY <1>10 DEF Grown
<1>12. Grown(r, dims, classes, D, V, ca, cb)
  BY <1>4, <1>9, <1>11, ExtendsTransitive DEF Grown
<1>13. PICK g : TypeFit(n, k, "tensor", t, g)
  BY <1>5, <1>8, TypeFitExists DEF nt, kt
<1>14. PICK h : TypeFit(n, k, "category", c, h)
  BY <1>5, <1>10, TypeFitExists DEF nc, kc
<1>15. \E sigma : FieldsFit(n, k, sigma, c.dims, c.classes) /\ IsBuilt(b, n, k, sigma)
  BY <1>11, <1>13, <1>14, TypesJoin DEF b
<1>16. NodeFits(n, k, r.node, r.dims, r.classes, names)
  BY <1>3, <1>4, <1>5, <1>15 DEF NodeFits
<1>17. QED
  BY <1>12, <1>16 DEF r

\* Nodes that fit still fit when the maps grow.
LEMMA NodeFitsStill ==
    ASSUME NEW n, NEW k, NEW b, NEW names, NEW dims,
           NEW classes, NodeFits(n, k, b, dims, classes, names),
           NEW moreDims, NEW moreClasses, Extends(moreDims, dims), Extends(moreClasses, classes)
    PROVE  NodeFits(n, k, b, moreDims, moreClasses, names)
<1>1. PICK sigma : FieldsFit(n, k, sigma, dims, classes) /\ IsBuilt(b, n, k, sigma)
  BY DEF NodeFits
<1>2. FieldsFit(n, k, sigma, moreDims, moreClasses)
  BY <1>1, FitsStill DEF FieldsFit
<1>3. QED
  BY <1>1, <1>2 DEF NodeFits

\* What is appended to a list is its last element.
LEMMA AppendList ==
    ASSUME NEW s, s \in Seq(ToSet(s)), NEW x
    PROVE  /\ Append(s, x) \in Seq(ToSet(Append(s, x))) /\ Len(Append(s, x)) = Len(s) + 1
           /\ \A i \in 1 .. Len(s) : Append(s, x)[i] = s[i]
           /\ Append(s, x)[Len(s) + 1] = x
<1> DEFINE S == ToSet(s) \cup {x}
           a == Append(s, x)
<1>1. s \in Seq(S) /\ x \in S
  <2> HIDE DEF S
  <2>1. ToSet(s) \subseteq S /\ x \in S
    BY DEF S
  <2>2. QED
    BY <2>1
<1> HIDE DEF S
<1>2. /\ a \in Seq(S) /\ Len(a) = Len(s) + 1 /\ a[Len(s) + 1] = x
      /\ \A i \in 1 .. Len(s) : a[i] = s[i]
  BY <1>1
<1> HIDE DEF a
<1>3. a \in Seq(ToSet(a))
  BY <1>2 DEF ToSet
<1>4. QED
  BY <1>2, <1>3 DEF a

\* One turn of the loop over two lists of nodes.
NodeNext(n, k, r, names, ca, cb) ==
    LET Join(t) == IF ~t.ok THEN Fails
                   ELSE [ok |-> TRUE, dims |-> t.dims, classes |-> t.classes,
                         built |-> Append(r.built, t.node)]
    IN  IF ~r.ok THEN Fails ELSE Join(MatchNode(n, k, r.dims, r.classes, names, ca, cb))

\* What the definition of NodesMatch says of i.
NodeStep(xs, ys, start, names, ca, cb, U, i) ==
    IF i = 0 THEN start ELSE NodeNext(xs[i], ys[i], U[i - 1], names, ca, cb)

\* The function NodesMatch is defined by, up to M.
NodeRun(F, M, xs, ys, start, names, ca, cb) ==
    F = [i \in 0 .. M |-> NodeStep(xs, ys, start, names, ca, cb, F, i)]

\* The function that NodesMatch is defined by exists.
LEMMA NodeRunExists ==
    ASSUME NEW M \in Nat, NEW xs, NEW ys, NEW start, NEW names, NEW ca, NEW cb
    PROVE  \E F : NodeRun(F, M, xs, ys, start, names, ca, cb)
<1> DEFINE Good(F, m) == F = [i \in 0 .. m |-> NodeStep(xs, ys, start, names, ca, cb, F, i)]
           T == {m \in Nat : \E F : Good(F, m)}
<1>1. 0 \in T
  <2>1. Good([n \in 0 .. 0 |-> NodeStep(xs, ys, start, names, ca, cb, <<>>, 0)], 0)
    BY DEF NodeStep
  <2>2. QED
    BY <2>1
<1>2. ASSUME NEW m \in Nat, m \in T PROVE m + 1 \in T
  <2>1. PICK U : Good(U, m)
    BY <1>2
  <2> DEFINE W == [n \in 0 .. m + 1 |-> IF n <= m THEN U[n] ELSE NodeStep(xs, ys, start, names, ca, cb, U, n)]
  <2>2. \A n \in 0 .. m : W[n] = U[n] /\ U[n] = NodeStep(xs, ys, start, names, ca, cb, U, n)
    BY <2>1
  <2>3. W[m + 1] = NodeStep(xs, ys, start, names, ca, cb, U, m + 1) /\ W = [n \in 0 .. m + 1 |-> W[n]]
    OBVIOUS
  <2>4. ASSUME NEW n \in 0 .. m + 1 PROVE W[n] = NodeStep(xs, ys, start, names, ca, cb, W, n)
    <3> HIDE DEF W
    <3>1. CASE n = m + 1
      <4>1. n # 0 /\ n - 1 = m /\ m \in 0 .. m
        BY <3>1
      <4>2. QED
        BY <3>1, <4>1, <2>2, <2>3 DEF NodeStep
    <3>2. CASE n = 0
      BY <2>2, <3>2 DEF NodeStep
    <3>3. CASE n # 0 /\ n # m + 1
      <4>1. n \in 0 .. m /\ n - 1 \in 0 .. m
        BY <3>3
      <4>2. QED
        BY <3>3, <4>1, <2>2 DEF NodeStep
    <3>4. QED
      BY <3>1, <3>2, <3>3
  <2>5. Good(W, m + 1)
    <3> HIDE DEF W
    <3>1. QED
      BY <2>3, <2>4
  <2> HIDE DEF Good, W
  <2>6. QED
    BY <2>5
<1>3. Nat \subseteq T
  <2> HIDE DEF T
  <2>1. QED
    BY <1>1, <1>2, SetInduction
<1>4. PICK F : Good(F, M)
  BY <1>3
<1>5. NodeRun(F, M, xs, ys, start, names, ca, cb)
  BY <1>4 DEF NodeRun
<1>6. QED
  BY <1>5

\* The result before the first pair of nodes.
NoNodes(dims, classes) == [ok |-> TRUE, dims |-> dims, classes |-> classes, built |-> <<>>]

\* NodesMatch takes the nodes one after the other and hands the maps on.
LEMMA NodesMatchSteps ==
    ASSUME NEW M \in Nat, NEW xs, NEW ys, NEW dims, NEW classes, NEW names, NEW ca, NEW cb
    PROVE  \E U : /\ NodesMatch(M, xs, ys, dims, classes, names, ca, cb) = U[M]
                  /\ \A i \in 0 .. M : U[i] = NodeStep(xs, ys, NoNodes(dims, classes), names, ca, cb, U, i)
<1> DEFINE U == CHOOSE F : NodeRun(F, M, xs, ys, NoNodes(dims, classes), names, ca, cb)
<1>1. NodesMatch(M, xs, ys, dims, classes, names, ca, cb) = U[M]
  BY DEF NodesMatch, NodeRun, NodeStep, NodeNext, NoNodes
<1>2. NodeRun(U, M, xs, ys, NoNodes(dims, classes), names, ca, cb)
  BY NodeRunExists
<1> HIDE DEF U
<1>5. \A i \in 0 .. M : U[i] = NodeStep(xs, ys, NoNodes(dims, classes), names, ca, cb, U, i)
  BY <1>2 DEF NodeRun
<1>6. QED
  BY <1>1, <1>5

\* The first m nodes of two lists fit, and were built.
NodesFit(m, xs, ys, r, names) ==
    /\ r.built \in Seq(ToSet(r.built)) /\ Len(r.built) = m
    /\ \A i \in 1 .. m : NodeFits(xs[i], ys[i], r.built[i], r.dims, r.classes, names)

\* Nodes that are found to fit do, with the maps that result.
LEMMA NodesMatchSound ==
    ASSUME NEW D, NEW V, NEW ca, NEW cb, \A c \in ToSet(cb) : c.dim \in V,
           \A c \in ToSet(ca) : c.dim \in D,
           NEW M \in Nat, NEW xs, NEW ys, NEW names, NEW dims,
           NEW classes, MapsOK(dims, classes, D, V, ca, cb),
           \A i \in 1 .. M :
               IsNode(xs[i], ca) /\ DimsIn(xs[i], D) /\ IsNode(ys[i], cb) /\ DimsIn(ys[i], V),
           NodesMatch(M, xs, ys, dims, classes, names, ca, cb).ok
    PROVE  /\ Grown(NodesMatch(M, xs, ys, dims, classes, names, ca, cb), dims, classes, D, V, ca, cb)
           /\ NodesFit(M, xs, ys, NodesMatch(M, xs, ys, dims, classes, names, ca, cb), names)
<1> DEFINE r == NodesMatch(M, xs, ys, dims, classes, names, ca, cb)
<1>0. PICK U : /\ r = U[M]
               /\ \A i \in 0 .. M : U[i] = NodeStep(xs, ys, NoNodes(dims, classes), names, ca, cb, U, i)
  BY NodesMatchSteps
<1>1. r = U[M]
  BY <1>0
<1>5. \A i \in 0 .. M : U[i] = NodeStep(xs, ys, NoNodes(dims, classes), names, ca, cb, U, i)
  BY <1>0
<1> DEFINE Inv(i) == U[i].ok => Grown(U[i], dims, classes, D, V, ca, cb) /\ NodesFit(i, xs, ys, U[i], names)
           T == {i \in Nat : i <= M => Inv(i)}
<1>6. 0 \in T
  <2>1. U[0] = NoNodes(dims, classes)
    BY <1>5 DEF NodeStep
  <2>2. U[0].dims = dims /\ U[0].classes = classes /\ U[0].built = <<>>
    BY <2>1 DEF NoNodes
  <2>3. Grown(U[0], dims, classes, D, V, ca, cb)
    BY <2>2, ExtendsItself DEF Grown
  <2>4. NodesFit(0, xs, ys, U[0], names)
    BY <2>2 DEF NodesFit
  <2>5. Inv(0)
    BY <2>3, <2>4
  <2> HIDE DEF Inv
  <2>6. QED
    BY <2>5
<1>7. ASSUME NEW i \in Nat, i \in T PROVE i + 1 \in T
  <2>0. SUFFICES ASSUME i + 1 <= M, U[i + 1].ok PROVE Inv(i + 1)
    <3>1. (i + 1 <= M => Inv(i + 1)) => i + 1 \in T
      <4> HIDE DEF Inv
      <4>1. QED
        OBVIOUS
    <3>2. ~U[i + 1].ok => Inv(i + 1)
      OBVIOUS
    <3> HIDE DEF Inv
    <3>3. QED
      BY <3>1, <3>2
  <2>1. i + 1 \in 0 .. M /\ i + 1 # 0 /\ (i + 1) - 1 = i /\ i <= M /\ i + 1 \in 1 .. M
    BY <2>0
  <2> DEFINE u == U[i]
             v == U[i + 1]
             n == xs[i + 1]
             k == ys[i + 1]
             t == MatchNode(n, k, u.dims, u.classes, names, ca, cb)
             joined == [ok |-> TRUE, dims |-> t.dims, classes |-> t.classes, built |-> Append(u.built, t.node)]
  <2>2. v = IF ~u.ok THEN Fails ELSE IF ~t.ok THEN Fails ELSE joined
    BY <1>5, <2>1 DEF NodeStep, NodeNext
  <2>3. IsNode(n, ca) /\ DimsIn(n, D) /\ IsNode(k, cb) /\ DimsIn(k, V)
    BY <2>1
  <2>4. u.ok => Grown(u, dims, classes, D, V, ca, cb) /\ NodesFit(i, xs, ys, u, names)
    BY <1>7, <2>1
  <2>5. ~Fails.ok /\ v.ok
    BY <2>0 DEF Fails
  <2> HIDE DEF u, v, n, k, t, joined
  <2>6. u.ok /\ t.ok /\ v = joined
    BY <2>2, <2>5
  <2>7. MapsOK(u.dims, u.classes, D, V, ca, cb)
    BY <2>4, <2>6 DEF Grown
  <2>8. Grown(t, u.dims, u.classes, D, V, ca, cb) /\ NodeFits(n, k, t.node, t.dims, t.classes, names)
    BY <2>3, <2>6, <2>7, MatchNodeSound DEF t
  <2>9. /\ MapsOK(t.dims, t.classes, D, V, ca, cb) /\ Extends(t.dims, u.dims) /\ Extends(t.classes, u.classes)
        /\ Extends(u.dims, dims) /\ Extends(u.classes, classes)
    BY <2>4, <2>6, <2>8 DEF Grown
  <2>10. v.dims = t.dims /\ v.classes = t.classes /\ v.built = Append(u.built, t.node)
    BY <2>6 DEF joined
  <2>11. Grown(v, dims, classes, D, V, ca, cb)
    BY <2>9, <2>10, ExtendsTransitive DEF Grown
  <2>12. u.built \in Seq(ToSet(u.built)) /\ Len(u.built) = i
    BY <2>4, <2>6 DEF NodesFit
  <2>13. /\ v.built \in Seq(ToSet(v.built)) /\ Len(v.built) = i + 1
         /\ \A j \in 1 .. i : v.built[j] = u.built[j]
         /\ v.built[i + 1] = t.node
    BY <2>10, <2>12, AppendList
  <2>14. ASSUME NEW j \in 1 .. i + 1 PROVE NodeFits(xs[j], ys[j], v.built[j], v.dims, v.classes, names)
    <3>1. CASE j = i + 1
      BY <2>8, <2>10, <2>13, <3>1 DEF n, k
    <3>2. CASE j # i + 1
      <4>1. j \in 1 .. i
        BY <3>2
      <4>2. NodeFits(xs[j], ys[j], u.built[j], u.dims, u.classes, names)
        BY <2>4, <2>6, <4>1 DEF NodesFit
      <4>3. QED
        BY <2>9, <2>10, <2>13, <4>1, <4>2, NodeFitsStill
    <3>3. QED
      BY <3>1, <3>2
  <2>15. NodesFit(i + 1, xs, ys, v, names)
    BY <2>13, <2>14 DEF NodesFit
  <2>16. QED
    BY <2>11, <2>15 DEF v
<1>8. Nat \subseteq T
  <2> HIDE DEF T
  <2>1. QED
    BY <1>6, <1>7, SetInduction
<1>9. Inv(M)
  <2> HIDE DEF Inv
  <2>1. QED
    BY <1>8
<1>10. QED
  BY <1>1, <1>9

------------------------------------------------------------------------------
(* The schemas that are read.                                              *)

\* A finite list.
IsList(s) == s \in Seq(ToSet(s))

\* A schema that was read.
IsSchema(s) ==
    /\ IsList(s.nodes) /\ DistinctNames(s.nodes)
    /\ IsList(s.classes) /\ DistinctNames(s.classes)
    /\ \A i \in DOMAIN s.nodes : IsNode(s.nodes[i], s.classes) /\ NodeOK(s.nodes[i])
    /\ \A i \in DOMAIN s.classes : ClassOK(s.classes[i])
    /\ SchemaOK(s)

\* The elements of a list are at its places.
LEMMA ListOfElements ==
    ASSUME NEW s, IsList(s)
    PROVE  /\ Len(s) \in Nat /\ DOMAIN s = 1 .. Len(s)
           /\ \A x : x \in ToSet(s) <=> \E i \in DOMAIN s : x = s[i]
BY DEF IsList, ToSet

\* A list that is built place by place is one.
LEMMA MappedList ==
    ASSUME NEW s, IsList(s), NEW q, DOMAIN q = DOMAIN s, q = [i \in DOMAIN s |-> q[i]]
    PROVE  IsList(q)
<1>1. DOMAIN s = 1 .. Len(s) /\ Len(s) \in Nat
  BY ListOfElements
<1>2. q \in [1 .. Len(s) -> ToSet(q)]
  BY <1>1 DEF ToSet
<1>3. QED
  BY <1>1, <1>2 DEF IsList

\* The lists of a description and the keys of its maps.
LEMMA InputParts ==
    ASSUME NEW raw, InputOK(raw)
    PROVE  /\ IsList(raw.nodes) /\ DistinctNames(raw.nodes)
           /\ IsList(raw.classes) /\ DistinctNames(raw.classes)
           /\ \A i \in DOMAIN raw.nodes :
                /\ IsList(raw.nodes[i].fields) /\ DistinctNames(raw.nodes[i].fields)
                /\ IsList(raw.nodes[i].links) /\ DistinctNames(raw.nodes[i].links)
                /\ IsList(raw.nodes[i].dim)
                /\ \A j \in DOMAIN raw.nodes[i].fields : IsList(raw.nodes[i].fields[j].dim)
<1>1. \A s \in {raw.nodes, raw.classes} : IsList(s) /\ DistinctNames(s)
  BY DEF InputOK, IsList
<1>2. \A n \in ToSet(raw.nodes) :
        /\ \A s \in {n.fields, n.links} : IsList(s) /\ DistinctNames(s)
        /\ \A f \in ToSet(n.fields) \cup {n} : IsList(f.dim)
  BY DEF InputOK, IsList
<1>3. IsList(raw.nodes) /\ DistinctNames(raw.nodes) /\ IsList(raw.classes) /\ DistinctNames(raw.classes)
  BY <1>1
<1>4. ASSUME NEW i \in DOMAIN raw.nodes
      PROVE  /\ IsList(raw.nodes[i].fields) /\ DistinctNames(raw.nodes[i].fields)
             /\ IsList(raw.nodes[i].links) /\ DistinctNames(raw.nodes[i].links)
             /\ IsList(raw.nodes[i].dim)
             /\ \A j \in DOMAIN raw.nodes[i].fields : IsList(raw.nodes[i].fields[j].dim)
  <2> DEFINE n == raw.nodes[i]
  <2>1. n \in ToSet(raw.nodes)
    BY DEF ToSet
  <2> HIDE DEF n
  <2>2. /\ IsList(n.fields) /\ DistinctNames(n.fields) /\ IsList(n.links) /\ DistinctNames(n.links)
        /\ \A f \in ToSet(n.fields) \cup {n} : IsList(f.dim)
    BY <1>2, <2>1
  <2>3. \A j \in DOMAIN n.fields : n.fields[j] \in ToSet(n.fields)
    BY DEF ToSet
  <2>4. IsList(n.dim) /\ \A j \in DOMAIN n.fields : IsList(n.fields[j].dim)
    BY <2>2, <2>3
  <2>5. QED
    BY <2>2, <2>4 DEF n
<1>5. QED
  BY <1>3, <1>4

\* The parts of a node that was read.
NodeLists(n) ==
    /\ IsList(n.fields) /\ DistinctNames(n.fields) /\ IsList(n.links) /\ DistinctNames(n.links)
    /\ \A i \in DOMAIN n.fields : IsList(n.fields[i].dim)

\* Reading a node keeps its lists and its name.
LEMMA LoadNodeLists ==
    ASSUME NEW raw, IsList(raw.fields), DistinctNames(raw.fields), IsList(raw.links), DistinctNames(raw.links),
           IsList(raw.dim), \A j \in DOMAIN raw.fields : IsList(raw.fields[j].dim)
    PROVE  NodeLists(LoadNode(raw)) /\ LoadNode(raw).name = raw.name
<1> DEFINE n == LoadNode(raw)
           links == [i \in DOMAIN raw.links |-> LoadLink(raw.links[i])]
           many == [i \in DOMAIN raw.fields |-> LoadField(raw.fields[i], raw.fields[i].name)]
           one == <<LoadField(raw, "field")>>
<1>1. /\ n.name = raw.name /\ n.links = links
      /\ n.fields = IF raw.singleton = TRUE /\ raw.fields = <<>> THEN one ELSE many
  BY DEF LoadNode
<1>2. IsList(links) /\ DistinctNames(links)
  <2>1. DOMAIN links = DOMAIN raw.links /\ \A i \in DOMAIN links : links[i].name = raw.links[i].name
    BY DEF LoadLink
  <2>2. links = [i \in DOMAIN raw.links |-> links[i]]
    OBVIOUS
  <2> HIDE DEF links
  <2>3. IsList(links)
    BY <2>1, <2>2, MappedList
  <2>4. DistinctNames(links)
    BY <2>1 DEF DistinctNames
  <2>5. QED
    BY <2>3, <2>4
<1>3. IsList(many) /\ DistinctNames(many) /\ \A i \in DOMAIN many : IsList(many[i].dim)
  <2>1. /\ DOMAIN many = DOMAIN raw.fields
        /\ \A i \in DOMAIN many : many[i].name = raw.fields[i].name /\ many[i].dim = raw.fields[i].dim
    BY DEF LoadField
  <2>2. many = [i \in DOMAIN raw.fields |-> many[i]]
    OBVIOUS
  <2> HIDE DEF many
  <2>3. IsList(many)
    BY <2>1, <2>2, MappedList
  <2>4. DistinctNames(many)
    BY <2>1 DEF DistinctNames
  <2>5. QED
    BY <2>1, <2>3, <2>4
<1>4. IsList(one) /\ DistinctNames(one) /\ \A i \in DOMAIN one : IsList(one[i].dim)
  <2>1. DOMAIN one = 1 .. 1 /\ one[1] = LoadField(raw, "field") /\ Len(one) = 1 /\ one = [i \in 1 .. 1 |-> one[i]]
    OBVIOUS
  <2>2. one[1].dim = raw.dim
    BY DEF LoadField
  <2> HIDE DEF one
  <2>3. \A i \in DOMAIN one : i = 1
    BY <2>1
  <2>4. IsList(one)
    BY <2>1 DEF IsList, ToSet
  <2>5. DistinctNames(one)
    BY <2>3 DEF DistinctNames
  <2>6. QED
    BY <2>2, <2>3, <2>4, <2>5
<1> HIDE DEF n, links, many, one
<1>5. NodeLists(n)
  BY <1>1, <1>2, <1>3, <1>4 DEF NodeLists
<1>6. QED
  BY <1>1, <1>5 DEF n

\* A field that was checked is a tensor or a category.
LEMMA FieldTypes ==
    ASSUME NEW f, FieldOK(f)
    PROVE  f.type \in {"tensor", "category"}
BY DEF FieldOK

\* The classes of a checked schema are those of its fields.
LEMMA ClassIsNamed ==
    ASSUME NEW s, ClassesUsed(s) = Names(s.classes), NEW i \in DOMAIN s.nodes,
           NEW j \in DOMAIN s.nodes[i].fields, s.nodes[i].fields[j].type = "category"
    PROVE  s.nodes[i].fields[j].class \in Names(s.classes)
<1> DEFINE n == s.nodes[i]
           C == {n.fields[k].class : k \in {k \in DOMAIN n.fields : n.fields[k].type = "category"}}
<1>1. n.fields[j].class \in C
  OBVIOUS
<1>2. n \in ToSet(s.nodes)
  BY DEF ToSet
<1>3. C \in {{m.fields[k].class : k \in {k \in DOMAIN m.fields : m.fields[k].type = "category"}}
               : m \in ToSet(s.nodes)}
  BY <1>2, Zenon
<1>4. n.fields[j].class \in ClassesUsed(s)
  BY <1>1, <1>3, Zenon DEF ClassesUsed
<1>5. QED
  BY <1>4

\* What load returns without an error is a schema.
LEMMA LoadIsSchema ==
    ASSUME NEW raw, InputOK(raw), Load(raw) # Malformed
    PROVE  IsSchema(Load(raw))
<1> DEFINE ns == [i \in DOMAIN raw.nodes |-> LoadNode(raw.nodes[i])]
           cs == [i \in DOMAIN raw.classes |-> LoadClass(raw.classes[i])]
           s == [nodes |-> ns, classes |-> cs,
                 cyclic |-> raw.cyclic, undirected |-> raw.undirected, fanin |-> raw.fanin,
                 srcDims |-> raw.srcDims]
           OK == /\ \A n \in ToSet(raw.nodes) : \A l \in ToSet(n.links) : LinkOK(l.dim)
                 /\ \A n \in ToSet(s.nodes) : NodeOK(n)
                 /\ \A c \in ToSet(s.classes) : ClassOK(c)
                 /\ SchemaOK(s)
<1>1. Load(raw) = IF OK THEN s ELSE Malformed
  BY DEF Load
<1> HIDE DEF s
<1>2. Load(raw) = s /\ OK
  BY <1>1
<1>3. s.nodes = ns /\ s.classes = cs
  BY DEF s
<1>4. IsList(ns) /\ DistinctNames(ns) /\ \A i \in DOMAIN ns : NodeLists(ns[i])
  <2>1. /\ DOMAIN ns = DOMAIN raw.nodes /\ ns = [i \in DOMAIN raw.nodes |-> ns[i]]
        /\ \A i \in DOMAIN ns : ns[i] = LoadNode(raw.nodes[i])
    OBVIOUS
  <2> HIDE DEF ns
  <2>2. IsList(raw.nodes) /\ DistinctNames(raw.nodes)
    BY InputParts
  <2>3. IsList(ns)
    BY <2>1, <2>2, MappedList
  <2>4. ASSUME NEW i \in DOMAIN ns PROVE NodeLists(ns[i]) /\ ns[i].name = raw.nodes[i].name
    <3> DEFINE r == raw.nodes[i]
    <3>1. /\ IsList(r.fields) /\ DistinctNames(r.fields) /\ IsList(r.links) /\ DistinctNames(r.links)
          /\ IsList(r.dim) /\ \A j \in DOMAIN r.fields : IsList(r.fields[j].dim)
      BY <2>1, InputParts
    <3>2. ns[i] = LoadNode(r)
      BY <2>1
    <3> HIDE DEF r
    <3>3. NodeLists(ns[i]) /\ ns[i].name = r.name
      BY <3>1, <3>2, LoadNodeLists
    <3>4. QED
      BY <3>3 DEF r
  <2>5. DistinctNames(ns)
    BY <2>1, <2>2, <2>4 DEF DistinctNames
  <2>6. QED
    BY <2>3, <2>4, <2>5
<1>5. IsList(cs) /\ DistinctNames(cs)
  <2>1. /\ DOMAIN cs = DOMAIN raw.classes /\ cs = [i \in DOMAIN raw.classes |-> cs[i]]
        /\ \A i \in DOMAIN cs : cs[i].name = raw.classes[i].name
    BY DEF LoadClass
  <2> HIDE DEF cs
  <2>2. IsList(raw.classes) /\ DistinctNames(raw.classes)
    BY InputParts
  <2>3. IsList(cs)
    BY <2>1, <2>2, MappedList
  <2>5. DistinctNames(cs)
    BY <2>1, <2>2 DEF DistinctNames
  <2>6. QED
    BY <2>3, <2>5
<1> HIDE DEF ns, cs
<1>6. /\ \A i \in DOMAIN s.nodes : NodeOK(s.nodes[i])
      /\ \A i \in DOMAIN s.classes : ClassOK(s.classes[i])
  BY <1>2 DEF ToSet
<1>7. SchemaOK(s)
  BY <1>2
<1>8. ClassesUsed(s) = Names(s.classes)
  BY <1>7 DEF SchemaOK
<1>9. ASSUME NEW i \in DOMAIN s.nodes PROVE IsNode(s.nodes[i], s.classes)
  <2> DEFINE n == s.nodes[i]
  <2>1. NodeLists(n) /\ NodeOK(n)
    BY <1>3, <1>4, <1>6
  <2>2. \A j \in DOMAIN n.fields : FieldOK(n.fields[j])
    BY <2>1 DEF NodeOK
  <2>3. \A j \in DOMAIN n.fields : n.fields[j].type \in {"tensor", "category"}
    BY <2>2, FieldTypes
  <2>4. \A j \in DOMAIN n.fields : n.fields[j].type = "category" => n.fields[j].class \in Names(s.classes)
    BY <1>8, ClassIsNamed
  <2> HIDE DEF n
  <2>5. QED
    BY <2>1, <2>3, <2>4 DEF IsNode, NodeLists, IsList, AreDimensions, n
<1>10. IsSchema(s)
  BY <1>3, <1>4, <1>5, <1>6, <1>7, <1>9 DEF IsSchema
<1>11. QED
  BY <1>2, <1>10

------------------------------------------------------------------------------
(* What fits embeds.                                                       *)

\* A pairing is a bijection.
LEMMA OneToOneIsBijection ==
    ASSUME NEW g, NEW P, NEW Q, OneToOne(g, P, Q)
    PROVE  g \in Bijection(P, Q)
BY DEF OneToOne, Bijection, Injection, Surjection, IsInjective

\* The first m numbers are m.
LEMMA FirstNumbers ==
    ASSUME NEW m \in Nat
    PROVE  IsFiniteSet(1 .. m) /\ Cardinality(1 .. m) = m
<1>1. 1 \in Int /\ m \in Int
  OBVIOUS
<1>2. IsFiniteSet(1 .. m) /\ Cardinality(1 .. m) = IF 1 > m THEN 0 ELSE m - 1 + 1
  BY <1>1, FS_Interval, Zenon
<1> DEFINE size == Cardinality(1 .. m)
<1>3. size = IF 1 > m THEN 0 ELSE m - 1 + 1
  BY <1>2
<1> HIDE DEF size
<1>4. size = m
  BY <1>3
<1>5. QED
  BY <1>2, <1>4 DEF size

\* A list of distinct names has as many names as places.
LEMMA NamesCounted ==
    ASSUME NEW s, IsList(s), DistinctNames(s)
    PROVE  IsFiniteSet(Names(s)) /\ Cardinality(Names(s)) = Len(s)
<1> DEFINE h == [i \in 1 .. Len(s) |-> s[i].name]
<1>1. Len(s) \in Nat /\ DOMAIN s = 1 .. Len(s)
  BY ListOfElements
<1>2. OneToOne(h, 1 .. Len(s), Names(s))
  BY <1>1 DEF OneToOne, Names, DistinctNames
<1> HIDE DEF h
<1>3. ExistsBijection(1 .. Len(s), Names(s))
  BY <1>2, OneToOneIsBijection DEF ExistsBijection
<1>4. IsFiniteSet(1 .. Len(s)) /\ Cardinality(1 .. Len(s)) = Len(s)
  BY <1>1, FirstNumbers
<1>5. QED
  BY <1>3, <1>4, FS_Bijection

\* As many links, which lead to different names: all names are met.
LEMMA LinksCovered ==
    ASSUME NEW s, IsList(s), DistinctNames(s),
           NEW u, IsList(u), DistinctNames(u), Len(s) = Len(u),
           NEW pi, \A i, j \in DOMAIN s : pi[s[i].name] = pi[s[j].name] => s[i].name = s[j].name,
           \A i \in DOMAIN s : pi[s[i].name] \in Names(u)
    PROVE  Names(u) = {pi[l.name] : l \in ToSet(s)}
<1> DEFINE h == [i \in 1 .. Len(s) |-> pi[s[i].name]]
<1>1. Len(s) \in Nat /\ DOMAIN s = 1 .. Len(s)
  BY ListOfElements
<1>2. h \in Injection(1 .. Len(s), Names(u))
  <2>1. h \in [1 .. Len(s) -> Names(u)]
    BY <1>1
  <2>2. \A i, j \in 1 .. Len(s) : h[i] = h[j] => i = j
    BY <1>1 DEF DistinctNames
  <2>3. DOMAIN h = 1 .. Len(s)
    OBVIOUS
  <2> HIDE DEF h
  <2>4. QED
    BY <2>1, <2>2, <2>3 DEF Injection, IsInjective
<1>3. IsFiniteSet(Names(u)) /\ Cardinality(Names(u)) = Len(s)
  BY NamesCounted
<1>4. Cardinality(1 .. Len(s)) = Len(s)
  BY <1>1, FirstNumbers
<1>5. h \in Surjection(1 .. Len(s), Names(u))
  <2> HIDE DEF h
  <2>1. QED
    BY <1>2, <1>3, <1>4, FS_Injection
<1>6. ASSUME NEW x \in Names(u) PROVE x \in {pi[l.name] : l \in ToSet(s)}
  <2>1. PICK i \in 1 .. Len(s) : h[i] = x
    BY <1>5 DEF Surjection
  <2>2. s[i] \in ToSet(s) /\ pi[s[i].name] = x
    BY <1>1, <2>1 DEF ToSet
  <2>3. QED
    BY <2>2
<1>7. ASSUME NEW x \in {pi[l.name] : l \in ToSet(s)} PROVE x \in Names(u)
  <2>1. PICK l \in ToSet(s) : x = pi[l.name]
    OBVIOUS
  <2>2. PICK i \in DOMAIN s : l = s[i]
    BY DEF ToSet
  <2>3. QED
    BY <2>1, <2>2
<1>8. QED
  BY <1>6, <1>7

\* A node that fits embeds, when the sizes obey the map of dimensions.
LEMMA NodeFitsEmbeds ==
    ASSUME NEW ca, NEW cb, NEW n, IsNode(n, ca),
           NEW k, IsNode(k, cb), n.singleton = k.singleton,
           NEW b, NEW dims, NEW classes, NEW pi, NodeFits(n, k, b, dims, classes, pi),
           NEW mu, Obeys(mu, dims), NEW P,
           NEW Q, OneToOne(pi, P, Q), \A l \in ToSet(n.links) : l.name \in P
    PROVE  NodeEmbeds(n, k, mu, classes, pi)
<1>1. IsList(n.links) /\ DistinctNames(n.links) /\ IsList(k.links) /\ DistinctNames(k.links)
  BY DEF IsNode, IsList
<1>2. Len(n.links) = Len(k.links) /\ LinksMatch(n, k, pi)
  BY DEF NodeFits
<1>3. \A l \in ToSet(n.links) : pi[l.name] \in Names(k.links) /\ MatchLink(l, Get(k.links, pi[l.name]))
  BY <1>2 DEF LinksMatch
<1>4. Names(k.links) = {pi[l.name] : l \in ToSet(n.links)}
  <2> DEFINE s == n.links
             u == k.links
  <2>1. \A i \in DOMAIN s : s[i] \in ToSet(s)
    BY DEF ToSet
  <2>2. \A i, j \in DOMAIN s : pi[s[i].name] = pi[s[j].name] => s[i].name = s[j].name
    BY <2>1 DEF OneToOne
  <2>3. \A i \in DOMAIN s : pi[s[i].name] \in Names(u)
    BY <1>3, <2>1
  <2>4. IsList(s) /\ DistinctNames(s) /\ IsList(u) /\ DistinctNames(u) /\ Len(s) = Len(u)
    BY <1>1, <1>2
  <2> HIDE DEF s, u
  <2>5. Names(u) = {pi[l.name] : l \in ToSet(s)}
    BY <2>2, <2>3, <2>4, LinksCovered
  <2>6. QED
    BY <2>5 DEF s, u
<1>5. PICK sigma : FieldsFit(n, k, sigma, dims, classes)
  BY DEF NodeFits
<1>6. sigma \in Bijection(DOMAIN n.fields, DOMAIN k.fields)
  BY <1>5, OneToOneIsBijection DEF FieldsFit
<1>7. ASSUME NEW i \in DOMAIN n.fields
      PROVE  FieldEmbeds(n.fields[i], k.fields[sigma[i]], mu, classes)
  <2>1. n.fields[i].type = k.fields[sigma[i]].type /\ FieldFits(n.fields[i], k.fields[sigma[i]], dims, classes)
    BY <1>5 DEF FieldsFit
  <2>2. QED
    BY <2>1 DEF FieldFits, FieldEmbeds
<1>8. QED
  BY <1>3, <1>4, <1>6, <1>7 DEF NodeEmbeds

------------------------------------------------------------------------------
(* The two kinds of nodes.                                                 *)

\* The nodes of one kind of a schema.
KindOf(A, s, singleton) ==
    /\ IsList(A) /\ DistinctNames(A)
    /\ \A i \in DOMAIN A : /\ IsNode(A[i], s.classes) /\ NodeOK(A[i]) /\ A[i] \in ToSet(s.nodes)
                           /\ A[i].singleton = singleton

\* Nodes of one kind that are picked are that kind of the schema.
LEMMA PickedKind ==
    ASSUME NEW s, IsSchema(s), NEW P \in SUBSET DOMAIN s.nodes, NEW singleton,
           \A i \in P : s.nodes[i].singleton = singleton
    PROVE  KindOf(Picked(s.nodes, P), s, singleton)
<1> DEFINE A == Picked(s.nodes, P)
<1>1. s.nodes \in Seq(ToSet(s.nodes)) /\ DistinctNames(s.nodes)
  BY DEF IsSchema, IsList
<1>2. /\ A \in Seq(ToSet(s.nodes)) /\ DistinctNames(A)
      /\ ToSet(A) = {s.nodes[i] : i \in {i \in DOMAIN s.nodes : i \in P}}
  BY <1>1, PickedParts
<1> HIDE DEF A
<1>3. IsList(A) /\ \A i \in DOMAIN A : A[i] \in ToSet(A)
  BY <1>2 DEF IsList, ToSet
<1>4. ASSUME NEW i \in DOMAIN A
      PROVE  /\ IsNode(A[i], s.classes) /\ NodeOK(A[i]) /\ A[i] \in ToSet(s.nodes)
             /\ A[i].singleton = singleton
  <2>1. PICK j \in P : A[i] = s.nodes[j] /\ j \in DOMAIN s.nodes
    BY <1>2, <1>3
  <2>2. IsNode(s.nodes[j], s.classes) /\ NodeOK(s.nodes[j])
    BY <2>1 DEF IsSchema
  <2>3. s.nodes[j] \in ToSet(s.nodes)
    BY <2>1 DEF ToSet
  <2>4. QED
    BY <2>1, <2>2, <2>3
<1>5. QED
  BY <1>2, <1>3, <1>4 DEF KindOf, A

\* The singletons and the others are the nodes of their kinds.
LEMMA Kinds ==
    ASSUME NEW s, IsSchema(s)
    PROVE  KindOf(Singletons(s), s, TRUE) /\ KindOf(Nonsingletons(s), s, FALSE)
<1> DEFINE P == {i \in DOMAIN s.nodes : s.nodes[i].singleton}
           Q == {i \in DOMAIN s.nodes : ~s.nodes[i].singleton}
<1>1. \A i \in DOMAIN s.nodes : s.nodes[i].singleton \in BOOLEAN
  BY DEF IsSchema, NodeOK
<1>2. \A i \in P : s.nodes[i].singleton = TRUE
  BY <1>1
<1>3. \A i \in Q : s.nodes[i].singleton = FALSE
  BY <1>1
<1>4. P \in SUBSET DOMAIN s.nodes /\ Q \in SUBSET DOMAIN s.nodes
  OBVIOUS
<1>5. Singletons(s) = Picked(s.nodes, P) /\ Nonsingletons(s) = Picked(s.nodes, Q)
  BY DEF Singletons, Nonsingletons
<1> HIDE DEF P, Q
<1>6. KindOf(Picked(s.nodes, P), s, TRUE) /\ KindOf(Picked(s.nodes, Q), s, FALSE)
  BY <1>2, <1>3, <1>4, PickedKind
<1>7. QED
  BY <1>5, <1>6

\* Every node is of one of the kinds.
LEMMA KindsCover ==
    ASSUME NEW s, IsSchema(s), NEW n \in ToSet(s.nodes)
    PROVE  n \in ToSet(Singletons(s)) \/ n \in ToSet(Nonsingletons(s))
<1> DEFINE P == {i \in DOMAIN s.nodes : s.nodes[i].singleton}
           Q == {i \in DOMAIN s.nodes : ~s.nodes[i].singleton}
<1>1. s.nodes \in Seq(ToSet(s.nodes))
  BY DEF IsSchema, IsList
<1>2. /\ ToSet(Picked(s.nodes, P)) = {s.nodes[i] : i \in {i \in DOMAIN s.nodes : i \in P}}
      /\ ToSet(Picked(s.nodes, Q)) = {s.nodes[i] : i \in {i \in DOMAIN s.nodes : i \in Q}}
  BY <1>1, PickedParts
<1>3. PICK i \in DOMAIN s.nodes : n = s.nodes[i]
  BY DEF ToSet
<1>4. i \in P \/ i \in Q
  OBVIOUS
<1>5. Singletons(s) = Picked(s.nodes, P) /\ Nonsingletons(s) = Picked(s.nodes, Q)
  BY DEF Singletons, Nonsingletons
<1> HIDE DEF P, Q
<1>6. QED
  BY <1>2, <1>3, <1>4, <1>5

\* Names belong to nodes of one kind.
LEMMA KindsApart ==
    ASSUME NEW s, IsSchema(s), NEW A, KindOf(A, s, TRUE), NEW B, KindOf(B, s, FALSE)
    PROVE  \A x : ~(x \in Names(A) /\ x \in Names(B))
<1> SUFFICES ASSUME NEW x \in Names(A), x \in Names(B) PROVE FALSE
  OBVIOUS
<1>1. PICK i \in DOMAIN A : A[i].name = x
  BY DEF Names
<1>2. PICK j \in DOMAIN B : B[j].name = x
  BY DEF Names
<1>3. A[i] \in ToSet(s.nodes) /\ B[j] \in ToSet(s.nodes) /\ A[i].singleton = TRUE /\ B[j].singleton = FALSE
  BY DEF KindOf
<1>4. PICK a \in DOMAIN s.nodes : A[i] = s.nodes[a]
  BY <1>3 DEF ToSet
<1>5. PICK b \in DOMAIN s.nodes : B[j] = s.nodes[b]
  BY <1>3 DEF ToSet
<1>6. a = b
  BY <1>1, <1>2, <1>4, <1>5 DEF IsSchema, DistinctNames
<1>7. QED
  BY <1>3, <1>4, <1>5, <1>6

\* Every node is of one of the two kinds.
LEMMA KindNames ==
    ASSUME NEW s, IsSchema(s)
    PROVE  Names(s.nodes) = Names(Singletons(s)) \cup Names(Nonsingletons(s))
<1> DEFINE A == Singletons(s)
           B == Nonsingletons(s)
<1>1. KindOf(A, s, TRUE) /\ KindOf(B, s, FALSE)
  BY Kinds
<1>2. \A n \in ToSet(s.nodes) : n \in ToSet(A) \/ n \in ToSet(B)
  BY KindsCover
<1> HIDE DEF A, B
<1>3. ASSUME NEW x \in Names(s.nodes) PROVE x \in Names(A) \cup Names(B)
  <2>1. PICK i \in DOMAIN s.nodes : s.nodes[i].name = x
    BY DEF Names
  <2>2. s.nodes[i] \in ToSet(A) \/ s.nodes[i] \in ToSet(B)
    BY <1>2 DEF ToSet
  <2>3. QED
    BY <2>1, <2>2 DEF Names, ToSet
<1>4. ASSUME NEW x \in Names(A) \cup Names(B) PROVE x \in Names(s.nodes)
  <2>1. \E n \in ToSet(s.nodes) : n.name = x
    BY <1>1 DEF KindOf, Names
  <2>2. QED
    BY <2>1 DEF Names, ToSet
<1>5. QED
  BY <1>3, <1>4 DEF A, B

\* The names of two lists of nodes, one in some order.
LEMMA NameMapOneToOne ==
    ASSUME NEW A, IsList(A), DistinctNames(A),
           NEW B, IsList(B), DistinctNames(B), Len(A) = Len(B),
           NEW x, IsOrder(x, B)
    PROVE  /\ OneToOne(NameMap(A, x), Names(A), Names(B))
           /\ \A i \in DOMAIN A : NameMap(A, x)[A[i].name] = x[i].name
<1> DEFINE p == NameMap(A, x)
<1>1. PICK rho \in Arrangements(Len(B)) : x = [i \in 1 .. Len(B) |-> B[rho[i]]]
  BY DEF IsOrder
<1>2. OneToOne(rho, 1 .. Len(B), 1 .. Len(B))
  BY <1>1 DEF Arrangements, OneToOne
<1>3. DOMAIN A = 1 .. Len(B) /\ DOMAIN B = 1 .. Len(B)
  BY ListOfElements
<1>4. DOMAIN x = DOMAIN A /\ \A i \in DOMAIN A : rho[i] \in DOMAIN B /\ x[i] = B[rho[i]]
  BY <1>1, <1>2, <1>3 DEF OneToOne
<1>5. {A[i].name : i \in DOMAIN A \cap DOMAIN x} = Names(A)
  BY <1>4 DEF Names
<1>6. p = [n \in Names(A) |-> x[CHOOSE i \in DOMAIN A : A[i].name = n].name]
  BY <1>5 DEF NameMap
<1> HIDE DEF p
<1>7. ASSUME NEW i \in DOMAIN A PROVE A[i].name \in Names(A) /\ p[A[i].name] = x[i].name
  <2>1. (CHOOSE j \in DOMAIN A : A[j].name = A[i].name) = i
    BY DEF DistinctNames
  <2>2. A[i].name \in Names(A)
    BY DEF Names
  <2>3. QED
    BY <1>6, <2>1, <2>2
<1>8. \A n \in Names(A) : \E i \in DOMAIN A : n = A[i].name
  BY DEF Names
<1>9. \A i \in DOMAIN A : p[A[i].name] = B[rho[i]].name /\ rho[i] \in DOMAIN B
  BY <1>4, <1>7
<1>10. p \in [Names(A) -> Names(B)]
  <2>1. \A n \in Names(A) : p[n] \in Names(B)
    BY <1>8, <1>9 DEF Names
  <2>2. DOMAIN p = Names(A) /\ p = [n \in Names(A) |-> p[n]]
    BY <1>6
  <2>3. QED
    BY <2>1, <2>2
<1>11. ASSUME NEW m \in Names(A), NEW n \in Names(A), p[m] = p[n] PROVE m = n
  <2>1. PICK i \in DOMAIN A : m = A[i].name
    BY <1>8
  <2>2. PICK j \in DOMAIN A : n = A[j].name
    BY <1>8
  <2>3. rho[i] = rho[j]
    BY <1>9, <1>11, <2>1, <2>2 DEF DistinctNames
  <2>4. i = j
    BY <1>2, <1>3, <2>3 DEF OneToOne
  <2>5. QED
    BY <2>1, <2>2, <2>4
<1>12. ASSUME NEW q \in Names(B) PROVE \E n \in Names(A) : p[n] = q
  <2>1. PICK j \in DOMAIN B : q = B[j].name
    BY DEF Names
  <2>2. PICK i \in DOMAIN A : rho[i] = j
    BY <1>2, <1>3 DEF OneToOne
  <2>3. A[i].name \in Names(A) /\ p[A[i].name] = q
    BY <1>7, <1>9, <2>1, <2>2
  <2>4. QED
    BY <2>3
<1>13. OneToOne(p, Names(A), Names(B))
  BY <1>10, <1>11, <1>12 DEF OneToOne
<1>14. QED
  BY <1>7, <1>13 DEF p

\* What the names of dimensions may stand for in a schema.
Meanings(s) == Dims(s) \ {Malformed}

\* The dimensions of the tensors of a schema are among its dimensions.
LEMMA TensorDimsIn ==
    ASSUME NEW s, IsSchema(s), NEW n \in ToSet(s.nodes)
    PROVE  DimsIn(n, Meanings(s))
<1>1. PICK i \in DOMAIN s.nodes : n = s.nodes[i]
  BY DEF ToSet
<1>2. NodeOK(n)
  BY <1>1 DEF IsSchema
<1> SUFFICES ASSUME NEW j \in DOMAIN n.fields, n.fields[j].type = "tensor", NEW d \in DOMAIN n.fields[j].dim
             PROVE  n.fields[j].dim[d].d \in Meanings(s)
  BY DEF DimsIn
<1>3. FieldOK(n.fields[j])
  BY <1>2 DEF NodeOK
<1>4. n.fields[j].dim[d].d # Malformed
  BY <1>3 DEF FieldOK, TensorOK
<1> DEFINE f == n.fields[j]
<1>5. f \in ToSet(n.fields)
  BY DEF ToSet
<1> HIDE DEF f
<1> DEFINE OfField == {f.dim[i2].d : i2 \in DOMAIN f.dim}
           OfNode == UNION {{g.dim[i2].d : i2 \in DOMAIN g.dim} : g \in ToSet(n.fields)}
<1>6. f.dim[d].d \in OfField
  BY DEF f
<1>7. OfField \in {{g.dim[i2].d : i2 \in DOMAIN g.dim} : g \in ToSet(n.fields)}
  BY <1>5, Zenon
<1>8. f.dim[d].d \in OfNode
  BY <1>6, <1>7, Zenon
<1>9. OfNode \in {UNION {{g.dim[i2].d : i2 \in DOMAIN g.dim} : g \in ToSet(m.fields)} : m \in ToSet(s.nodes)}
  BY Zenon
<1>10. f.dim[d].d \in Dims(s)
  BY <1>8, <1>9, Zenon DEF Dims
<1>11. QED
  BY <1>4, <1>10 DEF Meanings, f

\* The sizes of the classes of a schema are among its dimensions.
LEMMA ClassDimsIn ==
    ASSUME NEW s, IsSchema(s)
    PROVE  \A c \in ToSet(s.classes) : c.dim \in Meanings(s)
<1> SUFFICES ASSUME NEW c \in ToSet(s.classes) PROVE c.dim \in Meanings(s)
  OBVIOUS
<1>1. c.dim # Malformed
  BY DEF IsSchema, ClassOK, ToSet
<1>2. c.dim \in Dims(s)
  <2>1. c.dim \in {e.dim : e \in ToSet(s.classes)}
    OBVIOUS
  <2> DEFINE U == UNION {UNION {{f.dim[i].d : i \in DOMAIN f.dim} : f \in ToSet(n.fields)}
                         : n \in ToSet(s.nodes)}
  <2>2. Dims(s) = {e.dim : e \in ToSet(s.classes)} \cup U
    BY DEF Dims
  <2> HIDE DEF U
  <2>3. QED
    BY <2>1, <2>2
<1>3. QED
  BY <1>1, <1>2 DEF Meanings

\* The sizes and names that the tensors and the classes of a schema have.
Occurring(s) ==
    {d \in Meanings(s) :
        \/ \E n \in ToSet(s.nodes) : \E i \in DOMAIN n.fields :
            /\ n.fields[i].type = "tensor"
            /\ \E j \in DOMAIN n.fields[i].dim : n.fields[i].dim[j].d = d
        \/ \E c \in ToSet(s.classes) : c.dim = d}

\* The sizes and names of its tensors occur in a schema.
LEMMA TensorDimsOccur ==
    ASSUME NEW s, IsSchema(s), NEW n \in ToSet(s.nodes)
    PROVE  DimsIn(n, Occurring(s))
<1>1. DimsIn(n, Meanings(s))
  BY TensorDimsIn
<1>2. QED
  BY <1>1 DEF DimsIn, Occurring

\* So do those of its classes.
LEMMA ClassDimsOccur ==
    ASSUME NEW s, IsSchema(s)
    PROVE  \A c \in ToSet(s.classes) : c.dim \in Occurring(s)
<1>1. \A c \in ToSet(s.classes) : c.dim \in Meanings(s)
  BY ClassDimsIn
<1>2. QED
  BY <1>1 DEF Occurring

\* A node fits some node whatever was built of it.
Fit(n, k, dims, classes, names) == \E b : NodeFits(n, k, b, dims, classes, names)

\* All nodes of a fit nodes of b: those of a kind in an order.
AllFit(a, b, x, y, dims, classes, names) ==
    /\ IsOrder(x, Singletons(b)) /\ IsOrder(y, Nonsingletons(b))
    /\ Len(Singletons(a)) = Len(Singletons(b)) /\ Len(Nonsingletons(a)) = Len(Nonsingletons(b))
    /\ \A i \in DOMAIN Singletons(a) : Fit(Singletons(a)[i], x[i], dims, classes, EmptyMap)
    /\ \A i \in DOMAIN Nonsingletons(a) : Fit(Nonsingletons(a)[i], y[i], dims, classes, names)
    /\ names = Assign(NameMap(Singletons(a), x), NameMap(Nonsingletons(a), y))

\* For a node without links the map of names does not count.
LEMMA WithoutLinks ==
    ASSUME NEW n, n.links = <<>>, NEW k, NEW dims, NEW classes,
           NEW names, Fit(n, k, dims, classes, names),
           NEW others
    PROVE  Fit(n, k, dims, classes, others)
<1>1. PICK b : NodeFits(n, k, b, dims, classes, names)
  BY DEF Fit
<1>2. ToSet(n.links) = {}
  BY DEF ToSet
<1>3. LinksMatch(n, k, others)
  BY <1>2 DEF LinksMatch
<1>4. NodeFits(n, k, b, dims, classes, others)
  BY <1>1, <1>3 DEF NodeFits
<1>5. QED
  BY <1>4 DEF Fit

\* The names of all nodes.
LEMMA NamesOneToOne ==
    ASSUME NEW a, IsSchema(a), NEW b, IsSchema(b), NEW x, NEW y, NEW dims, NEW classes,
           NEW names,
           AllFit(a, b, x, y, dims, classes, names)
    PROVE  /\ OneToOne(names, Names(a.nodes), Names(b.nodes))
           /\ \A i \in DOMAIN Singletons(a) : names[Singletons(a)[i].name] = x[i].name
           /\ \A i \in DOMAIN Nonsingletons(a) : names[Nonsingletons(a)[i].name] = y[i].name
<1> DEFINE A1 == Singletons(a)
           A2 == Nonsingletons(a)
           B1 == Singletons(b)
           B2 == Nonsingletons(b)
           p == NameMap(A1, x)
           q == NameMap(A2, y)
<1>1. KindOf(A1, a, TRUE) /\ KindOf(A2, a, FALSE) /\ KindOf(B1, b, TRUE) /\ KindOf(B2, b, FALSE)
  BY Kinds
<1>2. Names(a.nodes) = Names(A1) \cup Names(A2) /\ Names(b.nodes) = Names(B1) \cup Names(B2)
  BY KindNames
<1>3. /\ IsOrder(x, B1) /\ IsOrder(y, B2) /\ Len(A1) = Len(B1) /\ Len(A2) = Len(B2)
      /\ names = Assign(p, q)
  BY DEF AllFit
<1> HIDE DEF A1, A2, B1, B2
<1>4. OneToOne(p, Names(A1), Names(B1)) /\ \A i \in DOMAIN A1 : p[A1[i].name] = x[i].name
  BY <1>1, <1>3, NameMapOneToOne DEF KindOf
<1>5. OneToOne(q, Names(A2), Names(B2)) /\ \A i \in DOMAIN A2 : q[A2[i].name] = y[i].name
  BY <1>1, <1>3, NameMapOneToOne DEF KindOf
<1>6. \A n : ~(n \in Names(A2) /\ n \in Names(A1))
  BY <1>1, KindsApart
<1>7. \A n : ~(n \in Names(B2) /\ n \in Names(B1))
  BY <1>1, KindsApart
<1> HIDE DEF p, q
<1>8. DOMAIN p = Names(A1) /\ DOMAIN q = Names(A2)
  BY <1>4, <1>5 DEF OneToOne
<1>9. Names(A1) \cup Names(A2) = Names(A2) \cup Names(A1) /\ Names(B1) \cup Names(B2) = Names(B2) \cup Names(B1)
  OBVIOUS
<1>10. names = [n \in Names(A2) \cup Names(A1) |-> IF n \in Names(A2) THEN q[n] ELSE p[n]]
  BY <1>3, <1>8, <1>9 DEF Assign
<1>11. OneToOne(names, Names(a.nodes), Names(b.nodes))
  <2>1. OneToOne([n \in Names(A2) \cup Names(A1) |-> IF n \in Names(A2) THEN q[n] ELSE p[n]],
                 Names(A2) \cup Names(A1), Names(B2) \cup Names(B1))
    BY <1>4, <1>5, <1>6, <1>7, JoinOneToOne
  <2>2. QED
    BY <1>2, <1>9, <1>10, <2>1, Zenon
<1>12. (\A i \in DOMAIN A1 : A1[i].name \in Names(A1)) /\ (\A i \in DOMAIN A2 : A2[i].name \in Names(A2))
  BY DEF Names
<1>13. \A i \in DOMAIN A1 : names[A1[i].name] = x[i].name
  BY <1>4, <1>6, <1>10, <1>12
<1>14. \A i \in DOMAIN A2 : names[A2[i].name] = y[i].name
  BY <1>5, <1>10, <1>12
<1>15. QED
  BY <1>11, <1>13, <1>14 DEF A1, A2

\* A schema whose nodes all fit embeds.
LEMMA FitEmbeds ==
    ASSUME NEW a, IsSchema(a), NEW b, IsSchema(b), NEW x, NEW y, NEW dims, NEW classes,
           NEW names,
           AllFit(a, b, x, y, dims, classes, names), MapsOK(dims, classes, Occurring(a), Meanings(b), a.classes, b.classes)
    PROVE  Embeds(a, b) /\ DOMAIN classes = Names(a.classes)
<1> DEFINE A1 == Singletons(a)
           A2 == Nonsingletons(a)
           B1 == Singletons(b)
           B2 == Nonsingletons(b)
           mu == [d \in DimNames |-> IF d \in DOMAIN dims THEN dims[d] ELSE Null]
<1>1. KindOf(A1, a, TRUE) /\ KindOf(A2, a, FALSE) /\ KindOf(B1, b, TRUE) /\ KindOf(B2, b, FALSE)
  BY Kinds
<1>2. /\ OneToOne(names, Names(a.nodes), Names(b.nodes))
      /\ \A i \in DOMAIN A1 : names[A1[i].name] = x[i].name
      /\ \A i \in DOMAIN A2 : names[A2[i].name] = y[i].name
  BY NamesOneToOne
<1>3. /\ IsOrder(x, B1) /\ IsOrder(y, B2) /\ Len(A1) = Len(B1) /\ Len(A2) = Len(B2)
      /\ \A i \in DOMAIN A1 : Fit(A1[i], x[i], dims, classes, EmptyMap)
      /\ \A i \in DOMAIN A2 : Fit(A2[i], y[i], dims, classes, names)
  BY DEF AllFit
<1>4. dims \in DimMaps(Meanings(b)) /\ classes \in [DOMAIN classes -> Names(b.classes)]
      /\ DOMAIN classes \subseteq Names(a.classes)
  BY DEF MapsOK
<1>5. DOMAIN dims \subseteq DimNames /\ \A d \in DOMAIN dims : dims[d] \in Dims(b)
  <2>1. PICK D \in SUBSET DimNames : dims \in [D -> Meanings(b)]
    BY <1>4 DEF DimMaps
  <2>2. QED
    BY <2>1 DEF Meanings
<1>6. mu \in [DimNames -> Dims(b) \cup {Null}] /\ Obeys(mu, dims)
  BY <1>5 DEF Obeys
<1> HIDE DEF A1, A2, B1, B2, mu
<1> DEFINE Good(n, k) == Fit(n, k, dims, classes, names) /\ k \in ToSet(b.nodes) /\ names[n.name] = k.name
                         /\ IsNode(n, a.classes) /\ IsNode(k, b.classes) /\ n.singleton = k.singleton
<1>7. ASSUME NEW i \in DOMAIN A1 PROVE Good(A1[i], x[i])
  <2>1. DOMAIN x = DOMAIN A1 /\ DrawnFrom(x, B1)
    <3>1. IsList(A1) /\ IsList(B1)
      BY <1>1 DEF KindOf
    <3>2. DOMAIN A1 = 1 .. Len(A1) /\ DOMAIN B1 = 1 .. Len(B1)
      BY <3>1, ListOfElements
    <3>3. DOMAIN x = DOMAIN B1 /\ DrawnFrom(x, B1)
      BY <1>3, <3>1, OrderPlaces DEF IsList
    <3>4. QED
      BY <1>3, <3>2, <3>3
  <2>2. PICK j \in DOMAIN B1 : x[i] = B1[j]
    BY <2>1 DEF DrawnFrom
  <2>3. /\ IsNode(A1[i], a.classes) /\ A1[i].singleton = TRUE /\ NodeOK(A1[i])
        /\ IsNode(B1[j], b.classes) /\ B1[j].singleton = TRUE /\ B1[j] \in ToSet(b.nodes)
    BY <1>1 DEF KindOf
  <2>4. A1[i].links = <<>>
    BY <2>3 DEF NodeOK
  <2>5. Fit(A1[i], x[i], dims, classes, names)
    BY <1>3, <2>4, WithoutLinks
  <2>6. QED
    BY <1>2, <2>2, <2>3, <2>5
<1>8. ASSUME NEW i \in DOMAIN A2 PROVE Good(A2[i], y[i])
  <2>1. DOMAIN y = DOMAIN A2 /\ DrawnFrom(y, B2)
    <3>1. IsList(A2) /\ IsList(B2)
      BY <1>1 DEF KindOf
    <3>2. DOMAIN A2 = 1 .. Len(A2) /\ DOMAIN B2 = 1 .. Len(B2)
      BY <3>1, ListOfElements
    <3>3. DOMAIN y = DOMAIN B2 /\ DrawnFrom(y, B2)
      BY <1>3, <3>1, OrderPlaces DEF IsList
    <3>4. QED
      BY <1>3, <3>2, <3>3
  <2>2. PICK j \in DOMAIN B2 : y[i] = B2[j]
    BY <2>1 DEF DrawnFrom
  <2>3. /\ IsNode(A2[i], a.classes) /\ A2[i].singleton = FALSE
        /\ IsNode(B2[j], b.classes) /\ B2[j].singleton = FALSE /\ B2[j] \in ToSet(b.nodes)
    BY <1>1 DEF KindOf
  <2>6. QED
    BY <1>2, <1>3, <2>2, <2>3
<1>9. ASSUME NEW n \in ToSet(a.nodes) PROVE \E k : Good(n, k)
  <2>1. n \in ToSet(A1) \/ n \in ToSet(A2)
    BY KindsCover DEF A1, A2
  <2> HIDE DEF Good
  <2>2. CASE n \in ToSet(A1)
    <3>1. PICK i \in DOMAIN A1 : n = A1[i]
      BY <2>2 DEF ToSet
    <3>2. QED
      BY <1>7, <3>1
  <2>3. CASE n \in ToSet(A2)
    <3>1. PICK i \in DOMAIN A2 : n = A2[i]
      BY <2>3 DEF ToSet
    <3>2. QED
      BY <1>8, <3>1
  <2>4. QED
    BY <2>1, <2>2, <2>3
<1>10. ASSUME NEW n \in ToSet(a.nodes) PROVE NodeEmbeds(n, Get(b.nodes, names[n.name]), mu, classes, names)
  <2>1. PICK k : Good(n, k)
    BY <1>9
  <2>2. PICK j \in DOMAIN b.nodes : k = b.nodes[j]
    BY <2>1 DEF ToSet
  <2>3. DistinctNames(b.nodes) /\ names[n.name] = b.nodes[j].name
    BY <2>1, <2>2 DEF IsSchema
  <2>4. Get(b.nodes, names[n.name]) = k
    BY <2>2, <2>3, GetNamed
  <2>5. PICK built : NodeFits(n, k, built, dims, classes, names)
    BY <2>1 DEF Fit
  <2>6. \A l \in ToSet(n.links) : l.name \in Names(a.nodes)
    BY DEF IsSchema, SchemaOK, LinksOK
  <2>7. NodeEmbeds(n, k, mu, classes, names)
    BY <1>2, <1>6, <2>1, <2>5, <2>6, NodeFitsEmbeds
  <2>8. QED
    BY <2>4, <2>7
<1>11. ASSUME NEW c \in Names(a.classes) PROVE c \in DOMAIN classes
  <2>1. c \in ClassesUsed(a)
    BY DEF IsSchema, SchemaOK
  <2>20. PICK n \in ToSet(a.nodes) :
            \E j \in DOMAIN n.fields : n.fields[j].type = "category" /\ n.fields[j].class = c
    BY <2>1 DEF ClassesUsed
  <2>2. PICK j \in DOMAIN n.fields : n.fields[j].type = "category" /\ n.fields[j].class = c
    BY <2>20
  <2>3. PICK k : Good(n, k)
    BY <1>9
  <2>4. PICK sigma : FieldsFit(n, k, sigma, dims, classes)
    BY <2>3 DEF Fit, NodeFits
  <2>5. FieldFits(n.fields[j], k.fields[sigma[j]], dims, classes)
    BY <2>4 DEF FieldsFit
  <2>6. QED
    BY <2>2, <2>5 DEF FieldFits
<1>12. classes \in [Names(a.classes) -> Names(b.classes)]
  <2>1. DOMAIN classes = Names(a.classes)
    BY <1>4, <1>11
  <2>2. QED
    BY <1>4, <2>1
<1>13. ASSUME NEW c \in ToSet(a.classes) PROVE Stands(c.dim, Get(b.classes, classes[c.name]).dim, mu)
  <2>1. PICK i \in DOMAIN a.classes : c = a.classes[i]
    BY DEF ToSet
  <2>2. c.name \in Names(a.classes) /\ DistinctNames(a.classes)
    BY <2>1 DEF Names, IsSchema
  <2>3. Get(a.classes, c.name) = c
    BY <2>1, <2>2, GetNamed
  <2>4. Stands(Get(a.classes, c.name).dim, Get(b.classes, classes[c.name]).dim, mu)
    BY <1>6, <1>11, <2>2 DEF MapsOK
  <2>5. QED
    BY <2>3, <2>4
<1>14. names \in Bijection(Names(a.nodes), Names(b.nodes))
  BY <1>2, OneToOneIsBijection
<1>15. Embeds(a, b)
  BY <1>6, <1>10, <1>12, <1>13, <1>14, Zenon DEF Embeds
<1>16. QED
  BY <1>12, <1>15

------------------------------------------------------------------------------
(* The schema that is built.                                               *)

\* m has what n has, except for the names in the source.
IsCopy(m, n) ==
    /\ m.name = n.name /\ m.singleton = n.singleton /\ m.links = n.links
    /\ DOMAIN m.fields = DOMAIN n.fields
    /\ \A i \in DOMAIN n.fields : m.fields[i].type = n.fields[i].type /\ m.fields[i].class = n.fields[i].class

\* A node that was built is a copy.
LEMMA BuiltIsCopy ==
    ASSUME NEW b, NEW n, NEW k, NEW sigma, IsBuilt(b, n, k, sigma)
    PROVE  IsCopy(b, n)
<1> DEFINE fs == [i \in DOMAIN n.fields |-> BuildField(n.fields[i], k.fields[sigma[i]])]
<1>1. /\ b.name = n.name /\ b.singleton = n.singleton /\ b.links = n.links /\ b.fields = fs
  BY DEF IsBuilt
<1>2. /\ DOMAIN fs = DOMAIN n.fields
      /\ \A i \in DOMAIN n.fields : fs[i].type = n.fields[i].type /\ fs[i].class = n.fields[i].class
  BY DEF BuildField
<1> HIDE DEF fs
<1>3. QED
  BY <1>1, <1>2 DEF IsCopy

\* The nodes ns are copies of those of a.
AreCopies(ns, a) ==
    /\ \A m \in ToSet(ns) : \E n \in ToSet(a.nodes) : IsCopy(m, n)
    /\ \A n \in ToSet(a.nodes) : \E m \in ToSet(ns) : IsCopy(m, n)

\* The classes that are used are those of the categories.
LEMMA ClassesOf ==
    ASSUME NEW s, NEW c
    PROVE  c \in ClassesUsed(s) <=>
              \E n \in ToSet(s.nodes) : \E j \in DOMAIN n.fields :
                 n.fields[j].type = "category" /\ n.fields[j].class = c
BY DEF ClassesUsed

\* Copies of all nodes of a schema make a schema that can be read.
LEMMA CopyIsSchema ==
    ASSUME NEW a, IsSchema(a), NEW s, AreCopies(s.nodes, a),
           s.cyclic = a.cyclic, s.undirected = a.undirected, s.fanin = a.fanin,
           Names(s.classes) = Names(a.classes), \A d \in DOMAIN s.srcDims : s.srcDims[d] # Malformed
    PROVE  SchemaOK(s)
<1>1. SchemaOK(a) /\ DistinctNames(a.nodes) /\ IsList(a.nodes)
  BY DEF IsSchema
<1>2. {s.cyclic, s.undirected, s.fanin} \subseteq BOOLEAN
  BY <1>1 DEF SchemaOK
<1>3. s.nodes # <<>>
  <2>1. a.nodes # <<>>
    BY <1>1 DEF SchemaOK
  <2>2. \E n : n \in ToSet(a.nodes)
    <3>1. 1 \in DOMAIN a.nodes
      BY <1>1, <2>1, ListOfElements DEF IsList
    <3>2. QED
      BY <3>1 DEF ToSet
  <2>3. \E m : m \in ToSet(s.nodes)
    BY <2>2 DEF AreCopies
  <2>4. ToSet(<<>>) = {}
    BY DEF ToSet
  <2>5. QED
    BY <2>3, <2>4
<1>4. Names(s.nodes) = Names(a.nodes)
  <2>1. \A q, x : x \in Names(q) <=> \E n \in ToSet(q) : n.name = x
    BY DEF Names, ToSet
  <2>2. ASSUME NEW x PROVE x \in Names(s.nodes) <=> x \in Names(a.nodes)
    BY <2>1 DEF AreCopies, IsCopy
  <2>3. QED
    BY <2>2
<1>5. ASSUME NEW m \in ToSet(s.nodes) PROVE LinksOK(s, m)
  <2>1. PICK n \in ToSet(a.nodes) : IsCopy(m, n)
    BY DEF AreCopies
  <2>2. LinksOK(a, n) /\ m.links = n.links
    BY <1>1, <2>1 DEF SchemaOK, IsCopy
  <2>3. ASSUME NEW l \in ToSet(m.links) PROVE l.name \in Names(s.nodes) /\ ~Get(s.nodes, l.name).singleton
    <3>1. l.name \in Names(a.nodes) /\ ~Get(a.nodes, l.name).singleton
      BY <2>2 DEF LinksOK
    <3> DEFINE g == Get(s.nodes, l.name)
               h == Get(a.nodes, l.name)
    <3>2. g \in ToSet(s.nodes) /\ g.name = l.name /\ h \in ToSet(a.nodes) /\ h.name = l.name
      BY <1>4, <3>1, GetFrom
    <3> HIDE DEF g, h
    <3>3. PICK e \in ToSet(a.nodes) : IsCopy(g, e)
      BY <3>2 DEF AreCopies
    <3>4. e.name = h.name /\ g.singleton = e.singleton
      BY <3>2, <3>3 DEF IsCopy
    <3>5. e = h
      BY <1>1, <3>2, <3>4 DEF ToSet, DistinctNames
    <3>6. QED
      BY <1>4, <3>1, <3>4, <3>5 DEF g, h
  <2>4. s.undirected /\ ~s.fanin =>
            /\ \A l \in ToSet(m.links) : l.dim[2] # Inf
            /\ LinkCount(m.links) <= 2
    BY <2>2 DEF LinksOK
  <2>5. QED
    BY <2>3, <2>4 DEF LinksOK
<1>6. ClassesUsed(s) = Names(s.classes)
  <2>1. ClassesUsed(a) = Names(a.classes)
    BY <1>1 DEF SchemaOK
  <2>2. ASSUME NEW c \in ClassesUsed(s) PROVE c \in ClassesUsed(a)
    <3>1. PICK m \in ToSet(s.nodes) : \E j \in DOMAIN m.fields :
              m.fields[j].type = "category" /\ m.fields[j].class = c
      BY ClassesOf
    <3>2. PICK n \in ToSet(a.nodes) : IsCopy(m, n)
      BY DEF AreCopies
    <3>3. QED
      BY <3>1, <3>2, ClassesOf DEF IsCopy
  <2>3. ASSUME NEW c \in ClassesUsed(a) PROVE c \in ClassesUsed(s)
    <3>1. PICK n \in ToSet(a.nodes) : \E j \in DOMAIN n.fields :
              n.fields[j].type = "category" /\ n.fields[j].class = c
      BY ClassesOf
    <3>2. PICK m \in ToSet(s.nodes) : IsCopy(m, n)
      BY DEF AreCopies
    <3>3. QED
      BY <3>1, <3>2, ClassesOf DEF IsCopy
  <2>4. QED
    BY <2>1, <2>2, <2>3
<1>7. QED
  BY <1>2, <1>3, <1>5, <1>6 DEF SchemaOK

------------------------------------------------------------------------------
(* The two loops.                                                          *)

\* What a loop over orders has found: the first m nodes of A fit those of an order x of B.
StageFit(A, B, x, m, built, dims, classes, names) ==
    /\ IsOrder(x, B) /\ m \in Nat /\ m <= Len(A) /\ m <= Len(B) /\ (Len(A) = Len(B) => m = Len(A))
    /\ IsList(built) /\ Len(built) = m
    /\ \A i \in 1 .. m : NodeFits(A[i], x[i], built[i], dims, classes, names)

\* The loop over the singletons found the order x and built of it what it had to.
FirstStage(a, b, dims, classes, names, ns, bld, x, m, built) ==
    /\ StageFit(Singletons(a), Singletons(b), x, m, built, dims, classes, EmptyMap)
    /\ ns = IF bld THEN built ELSE <<>>
    /\ names = NameMap(Singletons(a), x)

\* What holds after the loop over the singletons.
FirstDone(a, b, dims, classes, names, ns, bld) ==
    /\ MapsOK(dims, classes, Occurring(a), Meanings(b), a.classes, b.classes)
    /\ \E x, m, built : FirstStage(a, b, dims, classes, names, ns, bld, x, m, built)

\* Both loops found an order.
BothStages(a, b, dims, classes, names, ns, bld, x, m, b1, y, l, b2) ==
    /\ StageFit(Singletons(a), Singletons(b), x, m, b1, dims, classes, EmptyMap)
    /\ StageFit(Nonsingletons(a), Nonsingletons(b), y, l, b2, dims, classes, names)
    /\ ns = IF bld THEN b1 \o b2 ELSE <<>>
    /\ names = Assign(NameMap(Singletons(a), x), NameMap(Nonsingletons(a), y))

\* What holds after both.
BothDone(a, b, dims, classes, names, ns, bld) ==
    /\ MapsOK(dims, classes, Occurring(a), Meanings(b), a.classes, b.classes)
    /\ \E x, m, b1, y, l, b2 :
        BothStages(a, b, dims, classes, names, ns, bld, x, m, b1, y, l, b2)

\* The maps a call starts with.
LEMMA EmptyMapsOK ==
    ASSUME NEW D, NEW V, NEW ca, NEW cb
    PROVE  MapsOK(EmptyMap, EmptyMap, D, V, ca, cb)
<1>1. DOMAIN <<>> = {} /\ {} \subseteq D /\ <<>> \in [{} -> V] /\ <<>> \in [{} -> Names(cb)]
  OBVIOUS
<1>2. {} \in SUBSET DimNames
  OBVIOUS
<1>3. <<>> \in DimMaps(V)
  BY <1>1, <1>2 DEF DimMaps
<1>4. QED
  BY <1>1, <1>3 DEF MapsOK, EmptyMap

\* A list without elements is the empty one.
LEMMA EmptyListIs ==
    ASSUME NEW s, IsList(s), Len(s) = 0
    PROVE  s = <<>>
BY DEF IsList

\* Assigning the empty map, or to it, changes nothing.
LEMMA AssignEmpty ==
    ASSUME NEW f, f = [x \in DOMAIN f |-> f[x]]
    PROVE  Assign(EmptyMap, f) = f /\ Assign(f, EmptyMap) = f
<1>1. DOMAIN EmptyMap = {}
  BY DEF EmptyMap
<1>2. DOMAIN EmptyMap \cup DOMAIN f = DOMAIN f /\ DOMAIN f \cup DOMAIN EmptyMap = DOMAIN f
  BY <1>1
<1>3. Assign(EmptyMap, f) = f
  BY <1>2 DEF Assign
<1>4. Assign(f, EmptyMap) = f
  BY <1>1, <1>2 DEF Assign
<1>5. QED
  BY <1>3, <1>4

\* The names of an order are a map.
LEMMA NameMapIsMap ==
    ASSUME NEW A, NEW x
    PROVE  NameMap(A, x) = [n \in DOMAIN NameMap(A, x) |-> NameMap(A, x)[n]]
BY DEF NameMap

\* An empty order has no names.
LEMMA NameMapEmpty ==
    ASSUME NEW A
    PROVE  NameMap(A, <<>>) = EmptyMap
<1>1. DOMAIN NameMap(A, <<>>) = {}
  BY DEF NameMap
<1>2. NameMap(A, <<>>) = [n \in {} |-> NameMap(A, <<>>)[n]]
  BY <1>1, NameMapIsMap
<1> DEFINE f == NameMap(A, <<>>)
<1> HIDE DEF f
<1>3. f = <<>>
  BY <1>1, <1>2 DEF f
<1>4. QED
  BY <1>3 DEF f, EmptyMap

\* The numbers up to m are numbers up to n.
LEMMA Within ==
    ASSUME NEW m \in Nat, NEW n \in Nat, m <= n, NEW i \in 1 .. m
    PROVE  i \in 1 .. n
OBVIOUS

\* A comparison of nodes that fits is a stage.
LEMMA ComparedStage ==
    ASSUME NEW a, IsSchema(a), NEW b, IsSchema(b), NEW kind,
           NEW A, KindOf(A, a, kind), NEW B, KindOf(B, b, kind), NEW x, IsOrder(x, B),
           NEW m \in Nat, m <= Len(A), m <= Len(B), Len(A) = Len(B) => m = Len(A),
           NEW dims,
           NEW classes, MapsOK(dims, classes, Occurring(a), Meanings(b), a.classes, b.classes), NEW names, NEW r,
           r = NodesMatch(m, A, x, dims, classes, names, a.classes, b.classes), r.ok
    PROVE  /\ MapsOK(r.dims, r.classes, Occurring(a), Meanings(b), a.classes, b.classes)
           /\ Extends(r.dims, dims) /\ Extends(r.classes, classes)
           /\ StageFit(A, B, x, m, r.built, r.dims, r.classes, names)
<1> DEFINE D == Occurring(a)
           V == Meanings(b)
           ca == a.classes
           cb == b.classes
<1>1. (\A c \in ToSet(cb) : c.dim \in V) /\ \A c \in ToSet(ca) : c.dim \in D
  BY ClassDimsIn, ClassDimsOccur
<1>2. IsList(A) /\ IsList(B)
  BY DEF KindOf
<1>3. DOMAIN A = 1 .. Len(A) /\ DOMAIN B = 1 .. Len(B) /\ Len(A) \in Nat /\ Len(B) \in Nat
  BY <1>2, ListOfElements
<1>4. DOMAIN x = DOMAIN B /\ DrawnFrom(x, B)
  BY <1>2, OrderPlaces DEF IsList
<1>5. ASSUME NEW i \in 1 .. m 
             PROVE  IsNode(A[i], ca) /\ DimsIn(A[i], D) /\ IsNode(x[i], cb) /\ DimsIn(x[i], V)
  <2>0. i \in 1 .. Len(A) /\ i \in 1 .. Len(B)
    BY <1>3, Within, Zenon
  <2>1. i \in DOMAIN A /\ i \in DOMAIN x
    BY <1>3, <1>4, <2>0, Zenon
  <2>2. PICK j \in DOMAIN B : x[i] = B[j]
    BY <1>4, <2>1 DEF DrawnFrom
  <2>3. IsNode(A[i], ca) /\ IsNode(B[j], cb) /\ A[i] \in ToSet(a.nodes) /\ B[j] \in ToSet(b.nodes)
    BY <2>1 DEF KindOf
  <2>4. DimsIn(A[i], D) /\ DimsIn(B[j], V)
    BY <2>3, TensorDimsIn, TensorDimsOccur
  <2>5. QED
    BY <2>2, <2>3, <2>4
<1> HIDE DEF D, V, ca, cb
<1>6. MapsOK(dims, classes, D, V, ca, cb) /\ r = NodesMatch(m, A, x, dims, classes, names, ca, cb)
  BY DEF D, V, ca, cb
<1>7. Grown(r, dims, classes, D, V, ca, cb) /\ NodesFit(m, A, x, r, names)
  BY <1>1, <1>5, <1>6, NodesMatchSound
<1>8. StageFit(A, B, x, m, r.built, r.dims, r.classes, names)
  BY <1>7 DEF NodesFit, StageFit, IsList
<1>9. QED
  BY <1>7, <1>8 DEF Grown, D, V, ca, cb

\* An empty list leaves nothing to compare.
LEMMA EmptyStage ==
    ASSUME NEW A, Len(A) \in Nat, NEW B, IsList(B), Len(B) = 0, NEW dims, NEW classes, NEW names
    PROVE  StageFit(A, B, <<>>, 0, <<>>, dims, classes, names)
<1>1. B = <<>>
  BY EmptyListIs
<1>2. IsOrder(<<>>, B) /\ IsList(<<>>) /\ Len(<<>>) = 0
  BY <1>1, ListIsOrder DEF IsList
<1>3. 0 <= Len(A) /\ (Len(A) = Len(B) => 0 = Len(A)) /\ 0 <= Len(B)
  OBVIOUS
<1>4. \A i \in 1 .. 0 : FALSE
  OBVIOUS
<1>5. QED
  BY <1>2, <1>3, <1>4 DEF StageFit

\* A stage still fits when the maps grow.
LEMMA StageStill ==
    ASSUME NEW A, NEW B, NEW x, NEW m, NEW built, NEW names, NEW dims, NEW classes,
           StageFit(A, B, x, m, built, dims, classes, names),
           NEW moreDims, NEW moreClasses, Extends(moreDims, dims), Extends(moreClasses, classes)
    PROVE  StageFit(A, B, x, m, built, moreDims, moreClasses, names)
<1>1. \A i \in 1 .. m : NodeFits(A[i], x[i], built[i], moreDims, moreClasses, names)
  BY NodeFitsStill DEF StageFit
<1>2. QED
  BY <1>1 DEF StageFit

------------------------------------------------------------------------------
(* The end of both loops.                                                  *)

\* A sequence is a list.
LEMMA SeqIsList ==
    ASSUME NEW S, NEW w \in Seq(S)
    PROVE  IsList(w)
<1>1. Len(w) \in Nat /\ DOMAIN w = 1 .. Len(w) /\ w = [i \in 1 .. Len(w) |-> w[i]]
  OBVIOUS
<1>2. \A i \in 1 .. Len(w) : w[i] \in ToSet(w)
  BY <1>1 DEF ToSet
<1>3. w \in [1 .. Len(w) -> ToSet(w)]
  BY <1>1, <1>2
<1>4. QED
  BY <1>1, <1>3 DEF IsList

\* The parts of two lists are at their places in the joined list.
LEMMA ListJoined ==
    ASSUME NEW s, IsList(s), NEW u, IsList(u)
    PROVE  /\ IsList(s \o u) /\ Len(s \o u) = Len(s) + Len(u)
           /\ \A i \in DOMAIN s : i \in DOMAIN (s \o u) /\ (s \o u)[i] = s[i]
           /\ \A i \in DOMAIN u : Len(s) + i \in DOMAIN (s \o u) /\ (s \o u)[Len(s) + i] = u[i]
           /\ \A x : x \in ToSet(s \o u) <=> x \in ToSet(s) \/ x \in ToSet(u)
<1> DEFINE S == ToSet(s) \cup ToSet(u)
           w == s \o u
<1>1. s \in Seq(S) /\ u \in Seq(S)
  <2>1. ToSet(s) \subseteq S /\ ToSet(u) \subseteq S
    OBVIOUS
  <2> HIDE DEF S
  <2>2. QED
    BY <2>1 DEF IsList
<1> HIDE DEF S
<1>2. /\ w \in Seq(S) /\ DOMAIN w = 1 .. Len(s) + Len(u)
      /\ \A k \in 1 .. Len(s) + Len(u) : w[k] = IF k <= Len(s) THEN s[k] ELSE u[k - Len(s)]
  BY <1>1, ConcatParts
<1>3. Len(s) \in Nat /\ Len(u) \in Nat /\ DOMAIN s = 1 .. Len(s) /\ DOMAIN u = 1 .. Len(u)
  BY <1>1
<1> HIDE DEF w
<1>4. Len(w) = Len(s) + Len(u)
  BY <1>2, <1>3
<1>5. IsList(w)
  BY <1>2, SeqIsList
<1>6. \A i \in DOMAIN s : i \in DOMAIN w /\ w[i] = s[i]
  BY <1>2, <1>3
<1>7. ASSUME NEW i \in DOMAIN u PROVE Len(s) + i \in DOMAIN w /\ w[Len(s) + i] = u[i]
  <2>1. Len(s) + i \in 1 .. Len(s) + Len(u) /\ ~(Len(s) + i <= Len(s)) /\ (Len(s) + i) - Len(s) = i
    BY <1>3
  <2>2. QED
    BY <1>2, <2>1
<1>8. ASSUME NEW k \in DOMAIN w PROVE (\E i \in DOMAIN s : w[k] = s[i]) \/ (\E i \in DOMAIN u : w[k] = u[i])
  <2>1. CASE k <= Len(s)
    <3>1. k \in DOMAIN s /\ w[k] = s[k]
      BY <1>2, <1>3, <2>1
    <3>2. QED
      BY <3>1
  <2>2. CASE ~(k <= Len(s))
    <3>1. k - Len(s) \in DOMAIN u /\ w[k] = u[k - Len(s)]
      BY <1>2, <1>3, <2>2
    <3>2. QED
      BY <3>1
  <2>3. QED
    BY <2>1, <2>2
<1>9. \A x : x \in ToSet(w) <=> x \in ToSet(s) \/ x \in ToSet(u)
  <2>1. \A q, x : x \in ToSet(q) <=> \E i \in DOMAIN q : x = q[i]
    BY DEF ToSet
  <2>2. ASSUME NEW x \in ToSet(w) PROVE x \in ToSet(s) \/ x \in ToSet(u)
    BY <1>8, <2>1
  <2>3. ASSUME NEW x \in ToSet(s) PROVE x \in ToSet(w)
    BY <1>6, <2>1
  <2>4. ASSUME NEW x \in ToSet(u) PROVE x \in ToSet(w)
    BY <1>7, <2>1
  <2>5. QED
    BY <2>2, <2>3, <2>4
<1>10. QED
  BY <1>4, <1>5, <1>6, <1>7, <1>9 DEF w

\* A stage in which every node has a partner.
LEMMA StageCopies ==
    ASSUME NEW A, IsList(A), NEW B, Len(A) = Len(B), NEW x, NEW m, NEW built, NEW dims,
           NEW classes, NEW names,
           StageFit(A, B, x, m, built, dims, classes, names)
    PROVE  /\ \A i \in DOMAIN A : Fit(A[i], x[i], dims, classes, names)
           /\ \A n \in ToSet(A) : \E c \in ToSet(built) : IsCopy(c, n)
           /\ \A c \in ToSet(built) : \E n \in ToSet(A) : IsCopy(c, n)
<1>1. DOMAIN A = 1 .. m /\ DOMAIN built = 1 .. m
  BY ListOfElements DEF StageFit
<1>2. \A i \in 1 .. m : NodeFits(A[i], x[i], built[i], dims, classes, names)
  BY DEF StageFit
<1>3. \A i \in 1 .. m : Fit(A[i], x[i], dims, classes, names)
  BY <1>2 DEF Fit
<1>4. ASSUME NEW i \in 1 .. m PROVE IsCopy(built[i], A[i])
  <2>1. PICK sigma : IsBuilt(built[i], A[i], x[i], sigma)
    BY <1>2 DEF NodeFits
  <2>2. QED
    BY <2>1, BuiltIsCopy
<1>5. \A q, e : e \in ToSet(q) <=> \E i \in DOMAIN q : e = q[i]
  BY DEF ToSet
<1>6. ASSUME NEW n \in ToSet(A) PROVE \E c \in ToSet(built) : IsCopy(c, n)
  <2>1. PICK i \in 1 .. m : n = A[i]
    BY <1>1, <1>5
  <2>2. built[i] \in ToSet(built)
    BY <1>1, <1>5
  <2>3. QED
    BY <1>4, <2>1, <2>2
<1>7. ASSUME NEW c \in ToSet(built) PROVE \E n \in ToSet(A) : IsCopy(c, n)
  <2>1. PICK i \in 1 .. m : c = built[i]
    BY <1>1, <1>5
  <2>2. A[i] \in ToSet(A)
    BY <1>1, <1>5
  <2>3. QED
    BY <1>4, <2>1, <2>2
<1>8. QED
  BY <1>1, <1>3, <1>6, <1>7

\* What has been found after both loops is a match, and the schema that is built is one.
LEMMA DoneEmbeds ==
    ASSUME NEW a, IsSchema(a), NEW b, IsSchema(b), NEW dims, NEW classes, NEW names,
           NEW ns, NEW bld,
           BothDone(a, b, dims, classes, names, ns, bld),
           Len(Singletons(a)) = Len(Singletons(b)), Len(Nonsingletons(a)) = Len(Nonsingletons(b))
    PROVE  /\ Embeds(a, b) /\ DOMAIN classes = Names(a.classes)
           /\ bld => AreCopies(ns, a)
<1> DEFINE A1 == Singletons(a)
           A2 == Nonsingletons(a)
           B1 == Singletons(b)
           B2 == Nonsingletons(b)
<1>1. KindOf(A1, a, TRUE) /\ KindOf(A2, a, FALSE)
  BY Kinds
<1>2. PICK x, m, b1, y, l, b2 : BothStages(a, b, dims, classes, names, ns, bld, x, m, b1, y, l, b2)
  BY DEF BothDone
<1>3. /\ StageFit(A1, B1, x, m, b1, dims, classes, EmptyMap) /\ StageFit(A2, B2, y, l, b2, dims, classes, names)
      /\ names = Assign(NameMap(A1, x), NameMap(A2, y))
  BY <1>2 DEF BothStages
<1>4. IsList(A1) /\ IsList(A2) /\ Len(A1) = Len(B1) /\ Len(A2) = Len(B2)
  BY <1>1 DEF KindOf
<1>5. \A n \in ToSet(a.nodes) : n \in ToSet(A1) \/ n \in ToSet(A2)
  BY KindsCover
<1>6. (\A n \in ToSet(A1) : n \in ToSet(a.nodes)) /\ (\A n \in ToSet(A2) : n \in ToSet(a.nodes))
  BY <1>1 DEF KindOf, ToSet
<1> HIDE DEF A1, A2, B1, B2
<1>7. /\ \A i \in DOMAIN A1 : Fit(A1[i], x[i], dims, classes, EmptyMap)
      /\ \A n \in ToSet(A1) : \E c \in ToSet(b1) : IsCopy(c, n)
      /\ \A c \in ToSet(b1) : \E n \in ToSet(A1) : IsCopy(c, n)
  BY <1>3, <1>4, StageCopies
<1>8. /\ \A i \in DOMAIN A2 : Fit(A2[i], y[i], dims, classes, names)
      /\ \A n \in ToSet(A2) : \E c \in ToSet(b2) : IsCopy(c, n)
      /\ \A c \in ToSet(b2) : \E n \in ToSet(A2) : IsCopy(c, n)
  BY <1>3, <1>4, StageCopies
<1>9. AllFit(a, b, x, y, dims, classes, names)
  BY <1>3, <1>4, <1>7, <1>8 DEF AllFit, StageFit, A1, A2, B1, B2
<1>10. Embeds(a, b) /\ DOMAIN classes = Names(a.classes)
  BY <1>9, FitEmbeds DEF BothDone
<1>11. ASSUME bld PROVE AreCopies(ns, a)
  <2>1. ns = b1 \o b2
    BY <1>2, <1>11 DEF BothStages
  <2>2. IsList(b1) /\ IsList(b2)
    BY <1>3 DEF StageFit
  <2>3. \A c : c \in ToSet(ns) <=> c \in ToSet(b1) \/ c \in ToSet(b2)
    BY <2>1, <2>2, ListJoined
  <2>4. \A c \in ToSet(ns) : \E n \in ToSet(a.nodes) : IsCopy(c, n)
    BY <1>6, <1>7, <1>8, <2>3
  <2>5. \A n \in ToSet(a.nodes) : \E c \in ToSet(ns) : IsCopy(c, n)
    BY <1>5, <1>7, <1>8, <2>3
  <2>6. QED
    BY <2>4, <2>5 DEF AreCopies
<1>12. QED
  BY <1>10, <1>11

------------------------------------------------------------------------------
(* The steps of a call.                                                    *)

\* The schema that is built from copies of the nodes can be read.
LEMMA BuildSchemaOK ==
    ASSUME NEW a, IsSchema(a), NEW b, IsSchema(b), NEW dims, NEW classes,
           NEW ns, AreCopies(ns, a),
           MapsOK(dims, classes, Occurring(a), Meanings(b), a.classes, b.classes), DOMAIN classes = Names(a.classes)
    PROVE  /\ \A c \in ToSet(BuildSchema(a, dims, classes, ns).classes) : ClassOK(c)
           /\ SchemaOK(BuildSchema(a, dims, classes, ns))
<1> DEFINE s == BuildSchema(a, dims, classes, ns)
           Class(c) == [name |-> c.name, dim |-> c.dim,
                        srcName |-> IF c.name \in DOMAIN classes THEN classes[c.name] ELSE Malformed]
           cs == [i \in DOMAIN a.classes |-> Class(a.classes[i])]
<1>1. /\ s.nodes = ns /\ s.classes = cs /\ s.cyclic = a.cyclic /\ s.undirected = a.undirected
      /\ s.fanin = a.fanin /\ s.srcDims = dims
  BY DEF BuildSchema
<1> HIDE DEF s
<1>2. \A d \in DOMAIN dims : dims[d] # Malformed
  <2>1. PICK D \in SUBSET DimNames : dims \in [D -> Meanings(b)]
    BY DEF DimMaps, MapsOK
  <2>2. QED
    BY <2>1 DEF Meanings
<1>3. ASSUME NEW i \in DOMAIN a.classes PROVE ClassOK(cs[i]) /\ cs[i].name = a.classes[i].name
  <2>1. ClassOK(a.classes[i])
    BY DEF IsSchema
  <2>2. a.classes[i].name \in DOMAIN classes
    BY DEF Names
  <2>3. /\ cs[i].name = a.classes[i].name /\ cs[i].dim = a.classes[i].dim
        /\ cs[i].srcName = classes[a.classes[i].name]
    BY <2>2
  <2>4. classes[a.classes[i].name] \in Names(b.classes)
    BY <2>2 DEF MapsOK
  <2>5. \A n \in Names(b.classes) : n # Malformed
    BY DEF IsSchema, ClassOK, Names
  <2> HIDE DEF cs
  <2>6. QED
    BY <2>1, <2>3, <2>4, <2>5 DEF ClassOK
<1>4. DOMAIN cs = DOMAIN a.classes
  OBVIOUS
<1> HIDE DEF cs
<1>5. \A c \in ToSet(cs) : ClassOK(c)
  BY <1>3, <1>4 DEF ToSet
<1>6. Names(cs) = Names(a.classes)
  BY <1>3, <1>4 DEF Names
<1>7. SchemaOK(s)
  BY <1>1, <1>2, <1>6, CopyIsSchema
<1>8. QED
  BY <1>1, <1>5, <1>7 DEF s

\* The smallest of three numbers.
LEMMA SmallestOfThree ==
    ASSUME NEW i \in Nat, NEW j \in Nat, NEW k \in Nat
    PROVE  /\ Min({i, j, k}) \in {i, j, k} /\ Min({i, j, k}) \in Nat
           /\ Min({i, j, k}) <= i /\ Min({i, j, k}) <= j /\ Min({i, j, k}) <= k
<1> DEFINE A == {i, j, k}
           n == i + j + k
<1>1. n \in Nat /\ A \in SUBSET (0 .. n) /\ A # {}
  OBVIOUS
<1>2. i \in A /\ j \in A /\ k \in A /\ \A x \in A : x = i \/ x = j \/ x = k
  OBVIOUS
<1> HIDE DEF n, A
<1>3. Min(A) \in A /\ \A y \in A : Min(A) <= y
  BY <1>1, MinProperties
<1>4. Min(A) \in Nat /\ Min(A) <= i /\ Min(A) <= j /\ Min(A) <= k
  BY <1>2, <1>3
<1>5. QED
  BY <1>3, <1>4 DEF A

\* The lists of nodes have lengths.
LEMMA KindLengths ==
    ASSUME NEW s, IsSchema(s)
    PROVE  /\ Len(Singletons(s)) \in Nat /\ IsList(Singletons(s))
           /\ Len(Nonsingletons(s)) \in Nat /\ IsList(Nonsingletons(s))
<1>1. IsList(Singletons(s)) /\ IsList(Nonsingletons(s))
  BY Kinds DEF KindOf
<1>2. QED
  BY <1>1, ListOfElements

\* The order an iterator is at, and that it can go on.
LEMMA IteratorParts ==
    ASSUME NEW B, IsList(B), NEW it, IsIterator(it, B)
    PROVE  /\ IsOrder(it.x, B) /\ Len(it.x) = Len(B) /\ (it.x = <<>> => Len(B) = 0)
           /\ HasNext(it) => IsIterator(NextOrder(it), B)
<1>1. B \in Seq(ToSet(B))
  BY DEF IsList
<1>2. IsOrder(it.x, B)
  BY DEF IsIterator
<1>3. Len(it.x) = Len(B)
  BY <1>1, <1>2, OrderPlaces
<1>4. it.x = <<>> => Len(B) = 0
  BY <1>3
<1>5. HasNext(it) => IsIterator(NextOrder(it), B)
  BY <1>1, NextIsIterator
<1>6. QED
  BY <1>2, <1>3, <1>4, <1>5

\* A new iterator is one.
LEMMA FreshIterator ==
    ASSUME NEW B, IsList(B)
    PROVE  IsIterator(Permutation(B), B)
BY PermutationIsIterator DEF IsList

\* The loop over the singletons has found an order.
LEMMA FirstFound ==
    ASSUME NEW a, IsSchema(a), NEW b, IsSchema(b), NEW x, IsOrder(x, Singletons(b)),
           NEW m \in Nat, m <= Len(Singletons(a)), m = Len(Singletons(b)), NEW r,
           r = NodesMatch(m, Singletons(a), x, EmptyMap, EmptyMap, EmptyMap, a.classes, b.classes), r.ok,
           NEW bld \in BOOLEAN
    PROVE  FirstDone(a, b, r.dims, r.classes, Assign(EmptyMap, NameMap(Singletons(a), x)),
                     IF bld THEN <<>> \o r.built ELSE <<>>, bld)
<1> DEFINE A == Singletons(a)
           B == Singletons(b)
           names == Assign(EmptyMap, NameMap(A, x))
           ns == IF bld THEN <<>> \o r.built ELSE <<>>
<1>1. KindOf(A, a, TRUE) /\ KindOf(B, b, TRUE)
  BY Kinds
<1>2. MapsOK(EmptyMap, EmptyMap, Occurring(a), Meanings(b), a.classes, b.classes)
  BY EmptyMapsOK
<1>3. IsOrder(x, B) /\ m <= Len(A) /\ m <= Len(B) /\ (Len(A) = Len(B) => m = Len(A))
      /\ r = NodesMatch(m, A, x, EmptyMap, EmptyMap, EmptyMap, a.classes, b.classes)
  OBVIOUS
<1> HIDE DEF A, B
<1>4. /\ MapsOK(r.dims, r.classes, Occurring(a), Meanings(b), a.classes, b.classes)
      /\ StageFit(A, B, x, m, r.built, r.dims, r.classes, EmptyMap)
  BY <1>1, <1>2, <1>3, ComparedStage, ZenonT(30)
<1>5. names = NameMap(A, x)
  BY NameMapIsMap, AssignEmpty
<1>6. IsList(r.built)
  BY <1>4 DEF StageFit
<1>7. <<>> \o r.built = r.built
  BY <1>6 DEF IsList
<1>8. ns = IF bld THEN r.built ELSE <<>>
  BY <1>7
<1> HIDE DEF names, ns
<1>9. FirstStage(a, b, r.dims, r.classes, names, ns, bld, x, m, r.built)
  BY <1>4, <1>5, <1>8 DEF FirstStage, A, B
<1>10. FirstDone(a, b, r.dims, r.classes, names, ns, bld)
  BY <1>4, <1>9 DEF FirstDone
<1>11. QED
  BY <1>10 DEF names, ns, A

\* Without singletons in the source the first loop finds the empty order.
LEMMA FirstEmpty ==
    ASSUME NEW a, IsSchema(a), NEW b, IsSchema(b), Len(Singletons(b)) = 0, NEW bld \in BOOLEAN
    PROVE  FirstDone(a, b, EmptyMap, EmptyMap, EmptyMap, <<>>, bld)
<1>1. /\ Len(Singletons(a)) \in Nat /\ IsList(Singletons(b))
  BY KindLengths
<1>2. StageFit(Singletons(a), Singletons(b), <<>>, 0, <<>>, EmptyMap, EmptyMap, EmptyMap)
  BY <1>1, EmptyStage
<1>3. FirstStage(a, b, EmptyMap, EmptyMap, EmptyMap, <<>>, bld, <<>>, 0, <<>>)
  BY <1>2, NameMapEmpty DEF FirstStage
<1>4. QED
  BY <1>3, EmptyMapsOK DEF FirstDone

\* The loop over the other nodes has found an order.
LEMMA SecondFound ==
    ASSUME NEW a, IsSchema(a), NEW b, IsSchema(b), NEW dims, NEW classes, NEW names, NEW ns,
           NEW bld \in BOOLEAN, FirstDone(a, b, dims, classes, names, ns, bld),
           NEW y, IsOrder(y, Nonsingletons(b)),
           NEW m \in Nat, m = Len(Nonsingletons(a)), m <= Len(Nonsingletons(b)), NEW r,
           NEW more,
           more = Assign(names, NameMap(Nonsingletons(a), y)),
           r = NodesMatch(m, Nonsingletons(a), y, dims, classes, more, a.classes, b.classes), r.ok
    PROVE  BothDone(a, b, r.dims, r.classes, more, IF bld THEN ns \o r.built ELSE ns, bld)
<1> DEFINE A == Nonsingletons(a)
           B == Nonsingletons(b)
           all == IF bld THEN ns \o r.built ELSE ns
<1>1. KindOf(A, a, FALSE) /\ KindOf(B, b, FALSE)
  BY Kinds
<1>2. MapsOK(dims, classes, Occurring(a), Meanings(b), a.classes, b.classes)
  BY DEF FirstDone
<1>3. IsOrder(y, B) /\ m <= Len(A) /\ m <= Len(B) /\ (Len(A) = Len(B) => m = Len(A))
      /\ r = NodesMatch(m, A, y, dims, classes, more, a.classes, b.classes)
      /\ more = Assign(names, NameMap(A, y))
  OBVIOUS
<1> HIDE DEF A, B
<1>4. /\ MapsOK(r.dims, r.classes, Occurring(a), Meanings(b), a.classes, b.classes)
      /\ Extends(r.dims, dims) /\ Extends(r.classes, classes)
      /\ StageFit(A, B, y, m, r.built, r.dims, r.classes, more)
  BY <1>1, <1>2, <1>3, ComparedStage, ZenonT(30)
<1>5. PICK x, l, b1 : FirstStage(a, b, dims, classes, names, ns, bld, x, l, b1)
  BY DEF FirstDone
<1>6. /\ StageFit(Singletons(a), Singletons(b), x, l, b1, dims, classes, EmptyMap)
      /\ ns = (IF bld THEN b1 ELSE <<>>) /\ names = NameMap(Singletons(a), x)
  BY <1>5 DEF FirstStage
<1>7. StageFit(Singletons(a), Singletons(b), x, l, b1, r.dims, r.classes, EmptyMap)
  BY <1>4, <1>6, StageStill
<1>8. all = IF bld THEN b1 \o r.built ELSE <<>>
  BY <1>6
<1> HIDE DEF all
<1>9. BothStages(a, b, r.dims, r.classes, more, all, bld, x, l, b1, y, m, r.built)
  BY <1>3, <1>4, <1>6, <1>7, <1>8 DEF BothStages, A, B
<1>10. BothDone(a, b, r.dims, r.classes, more, all, bld)
  BY <1>4, <1>9 DEF BothDone
<1>11. QED
  BY <1>10 DEF all

\* Without other nodes in the source the second loop finds the empty order.
LEMMA SecondEmpty ==
    ASSUME NEW a, IsSchema(a), NEW b, IsSchema(b), NEW dims, NEW classes, NEW names, NEW ns,
           NEW bld \in BOOLEAN, FirstDone(a, b, dims, classes, names, ns, bld),
           Len(Nonsingletons(b)) = 0
    PROVE  BothDone(a, b, dims, classes, names, ns, bld)
<1>1. PICK x, l, b1 : FirstStage(a, b, dims, classes, names, ns, bld, x, l, b1)
  BY DEF FirstDone
<1>2. /\ StageFit(Singletons(a), Singletons(b), x, l, b1, dims, classes, EmptyMap)
      /\ ns = (IF bld THEN b1 ELSE <<>>) /\ names = NameMap(Singletons(a), x)
  BY <1>1 DEF FirstStage
<1>3. Len(Nonsingletons(a)) \in Nat /\ IsList(Nonsingletons(b))
  BY KindLengths
<1>4. StageFit(Nonsingletons(a), Nonsingletons(b), <<>>, 0, <<>>, dims, classes, names)
  BY <1>3, EmptyStage
<1>5. IsList(b1)
  BY <1>2 DEF StageFit
<1>6. b1 \o <<>> = b1
  BY <1>5 DEF IsList
<1>7. ns = IF bld THEN b1 \o <<>> ELSE <<>>
  BY <1>2, <1>6
<1>8. names = Assign(NameMap(Singletons(a), x), NameMap(Nonsingletons(a), <<>>))
  BY <1>2, NameMapEmpty, NameMapIsMap, AssignEmpty
<1>9. BothStages(a, b, dims, classes, names, ns, bld, x, l, b1, <<>>, 0, <<>>)
  BY <1>2, <1>4, <1>7, <1>8 DEF BothStages
<1>10. QED
  BY <1>9 DEF BothDone, FirstDone

------------------------------------------------------------------------------
(* The call.                                                               *)

\* The inductive invariant: while a call runs, its schemas are ones that were read, its
\* iterator is one of the nodes it goes through, and the orders taken so far fit under the
\* maps as they are now.
MatchInv ==
    /\ call \in Calls /\ build \in BOOLEAN
    /\ pc \in {"idle", "constraints", "singletons", "nonsingletons", "found", "done"}
    /\ pc \in {"constraints", "singletons", "nonsingletons", "found"} =>
        IsSchema(self) /\ IsSchema(source)
    /\ pc \in {"idle", "constraints", "singletons"} =>
        dimMap = EmptyMap /\ classMap = EmptyMap /\ nodeMap = EmptyMap /\ nodes = <<>>
    /\ pc \in {"singletons", "nonsingletons", "found"} => ConstraintsFit
    /\ pc = "singletons" => IsIterator(orders, Singletons(source))
    /\ pc = "nonsingletons" =>
        /\ IsIterator(orders, Nonsingletons(source))
        /\ FirstDone(self, source, dimMap, classMap, nodeMap, nodes, build)
    /\ pc = "found" => BothDone(self, source, dimMap, classMap, nodeMap, nodes, build)
    /\ pc = "done" => MatchIsSound

\* It holds before the call.
LEMMA InitMatchInv == MatchInit => MatchInv
BY DEF MatchInit, MatchInv

\* An answer that is not "match" needs no more than that it is one.
LEMMA FinishNoMatch ==
    ASSUME MatchInv, Finish("nomatch", Null)
    PROVE  MatchInv'
<1>1. pc' = "done" /\ outcome' = "nomatch" /\ call' = call /\ build' = build
  BY DEF Finish
<1>2. MatchIsSound'
  BY <1>1 DEF MatchIsSound
<1>3. QED
  BY <1>1, <1>2 DEF MatchInv

\* Reading the two descriptions keeps it.
LEMMA LoadStep ==
    ASSUME MatchInv, LoadBoth
    PROVE  MatchInv'
<1>1. /\ pc = "idle" /\ self' = Load(call[1]) /\ source' = Load(call[2])
      /\ UNCHANGED <<call, build, maps>>
      /\ IF Malformed \in {self', source'} THEN pc' = "done" ELSE pc' = "constraints"
  BY DEF LoadBoth
<1>2. call' = call /\ build' = build /\ dimMap' = dimMap /\ classMap' = classMap /\ nodeMap' = nodeMap /\ nodes' = nodes
  BY <1>1 DEF maps
<1>3. InputOK(call[1]) /\ InputOK(call[2])
  BY CallsAssumption DEF MatchInv
<1>4. CASE Malformed \in {self', source'}
  <2>1. pc' = "done" /\ (self' = Malformed \/ source' = Malformed)
    BY <1>1, <1>4
  <2>2. ~Returned'
    BY <2>1 DEF Returned
  <2>3. QED
    BY <1>2, <2>1, <2>2 DEF MatchInv, MatchIsSound
<1>5. CASE Malformed \notin {self', source'}
  <2>1. pc' = "constraints" /\ self' # Malformed /\ source' # Malformed
    BY <1>1, <1>5
  <2>2. IsSchema(self')
    BY <1>1, <1>3, <2>1, LoadIsSchema
  <2>3. IsSchema(source')
    BY <1>1, <1>3, <2>1, LoadIsSchema
  <2>4. QED
    BY <1>1, <1>2, <2>1, <2>2, <2>3 DEF MatchInv
<1>6. QED
  BY <1>4, <1>5

\* So does the comparison of the constraints,
LEMMA ConstraintsStep ==
    ASSUME MatchInv, Constraints
    PROVE  MatchInv'
<1>1. CASE Finish("nomatch", Null)
  BY <1>1, FinishNoMatch
<1>2. CASE ~Finish("nomatch", Null)
  <2>1. /\ pc = "constraints" /\ ConstraintsFit /\ pc' = "singletons" /\ orders' = Permutation(Singletons(source))
        /\ UNCHANGED <<call, self, source, build, maps>>
    BY <1>2 DEF Constraints
  <2>2. /\ call' = call /\ build' = build /\ self' = self /\ source' = source
        /\ dimMap' = dimMap /\ classMap' = classMap /\ nodeMap' = nodeMap /\ nodes' = nodes
    BY <2>1 DEF maps
  <2>3. IsSchema(self) /\ IsSchema(source)
    BY <2>1 DEF MatchInv
  <2>4. IsIterator(orders', Singletons(source'))
    BY <2>1, <2>2, <2>3, KindLengths, FreshIterator
  <2>5. ConstraintsFit'
    BY <2>1, <2>2 DEF ConstraintsFit
  <2>6. QED
    BY <2>1, <2>2, <2>3, <2>4, <2>5 DEF MatchInv
<1>3. QED
  BY <1>1, <1>2

\* trying an order of the singletons,
LEMMA SingletonStep ==
    ASSUME MatchInv, SingletonOrder
    PROVE  MatchInv'
<1> DEFINE it == NextOrder(orders)
           A == Singletons(self)
           B == Singletons(source)
           there == Min({Len(B), Len(A), Len(it.x)})
           r == NodesMatch(there, A, it.x, dimMap, classMap, nodeMap, self.classes, source.classes)
<1>1. pc = "singletons" /\ HasNext(orders) /\ Judge(it, r, A, there, Len(B))
  BY DEF SingletonOrder, TryOrder
<1>2. /\ IsSchema(self) /\ IsSchema(source) /\ IsIterator(orders, B) /\ ConstraintsFit /\ build \in BOOLEAN
      /\ dimMap = EmptyMap /\ classMap = EmptyMap /\ nodeMap = EmptyMap /\ nodes = <<>>
  BY <1>1 DEF MatchInv
<1>3. Len(A) \in Nat /\ Len(B) \in Nat /\ IsList(B)
  BY <1>2, KindLengths
<1> HIDE DEF it
<1>4. IsIterator(it, B)
  BY <1>1, <1>2, <1>3, IteratorParts DEF it
<1>5. IsOrder(it.x, B) /\ Len(it.x) = Len(B)
  BY <1>3, <1>4, IteratorParts
<1>6. /\ there \in {Len(B), Len(A)} /\ there \in Nat /\ there <= Len(B) /\ there <= Len(A)
  BY <1>3, <1>5, SmallestOfThree
<1> HIDE DEF A, B, there, r
<1>7. CASE r.ok /\ there < Len(B)
  <2>1. Finish("crash", Null)
    BY <1>1, <1>7 DEF Judge
  <2>2. pc' = "done" /\ self' = self /\ source' = source /\ call' = call /\ build' = build
    BY <2>1 DEF Finish
  <2>3. ~SameCounts
    BY <1>3, <1>6, <1>7 DEF SameCounts, A, B
  <2>4. ~SameCounts'
    BY <2>2, <2>3 DEF SameCounts
  <2>5. MatchIsSound'
    BY <2>4 DEF MatchIsSound
  <2>6. QED
    BY <2>2, <2>5 DEF MatchInv
<1>8. CASE r.ok /\ ~(there < Len(B)) /\ Len(B) > 0
  <2>1. /\ pc' = "nonsingletons" /\ orders' = Permutation(Nonsingletons(source))
        /\ dimMap' = r.dims /\ classMap' = r.classes /\ nodeMap' = Assign(nodeMap, NameMap(A, it.x))
        /\ nodes' = (IF build THEN nodes \o r.built ELSE nodes)
        /\ call' = call /\ self' = self /\ source' = source /\ build' = build
    BY <1>1, <1>8 DEF Judge
  <2>2. there = Len(B)
    BY <1>3, <1>6, <1>8
  <2>3. r = NodesMatch(there, A, it.x, EmptyMap, EmptyMap, EmptyMap, self.classes, source.classes)
    BY <1>2 DEF r
  <2>4. FirstDone(self, source, r.dims, r.classes, Assign(EmptyMap, NameMap(A, it.x)),
                  IF build THEN <<>> \o r.built ELSE <<>>, build)
    BY <1>2, <1>5, <1>6, <1>8, <2>2, <2>3, FirstFound DEF A, B
  <2>5. FirstDone(self', source', dimMap', classMap', nodeMap', nodes', build')
    BY <1>2, <2>1, <2>4
  <2>6. IsIterator(orders', Nonsingletons(source'))
    BY <1>2, <2>1, KindLengths, FreshIterator
  <2>7. ConstraintsFit'
    BY <1>2, <2>1 DEF ConstraintsFit
  <2>8. QED
    BY <1>2, <2>1, <2>5, <2>6, <2>7 DEF MatchInv
<1>9. CASE ~(r.ok /\ there < Len(B)) /\ ~(r.ok /\ Len(B) > 0)
  <2>1. orders' = it /\ UNCHANGED <<call, pc, self, source, build, maps>>
    BY <1>1, <1>9 DEF Judge
  <2>2. /\ call' = call /\ pc' = pc /\ build' = build /\ self' = self /\ source' = source
        /\ dimMap' = dimMap /\ classMap' = classMap /\ nodeMap' = nodeMap /\ nodes' = nodes
    BY <2>1 DEF maps
  <2>3. IsIterator(orders', Singletons(source'))
    BY <1>4, <2>1, <2>2 DEF B
  <2>4. ConstraintsFit'
    BY <1>2, <2>2 DEF ConstraintsFit
  <2>5. QED
    BY <1>1, <1>2, <2>2, <2>3, <2>4 DEF MatchInv
<1>10. QED
  BY <1>7, <1>8, <1>9

\* trying an order of the other nodes,
LEMMA NonsingletonStep ==
    ASSUME MatchInv, NonsingletonOrder
    PROVE  MatchInv'
<1> DEFINE it == NextOrder(orders)
           A == Nonsingletons(self)
           B == Nonsingletons(source)
           there == Min({Len(A), Len(A), Len(it.x)})
           more == Assign(nodeMap, NameMap(A, it.x))
           r == NodesMatch(there, A, it.x, dimMap, classMap, more, self.classes, source.classes)
<1>1. pc = "nonsingletons" /\ HasNext(orders) /\ Judge(it, r, A, there, Len(A))
  BY DEF NonsingletonOrder, TryOrder
<1>2. /\ IsSchema(self) /\ IsSchema(source) /\ IsIterator(orders, B) /\ ConstraintsFit /\ build \in BOOLEAN
      /\ FirstDone(self, source, dimMap, classMap, nodeMap, nodes, build)
  BY <1>1 DEF MatchInv
<1>3. Len(A) \in Nat /\ Len(B) \in Nat /\ IsList(B)
  BY <1>2, KindLengths
<1> HIDE DEF it
<1>4. IsIterator(it, B)
  BY <1>1, <1>2, <1>3, IteratorParts DEF it
<1>5. IsOrder(it.x, B) /\ Len(it.x) = Len(B)
  BY <1>3, <1>4, IteratorParts
<1>6. /\ there \in {Len(B), Len(A)} /\ there \in Nat /\ there <= Len(B) /\ there <= Len(A)
  BY <1>3, <1>5, SmallestOfThree
<1> HIDE DEF A, B, there, more, r
<1>7. CASE r.ok /\ there < Len(A)
  <2>1. Finish("crash", Null)
    BY <1>1, <1>7 DEF Judge
  <2>2. pc' = "done" /\ self' = self /\ source' = source /\ call' = call /\ build' = build
    BY <2>1 DEF Finish
  <2>3. ~SameCounts
    BY <1>3, <1>6, <1>7 DEF SameCounts, A, B
  <2>4. ~SameCounts'
    BY <2>2, <2>3 DEF SameCounts
  <2>5. MatchIsSound'
    BY <2>4 DEF MatchIsSound
  <2>6. QED
    BY <2>2, <2>5 DEF MatchInv
<1>8. CASE r.ok /\ ~(there < Len(A)) /\ Len(A) > 0
  <2>1. /\ pc' = "found"
        /\ dimMap' = r.dims /\ classMap' = r.classes /\ nodeMap' = more
        /\ nodes' = (IF build THEN nodes \o r.built ELSE nodes)
        /\ call' = call /\ self' = self /\ source' = source /\ build' = build
    BY <1>1, <1>8 DEF Judge, more
  <2>2. there = Len(A)
    BY <1>3, <1>6, <1>8
  <2>3. BothDone(self, source, r.dims, r.classes, more, IF build THEN nodes \o r.built ELSE nodes, build)
    BY <1>2, <1>5, <1>6, <1>8, <2>2, SecondFound DEF A, B, more, r
  <2>4. BothDone(self', source', dimMap', classMap', nodeMap', nodes', build')
    BY <2>1, <2>3
  <2>5. ConstraintsFit'
    BY <1>2, <2>1 DEF ConstraintsFit
  <2>6. QED
    BY <1>2, <2>1, <2>4, <2>5 DEF MatchInv
<1>9. CASE ~(r.ok /\ there < Len(A)) /\ ~(r.ok /\ Len(A) > 0)
  <2>1. orders' = it /\ UNCHANGED <<call, pc, self, source, build, maps>>
    BY <1>1, <1>9 DEF Judge
  <2>2. /\ call' = call /\ pc' = pc /\ build' = build /\ self' = self /\ source' = source
        /\ dimMap' = dimMap /\ classMap' = classMap /\ nodeMap' = nodeMap /\ nodes' = nodes
    BY <2>1 DEF maps
  <2>3. IsIterator(orders', Nonsingletons(source'))
    BY <1>4, <2>1, <2>2 DEF B
  <2>4. ConstraintsFit'
    BY <1>2, <2>2 DEF ConstraintsFit
  <2>5. FirstDone(self', source', dimMap', classMap', nodeMap', nodes', build')
    BY <1>2, <2>2
  <2>6. QED
    BY <1>1, <1>2, <2>2, <2>3, <2>4, <2>5 DEF MatchInv
<1>10. QED
  BY <1>7, <1>8, <1>9

\* the end of a loop without an order,
LEMMA NoOrderStep ==
    ASSUME MatchInv, NoOrderLeft
    PROVE  MatchInv'
<1>1. CASE Finish("nomatch", Null)
  BY <1>1, FinishNoMatch
<1>2. CASE ~Finish("nomatch", Null)
  <2>1. /\ pc \in {"singletons", "nonsingletons"} /\ orders.x = <<>>
        /\ pc' = (IF pc = "singletons" THEN "nonsingletons" ELSE "found")
        /\ orders' = Permutation(Nonsingletons(source))
        /\ UNCHANGED <<call, self, source, build, maps>>
    BY <1>2 DEF NoOrderLeft
  <2>2. /\ call' = call /\ build' = build /\ self' = self /\ source' = source
        /\ dimMap' = dimMap /\ classMap' = classMap /\ nodeMap' = nodeMap /\ nodes' = nodes
    BY <2>1 DEF maps
  <2>3. IsSchema(self) /\ IsSchema(source) /\ ConstraintsFit /\ build \in BOOLEAN
    BY <2>1 DEF MatchInv
  <2>4. ConstraintsFit'
    BY <2>2, <2>3 DEF ConstraintsFit
  <2>5. IsList(Singletons(source)) /\ IsList(Nonsingletons(source))
    BY <2>3, KindLengths
  <2>6. CASE pc = "singletons"
    <3>1. IsIterator(orders, Singletons(source))
      BY <2>6 DEF MatchInv
    <3>2. Len(Singletons(source)) = 0
      BY <2>1, <2>5, <3>1, IteratorParts
    <3>3. dimMap = EmptyMap /\ classMap = EmptyMap /\ nodeMap = EmptyMap /\ nodes = <<>>
      BY <2>6 DEF MatchInv
    <3>4. FirstDone(self', source', dimMap', classMap', nodeMap', nodes', build')
      BY <2>2, <2>3, <3>2, <3>3, FirstEmpty
    <3>5. IsIterator(orders', Nonsingletons(source'))
      BY <2>1, <2>2, <2>5, FreshIterator
    <3>6. pc' = "nonsingletons"
      BY <2>1, <2>6
    <3>7. QED
      BY <2>2, <2>3, <2>4, <3>4, <3>5, <3>6 DEF MatchInv
  <2>7. CASE pc = "nonsingletons"
    <3>1. /\ IsIterator(orders, Nonsingletons(source))
          /\ FirstDone(self, source, dimMap, classMap, nodeMap, nodes, build)
      BY <2>7 DEF MatchInv
    <3>2. Len(Nonsingletons(source)) = 0
      BY <2>1, <2>5, <3>1, IteratorParts
    <3>3. BothDone(self', source', dimMap', classMap', nodeMap', nodes', build')
      BY <2>2, <2>3, <3>1, <3>2, SecondEmpty
    <3>4. pc' = "found"
      BY <2>1, <2>7
    <3>5. QED
      BY <2>2, <2>3, <2>4, <3>3, <3>4 DEF MatchInv
  <2>8. QED
    BY <2>1, <2>6, <2>7
<1>3. QED
  BY <1>1, <1>2

\* and the end of the call.
LEMMA BuildStep ==
    ASSUME MatchInv, Build
    PROVE  MatchInv'
<1> DEFINE s == BuildSchema(self, dimMap, classMap, nodes)
           OK == (\A c \in ToSet(s.classes) : ClassOK(c)) /\ SchemaOK(s)
<1>1. /\ pc = "found"
      /\ IF build THEN IF OK THEN Finish("match", s) ELSE Finish("exception", Null)
                  ELSE Finish("match", Null)
  BY DEF Build
<1>2. /\ IsSchema(self) /\ IsSchema(source) /\ ConstraintsFit
      /\ BothDone(self, source, dimMap, classMap, nodeMap, nodes, build)
  BY <1>1 DEF MatchInv
<1>3. SameCounts => Embeds(self, source) /\ (build => OK)
  <2>1. SUFFICES ASSUME SameCounts PROVE Embeds(self, source) /\ (build => OK)
    OBVIOUS
  <2>2. /\ Embeds(self, source) /\ DOMAIN classMap = Names(self.classes)
        /\ build => AreCopies(nodes, self)
    BY <1>2, <2>1, DoneEmbeds DEF SameCounts
  <2>3. MapsOK(dimMap, classMap, Occurring(self), Meanings(source), self.classes, source.classes)
    BY <1>2 DEF BothDone
  <2>4. AreCopies(nodes, self) => OK
    BY <1>2, <2>2, <2>3, BuildSchemaOK
  <2>5. QED
    BY <2>2, <2>4
<1> HIDE DEF OK, s
<1>4. /\ pc' = "done" /\ self' = self /\ source' = source /\ call' = call /\ build' = build
      /\ outcome' = IF build /\ ~OK THEN "exception" ELSE "match"
  BY <1>1 DEF Finish
<1>5. (SameCounts' <=> SameCounts) /\ ConstraintsFit'
  BY <1>2, <1>4 DEF SameCounts, ConstraintsFit
<1>6. SameCounts => outcome' = "match" /\ Embeds(self', source')
  BY <1>3, <1>4
<1>7. MatchIsSound'
  BY <1>5, <1>6 DEF MatchIsSound
<1>8. QED
  BY <1>4, <1>7 DEF MatchInv

\* The invariant is inductive.
LEMMA NextMatchInv == MatchInv /\ [MatchNext]_matchVars => MatchInv'
<1> SUFFICES ASSUME MatchInv, [MatchNext]_matchVars PROVE MatchInv'
  OBVIOUS
<1>1. CASE LoadBoth
  BY <1>1, LoadStep
<1>2. CASE Constraints
  BY <1>2, ConstraintsStep
<1>3. CASE SingletonOrder
  BY <1>3, SingletonStep
<1>4. CASE NonsingletonOrder
  BY <1>4, NonsingletonStep
<1>5. CASE NoOrderLeft
  BY <1>5, NoOrderStep
<1>6. CASE Build
  BY <1>6, BuildStep
<1>7. CASE UNCHANGED matchVars
  <2>1. /\ call' = call /\ pc' = pc /\ build' = build /\ self' = self /\ source' = source /\ orders' = orders
        /\ dimMap' = dimMap /\ classMap' = classMap /\ nodeMap' = nodeMap /\ nodes' = nodes
        /\ outcome' = outcome
    BY <1>7 DEF matchVars, maps
  <2>2. ConstraintsFit' <=> ConstraintsFit
    BY <2>1 DEF ConstraintsFit
  <2>3. MatchIsSound' <=> MatchIsSound
    BY <2>1, <2>2 DEF MatchIsSound, Returned, SameCounts
  <2>4. QED
    BY <2>1, <2>2, <2>3 DEF MatchInv
<1>8. QED
  BY <1>1, <1>2, <1>3, <1>4, <1>5, <1>6, <1>7 DEF MatchNext

\* It says of a call that has ended what is to be shown.
LEMMA MatchInvSuffices == MatchInv => MatchIsSound
BY DEF MatchInv, MatchIsSound, Returned

\* For all schemas that can be read: with the same numbers of nodes on both sides match
\* returns an answer, and a match only where the one schema embeds in the other, whatever
\* the wildcards, the sizes and the order of nodes and fields.
THEOREM MatchSoundness == MatchSpec => []MatchIsSound
<1>1. MatchInit => MatchInv
  BY InitMatchInv
<1>2. MatchInv /\ [MatchNext]_matchVars => MatchInv'
  BY NextMatchInv
<1>3. QED
  BY <1>1, <1>2, MatchInvSuffices, PTL DEF MatchSpec

------------------------------------------------------------------------------
(* What the schema that is built says of the source.                       *)

\* What a node of it says when it stands for the node k of the source.
SaysOf(m, k, mu, kappa) ==
    \A f \in ToSet(m.fields) :
        /\ f.srcName \in Names(k.fields)
        /\ \A g \in ToSet(m.fields) : g.srcName = f.srcName => g = f
        /\ FieldEmbeds(f, Get(k.fields, f.srcName), mu, kappa)
        /\ f.type = "tensor" => f.srcDim = Get(k.fields, f.srcName).dim

\* A node that was built says the truth about its partner.
LEMMA BuiltNodeSays ==
    ASSUME NEW cb, NEW n, NEW k, IsNode(k, cb), NEW m, NEW sigma, NEW dims, NEW classes,
           FieldsFit(n, k, sigma, dims, classes), IsBuilt(m, n, k, sigma),
           NEW mu, Obeys(mu, dims), NEW kappa, \A c \in DOMAIN classes : kappa[c] = classes[c]
    PROVE  SaysOf(m, k, mu, kappa)
<1> DEFINE fs == [i \in DOMAIN n.fields |-> BuildField(n.fields[i], k.fields[sigma[i]])]
<1>1. m.fields = fs
  BY DEF IsBuilt
<1>2. /\ DOMAIN fs = DOMAIN n.fields
      /\ \A i \in DOMAIN n.fields :
           /\ fs[i].type = n.fields[i].type /\ fs[i].class = n.fields[i].class
           /\ fs[i].dim = n.fields[i].dim /\ fs[i].srcName = k.fields[sigma[i]].name
           /\ fs[i].type = "tensor" => fs[i].srcDim = k.fields[sigma[i]].dim
  BY DEF BuildField
<1> HIDE DEF fs
<1>3. /\ \A i \in DOMAIN n.fields :
           /\ sigma[i] \in DOMAIN k.fields
           /\ n.fields[i].type = k.fields[sigma[i]].type
           /\ FieldFits(n.fields[i], k.fields[sigma[i]], dims, classes)
      /\ \A i, j \in DOMAIN n.fields : sigma[i] = sigma[j] => i = j
  BY DEF FieldsFit, OneToOne
<1>4. DistinctNames(k.fields)
  BY DEF IsNode
<1>5. \A f : f \in ToSet(m.fields) <=> \E i \in DOMAIN n.fields : f = fs[i]
  BY <1>1, <1>2 DEF ToSet
<1> SUFFICES ASSUME NEW f \in ToSet(m.fields)
             PROVE  /\ f.srcName \in Names(k.fields)
                    /\ \A g \in ToSet(m.fields) : g.srcName = f.srcName => g = f
                    /\ FieldEmbeds(f, Get(k.fields, f.srcName), mu, kappa)
                    /\ f.type = "tensor" => f.srcDim = Get(k.fields, f.srcName).dim
  BY DEF SaysOf
<1>6. PICK i \in DOMAIN n.fields : f = fs[i]
  BY <1>5
<1>7. f.srcName = k.fields[sigma[i]].name /\ sigma[i] \in DOMAIN k.fields
  BY <1>2, <1>3, <1>6
<1>8. f.srcName \in Names(k.fields) /\ Get(k.fields, f.srcName) = k.fields[sigma[i]]
  <2>1. (CHOOSE j \in DOMAIN k.fields : k.fields[j].name = f.srcName) = sigma[i]
    BY <1>4, <1>7 DEF DistinctNames
  <2>2. QED
    BY <1>7, <2>1 DEF Get, Names
<1>9. ASSUME NEW g \in ToSet(m.fields), g.srcName = f.srcName PROVE g = f
  <2>1. PICK j \in DOMAIN n.fields : g = fs[j]
    BY <1>5
  <2>2. g.srcName = k.fields[sigma[j]].name /\ sigma[j] \in DOMAIN k.fields
    BY <1>2, <1>3, <2>1
  <2>3. sigma[j] = sigma[i]
    BY <1>4, <1>7, <1>9, <2>2 DEF DistinctNames
  <2>4. QED
    BY <1>3, <1>6, <2>1, <2>3
<1>10. FieldEmbeds(f, k.fields[sigma[i]], mu, kappa)
  <2> DEFINE g == k.fields[sigma[i]]
             h == n.fields[i]
  <2>1. f.type = h.type /\ f.class = h.class /\ f.dim = h.dim
    BY <1>2, <1>6
  <2>2. h.type = g.type /\ FieldFits(h, g, dims, classes)
    BY <1>3
  <2> HIDE DEF g, h
  <2>3. f.type = "tensor" => DimsEmbed(f.dim, g.dim, mu)
    BY <2>1, <2>2 DEF FieldFits
  <2>4. f.type = "category" => kappa[f.class] = g.class
    BY <2>1, <2>2 DEF FieldFits
  <2>5. FieldEmbeds(f, g, mu, kappa)
    BY <2>1, <2>2, <2>3, <2>4 DEF FieldEmbeds
  <2>6. QED
    BY <2>5 DEF g
<1>11. f.type = "tensor" => f.srcDim = k.fields[sigma[i]].dim
  BY <1>2, <1>6
<1>12. QED
  BY <1>8, <1>9, <1>10, <1>11

\* Every node that a stage has built is of a node of its own of the source.
LEMMA StageNodes ==
    ASSUME NEW A, NEW B, IsList(B), DistinctNames(B), NEW x, NEW m, NEW built, NEW dims,
           NEW classes, NEW names,
           StageFit(A, B, x, m, built, dims, classes, names)
    PROVE  /\ \A e \in ToSet(built) : \E k \in ToSet(B) : \E n, sigma :
                /\ FieldsFit(n, k, sigma, dims, classes) /\ IsBuilt(e, n, k, sigma) /\ e.srcName = k.name
           /\ \A e, g \in ToSet(built) : e.srcName = g.srcName => e = g
<1>1. PICK rho \in Arrangements(Len(B)) : x = [i \in 1 .. Len(B) |-> B[rho[i]]]
  BY DEF StageFit, IsOrder
<1>2. rho \in [1 .. Len(B) -> 1 .. Len(B)] /\ \A i, j \in 1 .. Len(B) : rho[i] = rho[j] => i = j
  BY <1>1 DEF Arrangements
<1>3. Len(B) \in Nat /\ DOMAIN B = 1 .. Len(B)
  BY ListOfElements
<1>4. m \in Nat /\ m <= Len(B) /\ DOMAIN built = 1 .. m
  BY ListOfElements DEF StageFit
<1>5. \A i \in 1 .. m : i \in 1 .. Len(B)
  BY <1>3, <1>4
<1>6. \A i \in 1 .. m : rho[i] \in DOMAIN B /\ x[i] = B[rho[i]]
  BY <1>1, <1>2, <1>3, <1>5
<1>7. ASSUME NEW i \in 1 .. m
      PROVE  \E n, sigma : /\ FieldsFit(n, x[i], sigma, dims, classes) /\ IsBuilt(built[i], n, x[i], sigma)
                           /\ built[i].srcName = x[i].name
  <2>1. NodeFits(A[i], x[i], built[i], dims, classes, names)
    BY DEF StageFit
  <2>2. PICK sigma : FieldsFit(A[i], x[i], sigma, dims, classes) /\ IsBuilt(built[i], A[i], x[i], sigma)
    BY <2>1 DEF NodeFits
  <2>3. built[i].srcName = x[i].name
    BY <2>2 DEF IsBuilt
  <2>4. QED
    BY <2>2, <2>3
<1>8. \A e : e \in ToSet(built) <=> \E i \in 1 .. m : e = built[i]
  BY <1>4 DEF ToSet
<1>9. ASSUME NEW e \in ToSet(built)
      PROVE  \E k \in ToSet(B) : \E n, sigma :
                /\ FieldsFit(n, k, sigma, dims, classes) /\ IsBuilt(e, n, k, sigma) /\ e.srcName = k.name
  <2>1. PICK i \in 1 .. m : e = built[i]
    BY <1>8
  <2>2. x[i] \in ToSet(B)
    BY <1>6 DEF ToSet
  <2>3. QED
    BY <1>7, <2>1, <2>2
<1>10. ASSUME NEW e \in ToSet(built), NEW g \in ToSet(built), e.srcName = g.srcName PROVE e = g
  <2>1. PICK i \in 1 .. m : e = built[i]
    BY <1>8
  <2>2. PICK j \in 1 .. m : g = built[j]
    BY <1>8
  <2>3. x[i].name = x[j].name
    BY <1>7, <1>10, <2>1, <2>2
  <2>4. rho[i] = rho[j]
    BY <1>6, <2>3 DEF DistinctNames
  <2>5. i = j
    BY <1>2, <1>5, <2>4
  <2>6. QED
    BY <2>1, <2>2, <2>5
<1>11. QED
  BY <1>9, <1>10

\* Nodes stand for nodes of the source, each for one of its own.
NodesSay(ns, b, mu, kappa) ==
    \A m \in ToSet(ns) :
        /\ m.srcName \in Names(b.nodes)
        /\ \A k \in ToSet(ns) : k.srcName = m.srcName => k = m
        /\ SaysOf(m, Get(b.nodes, m.srcName), mu, kappa)

\* The nodes that both loops have built stand for nodes of the source.
LEMMA DoneSays ==
    ASSUME NEW a, IsSchema(a), NEW b, IsSchema(b), NEW dims, NEW classes, NEW names, NEW ns,
           BothDone(a, b, dims, classes, names, ns, TRUE),
           NEW mu, Obeys(mu, dims), NEW kappa, \A c \in DOMAIN classes : kappa[c] = classes[c]
    PROVE  NodesSay(ns, b, mu, kappa)
<1> DEFINE A1 == Singletons(a)
           A2 == Nonsingletons(a)
           B1 == Singletons(b)
           B2 == Nonsingletons(b)
<1>1. KindOf(B1, b, TRUE) /\ KindOf(B2, b, FALSE)
  BY Kinds
<1>2. PICK x, m, b1, y, l, b2 : BothStages(a, b, dims, classes, names, ns, TRUE, x, m, b1, y, l, b2)
  BY DEF BothDone
<1>3. /\ StageFit(A1, B1, x, m, b1, dims, classes, EmptyMap) /\ StageFit(A2, B2, y, l, b2, dims, classes, names)
      /\ ns = b1 \o b2
  BY <1>2 DEF BothStages
<1> HIDE DEF A1, A2, B1, B2
<1>4. /\ IsList(B1) /\ DistinctNames(B1) /\ IsList(B2) /\ DistinctNames(B2)
      /\ \A k : k \in ToSet(B1) \/ k \in ToSet(B2) => k \in ToSet(b.nodes) /\ IsNode(k, b.classes)
  BY <1>1 DEF KindOf, ToSet
<1>5. \A k1 \in ToSet(B1), k2 \in ToSet(B2) : k1.name # k2.name
  <2>1. \A q : ~(q \in Names(B1) /\ q \in Names(B2))
    BY <1>1, KindsApart
  <2>2. \A k : (k \in ToSet(B1) => k.name \in Names(B1)) /\ (k \in ToSet(B2) => k.name \in Names(B2))
    BY DEF ToSet, Names
  <2>3. QED
    BY <2>1, <2>2
<1> DEFINE Of(e, k) == \E n, sigma : /\ FieldsFit(n, k, sigma, dims, classes) /\ IsBuilt(e, n, k, sigma)
                                     /\ e.srcName = k.name
<1>6. /\ \A e \in ToSet(b1) : \E k \in ToSet(B1) : Of(e, k)
      /\ \A e, g \in ToSet(b1) : e.srcName = g.srcName => e = g
  BY <1>3, <1>4, StageNodes
<1>7. /\ \A e \in ToSet(b2) : \E k \in ToSet(B2) : Of(e, k)
      /\ \A e, g \in ToSet(b2) : e.srcName = g.srcName => e = g
  BY <1>3, <1>4, StageNodes
<1>8. ASSUME NEW e, NEW k, IsNode(k, b.classes), Of(e, k) PROVE SaysOf(e, k, mu, kappa) /\ e.srcName = k.name
  <2>1. PICK n, sigma : /\ FieldsFit(n, k, sigma, dims, classes) /\ IsBuilt(e, n, k, sigma)
                        /\ e.srcName = k.name
    BY <1>8
  <2>2. QED
    BY <1>8, <2>1, BuiltNodeSays
<1> HIDE DEF Of
<1>9. \A e : e \in ToSet(ns) <=> e \in ToSet(b1) \/ e \in ToSet(b2)
  <2>1. IsList(b1) /\ IsList(b2)
    BY <1>3 DEF StageFit
  <2>2. QED
    BY <1>3, <2>1, ListJoined
<1>10. ASSUME NEW e \in ToSet(b1), NEW g \in ToSet(b2) PROVE e.srcName # g.srcName
  <2>1. PICK k1 \in ToSet(B1) : Of(e, k1)
    BY <1>6
  <2>2. PICK k2 \in ToSet(B2) : Of(g, k2)
    BY <1>7
  <2>3. e.srcName = k1.name /\ g.srcName = k2.name
    BY <1>4, <1>8, <2>1, <2>2
  <2>4. QED
    BY <1>5, <2>3
<1> SUFFICES ASSUME NEW e \in ToSet(ns)
             PROVE  /\ e.srcName \in Names(b.nodes)
                    /\ \A g \in ToSet(ns) : g.srcName = e.srcName => g = e
                    /\ SaysOf(e, Get(b.nodes, e.srcName), mu, kappa)
  BY DEF NodesSay
<1>11. \A g \in ToSet(ns) : g.srcName = e.srcName => g = e
  BY <1>6, <1>7, <1>9, <1>10
<1>12. PICK k \in ToSet(b.nodes) : IsNode(k, b.classes) /\ Of(e, k)
  BY <1>4, <1>6, <1>7, <1>9
<1>13. SaysOf(e, k, mu, kappa) /\ e.srcName = k.name
  BY <1>8, <1>12
<1>14. e.srcName \in Names(b.nodes) /\ Get(b.nodes, e.srcName) = k
  <2>1. PICK j \in DOMAIN b.nodes : k = b.nodes[j]
    BY <1>12 DEF ToSet
  <2>2. DistinctNames(b.nodes)
    BY DEF IsSchema
  <2>3. (CHOOSE i \in DOMAIN b.nodes : b.nodes[i].name = e.srcName) = j
    BY <1>13, <2>1, <2>2 DEF DistinctNames
  <2>4. QED
    BY <1>13, <2>1, <2>3 DEF Get, Names
<1>15. QED
  BY <1>11, <1>13, <1>14

\* Copies of all nodes have their names.
LEMMA CopiesNames ==
    ASSUME NEW a, NEW ns, AreCopies(ns, a)
    PROVE  Names(ns) = Names(a.nodes)
<1>1. \A q, x : x \in Names(q) <=> \E n \in ToSet(q) : n.name = x
  BY DEF Names, ToSet
<1>2. ASSUME NEW x PROVE x \in Names(ns) <=> x \in Names(a.nodes)
  BY <1>1 DEF AreCopies, IsCopy
<1>3. QED
  BY <1>2

\* A schema without names of dimensions leaves nothing to bind.
LEMMA NothingBound ==
    ASSUME NEW a, IsSchema(a), NEW V, NEW ca, NEW cb, NEW dims, NEW classes,
           MapsOK(dims, classes, Occurring(a), V, ca, cb), ~IsVariable(a)
    PROVE  dims = EmptyMap
<1>1. PICK S \in SUBSET DimNames : dims \in [S -> V]
  BY DEF MapsOK, DimMaps
<1>2. DOMAIN dims \subseteq Occurring(a)
  BY DEF MapsOK
<1>3. ASSUME NEW d \in Occurring(a), d \in DimNames PROVE FALSE
  <2>1. CASE \E n \in ToSet(a.nodes) : \E i \in DOMAIN n.fields :
                /\ n.fields[i].type = "tensor"
                /\ \E j \in DOMAIN n.fields[i].dim : n.fields[i].dim[j].d = d
    <3>1. PICK n \in ToSet(a.nodes) : \E i \in DOMAIN n.fields :
              /\ n.fields[i].type = "tensor"
              /\ \E j \in DOMAIN n.fields[i].dim : n.fields[i].dim[j].d = d
      BY <2>1
    <3>2. \A i \in DOMAIN n.fields : n.fields[i] \in ToSet(n.fields)
      BY DEF ToSet
    <3>3. \E f \in ToSet(n.fields) : f.type = "tensor" /\ \E j \in DOMAIN f.dim : f.dim[j].d \in DimNames
      BY <1>3, <3>1, <3>2
    <3>4. QED
      BY <3>3 DEF IsVariable
  <2>2. CASE \E c \in ToSet(a.classes) : c.dim = d
    BY <1>3, <2>2 DEF IsVariable
  <2>3. QED
    BY <2>1, <2>2 DEF Occurring
<1>4. DOMAIN dims = {}
  BY <1>1, <1>2, <1>3
<1>5. dims = [x \in {} |-> dims[x]]
  BY <1>1, <1>4
<1>6. QED
  BY <1>5 DEF EmptyMap

\* What BuiltSchemaFits says of a result s for a destination a and a source b.
FitsBoth(s, a, b, same) ==
    /\ Names(s.nodes) = Names(a.nodes) \/ ~same
    /\ ~IsVariable(a) => s.srcDims = EmptyMap
    /\ NodesSay(s.nodes, b, [d \in DimNames |-> IF d \in DOMAIN s.srcDims THEN s.srcDims[d] ELSE Null],
                [c \in Names(s.classes) |-> Get(s.classes, c).srcName])

\* The schema that is built of what both loops have found fits.
LEMMA BuiltFits ==
    ASSUME NEW a, IsSchema(a), NEW b, IsSchema(b), NEW dims, NEW classes, NEW names, NEW ns,
           BothDone(a, b, dims, classes, names, ns, TRUE), NEW same,
           same => /\ Len(Singletons(a)) = Len(Singletons(b))
                   /\ Len(Nonsingletons(a)) = Len(Nonsingletons(b))
    PROVE  FitsBoth(BuildSchema(a, dims, classes, ns), a, b, same)
<1> DEFINE s == BuildSchema(a, dims, classes, ns)
           Class(c) == [name |-> c.name, dim |-> c.dim,
                        srcName |-> IF c.name \in DOMAIN classes THEN classes[c.name] ELSE Malformed]
           cs == [i \in DOMAIN a.classes |-> Class(a.classes[i])]
           mu == [d \in DimNames |-> IF d \in DOMAIN dims THEN dims[d] ELSE Null]
           kappa == [c \in Names(cs) |-> Get(cs, c).srcName]
<1>1. s.nodes = ns /\ s.classes = cs /\ s.srcDims = dims
  BY DEF BuildSchema
<1> HIDE DEF s
<1>2. MapsOK(dims, classes, Occurring(a), Meanings(b), a.classes, b.classes)
  BY DEF BothDone
<1>3. same => Names(ns) = Names(a.nodes)
  BY DoneEmbeds, CopiesNames
<1>4. ~IsVariable(a) => dims = EmptyMap
  BY <1>2, NothingBound
<1>5. Obeys(mu, dims)
  <2>1. PICK S \in SUBSET DimNames : dims \in [S -> Meanings(b)]
    BY <1>2 DEF MapsOK, DimMaps
  <2>2. QED
    BY <2>1 DEF Obeys
<1>6. ASSUME NEW c \in DOMAIN classes PROVE kappa[c] = classes[c]
  <2>1. c \in Names(a.classes)
    BY <1>2 DEF MapsOK
  <2>2. PICK i \in DOMAIN a.classes : a.classes[i].name = c
    BY <2>1 DEF Names
  <2>3. /\ DOMAIN cs = DOMAIN a.classes /\ cs[i].srcName = classes[c]
        /\ \A j \in DOMAIN a.classes : cs[j].name = a.classes[j].name
    BY <2>2
  <2>4. DistinctNames(a.classes)
    BY DEF IsSchema
  <2> HIDE DEF cs
  <2>5. (CHOOSE j \in DOMAIN cs : cs[j].name = c) = i
    BY <2>2, <2>3, <2>4 DEF DistinctNames
  <2>6. Get(cs, c).srcName = classes[c]
    BY <2>3, <2>5 DEF Get
  <2>7. c \in Names(cs)
    BY <2>2, <2>3 DEF Names
  <2>8. QED
    BY <2>6, <2>7
<1> HIDE DEF cs
<1>7. NodesSay(ns, b, mu, kappa)
  <2> HIDE DEF mu, kappa
  <2>1. QED
    BY <1>5, <1>6, DoneSays
<1>8. FitsBoth(s, a, b, same)
  BY <1>1, <1>3, <1>4, <1>7 DEF FitsBoth
<1>9. QED
  BY <1>8 DEF s

\* The result is there only at the end, and fits.
BuiltInv ==
    /\ MatchInv
    /\ result # Null => pc = "done" /\ FitsBoth(result, self, source, SameCounts)

\* It says of the result what is to be shown.
LEMMA BuiltInvSuffices == BuiltInv => BuiltSchemaFits
<1>1. SUFFICES ASSUME BuiltInv, result # Null PROVE BuiltSchemaFits
  BY DEF BuiltSchemaFits
<1>2. FitsBoth(result, self, source, SameCounts)
  BY <1>1 DEF BuiltInv
<1>3. QED
  BY <1>2 DEF FitsBoth, NodesSay, SaysOf, BuiltSchemaFits

\* The end of a call keeps it.
LEMMA BuildFits ==
    ASSUME BuiltInv, Build
    PROVE  BuiltInv'
<1>1. MatchInv'
  BY BuildStep DEF BuiltInv
<1> DEFINE s == BuildSchema(self, dimMap, classMap, nodes)
           OK == (\A c \in ToSet(s.classes) : ClassOK(c)) /\ SchemaOK(s)
<1>2. /\ pc = "found"
      /\ IF build THEN IF OK THEN Finish("match", s) ELSE Finish("exception", Null)
                  ELSE Finish("match", Null)
  BY DEF Build
<1>3. /\ IsSchema(self) /\ IsSchema(source) /\ build \in BOOLEAN
      /\ BothDone(self, source, dimMap, classMap, nodeMap, nodes, build)
  BY <1>2 DEF BuiltInv, MatchInv
<1>4. build => FitsBoth(s, self, source, SameCounts)
  <2>1. SUFFICES ASSUME build PROVE FitsBoth(s, self, source, SameCounts)
    OBVIOUS
  <2>2. BothDone(self, source, dimMap, classMap, nodeMap, nodes, TRUE)
    BY <1>3, <2>1
  <2>3. QED
    BY <1>3, <2>2, BuiltFits DEF SameCounts
<1> HIDE DEF OK, s
<1>5. pc' = "done" /\ self' = self /\ source' = source /\ (result' = Null \/ (build /\ result' = s))
  BY <1>2 DEF Finish
<1>6. result' # Null => FitsBoth(result', self', source', SameCounts')
  <2>1. SameCounts' = SameCounts
    BY <1>5 DEF SameCounts
  <2>2. QED
    BY <1>4, <1>5, <2>1
<1>7. QED
  BY <1>1, <1>5, <1>6 DEF BuiltInv

\* It is inductive: only the end of a call has a result.
LEMMA NextBuiltInv == BuiltInv /\ [MatchNext]_matchVars => BuiltInv'
<1> SUFFICES ASSUME BuiltInv, [MatchNext]_matchVars PROVE BuiltInv'
  OBVIOUS
<1>1. MatchInv'
  BY NextMatchInv DEF BuiltInv
<1>2. CASE Build
  BY <1>2, BuildFits
<1>3. CASE UNCHANGED matchVars
  <2>1. pc' = pc /\ self' = self /\ source' = source /\ result' = result
    BY <1>3 DEF matchVars
  <2>2. SameCounts' = SameCounts
    BY <2>1 DEF SameCounts
  <2>3. QED
    BY <1>1, <2>1, <2>2 DEF BuiltInv
<1>4. CASE LoadBoth \/ Constraints \/ SingletonOrder \/ NonsingletonOrder \/ NoOrderLeft
  <2>1. pc # "done" /\ (result' = result \/ result' = Null)
    BY <1>4 DEF LoadBoth, Constraints, SingletonOrder, NonsingletonOrder, NoOrderLeft, TryOrder, Judge, Finish
  <2>2. result = Null
    BY <2>1 DEF BuiltInv
  <2>3. QED
    BY <1>1, <2>1, <2>2 DEF BuiltInv
<1>5. QED
  BY <1>2, <1>3, <1>4 DEF MatchNext

\* For all schemas that can be read: the schema that match builds names, for every node and
\* every field of self, one of its own of the source that it stands for, with sizes and
\* classes that are the same all over the schema.  It has all nodes of self if the numbers
\* of nodes are the same, and no sizes to remember if self has no names of dimensions.
THEOREM BuiltSchemaIsConsistent == MatchSpec => []BuiltSchemaFits
<1>1. MatchInit => BuiltInv
  <2>1. MatchInit => result = Null
    BY DEF MatchInit
  <2>2. QED
    BY <2>1, InitMatchInv DEF BuiltInv
<1>2. BuiltInv /\ [MatchNext]_matchVars => BuiltInv'
  BY NextBuiltInv
<1>3. QED
  BY <1>1, <1>2, BuiltInvSuffices, PTL DEF MatchSpec

------------------------------------------------------------------------------
(* The schema that is built, written and read again.                       *)

\* A field as it is read,
IsField(f) ==
    f = [name |-> f.name, type |-> f.type, dim |-> f.dim, class |-> f.class,
         srcName |-> f.srcName, srcDim |-> f.srcDim]

\* a link as it is read,
LinkRead(l) == l = [name |-> l.name, dim |-> l.dim] /\ Link(l.dim) = l.dim /\ LinkOK(l.dim)

\* and the links of a node.
LinksRead(n) == \A i \in DOMAIN n.links : LinkRead(n.links[i])

\* A node that can be written and read again.
IsWhole(n) ==
    /\ n = [name |-> n.name, singleton |-> n.singleton, srcName |-> n.srcName,
            fields |-> n.fields, links |-> n.links]
    /\ IsList(n.fields) /\ IsList(n.links) /\ LinksRead(n) /\ NodeOK(n) /\ n.srcName # Null
    /\ \A i \in DOMAIN n.fields : IsField(n.fields[i])

\* What Reread says of one field,
FieldAgain(n, f) == IF n.singleton THEN [f EXCEPT !.name = "field", !.srcName = n.srcName] ELSE f

\* and of one node.
NodeAgain(n) == [n EXCEPT !.fields = [j \in DOMAIN n.fields |-> FieldAgain(n, n.fields[j])]]

\* The bounds of a link, once read, are read as they are.
LEMMA LinkTwice ==
    ASSUME NEW dim, LinkOK(dim)
    PROVE  Link(Link(dim)) = Link(dim) /\ LinkOK(Link(dim))
<1>1. CASE Len(dim) = 1
  <2>1. dim[1] \in 1 .. Inf - 1
    BY <1>1 DEF LinkOK
  <2> DEFINE two == <<dim[1], dim[1]>>
  <2>2. Link(dim) = two
    BY <1>1 DEF Link
  <2>3. Len(two) = 2 /\ two[1] = dim[1] /\ two[2] = dim[1]
    OBVIOUS
  <2> HIDE DEF two
  <2>4. Link(two) = two
    BY <2>3 DEF Link
  <2>5. two[1] \in 0 .. Inf - 1 /\ two[2] \in 1 .. Inf /\ two[1] <= two[2]
    BY <2>1, <2>3, InfAssumption
  <2>6. LinkOK(two)
    BY <2>3, <2>5 DEF LinkOK
  <2>7. QED
    BY <2>2, <2>4, <2>6
<1>2. CASE Len(dim) # 1
  <2>1. Link(dim) = dim
    BY <1>2 DEF Link
  <2>2. QED
    BY <2>1
<1>3. QED
  BY <1>1, <1>2

\* The links of a node that was read are as they are read.
LEMMA LoadedLinks ==
    ASSUME NEW raw, \A l \in ToSet(raw.links) : LinkOK(l.dim)
    PROVE  LinksRead(LoadNode(raw))
<1> DEFINE links == [i \in DOMAIN raw.links |-> LoadLink(raw.links[i])]
<1>1. LoadNode(raw).links = links
  BY DEF LoadNode
<1>2. DOMAIN links = DOMAIN raw.links /\ \A i \in DOMAIN links : links[i] = LoadLink(raw.links[i])
  OBVIOUS
<1> HIDE DEF links
<1>3. ASSUME NEW i \in DOMAIN links PROVE LinkRead(links[i])
  <2> DEFINE d == raw.links[i].dim
  <2>1. LinkOK(d)
    BY <1>2 DEF ToSet
  <2>2. links[i] = [name |-> raw.links[i].name, dim |-> Link(d)]
    BY <1>2 DEF LoadLink
  <2> HIDE DEF d
  <2>3. Link(Link(d)) = Link(d) /\ LinkOK(Link(d))
    BY <2>1, LinkTwice
  <2>4. links[i].dim = Link(d) /\ links[i] = [name |-> links[i].name, dim |-> links[i].dim]
    BY <2>2
  <2>5. QED
    BY <2>3, <2>4 DEF LinkRead
<1>4. QED
  BY <1>1, <1>3 DEF LinksRead

\* A list with one element.
LEMMA ListOfOne ==
    ASSUME NEW s, IsList(s), Len(s) = 1
    PROVE  s = <<s[1]>> /\ DOMAIN s = {1}
<1>1. s \in Seq(ToSet(s))
  BY DEF IsList
<1>2. QED
  BY <1>1

\* What is read again is the node, but for the field of a singleton.
LEMMA NodeTwice ==
    ASSUME NEW n, IsWhole(n)
    PROVE  LoadNode(DumpNode(n)) = NodeAgain(n)
<1> DEFINE raw == DumpNode(n)
<1>1. CASE n.singleton
  <2> DEFINE f == n.fields[1]
  <2>1. n.singleton = TRUE /\ Len(n.fields) = 1 /\ n.links = <<>>
    BY <1>1 DEF IsWhole, NodeOK
  <2>2. n.fields = <<f>> /\ DOMAIN n.fields = {1} /\ IsField(f)
    BY <2>1, ListOfOne DEF IsWhole
  <2>3. /\ raw.name = n.name /\ raw.singleton = TRUE /\ raw.srcName = n.srcName
        /\ raw.type = f.type /\ raw.dim = f.dim /\ raw.class = f.class /\ raw.srcDim = f.srcDim
        /\ raw.fields = <<>> /\ raw.links = <<>>
    BY <2>1 DEF DumpNode, DumpField, IsWhole
  <2> HIDE DEF raw
  <2> DEFINE g == LoadField(raw, "field")
  <2>4. LoadNode(raw) = [name |-> n.name, singleton |-> TRUE, srcName |-> n.srcName,
                         fields |-> <<g>>, links |-> <<>>]
    <3>1. [i \in DOMAIN raw.links |-> LoadLink(raw.links[i])] = <<>>
      BY <2>3
    <3>2. QED
      BY <2>3, <3>1 DEF LoadNode
  <2>5. g = FieldAgain(n, f)
    <3>1. g = [name |-> "field", type |-> f.type, dim |-> f.dim, class |-> f.class,
               srcName |-> n.srcName, srcDim |-> f.srcDim]
      BY <2>3 DEF LoadField
    <3>2. FieldAgain(n, f) = [f EXCEPT !.name = "field", !.srcName = n.srcName]
      BY <1>1 DEF FieldAgain
    <3>3. QED
      BY <2>2, <3>1, <3>2 DEF IsField
  <2> HIDE DEF g
  <2>6. [j \in DOMAIN n.fields |-> FieldAgain(n, n.fields[j])] = <<g>>
    BY <2>2, <2>5
  <2>7. NodeAgain(n) = [n EXCEPT !.fields = <<g>>]
    BY <2>6 DEF NodeAgain
  <2>8. NodeAgain(n) = [name |-> n.name, singleton |-> n.singleton, srcName |-> n.srcName,
                        fields |-> <<g>>, links |-> n.links]
    <3> DEFINE gs == <<g>>
    <3> HIDE DEF gs
    <3>1. [n EXCEPT !.fields = gs] = [name |-> n.name, singleton |-> n.singleton, srcName |-> n.srcName,
                                      fields |-> gs, links |-> n.links]
      BY DEF IsWhole
    <3>2. QED
      BY <2>7, <3>1 DEF gs
  <2>9. LoadNode(raw) = NodeAgain(n)
    BY <2>1, <2>4, <2>8
  <2>10. QED
    BY <2>9 DEF raw
<1>2. CASE ~n.singleton
  <2> DEFINE fs == [i \in DOMAIN n.fields |-> DumpField(n.fields[i])]
  <2>1. n.singleton = FALSE
    BY <1>2 DEF IsWhole, NodeOK
  <2>2. /\ raw.name = n.name /\ raw.singleton = FALSE /\ raw.srcName = n.srcName
        /\ raw.fields = fs /\ raw.links = n.links
    BY <2>1 DEF DumpNode, IsWhole
  <2> HIDE DEF raw
  <2>3. \A i \in DOMAIN n.fields : DumpField(n.fields[i]) = n.fields[i]
    BY DEF DumpField, IsWhole, IsField
  <2>4. fs = n.fields
    <3>1. n.fields = [i \in DOMAIN n.fields |-> n.fields[i]]
      BY DEF IsWhole, IsList
    <3>2. QED
      BY <2>3, <3>1
  <2> HIDE DEF fs
  <2>5. \A i \in DOMAIN n.fields : LoadField(n.fields[i], n.fields[i].name) = n.fields[i]
    BY DEF LoadField, IsWhole, IsField
  <2>6. [i \in DOMAIN n.fields |-> LoadField(n.fields[i], n.fields[i].name)] = n.fields
    <3>1. n.fields = [i \in DOMAIN n.fields |-> n.fields[i]]
      BY DEF IsWhole, IsList
    <3>2. QED
      BY <2>5, <3>1
  <2>7. \A i \in DOMAIN n.links : LoadLink(n.links[i]) = n.links[i]
    BY DEF IsWhole, LinksRead, LinkRead, LoadLink
  <2>8. [i \in DOMAIN n.links |-> LoadLink(n.links[i])] = n.links
    <3>1. n.links = [i \in DOMAIN n.links |-> n.links[i]]
      BY DEF IsWhole, IsList
    <3>2. QED
      BY <2>7, <3>1
  <2>9. LoadNode(raw) = [name |-> n.name, singleton |-> FALSE, srcName |-> n.srcName,
                         fields |-> n.fields, links |-> n.links]
    BY <2>2, <2>4, <2>6, <2>8 DEF LoadNode
  <2>10. [j \in DOMAIN n.fields |-> FieldAgain(n, n.fields[j])] = n.fields
    <3>1. n.fields = [i \in DOMAIN n.fields |-> n.fields[i]]
      BY DEF IsWhole, IsList
    <3>2. QED
      BY <2>1, <3>1 DEF FieldAgain
  <2>11. QED
    BY <2>1, <2>9, <2>10 DEF IsWhole, NodeAgain, raw
<1>3. QED
  BY <1>1, <1>2

\* It is accepted as the node was, with the same parts.
LEMMA NodeAgainOK ==
    ASSUME NEW n, IsWhole(n)
    PROVE  /\ NodeOK(NodeAgain(n)) /\ NodeAgain(n).name = n.name
           /\ NodeAgain(n).singleton = n.singleton /\ NodeAgain(n).links = n.links
           /\ DOMAIN NodeAgain(n).fields = DOMAIN n.fields
           /\ \A j \in DOMAIN n.fields : /\ NodeAgain(n).fields[j].type = n.fields[j].type
                                         /\ NodeAgain(n).fields[j].class = n.fields[j].class
           /\ \A l \in ToSet(DumpNode(n).links) : LinkOK(l.dim)
<1> DEFINE fs == [j \in DOMAIN n.fields |-> FieldAgain(n, n.fields[j])]
           m == NodeAgain(n)
<1>1. /\ m.name = n.name /\ m.singleton = n.singleton /\ m.srcName = n.srcName
      /\ m.links = n.links /\ m.fields = fs
  BY DEF NodeAgain, IsWhole
<1>2. DOMAIN fs = DOMAIN n.fields /\ \A j \in DOMAIN fs : fs[j] = FieldAgain(n, n.fields[j])
  OBVIOUS
<1> HIDE DEF fs
<1>3. NodeOK(n)
  BY DEF IsWhole
<1>4. ASSUME NEW j \in DOMAIN n.fields
      PROVE  FieldOK(fs[j]) /\ fs[j].type = n.fields[j].type /\ fs[j].class = n.fields[j].class
  <2> DEFINE f == n.fields[j]
             g == fs[j]
  <2>1. FieldOK(f) /\ IsField(f)
    BY <1>3 DEF NodeOK, IsWhole
  <2>2. g = FieldAgain(n, f)
    BY <1>2
  <2> HIDE DEF f, g
  <2>3. /\ g.type = f.type /\ g.dim = f.dim /\ g.class = f.class /\ g.srcDim = f.srcDim
        /\ g.name \in {f.name, "field"} /\ g.srcName \in {f.srcName, n.srcName}
    BY <2>1, <2>2 DEF FieldAgain, IsField
  <2>4. g.name # Malformed /\ g.srcName # Malformed
    BY <1>3, <2>1, <2>3, FieldNameAssumption DEF NodeOK, FieldOK
  <2>5. TensorOK(f) => TensorOK(g)
    BY <2>3 DEF TensorOK
  <2>6. CategoryOK(f) => CategoryOK(g)
    BY <2>3 DEF CategoryOK
  <2>7. FieldOK(g)
    BY <2>1, <2>3, <2>4, <2>5, <2>6 DEF FieldOK
  <2>8. QED
    BY <2>3, <2>7 DEF f, g
<1>5. Len(fs) = Len(n.fields)
  <2>1. fs = [i \in DOMAIN n.fields |-> fs[i]]
    BY <1>2 DEF fs
  <2>2. IsList(fs)
    BY <1>2, <2>1, MappedList DEF IsWhole
  <2>3. QED
    BY <1>2, <2>2 DEF IsWhole, IsList
<1> HIDE DEF m
<1>6. NodeOK(m)
  BY <1>1, <1>2, <1>3, <1>4, <1>5 DEF NodeOK
<1>7. \A l \in ToSet(DumpNode(n).links) : LinkOK(l.dim)
  <2>1. DumpNode(n).links = IF n.singleton THEN <<>> ELSE n.links
    BY DEF DumpNode
  <2>2. \A i \in DOMAIN n.links : LinkOK(n.links[i].dim)
    BY DEF IsWhole, LinksRead, LinkRead
  <2>3. QED
    BY <2>1, <2>2 DEF ToSet
<1>8. QED
  BY <1>1, <1>2, <1>4, <1>6, <1>7 DEF m

\* A class as it is read.
IsClass(c) == c = [name |-> c.name, dim |-> c.dim, srcName |-> c.srcName]

\* A schema whose parts can be written and read again.
IsWholeSchema(s) ==
    /\ s = [nodes |-> s.nodes, classes |-> s.classes, cyclic |-> s.cyclic,
            undirected |-> s.undirected, fanin |-> s.fanin, srcDims |-> s.srcDims]
    /\ IsList(s.nodes) /\ IsList(s.classes)
    /\ \A i \in DOMAIN s.nodes : IsWhole(s.nodes[i])
    /\ \A i, j \in DOMAIN s.nodes : s.nodes[i].name = s.nodes[j].name => s.nodes[i].singleton = s.nodes[j].singleton
    /\ \A i \in DOMAIN s.classes : IsClass(s.classes[i]) /\ ClassOK(s.classes[i])
    /\ SchemaOK(s)

\* The schema passes the checks that it passed before.
LEMMA AgainOK ==
    ASSUME NEW s, IsWholeSchema(s), NEW t, IsList(t.nodes), DOMAIN t.nodes = DOMAIN s.nodes,
           \A i \in DOMAIN s.nodes : t.nodes[i] = NodeAgain(s.nodes[i]),
           t.classes = s.classes, t.cyclic = s.cyclic, t.undirected = s.undirected, t.fanin = s.fanin,
           t.srcDims = s.srcDims
    PROVE  SchemaOK(t)
<1>1. SchemaOK(s)
  BY DEF IsWholeSchema
<1>2. ASSUME NEW i \in DOMAIN s.nodes
      PROVE  /\ t.nodes[i].name = s.nodes[i].name /\ t.nodes[i].singleton = s.nodes[i].singleton
             /\ t.nodes[i].links = s.nodes[i].links
             /\ DOMAIN t.nodes[i].fields = DOMAIN s.nodes[i].fields
             /\ \A j \in DOMAIN s.nodes[i].fields :
                   /\ t.nodes[i].fields[j].type = s.nodes[i].fields[j].type
                   /\ t.nodes[i].fields[j].class = s.nodes[i].fields[j].class
  BY NodeAgainOK DEF IsWholeSchema
<1>3. t.nodes # <<>>
  <2>1. s.nodes # <<>> /\ IsList(s.nodes)
    BY <1>1 DEF SchemaOK, IsWholeSchema
  <2>2. 1 \in DOMAIN s.nodes
    BY <2>1, ListOfElements DEF IsList
  <2>3. QED
    BY <2>2
<1>4. Names(t.nodes) = Names(s.nodes)
  BY <1>2 DEF Names
<1>5. ASSUME NEW i \in DOMAIN s.nodes PROVE LinksOK(t, t.nodes[i])
  <2> DEFINE n == s.nodes[i]
             m == t.nodes[i]
  <2>1. LinksOK(s, n) /\ m.links = n.links
    BY <1>1, <1>2 DEF SchemaOK, ToSet
  <2> HIDE DEF n, m
  <2>2. ASSUME NEW l \in ToSet(m.links) PROVE l.name \in Names(t.nodes) /\ ~Get(t.nodes, l.name).singleton
    <3>1. l.name \in Names(s.nodes) /\ ~Get(s.nodes, l.name).singleton
      BY <2>1 DEF LinksOK
    <3> DEFINE g == Get(t.nodes, l.name)
               h == Get(s.nodes, l.name)
    <3>2. g \in ToSet(t.nodes) /\ g.name = l.name /\ h \in ToSet(s.nodes) /\ h.name = l.name
      BY <1>4, <3>1, GetFrom
    <3> HIDE DEF g, h
    <3>3. PICK p \in DOMAIN s.nodes : g = t.nodes[p]
      BY <3>2 DEF ToSet
    <3>4. PICK q \in DOMAIN s.nodes : h = s.nodes[q]
      BY <3>2 DEF ToSet
    <3>5. s.nodes[p].name = s.nodes[q].name /\ g.singleton = s.nodes[p].singleton
      BY <1>2, <3>2, <3>3, <3>4
    <3>6. g.singleton = h.singleton
      BY <3>4, <3>5 DEF IsWholeSchema
    <3>7. QED
      BY <1>4, <3>1, <3>6 DEF g, h
  <2>3. t.undirected /\ ~t.fanin =>
            /\ \A l \in ToSet(m.links) : l.dim[2] # Inf
            /\ LinkCount(m.links) <= 2
    BY <2>1 DEF LinksOK
  <2>4. LinksOK(t, m)
    BY <2>2, <2>3 DEF LinksOK
  <2>5. QED
    BY <2>4 DEF m
<1>6. \A m \in ToSet(t.nodes) : LinksOK(t, m)
  BY <1>5 DEF ToSet
<1>7. ClassesUsed(t) = ClassesUsed(s)
  <2>1. ASSUME NEW c \in ClassesUsed(t) PROVE c \in ClassesUsed(s)
    <3>1. PICK m \in ToSet(t.nodes) : \E j \in DOMAIN m.fields :
              m.fields[j].type = "category" /\ m.fields[j].class = c
      BY <2>1, ClassesOf
    <3>2. PICK i \in DOMAIN s.nodes : m = t.nodes[i]
      BY DEF ToSet
    <3>3. \E j \in DOMAIN s.nodes[i].fields :
              s.nodes[i].fields[j].type = "category" /\ s.nodes[i].fields[j].class = c
      BY <1>2, <3>1, <3>2
    <3>4. s.nodes[i] \in ToSet(s.nodes)
      BY DEF ToSet
    <3>5. QED
      BY <3>3, <3>4, ClassesOf
  <2>2. ASSUME NEW c \in ClassesUsed(s) PROVE c \in ClassesUsed(t)
    <3>1. PICK n \in ToSet(s.nodes) : \E j \in DOMAIN n.fields :
              n.fields[j].type = "category" /\ n.fields[j].class = c
      BY <2>2, ClassesOf
    <3>2. PICK i \in DOMAIN s.nodes : n = s.nodes[i]
      BY DEF ToSet
    <3>3. \E j \in DOMAIN t.nodes[i].fields :
              t.nodes[i].fields[j].type = "category" /\ t.nodes[i].fields[j].class = c
      BY <1>2, <3>1, <3>2
    <3>4. t.nodes[i] \in ToSet(t.nodes)
      BY DEF ToSet
    <3>5. QED
      BY <3>3, <3>4, ClassesOf
  <2>3. QED
    BY <2>1, <2>2
<1>8. QED
  BY <1>1, <1>3, <1>6, <1>7 DEF SchemaOK

\* What is written and read again is the schema, but for the fields of singletons.
LEMMA SchemaTwice ==
    ASSUME NEW s, IsWholeSchema(s)
    PROVE  Load(Dump(s)) = Reread(s)
<1> DEFINE raw == Dump(s)
           ns == [i \in DOMAIN s.nodes |-> NodeAgain(s.nodes[i])]
           t == [nodes |-> ns, classes |-> s.classes, cyclic |-> s.cyclic,
                 undirected |-> s.undirected, fanin |-> s.fanin, srcDims |-> s.srcDims]
           ds == [i \in DOMAIN s.nodes |-> DumpNode(s.nodes[i])]
<1>1. /\ raw.nodes = ds /\ raw.classes = s.classes /\ raw.cyclic = s.cyclic
      /\ raw.undirected = s.undirected /\ raw.fanin = s.fanin /\ raw.srcDims = s.srcDims
  <2>1. raw = [s EXCEPT !.nodes = ds]
    BY DEF Dump
  <2> HIDE DEF ds, raw
  <2>2. QED
    BY <2>1 DEF IsWholeSchema
<1>2. Reread(s) = t
  <2>1. ns = [i \in DOMAIN s.nodes |-> [s.nodes[i] EXCEPT !.fields =
                 [j \in DOMAIN s.nodes[i].fields |-> FieldAgain(s.nodes[i], s.nodes[i].fields[j])]]]
    BY DEF NodeAgain
  <2>2. Reread(s) = [s EXCEPT !.nodes = ns]
    BY <2>1 DEF Reread, FieldAgain
  <2> HIDE DEF ns
  <2>3. [s EXCEPT !.nodes = ns] = t
    BY DEF IsWholeSchema
  <2>4. QED
    BY <2>2, <2>3
<1>3. /\ t.nodes = ns /\ t.classes = s.classes /\ t.cyclic = s.cyclic
      /\ t.undirected = s.undirected /\ t.fanin = s.fanin /\ t.srcDims = s.srcDims
  OBVIOUS
<1>4. DOMAIN ns = DOMAIN s.nodes /\ \A i \in DOMAIN s.nodes : ns[i] = NodeAgain(s.nodes[i])
  OBVIOUS
<1>5. DOMAIN ds = DOMAIN s.nodes /\ \A i \in DOMAIN s.nodes : ds[i] = DumpNode(s.nodes[i])
  OBVIOUS
<1>6. IsList(ns)
  <2>1. ns = [i \in DOMAIN s.nodes |-> ns[i]]
    BY <1>4 DEF ns
  <2> HIDE DEF ns
  <2>2. QED
    BY <1>4, <2>1, MappedList DEF IsWholeSchema
<1>7. [i \in DOMAIN ds |-> LoadNode(ds[i])] = ns
  <2> HIDE DEF ds
  <2>1. \A i \in DOMAIN s.nodes : LoadNode(ds[i]) = NodeAgain(s.nodes[i])
    BY <1>5, NodeTwice DEF IsWholeSchema
  <2>2. QED
    BY <1>5, <2>1
<1>8. [i \in DOMAIN s.classes |-> LoadClass(s.classes[i])] = s.classes
  <2>1. \A i \in DOMAIN s.classes : LoadClass(s.classes[i]) = s.classes[i]
    BY DEF IsWholeSchema, IsClass, LoadClass
  <2>2. s.classes = [i \in DOMAIN s.classes |-> s.classes[i]]
    BY DEF IsWholeSchema, IsList
  <2>3. QED
    BY <2>1, <2>2
<1> HIDE DEF raw, ns, ds
<1>9. t = [nodes |-> [i \in DOMAIN raw.nodes |-> LoadNode(raw.nodes[i])],
           classes |-> [i \in DOMAIN raw.classes |-> LoadClass(raw.classes[i])],
           cyclic |-> raw.cyclic, undirected |-> raw.undirected, fanin |-> raw.fanin,
           srcDims |-> raw.srcDims]
  BY <1>1, <1>7, <1>8
<1> HIDE DEF t
<1>10. \A n \in ToSet(raw.nodes) : \A l \in ToSet(n.links) : LinkOK(l.dim)
  <2>1. ASSUME NEW i \in DOMAIN s.nodes PROVE \A l \in ToSet(ds[i].links) : LinkOK(l.dim)
    BY <1>5, NodeAgainOK DEF IsWholeSchema
  <2>2. QED
    BY <1>1, <1>5, <2>1 DEF ToSet
<1>11. \A n \in ToSet(t.nodes) : NodeOK(n)
  <2>1. ASSUME NEW i \in DOMAIN s.nodes PROVE NodeOK(ns[i])
    BY <1>4, NodeAgainOK DEF IsWholeSchema
  <2>2. QED
    BY <1>3, <1>4, <2>1 DEF ToSet
<1>12. \A c \in ToSet(t.classes) : ClassOK(c)
  BY <1>3 DEF ToSet, IsWholeSchema
<1>13. SchemaOK(t)
  BY <1>3, <1>4, <1>6, AgainOK
<1>14. Load(raw) = t
  BY <1>9, <1>10, <1>11, <1>12, <1>13 DEF Load
<1>15. QED
  BY <1>2, <1>14 DEF raw

\* e is a node of a with the names that its parts have in a node of b.
BuiltFrom(e, a, b) ==
    \E n \in ToSet(a.nodes), k \in ToSet(b.nodes) : \E dims, classes, sigma :
        FieldsFit(n, k, sigma, dims, classes) /\ IsBuilt(e, n, k, sigma)

\* What a loop over orders has built are nodes of self with the names of their pairs in the source.
LEMMA StageBuilt ==
    ASSUME NEW A, NEW B, IsList(A), IsList(B), NEW x, NEW m, NEW built, NEW dims,
           NEW classes, NEW names,
           StageFit(A, B, x, m, built, dims, classes, names)
    PROVE  \A e \in ToSet(built) : \E n \in ToSet(A), k \in ToSet(B) : \E sigma :
                FieldsFit(n, k, sigma, dims, classes) /\ IsBuilt(e, n, k, sigma)
<1>1. PICK rho \in Arrangements(Len(B)) : x = [i \in 1 .. Len(B) |-> B[rho[i]]]
  BY DEF StageFit, IsOrder
<1>2. Len(B) \in Nat /\ DOMAIN B = 1 .. Len(B) /\ Len(A) \in Nat /\ DOMAIN A = 1 .. Len(A)
  BY ListOfElements
<1>3. m \in Nat /\ m <= Len(B) /\ m <= Len(A) /\ DOMAIN built = 1 .. m
  BY ListOfElements DEF StageFit
<1> SUFFICES ASSUME NEW e \in ToSet(built)
             PROVE  \E n \in ToSet(A), k \in ToSet(B) : \E sigma :
                       FieldsFit(n, k, sigma, dims, classes) /\ IsBuilt(e, n, k, sigma)
  OBVIOUS
<1>4. PICK i \in 1 .. m : e = built[i]
  BY <1>3 DEF ToSet
<1>5. i \in DOMAIN A /\ i \in 1 .. Len(B)
  BY <1>2, <1>3
<1>6. x[i] \in ToSet(B) /\ A[i] \in ToSet(A)
  BY <1>1, <1>2, <1>5 DEF ToSet, Arrangements
<1>7. NodeFits(A[i], x[i], built[i], dims, classes, names)
  BY DEF StageFit
<1>8. QED
  BY <1>4, <1>6, <1>7 DEF NodeFits

\* So are the nodes that both loops have built.
LEMMA DoneBuilt ==
    ASSUME NEW a, IsSchema(a), NEW b, IsSchema(b), NEW dims, NEW classes, NEW names, NEW ns,
           BothDone(a, b, dims, classes, names, ns, TRUE)
    PROVE  IsList(ns) /\ \A e \in ToSet(ns) : BuiltFrom(e, a, b)
<1> DEFINE A1 == Singletons(a)
           A2 == Nonsingletons(a)
           B1 == Singletons(b)
           B2 == Nonsingletons(b)
<1>1. KindOf(A1, a, TRUE) /\ KindOf(A2, a, FALSE) /\ KindOf(B1, b, TRUE) /\ KindOf(B2, b, FALSE)
  BY Kinds
<1>2. PICK x, m, b1, y, l, b2 : BothStages(a, b, dims, classes, names, ns, TRUE, x, m, b1, y, l, b2)
  BY DEF BothDone
<1>3. /\ StageFit(A1, B1, x, m, b1, dims, classes, EmptyMap) /\ StageFit(A2, B2, y, l, b2, dims, classes, names)
      /\ ns = b1 \o b2
  BY <1>2 DEF BothStages
<1> HIDE DEF A1, A2, B1, B2
<1>4. /\ IsList(A1) /\ IsList(A2) /\ IsList(B1) /\ IsList(B2)
      /\ \A k : k \in ToSet(B1) \/ k \in ToSet(B2) => k \in ToSet(b.nodes)
      /\ \A n : n \in ToSet(A1) \/ n \in ToSet(A2) => n \in ToSet(a.nodes)
  BY <1>1 DEF KindOf, ToSet
<1>5. \A e \in ToSet(b1) : \E n \in ToSet(A1), k \in ToSet(B1) : \E sigma :
          FieldsFit(n, k, sigma, dims, classes) /\ IsBuilt(e, n, k, sigma)
  BY <1>3, <1>4, StageBuilt
<1>6. \A e \in ToSet(b2) : \E n \in ToSet(A2), k \in ToSet(B2) : \E sigma :
          FieldsFit(n, k, sigma, dims, classes) /\ IsBuilt(e, n, k, sigma)
  BY <1>3, <1>4, StageBuilt
<1>7. IsList(b1) /\ IsList(b2)
  BY <1>3 DEF StageFit
<1>8. IsList(ns) /\ \A e : e \in ToSet(ns) <=> e \in ToSet(b1) \/ e \in ToSet(b2)
  BY <1>3, <1>7, ListJoined
<1>9. ASSUME NEW e \in ToSet(ns) PROVE BuiltFrom(e, a, b)
  BY <1>4, <1>5, <1>6, <1>8 DEF BuiltFrom
<1>10. QED
  BY <1>8, <1>9

\* What the schemas must have so that the one that is built can be read again.
LinksAndNames(a, b) ==
    (\A n \in ToSet(a.nodes) : LinksRead(n)) /\ (\A k \in ToSet(b.nodes) : k.name # Null)

\* Such a node can be written and read again, if its links can and its pair has a name.
LEMMA BuiltIsWhole ==
    ASSUME NEW a, IsSchema(a), NEW b, IsSchema(b), LinksAndNames(a, b),
           NEW e, BuiltFrom(e, a, b)
    PROVE  IsWhole(e) /\ \E n \in ToSet(a.nodes) : e.name = n.name /\ e.singleton = n.singleton
<1>1. PICK n \in ToSet(a.nodes), k \in ToSet(b.nodes) : \E dims, classes, sigma :
          FieldsFit(n, k, sigma, dims, classes) /\ IsBuilt(e, n, k, sigma)
  BY DEF BuiltFrom
<1>2. PICK dims, classes, sigma : FieldsFit(n, k, sigma, dims, classes) /\ IsBuilt(e, n, k, sigma)
  BY <1>1
<1>3. /\ IsNode(n, a.classes) /\ NodeOK(n) /\ LinksRead(n)
      /\ NodeOK(k) /\ k.name # Null
  BY DEF IsSchema, LinksAndNames, ToSet
<1> DEFINE fs == [i \in DOMAIN n.fields |-> BuildField(n.fields[i], k.fields[sigma[i]])]
<1>4. e = [name |-> n.name, singleton |-> n.singleton, srcName |-> k.name, links |-> n.links, fields |-> fs]
  BY <1>2 DEF IsBuilt
<1>5. IsList(fs) /\ DOMAIN fs = DOMAIN n.fields /\ Len(fs) = Len(n.fields)
  <2>1. fs = [i \in DOMAIN n.fields |-> fs[i]] /\ DOMAIN fs = DOMAIN n.fields
    OBVIOUS
  <2>2. IsList(n.fields)
    BY <1>3 DEF IsNode, IsList
  <2> HIDE DEF fs
  <2>3. IsList(fs)
    BY <2>1, <2>2, MappedList
  <2>4. QED
    BY <2>1, <2>2, <2>3 DEF IsList
<1>6. ASSUME NEW i \in DOMAIN n.fields PROVE IsField(fs[i]) /\ FieldOK(fs[i])
  <2> DEFINE f == n.fields[i]
             g == k.fields[sigma[i]]
             h == fs[i]
  <2>1. sigma[i] \in DOMAIN k.fields /\ f.type = g.type
    BY <1>2 DEF FieldsFit, OneToOne
  <2>2. FieldOK(f) /\ FieldOK(g)
    BY <1>3, <2>1 DEF NodeOK
  <2>3. h = BuildField(f, g)
    OBVIOUS
  <2> HIDE DEF f, g, h
  <2>4. /\ h.name = f.name /\ h.type = f.type /\ h.dim = f.dim /\ h.class = f.class /\ h.srcName = g.name
        /\ h.srcDim = (IF f.type = "tensor" THEN g.dim ELSE f.srcDim)
    BY <2>3 DEF BuildField
  <2>5. IsField(h)
    BY <2>3 DEF BuildField, IsField
  <2>6. h.name # Malformed /\ h.srcName # Malformed
    BY <2>2, <2>4 DEF FieldOK
  <2>7. f.type = "tensor" => TensorOK(h)
    <3>1. SUFFICES ASSUME f.type = "tensor" PROVE TensorOK(h)
      OBVIOUS
    <3>2. TensorOK(f) /\ TensorOK(g)
      BY <2>1, <2>2, <3>1 DEF FieldOK
    <3>3. h.srcDim = g.dim /\ h.dim = f.dim
      BY <2>4, <3>1
    <3>4. QED
      BY <3>2, <3>3 DEF TensorOK
  <2>8. f.type = "category" => CategoryOK(h)
    BY <2>2, <2>4 DEF FieldOK, CategoryOK
  <2>9. FieldOK(h)
    BY <2>2, <2>4, <2>6, <2>7, <2>8 DEF FieldOK
  <2>10. QED
    BY <2>5, <2>9 DEF h
<1> HIDE DEF fs
<1>7. /\ e.name = n.name /\ e.singleton = n.singleton /\ e.srcName = k.name /\ e.links = n.links /\ e.fields = fs
      /\ e = [name |-> e.name, singleton |-> e.singleton, srcName |-> e.srcName, fields |-> e.fields,
              links |-> e.links]
  BY <1>4
<1>8. NodeOK(e)
  BY <1>3, <1>5, <1>6, <1>7 DEF NodeOK
<1>9. IsList(e.links) /\ LinksRead(e)
  BY <1>3, <1>7 DEF IsNode, IsList, LinksRead
<1>10. IsWhole(e)
  BY <1>3, <1>5, <1>6, <1>7, <1>8, <1>9 DEF IsWhole
<1>11. QED
  BY <1>7, <1>10

\* The schema that is built, if the constructors accept it, can be read again.
LEMMA BuiltReadable ==
    ASSUME NEW a, IsSchema(a), NEW b, IsSchema(b), LinksAndNames(a, b),
           NEW dims, NEW classes, NEW names,
           NEW ns, BothDone(a, b, dims, classes, names, ns, TRUE),
           \A c \in ToSet(BuildSchema(a, dims, classes, ns).classes) : ClassOK(c),
           SchemaOK(BuildSchema(a, dims, classes, ns))
    PROVE  Load(Dump(BuildSchema(a, dims, classes, ns))) = Reread(BuildSchema(a, dims, classes, ns))
<1> DEFINE s == BuildSchema(a, dims, classes, ns)
           Class(c) == [name |-> c.name, dim |-> c.dim,
                        srcName |-> IF c.name \in DOMAIN classes THEN classes[c.name] ELSE Malformed]
           cs == [i \in DOMAIN a.classes |-> Class(a.classes[i])]
<1>1. s = [nodes |-> ns, classes |-> cs, cyclic |-> a.cyclic, undirected |-> a.undirected,
           fanin |-> a.fanin, srcDims |-> dims]
  BY DEF BuildSchema
<1>2. SchemaOK(s) /\ \A c \in ToSet(s.classes) : ClassOK(c)
  OBVIOUS
<1> HIDE DEF s
<1>3. IsList(cs) /\ \A i \in DOMAIN cs : IsClass(cs[i])
  <2>1. /\ DOMAIN cs = DOMAIN a.classes /\ cs = [i \in DOMAIN a.classes |-> cs[i]]
        /\ \A i \in DOMAIN cs : cs[i] = Class(a.classes[i])
    OBVIOUS
  <2>2. IsList(a.classes)
    BY DEF IsSchema
  <2> HIDE DEF cs
  <2>3. IsList(cs)
    BY <2>1, <2>2, MappedList
  <2>4. \A c : IsClass(Class(c))
    BY DEF IsClass
  <2>5. \A i \in DOMAIN cs : IsClass(cs[i])
    BY <2>1, <2>4
  <2>6. QED
    BY <2>3, <2>5
<1> HIDE DEF cs
<1>4. /\ s.nodes = ns /\ s.classes = cs
      /\ s = [nodes |-> s.nodes, classes |-> s.classes, cyclic |-> s.cyclic,
              undirected |-> s.undirected, fanin |-> s.fanin, srcDims |-> s.srcDims]
  BY <1>1
<1>5. IsList(ns) /\ \A e \in ToSet(ns) : BuiltFrom(e, a, b)
  BY DoneBuilt
<1>6. ASSUME NEW i \in DOMAIN ns
      PROVE  IsWhole(ns[i]) /\ \E n \in ToSet(a.nodes) : ns[i].name = n.name /\ ns[i].singleton = n.singleton
  <2>1. ns[i] \in ToSet(ns)
    BY DEF ToSet
  <2>2. BuiltFrom(ns[i], a, b)
    BY <1>5, <2>1
  <2>3. QED
    BY <2>2, BuiltIsWhole
<1>7. ASSUME NEW i \in DOMAIN ns, NEW j \in DOMAIN ns, ns[i].name = ns[j].name
      PROVE  ns[i].singleton = ns[j].singleton
  <2>1. PICK n \in ToSet(a.nodes) : ns[i].name = n.name /\ ns[i].singleton = n.singleton
    BY <1>6
  <2>2. PICK k \in ToSet(a.nodes) : ns[j].name = k.name /\ ns[j].singleton = k.singleton
    BY <1>6
  <2>3. n.name = k.name
    BY <1>7, <2>1, <2>2
  <2>4. DistinctNames(a.nodes)
    BY DEF IsSchema
  <2>5. n = k
    BY <2>3, <2>4 DEF ToSet, DistinctNames
  <2>6. QED
    BY <2>1, <2>2, <2>5
<1>8. IsWholeSchema(s)
  BY <1>2, <1>3, <1>4, <1>5, <1>6, <1>7 DEF IsWholeSchema, ToSet
<1>9. QED
  BY <1>8, SchemaTwice DEF s

\* The nodes of a schema that was read have names, and their links are as they are read.
LEMMA LoadedNodes ==
    ASSUME NEW raw, InputOK(raw), Load(raw) # Malformed
    PROVE  \A n \in ToSet(Load(raw).nodes) : LinksRead(n) /\ n.name # Null
<1> DEFINE ns == [i \in DOMAIN raw.nodes |-> LoadNode(raw.nodes[i])]
           cs == [i \in DOMAIN raw.classes |-> LoadClass(raw.classes[i])]
           s == [nodes |-> ns, classes |-> cs,
                 cyclic |-> raw.cyclic, undirected |-> raw.undirected, fanin |-> raw.fanin,
                 srcDims |-> raw.srcDims]
           OK == /\ \A n \in ToSet(raw.nodes) : \A l \in ToSet(n.links) : LinkOK(l.dim)
                 /\ \A n \in ToSet(s.nodes) : NodeOK(n)
                 /\ \A c \in ToSet(s.classes) : ClassOK(c)
                 /\ SchemaOK(s)
<1>1. Load(raw) = IF OK THEN s ELSE Malformed
  BY DEF Load
<1>2. s.nodes = ns
  OBVIOUS
<1> HIDE DEF s
<1>3. Load(raw) = s /\ OK
  BY <1>1
<1>4. DOMAIN ns = DOMAIN raw.nodes /\ \A i \in DOMAIN ns : ns[i] = LoadNode(raw.nodes[i])
  OBVIOUS
<1> HIDE DEF ns
<1>5. ASSUME NEW i \in DOMAIN ns PROVE LinksRead(ns[i]) /\ ns[i].name # Null
  <2> DEFINE r == raw.nodes[i]
  <2>1. r \in ToSet(raw.nodes)
    BY <1>4 DEF ToSet
  <2>2. ns[i] = LoadNode(r)
    BY <1>4
  <2> HIDE DEF r
  <2>3. (\A l \in ToSet(r.links) : LinkOK(l.dim)) /\ r.name # Null
    BY <1>3, <2>1 DEF InputOK
  <2>4. LoadNode(r).name = r.name
    BY DEF LoadNode
  <2>5. QED
    BY <2>2, <2>3, <2>4, LoadedLinks
<1>6. QED
  BY <1>2, <1>3, <1>5 DEF ToSet

\* The result is there only at the end, and can be read again.
ReadInv ==
    /\ MatchInv
    /\ pc \in {"constraints", "singletons", "nonsingletons", "found"} => LinksAndNames(self, source)
    /\ result # Null => pc = "done" /\ BuiltSchemaIsReadable

\* The end of a call keeps it.
LEMMA BuildReadable ==
    ASSUME ReadInv, Build
    PROVE  ReadInv'
<1>1. MatchInv'
  BY BuildStep DEF ReadInv
<1> DEFINE s == BuildSchema(self, dimMap, classMap, nodes)
           OK == (\A c \in ToSet(s.classes) : ClassOK(c)) /\ SchemaOK(s)
<1>2. /\ pc = "found"
      /\ IF build THEN IF OK THEN Finish("match", s) ELSE Finish("exception", Null)
                  ELSE Finish("match", Null)
  BY DEF Build
<1>3. /\ IsSchema(self) /\ IsSchema(source) /\ build \in BOOLEAN /\ LinksAndNames(self, source)
      /\ BothDone(self, source, dimMap, classMap, nodeMap, nodes, build)
  BY <1>2 DEF ReadInv, MatchInv
<1>4. build /\ OK => Load(Dump(s)) = Reread(s)
  <2>1. SUFFICES ASSUME build, OK PROVE Load(Dump(s)) = Reread(s)
    OBVIOUS
  <2>2. BothDone(self, source, dimMap, classMap, nodeMap, nodes, TRUE)
    BY <1>3, <2>1
  <2>3. QED
    BY <1>3, <2>1, <2>2, BuiltReadable
<1> HIDE DEF OK, s
<1>5. pc' = "done" /\ (result' = Null \/ (build /\ OK /\ result' = s))
  BY <1>2 DEF Finish
<1>6. BuiltSchemaIsReadable'
  <2>1. CASE result' = Null
    BY <2>1 DEF BuiltSchemaIsReadable
  <2>2. CASE build /\ OK /\ result' = s
    <3>1. Load(Dump(result')) = Reread(result')
      BY <1>4, <2>2
    <3>2. QED
      BY <3>1 DEF BuiltSchemaIsReadable
  <2>3. QED
    BY <1>5, <2>1, <2>2
<1>7. QED
  BY <1>1, <1>5, <1>6 DEF ReadInv

\* It is inductive: only the end of a call has a result.
LEMMA NextReadInv == ReadInv /\ [MatchNext]_matchVars => ReadInv'
<1> SUFFICES ASSUME ReadInv, [MatchNext]_matchVars PROVE ReadInv'
  OBVIOUS
<1>1. MatchInv'
  BY NextMatchInv DEF ReadInv
<1>2. CASE Build
  BY <1>2, BuildReadable
<1>3. CASE UNCHANGED matchVars
  <2>1. pc' = pc /\ self' = self /\ source' = source /\ result' = result
    BY <1>3 DEF matchVars
  <2>2. BuiltSchemaIsReadable' <=> BuiltSchemaIsReadable
    BY <2>1 DEF BuiltSchemaIsReadable
  <2>3. QED
    BY <1>1, <2>1, <2>2 DEF ReadInv
<1>4. CASE LoadBoth
  <2>1. /\ pc = "idle" /\ self' = Load(call[1]) /\ source' = Load(call[2]) /\ result' = result
        /\ IF Malformed \in {self', source'} THEN pc' = "done" ELSE pc' = "constraints"
    BY <1>4 DEF LoadBoth
  <2>2. InputOK(call[1]) /\ InputOK(call[2])
    BY CallsAssumption DEF ReadInv, MatchInv
  <2>3. result' = Null
    BY <2>1 DEF ReadInv
  <2>4. pc' # "done" => LinksAndNames(self', source')
    <3>1. SUFFICES ASSUME pc' # "done" PROVE LinksAndNames(self', source')
      OBVIOUS
    <3>2. self' # Malformed /\ source' # Malformed
      BY <2>1, <3>1
    <3>3. \A n \in ToSet(self'.nodes) : LinksRead(n) /\ n.name # Null
      BY <2>1, <2>2, <3>2, LoadedNodes
    <3>4. \A n \in ToSet(source'.nodes) : LinksRead(n) /\ n.name # Null
      BY <2>1, <2>2, <3>2, LoadedNodes
    <3>5. QED
      BY <3>3, <3>4 DEF LinksAndNames
  <2>5. QED
    BY <1>1, <2>3, <2>4 DEF ReadInv
<1>5. CASE Constraints \/ SingletonOrder \/ NonsingletonOrder \/ NoOrderLeft
  <2>1. /\ pc \in {"constraints", "singletons", "nonsingletons", "found"}
        /\ result' = result \/ result' = Null
        /\ self' = self /\ source' = source
    BY <1>5 DEF Constraints, SingletonOrder, NonsingletonOrder, NoOrderLeft, TryOrder, Judge, Finish
  <2>2. result' = Null /\ LinksAndNames(self, source)
    BY <2>1 DEF ReadInv
  <2>3. LinksAndNames(self', source')
    BY <2>1, <2>2
  <2>4. QED
    BY <1>1, <2>2, <2>3 DEF ReadInv
<1>6. QED
  BY <1>2, <1>3, <1>4, <1>5 DEF MatchNext

\* For all schemas that can be read: the schema that match builds can be written, and what
\* is written can be read again.  It is the same schema, but for the field of a singleton, which
\* is renamed and gets the source name of its node.
THEOREM BuiltSchemaCanBeRead == MatchSpec => []BuiltSchemaIsReadable
<1>1. MatchInit => ReadInv
  <2>1. MatchInit => result = Null /\ pc = "idle"
    BY DEF MatchInit
  <2>2. QED
    BY <2>1, InitMatchInv DEF ReadInv
<1>2. ReadInv /\ [MatchNext]_matchVars => ReadInv'
  BY NextReadInv
<1>3. ReadInv => BuiltSchemaIsReadable
  BY DEF ReadInv, BuiltSchemaIsReadable
<1>4. QED
  BY <1>1, <1>2, <1>3, PTL DEF MatchSpec

------------------------------------------------------------------------------
(* A schema accepts itself: every first attempt succeeds.                  *)

\* Whatever the map has, stands for itself.
IsIdentity(m) == \A x \in DOMAIN m : m[x] = x

\* If the first result is a match, it is taken.
LEMMA FirstTaken ==
    ASSUME NEW tried, NEW n \in Nat, n # 0, DOMAIN tried = 1 .. n, tried[1].ok
    PROVE  FirstFit(tried) = tried[1]
<1> DEFINE fits == {i \in DOMAIN tried : tried[i].ok}
<1>1. 1 \in fits /\ fits \in SUBSET (0 .. n) /\ fits # {} /\ fits \subseteq 1 .. n
  OBVIOUS
<1>2. FirstFit(tried) = tried[Min(fits)]
  BY <1>1 DEF FirstFit
<1> HIDE DEF fits
<1>3. Min(fits) \in fits /\ Min(fits) <= 1
  BY <1>1, MinProperties
<1> DEFINE w == Min(fits)
<1>4. w \in 1 .. n /\ w <= 1
  BY <1>1, <1>3
<1> HIDE DEF w
<1>5. w = 1
  BY <1>4
<1>6. QED
  BY <1>2, <1>5 DEF w

\* A list of dimensions fits itself, and its names are bound to themselves.
LEMMA SameDims ==
    ASSUME NEW list, AreDimensions(list), \A i \in DOMAIN list : list[i] # NoDim,
           NEW values, NEW m \in DimMaps(values), IsIdentity(m)
    PROVE  MatchDimList(list, list, m).ok /\ IsIdentity(MatchDimList(list, list, m).dims)
<1> DEFINE V == Values(list, m)
           L == Len(list)
           S == Places(list, list, V)
<1>1. PICK f : /\ f = [q \in S |-> FitStep(list, list, f, q)]
               /\ MatchDimList(list, list, m) = f[<<1, 1, m>>]
  BY MatchDimListSteps
<1>2. L \in Nat /\ DOMAIN list = 1 .. L
  BY DEF AreDimensions
<1>3. m \in DimMaps(V)
  <2>1. PICK names \in SUBSET DimNames : m \in [names -> values]
    BY DEF DimMaps
  <2>2. m \in [names -> V]
    BY <2>1 DEF Values
  <2>3. QED
    BY <2>2 DEF DimMaps
<1>4. \A i \in DOMAIN list : list[i].d \in V
  BY DEF Values
<1>5. \A i \in 1 .. L + 1 : \A k \in DimMaps(V) : <<i, i, k>> \in S
  BY DEF Places
<1>6. \A q \in S : f[q] = FitStep(list, list, f, q)
  BY <1>1
<1> HIDE DEF V, L, S
<1> DEFINE Good(i, k) == f[<<i, i, k>>].ok /\ IsIdentity(f[<<i, i, k>>].dims)
           Inv(n) == \A k \in DimMaps(V) : IsIdentity(k) => Good(L + 1 - n, k)
           T == {n \in Nat : n <= L => Inv(n)}
<1>7. 0 \in T
  <2>1. ASSUME NEW k \in DimMaps(V), IsIdentity(k) PROVE Good(L + 1, k)
    <3> DEFINE q == <<L + 1, L + 1, k>>
    <3>1. q \in S /\ q[1] = L + 1 /\ q[2] = L + 1 /\ q[3] = k
      BY <1>2, <1>5
    <3> HIDE DEF q
    <3>2. AtEnd(list, list, q)
      BY <1>2, <3>1 DEF AtEnd, L
    <3>3. f[q] = Fits(k, EmptyMap)
      BY <1>6, <3>1, <3>2 DEF FitStep
    <3>4. f[q].ok /\ f[q].dims = k
      BY <3>3 DEF Fits
    <3>5. QED
      BY <2>1, <3>4 DEF q
  <2>2. L + 1 - 0 = L + 1
    BY <1>2
  <2> HIDE DEF Good
  <2>3. QED
    BY <2>1, <2>2
<1>8. ASSUME NEW n \in Nat, n \in T PROVE n + 1 \in T
  <2>0. SUFFICES ASSUME n + 1 <= L PROVE Inv(n + 1)
    OBVIOUS
  <2> DEFINE i == L - n
  <2>1. i \in 1 .. L /\ i + 1 = L + 1 - n /\ L + 1 - (n + 1) = i /\ n <= L /\ i \in 1 .. L + 1
    BY <1>2, <2>0
  <2>2. \A k \in DimMaps(V) : IsIdentity(k) => Good(i + 1, k)
    BY <1>8, <2>1
  <2> HIDE DEF i, Good
  <2>3. ASSUME NEW k \in DimMaps(V), IsIdentity(k) PROVE Good(i, k)
    <3> DEFINE q == <<i, i, k>>
               a == list[i]
               with == IF a.d \in DimNames THEN Bind(k, a.d, a.d) ELSE k
               ways == WaysAt(list, list, q)
               tried == [w \in DOMAIN ways |-> IF ways[w].can THEN f[ways[w].to] ELSE Fails]
    <3>1. q \in S /\ q[1] = i /\ q[2] = i /\ q[3] = k
      BY <1>5, <2>1
    <3>2. ~AtEnd(list, list, q)
      <4>1. ~(i > Len(list))
        BY <1>2, <2>1 DEF L
      <4> HIDE DEF q
      <4>2. QED
        BY <3>1, <4>1 DEF AtEnd
    <3>3. DimAt(list, i) = a /\ a # NoDim
      BY <1>2, <2>1 DEF DimAt
    <3>4. FirstsMatch(a, a, k)
      <4>1. a.d \in DOMAIN k => k[a.d] = a.d
        BY <2>3 DEF IsIdentity
      <4> HIDE DEF a
      <4>2. QED
        BY <3>3, <4>1 DEF FirstsMatch
    <3> HIDE DEF q, a
    <3>5. ways = WaysOf(a, a, i, i, k)
      BY <3>1, <3>3 DEF WaysAt
    <3>6. f[q] = FirstFit(tried)
      BY <1>6, <3>1, <3>2 DEF FitStep
    <3>7. DOMAIN ways = 1 .. 5 /\ ways[1].can /\ ways[1].to = <<i + 1, i + 1, with>>
      BY <3>4, <3>5, WaysParts
    <3>8. Leads(list, list, V, q, ways[1].to)
      <4>1. 1 \in 1 .. 5
        OBVIOUS
      <4>2. QED
        BY <1>4, <3>1, <3>7, <4>1, WaysLead DEF S
    <3> HIDE DEF ways
    <3>9. with \in DimMaps(V)
      <4>1. <<i + 1, i + 1, with>> \in Places(list, list, V)
        BY <3>7, <3>8 DEF Leads
      <4> HIDE DEF with
      <4>2. QED
        BY <4>1 DEF Places
    <3>10. IsIdentity(with)
      BY <2>3 DEF IsIdentity, Bind
    <3> HIDE DEF with
    <3>11. Good(i + 1, with)
      BY <2>2, <3>9, <3>10
    <3>12. DOMAIN tried = 1 .. 5 /\ tried[1] = f[<<i + 1, i + 1, with>>]
      BY <3>7
    <3> HIDE DEF tried
    <3>13. tried[1].ok /\ IsIdentity(tried[1].dims)
      BY <3>11, <3>12 DEF Good
    <3>14. FirstFit(tried) = tried[1]
      <4>1. 5 \in Nat /\ 5 # 0
        OBVIOUS
      <4>2. QED
        BY <3>12, <3>13, <4>1, FirstTaken
    <3>15. QED
      BY <3>6, <3>13, <3>14 DEF Good, q
  <2>4. QED
    BY <2>1, <2>3
<1>9. Nat \subseteq T
  <2> HIDE DEF T
  <2>1. QED
    BY <1>7, <1>8, SetInduction
<1>10. Inv(L)
  <2> HIDE DEF Inv
  <2>1. QED
    BY <1>2, <1>9
<1>11. L + 1 - L = 1
  BY <1>2
<1>12. Good(1, m)
  <2> HIDE DEF Good
  <2>1. QED
    BY <1>3, <1>10, <1>11
<1>13. QED
  BY <1>1, <1>12

\* The first order of fields that is tried is the one they have.
LEMMA FirstFieldOrder ==
    ASSUME NEW xs, NEW ys, ys \in Seq(ToSet(ys)), NEW dims, NEW classes, NEW ca, NEW cb,
           FieldsMatch(xs, ys, dims, classes, ca, cb).ok
    PROVE  LET r == FieldOrder(xs, ys, dims, classes, ca, cb)
               s == FieldsMatch(xs, ys, dims, classes, ca, cb)
           IN  r.ok /\ r.dims = s.dims /\ r.classes = s.classes
<1> DEFINE r == FieldOrder(xs, ys, dims, classes, ca, cb)
           all == IF ys = <<>> THEN <<<<>>>> ELSE Orders(ys)
           Fm(order) == FieldsMatch(xs, order, dims, classes, ca, cb)
           Try(order) == [ok |-> Fm(order).ok, dims |-> Fm(order).dims, classes |-> Fm(order).classes,
                          order |-> order]
           tried == [i \in DOMAIN all |-> Try(all[i])]
           s == Fm(ys)
<1>1. r = FirstFit(tried)
  BY DEF FieldOrder
<1>2. \E n \in Nat : n # 0 /\ DOMAIN all = 1 .. n /\ all[1] = ys
  <2>1. CASE ys = <<>>
    <3>1. all = <<<<>>>>
      BY <2>1
    <3>2. DOMAIN all = 1 .. 1 /\ all[1] = <<>>
      BY <3>1
    <3> HIDE DEF all
    <3>3. 1 \in Nat /\ 1 # 0
      OBVIOUS
    <3>4. QED
      BY <2>1, <3>2, <3>3, Zenon
  <2>2. CASE ys # <<>>
    <3>1. all = Orders(ys)
      BY <2>2
    <3> HIDE DEF all
    <3>2. QED
      BY <2>2, <3>1, OrdersOfList
  <2>3. QED
    BY <2>1, <2>2
<1>3. PICK n \in Nat : n # 0 /\ DOMAIN all = 1 .. n /\ all[1] = ys
  BY <1>2
<1>5. s.ok
  OBVIOUS
<1> HIDE DEF all, Fm
<1>6. DOMAIN tried = 1 .. n /\ tried[1] = Try(ys)
  BY <1>3
<1>7. Try(ys).ok = s.ok /\ Try(ys).dims = s.dims /\ Try(ys).classes = s.classes
  OBVIOUS
<1> HIDE DEF tried, Try, r, s
<1>8. tried[1].ok
  BY <1>5, <1>6, <1>7
<1>9. r = tried[1]
  BY <1>1, <1>3, <1>6, <1>8, FirstTaken
<1>10. r.ok /\ r.dims = s.dims /\ r.classes = s.classes
  BY <1>5, <1>6, <1>7, <1>9
<1>11. QED
  BY <1>10 DEF r, s, Fm

\* The maps of a comparison of a schema with itself.
SelfMaps(dims, classes, D, V, cs) ==
    MapsOK(dims, classes, D, V, cs, cs) /\ IsIdentity(dims) /\ IsIdentity(classes)

\* A comparison that succeeds and leaves such maps.
SelfFits(r, D, V, cs) == r.ok /\ SelfMaps(r.dims, r.classes, D, V, cs)

\* A tensor whose dimensions are there.
HasDims(f) == f.type = "tensor" => \A i \in DOMAIN f.dim : f.dim[i] # NoDim

\* A field fits itself.
LEMMA SameField ==
    ASSUME NEW D, NEW V,
           NEW cs, \A c \in ToSet(cs) : c.dim \in V, \A c \in ToSet(cs) : c.dim \in D,
           NEW f, Comparable(f, f, D, V, cs, cs), HasDims(f),
           NEW u, SelfFits(u, D, V, cs)
    PROVE  SelfFits(FieldNext(f, f, u, cs, cs), D, V, cs)
<1> DEFINE dims == u.dims
           classes == u.classes
<1>1. MapsOK(dims, classes, D, V, cs, cs) /\ IsIdentity(dims) /\ IsIdentity(classes) /\ u.ok
  BY DEF SelfFits, SelfMaps
<1> HIDE DEF dims, classes
<1>2. CASE f.type = "tensor"
  <2> DEFINE r == MatchDimList(f.dim, f.dim, dims)
             s == MatchTensor(f, f, dims, classes)
  <2>1. AreDimensions(f.dim) /\ (\A i \in DOMAIN f.dim : f.dim[i] # NoDim) /\ dims \in DimMaps(V)
    BY <1>1, <1>2 DEF Comparable, HasDims, MapsOK
  <2>2. r.ok /\ IsIdentity(r.dims)
    BY <1>1, <2>1, SameDims
  <2>3. s = Fits(r.dims, classes)
    BY <2>2 DEF MatchTensor
  <2> HIDE DEF r, s
  <2>4. s.ok /\ s.dims = r.dims /\ s.classes = classes
    BY <2>3 DEF Fits
  <2>5. MapsOK(s.dims, s.classes, D, V, cs, cs)
    <3>1. Grown(s, dims, classes, D, V, cs, cs)
      BY <1>1, <1>2, <2>4, TensorSound DEF s
    <3>2. QED
      BY <3>1 DEF Grown
  <2>6. FieldNext(f, f, u, cs, cs) = s
    BY <1>1, <1>2 DEF FieldNext, s, dims, classes
  <2>7. QED
    BY <1>1, <2>2, <2>4, <2>5, <2>6 DEF SelfFits, SelfMaps
<1>3. CASE f.type # "tensor"
  <2> DEFINE s == MatchCategory(f, f, dims, classes, cs, cs)
             c == Get(cs, f.class)
             r == MatchClass(c, c, dims)
  <2>1. f.type = "category"
    BY <1>3 DEF Comparable
  <2>2. s.ok /\ IsIdentity(s.dims) /\ IsIdentity(s.classes)
    <3>1. CASE f.class \in DOMAIN classes
      <4>1. classes[f.class] = f.class
        BY <1>1, <3>1 DEF IsIdentity
      <4>2. s = Fits(dims, classes)
        BY <3>1, <4>1 DEF MatchCategory
      <4>3. s.ok /\ s.dims = dims /\ s.classes = classes
        BY <4>2 DEF Fits
      <4>4. QED
        BY <1>1, <4>3
    <3>2. CASE f.class \notin DOMAIN classes
      <4> HIDE DEF c
      <4>1. r.ok /\ IsIdentity(r.dims)
        <5>1. CASE c.dim \notin DimNames
          BY <1>1, <5>1 DEF MatchClass
        <5>2. CASE c.dim \in DimNames /\ c.dim \in DOMAIN dims
          BY <1>1, <5>2 DEF MatchClass, IsIdentity
        <5>3. CASE c.dim \in DimNames /\ c.dim \notin DOMAIN dims
          <6>1. r.ok /\ r.dims = Bind(dims, c.dim, c.dim)
            BY <5>3 DEF MatchClass
          <6>2. IsIdentity(Bind(dims, c.dim, c.dim))
            BY <1>1 DEF IsIdentity, Bind
          <6>3. QED
            BY <6>1, <6>2
        <5>4. QED
          BY <5>1, <5>2, <5>3
      <4>2. s = Fits(r.dims, Bind(classes, f.class, f.class))
        BY <3>2, <4>1 DEF MatchCategory, c
      <4> HIDE DEF s, r
      <4>3. s.ok /\ s.dims = r.dims /\ s.classes = Bind(classes, f.class, f.class)
        BY <4>2 DEF Fits
      <4>4. IsIdentity(Bind(classes, f.class, f.class))
        BY <1>1 DEF IsIdentity, Bind
      <4>5. QED
        BY <4>1, <4>3, <4>4
    <3>3. QED
      BY <3>1, <3>2
  <2> HIDE DEF s
  <2>3. MapsOK(s.dims, s.classes, D, V, cs, cs)
    <3>1. Grown(s, dims, classes, D, V, cs, cs)
      BY <1>1, <2>1, <2>2, CategorySound DEF s
    <3>2. QED
      BY <3>1 DEF Grown
  <2>4. FieldNext(f, f, u, cs, cs) = s
    BY <1>1, <1>3 DEF FieldNext, s, dims, classes
  <2>5. QED
    BY <2>2, <2>3, <2>4 DEF SelfFits, SelfMaps
<1>4. QED
  BY <1>2, <1>3

\* So do fields in the order they have,
LEMMA SameFields ==
    ASSUME NEW D, NEW V,
           NEW cs, \A c \in ToSet(cs) : c.dim \in V, \A c \in ToSet(cs) : c.dim \in D,
           NEW xs, Len(xs) \in Nat,
           \A i \in 1 .. Len(xs) : Comparable(xs[i], xs[i], D, V, cs, cs) /\ HasDims(xs[i]),
           NEW dims, NEW classes, SelfMaps(dims, classes, D, V, cs)
    PROVE  SelfFits(FieldsMatch(xs, xs, dims, classes, cs, cs), D, V, cs)
<1> DEFINE M == Len(xs)
<1>0. PICK U : /\ FieldsMatch(xs, xs, dims, classes, cs, cs) = U[M]
               /\ \A i \in 0 .. M : U[i] = FieldStep(xs, xs, Fits(dims, classes), cs, cs, U, i)
  BY FieldsMatchSteps
<1>1. M \in Nat
  OBVIOUS
<1> HIDE DEF M
<1> DEFINE Inv(i) == SelfFits(U[i], D, V, cs)
           T == {i \in Nat : i <= M => Inv(i)}
<1>2. 0 \in T
  <2>1. U[0] = Fits(dims, classes)
    BY <1>0, <1>1 DEF FieldStep
  <2>2. U[0].ok /\ U[0].dims = dims /\ U[0].classes = classes
    BY <2>1 DEF Fits
  <2>3. QED
    BY <2>2 DEF SelfFits
<1>3. ASSUME NEW i \in Nat, i \in T PROVE i + 1 \in T
  <2>0. SUFFICES ASSUME i + 1 <= M PROVE Inv(i + 1)
    OBVIOUS
  <2>1. i + 1 \in 0 .. M /\ i + 1 # 0 /\ (i + 1) - 1 = i /\ i <= M /\ i + 1 \in 1 .. M
    BY <1>1, <2>0
  <2> DEFINE u == U[i]
             f == xs[i + 1]
  <2>2. U[i + 1] = FieldNext(f, f, u, cs, cs)
    BY <1>0, <2>1 DEF FieldStep
  <2>3. SelfFits(u, D, V, cs)
    BY <1>3, <2>1
  <2>4. Comparable(f, f, D, V, cs, cs) /\ HasDims(f)
    BY <2>1 DEF M
  <2> HIDE DEF u, f
  <2>5. SelfFits(FieldNext(f, f, u, cs, cs), D, V, cs)
    BY <2>3, <2>4, SameField
  <2>6. QED
    BY <2>2, <2>5
<1>4. Nat \subseteq T
  <2> HIDE DEF T
  <2>1. QED
    BY <1>2, <1>3, SetInduction
<1>5. Inv(M)
  <2> HIDE DEF Inv
  <2>1. QED
    BY <1>1, <1>4
<1>6. QED
  BY <1>0, <1>5

\* which is the first order that is tried,
LEMMA SameFieldOrder ==
    ASSUME NEW D, NEW V,
           NEW cs, \A c \in ToSet(cs) : c.dim \in V, \A c \in ToSet(cs) : c.dim \in D,
           NEW xs, xs \in Seq(ToSet(xs)),
           \A i \in 1 .. Len(xs) : Comparable(xs[i], xs[i], D, V, cs, cs) /\ HasDims(xs[i]),
           NEW dims, NEW classes, SelfMaps(dims, classes, D, V, cs)
    PROVE  SelfFits(FieldOrder(xs, xs, dims, classes, cs, cs), D, V, cs)
<1> DEFINE r == FieldOrder(xs, xs, dims, classes, cs, cs)
           s == FieldsMatch(xs, xs, dims, classes, cs, cs)
<1>1. Len(xs) \in Nat
  OBVIOUS
<1>2. SelfFits(s, D, V, cs)
  BY <1>1, SameFields
<1>3. r.ok /\ r.dims = s.dims /\ r.classes = s.classes
  BY <1>2, FirstFieldOrder DEF SelfFits
<1> HIDE DEF r, s
<1>4. SelfFits(r, D, V, cs)
  BY <1>2, <1>3 DEF SelfFits
<1>5. QED
  BY <1>4 DEF r

\* A node whose fields and links can be compared with themselves.
HasParts(n) ==
    /\ \A i \in DOMAIN n.fields : HasDims(n.fields[i])
    /\ \A l \in ToSet(n.links) : l.dim[1] \in Int /\ l.dim[2] \in Int

\* the node,
LEMMA SameNode ==
    ASSUME NEW D, NEW V,
           NEW cs, \A c \in ToSet(cs) : c.dim \in V, \A c \in ToSet(cs) : c.dim \in D,
           NEW n, IsNode(n, cs), DimsIn(n, D), DimsIn(n, V), HasParts(n),
           NEW names, LinksMatch(n, n, names),
           NEW dims, NEW classes, SelfMaps(dims, classes, D, V, cs)
    PROVE  SelfFits(MatchNode(n, n, dims, classes, names, cs, cs), D, V, cs)
<1> DEFINE r == MatchNode(n, n, dims, classes, names, cs, cs)
           nt == OfType(n, "tensor")
           nc == OfType(n, "category")
           t == FieldOrder(nt, nt, dims, classes, cs, cs)
           c == FieldOrder(nc, nc, t.dims, t.classes, cs, cs)
           b == BuildNode(n, n, t.order, c.order)
           done == [ok |-> TRUE, dims |-> c.dims, classes |-> c.classes, node |-> b]
<1>1. r = IF CountsMatch(n, n) /\ LinksMatch(n, n, names)
          THEN IF ~t.ok THEN Fails ELSE IF ~c.ok THEN Fails ELSE done
          ELSE Fails
  BY DEF MatchNode
<1>2. CountsMatch(n, n)
  BY DEF CountsMatch
<1>3. nt \in Seq(ToSet(nt)) /\ nc \in Seq(ToSet(nc))
  BY OfTypeFields
<1>4. ASSUME NEW type \in {"tensor", "category"}
      PROVE  LET xs == OfType(n, type)
             IN  \A i \in 1 .. Len(xs) : Comparable(xs[i], xs[i], D, V, cs, cs) /\ HasDims(xs[i])
  <2> DEFINE xs == OfType(n, type)
  <2>1. AllComparable(xs, xs, D, V, cs, cs)
    BY OfTypeComparable
  <2>2. /\ xs \in Seq(ToSet(xs))
        /\ \A p \in DOMAIN xs : \E i \in FieldPlaces(n, type) : xs[p] = n.fields[i]
    BY OfTypeFields
  <2> HIDE DEF xs
  <2>3. DOMAIN xs = 1 .. Len(xs)
    BY <2>2
  <2>4. \A p \in DOMAIN xs : HasDims(xs[p])
    BY <2>2 DEF HasParts, FieldPlaces
  <2>5. \A i \in 1 .. Len(xs) : Comparable(xs[i], xs[i], D, V, cs, cs) /\ HasDims(xs[i])
    BY <2>1, <2>3, <2>4 DEF AllComparable
  <2>6. QED
    BY <2>5 DEF xs
<1>5. /\ \A i \in 1 .. Len(nt) : Comparable(nt[i], nt[i], D, V, cs, cs) /\ HasDims(nt[i])
      /\ \A i \in 1 .. Len(nc) : Comparable(nc[i], nc[i], D, V, cs, cs) /\ HasDims(nc[i])
  BY <1>4
<1> HIDE DEF nt, nc
<1>6. SelfFits(t, D, V, cs)
  BY <1>3, <1>5, SameFieldOrder
<1> HIDE DEF t
<1>7. SelfMaps(t.dims, t.classes, D, V, cs) /\ t.ok
  BY <1>6 DEF SelfFits
<1>8. SelfFits(c, D, V, cs)
  BY <1>3, <1>5, <1>7, SameFieldOrder
<1> HIDE DEF c, b, done
<1>9. r = done
  BY <1>1, <1>2, <1>7, <1>8 DEF SelfFits
<1>10. r.ok /\ r.dims = c.dims /\ r.classes = c.classes
  BY <1>9 DEF done
<1> HIDE DEF r
<1>11. SelfFits(r, D, V, cs)
  BY <1>8, <1>10 DEF SelfFits
<1>12. QED
  BY <1>11 DEF r

\* and nodes in the order they have.
LEMMA SameNodes ==
    ASSUME NEW D, NEW V,
           NEW cs, \A c \in ToSet(cs) : c.dim \in V, \A c \in ToSet(cs) : c.dim \in D,
           NEW M \in Nat, NEW xs, NEW names,
           \A i \in 1 .. M : /\ IsNode(xs[i], cs) /\ DimsIn(xs[i], D) /\ DimsIn(xs[i], V) /\ HasParts(xs[i])
                             /\ LinksMatch(xs[i], xs[i], names),
           NEW dims, NEW classes, SelfMaps(dims, classes, D, V, cs)
    PROVE  SelfFits(NodesMatch(M, xs, xs, dims, classes, names, cs, cs), D, V, cs)
<1>0. PICK U : /\ NodesMatch(M, xs, xs, dims, classes, names, cs, cs) = U[M]
               /\ \A i \in 0 .. M : U[i] = NodeStep(xs, xs, NoNodes(dims, classes), names, cs, cs, U, i)
  BY NodesMatchSteps
<1> DEFINE Inv(i) == SelfFits(U[i], D, V, cs)
           T == {i \in Nat : i <= M => Inv(i)}
<1>2. 0 \in T
  <2>1. U[0] = NoNodes(dims, classes)
    BY <1>0 DEF NodeStep
  <2>2. U[0].ok /\ U[0].dims = dims /\ U[0].classes = classes
    BY <2>1 DEF NoNodes
  <2>3. QED
    BY <2>2 DEF SelfFits
<1>3. ASSUME NEW i \in Nat, i \in T PROVE i + 1 \in T
  <2>0. SUFFICES ASSUME i + 1 <= M PROVE Inv(i + 1)
    OBVIOUS
  <2>1. i + 1 \in 0 .. M /\ i + 1 # 0 /\ (i + 1) - 1 = i /\ i <= M /\ i + 1 \in 1 .. M
    BY <2>0
  <2> DEFINE u == U[i]
             v == U[i + 1]
             n == xs[i + 1]
             t == MatchNode(n, n, u.dims, u.classes, names, cs, cs)
             joined == [ok |-> TRUE, dims |-> t.dims, classes |-> t.classes, built |-> Append(u.built, t.node)]
  <2>2. v = IF ~u.ok THEN Fails ELSE IF ~t.ok THEN Fails ELSE joined
    BY <1>0, <2>1 DEF NodeStep, NodeNext
  <2>3. SelfFits(u, D, V, cs)
    BY <1>3, <2>1
  <2>4. IsNode(n, cs) /\ DimsIn(n, D) /\ DimsIn(n, V) /\ HasParts(n) /\ LinksMatch(n, n, names)
    BY <2>1
  <2> HIDE DEF u, v, n
  <2>5. u.ok /\ SelfMaps(u.dims, u.classes, D, V, cs)
    BY <2>3 DEF SelfFits
  <2>6. SelfFits(t, D, V, cs)
    BY <2>4, <2>5, SameNode
  <2> HIDE DEF t, joined
  <2>7. v = joined
    BY <2>2, <2>5, <2>6 DEF SelfFits
  <2>8. v.ok /\ v.dims = t.dims /\ v.classes = t.classes
    BY <2>7 DEF joined
  <2>9. SelfFits(v, D, V, cs)
    BY <2>6, <2>8 DEF SelfFits
  <2>10. QED
    BY <2>9 DEF v
<1>4. Nat \subseteq T
  <2> HIDE DEF T
  <2>1. QED
    BY <1>2, <1>3, SetInduction
<1>5. Inv(M)
  <2> HIDE DEF Inv
  <2>1. QED
    BY <1>4
<1>6. QED
  BY <1>0, <1>5

\* The dimensions of a description are there.
LEMMA InputDims ==
    ASSUME NEW raw, InputOK(raw), NEW i \in DOMAIN raw.nodes
    PROVE  /\ \A k \in DOMAIN raw.nodes[i].dim : raw.nodes[i].dim[k] # NoDim
           /\ \A j \in DOMAIN raw.nodes[i].fields : \A k \in DOMAIN raw.nodes[i].fields[j].dim :
                raw.nodes[i].fields[j].dim[k] # NoDim
<1> DEFINE n == raw.nodes[i]
<1>1. n \in ToSet(raw.nodes)
  BY DEF ToSet
<1> HIDE DEF n
<1>2. \A f \in ToSet(n.fields) \cup {n} : \A k \in DOMAIN f.dim : f.dim[k].d # Null
  BY <1>1 DEF InputOK
<1>3. NoDim.d = Null
  BY DEF NoDim
<1>4. \A f \in ToSet(n.fields) \cup {n} : \A k \in DOMAIN f.dim : f.dim[k] # NoDim
  BY <1>2, <1>3
<1>5. \A j \in DOMAIN n.fields : n.fields[j] \in ToSet(n.fields)
  BY DEF ToSet
<1>6. QED
  BY <1>4, <1>5 DEF n

\* The bounds of a link that was checked are numbers.
LEMMA LinkBounds ==
    ASSUME NEW dim, LinkOK(dim)
    PROVE  Link(dim)[1] \in Int /\ Link(dim)[2] \in Int
<1>1. CASE Len(dim) = 1
  <2>1. dim[1] \in Int
    BY <1>1, InfAssumption DEF LinkOK
  <2>2. Link(dim) = <<dim[1], dim[1]>>
    BY <1>1 DEF Link
  <2>3. QED
    BY <2>1, <2>2
<1>2. CASE Len(dim) # 1
  <2>1. dim[1] \in Int /\ dim[2] \in Int
    BY <1>2, InfAssumption DEF LinkOK
  <2>2. Link(dim) = dim
    BY <1>2 DEF Link
  <2>3. QED
    BY <2>1, <2>2
<1>3. QED
  BY <1>1, <1>2

\* The parts of a node that was read can be compared with themselves.
LEMMA LoadHasParts ==
    ASSUME NEW raw, \A k \in DOMAIN raw.dim : raw.dim[k] # NoDim,
           \A j \in DOMAIN raw.fields : \A k \in DOMAIN raw.fields[j].dim : raw.fields[j].dim[k] # NoDim,
           \A l \in ToSet(raw.links) : LinkOK(l.dim)
    PROVE  HasParts(LoadNode(raw))
<1> DEFINE n == LoadNode(raw)
           links == [i \in DOMAIN raw.links |-> LoadLink(raw.links[i])]
           many == [i \in DOMAIN raw.fields |-> LoadField(raw.fields[i], raw.fields[i].name)]
           one == <<LoadField(raw, "field")>>
<1>1. /\ n.links = links
      /\ n.fields = IF raw.singleton = TRUE /\ raw.fields = <<>> THEN one ELSE many
  BY DEF LoadNode
<1>2. \A l \in ToSet(links) : l.dim[1] \in Int /\ l.dim[2] \in Int
  <2>1. DOMAIN links = DOMAIN raw.links /\ \A i \in DOMAIN links : links[i].dim = Link(raw.links[i].dim)
    BY DEF LoadLink
  <2> HIDE DEF links
  <2>2. \A i \in DOMAIN raw.links : LinkOK(raw.links[i].dim)
    BY DEF ToSet
  <2>3. \A i \in DOMAIN links : links[i].dim[1] \in Int /\ links[i].dim[2] \in Int
    BY <2>1, <2>2, LinkBounds
  <2>4. QED
    BY <2>3 DEF ToSet
<1>3. \A i \in DOMAIN many : HasDims(many[i])
  <2>1. DOMAIN many = DOMAIN raw.fields /\ \A i \in DOMAIN many : many[i].dim = raw.fields[i].dim
    BY DEF LoadField
  <2> HIDE DEF many
  <2>2. QED
    BY <2>1 DEF HasDims
<1>4. \A i \in DOMAIN one : HasDims(one[i])
  <2>1. DOMAIN one = 1 .. 1 /\ one[1].dim = raw.dim
    BY DEF LoadField
  <2> HIDE DEF one
  <2>2. \A i \in DOMAIN one : one[i].dim = raw.dim
    BY <2>1
  <2>3. QED
    BY <2>2 DEF HasDims
<1> HIDE DEF n, links, many, one
<1>5. HasParts(n)
  BY <1>1, <1>2, <1>3, <1>4 DEF HasParts
<1>6. QED
  BY <1>5 DEF n

\* So can all nodes of a schema that was read.
LEMMA LoadedHasParts ==
    ASSUME NEW raw, InputOK(raw), Load(raw) # Malformed
    PROVE  \A n \in ToSet(Load(raw).nodes) : HasParts(n)
<1> DEFINE ns == [i \in DOMAIN raw.nodes |-> LoadNode(raw.nodes[i])]
           cs == [i \in DOMAIN raw.classes |-> LoadClass(raw.classes[i])]
           s == [nodes |-> ns, classes |-> cs,
                 cyclic |-> raw.cyclic, undirected |-> raw.undirected, fanin |-> raw.fanin,
                 srcDims |-> raw.srcDims]
           OK == /\ \A n \in ToSet(raw.nodes) : \A l \in ToSet(n.links) : LinkOK(l.dim)
                 /\ \A n \in ToSet(s.nodes) : NodeOK(n)
                 /\ \A c \in ToSet(s.classes) : ClassOK(c)
                 /\ SchemaOK(s)
<1>1. Load(raw) = IF OK THEN s ELSE Malformed
  BY DEF Load
<1>2. s.nodes = ns
  OBVIOUS
<1> HIDE DEF s
<1>3. Load(raw) = s /\ OK
  BY <1>1
<1>4. DOMAIN ns = DOMAIN raw.nodes /\ \A i \in DOMAIN ns : ns[i] = LoadNode(raw.nodes[i])
  OBVIOUS
<1> HIDE DEF ns
<1>5. ASSUME NEW i \in DOMAIN ns PROVE HasParts(ns[i])
  <2> DEFINE r == raw.nodes[i]
  <2>1. /\ \A k \in DOMAIN r.dim : r.dim[k] # NoDim
        /\ \A j \in DOMAIN r.fields : \A k \in DOMAIN r.fields[j].dim : r.fields[j].dim[k] # NoDim
    BY <1>4, InputDims
  <2>2. \A l \in ToSet(r.links) : LinkOK(l.dim)
    <3>1. r \in ToSet(raw.nodes)
      BY <1>4 DEF ToSet
    <3> HIDE DEF r
    <3>2. QED
      BY <1>3, <3>1
  <2>3. ns[i] = LoadNode(r)
    BY <1>4
  <2> HIDE DEF r
  <2>4. QED
    BY <2>1, <2>2, <2>3, LoadHasParts
<1>6. \A n \in ToSet(ns) : HasParts(n)
  BY <1>5 DEF ToSet
<1>7. QED
  BY <1>2, <1>3, <1>6

\* The links of a node lead to names that are kept.
LEMMA SameLinks ==
    ASSUME NEW s, IsSchema(s), NEW n \in ToSet(s.nodes), IsNode(n, s.classes), HasParts(n),
           NEW names,
           \A x \in Names(Nonsingletons(s)) : x \in DOMAIN names /\ names[x] = x
    PROVE  LinksMatch(n, n, names)
<1> SUFFICES ASSUME NEW l \in ToSet(n.links)
             PROVE  l.name \in DOMAIN names /\ names[l.name] = l.name
                    /\ l.name \in Names(n.links) /\ MatchLink(l, Get(n.links, l.name))
  BY DEF LinksMatch
<1>1. l.name \in Names(Nonsingletons(s))
  <2> DEFINE to == Get(s.nodes, l.name)
  <2>1. l.name \in Names(s.nodes) /\ ~to.singleton
    BY DEF IsSchema, SchemaOK, LinksOK
  <2>2. to \in ToSet(s.nodes) /\ to.name = l.name
    BY <2>1, GetFrom
  <2> HIDE DEF to
  <2>3. to \in ToSet(Singletons(s)) \/ to \in ToSet(Nonsingletons(s))
    BY <2>2, KindsCover
  <2>4. \A i \in DOMAIN Singletons(s) : Singletons(s)[i].singleton = TRUE
    BY Kinds DEF KindOf
  <2>5. to \in ToSet(Nonsingletons(s))
    BY <2>1, <2>3, <2>4 DEF ToSet
  <2>6. QED
    BY <2>2, <2>5 DEF ToSet, Names
<1>2. PICK i \in DOMAIN n.links : l = n.links[i]
  BY DEF ToSet
<1>3. Get(n.links, l.name) = l
  BY <1>2, GetNamed DEF IsNode
<1>4. l.name \in Names(n.links)
  BY <1>2 DEF Names
<1>5. MatchLink(l, l)
  BY DEF MatchLink, HasParts
<1>6. QED
  BY <1>1, <1>3, <1>4, <1>5

\* A list gives its own names to itself.
LEMMA NameMapItself ==
    ASSUME NEW A, IsList(A), DistinctNames(A)
    PROVE  DOMAIN NameMap(A, A) = Names(A) /\ IsIdentity(NameMap(A, A))
<1>1. DOMAIN A \cap DOMAIN A = DOMAIN A
  OBVIOUS
<1>2. NameMap(A, A) = [n \in Names(A) |-> A[CHOOSE i \in DOMAIN A : A[i].name = n].name]
  BY <1>1 DEF NameMap, Names
<1>3. ASSUME NEW n \in Names(A) PROVE A[CHOOSE i \in DOMAIN A : A[i].name = n].name = n
  <2>1. \E i \in DOMAIN A : A[i].name = n
    BY DEF Names
  <2>2. QED
    BY <2>1
<1>4. QED
  BY <1>2, <1>3 DEF IsIdentity

\* The nodes of one kind, in the order they have, fit themselves.
LEMMA SameKind ==
    ASSUME NEW s, IsSchema(s), \A n \in ToSet(s.nodes) : HasParts(n),
           NEW A, NEW kind, KindOf(A, s, kind), NEW names,
           \A i \in DOMAIN A : LinksMatch(A[i], A[i], names),
           NEW dims, NEW classes,
           MapsOK(dims, classes, Occurring(s), Meanings(s), s.classes, s.classes),
           IsIdentity(dims), IsIdentity(classes)
    PROVE  LET r == NodesMatch(Len(A), A, A, dims, classes, names, s.classes, s.classes)
           IN  r.ok /\ IsIdentity(r.dims) /\ IsIdentity(r.classes)
<1> DEFINE D == Occurring(s)
           V == Meanings(s)
           cs == s.classes
           M == Len(A)
<1>1. (\A c \in ToSet(cs) : c.dim \in V) /\ \A c \in ToSet(cs) : c.dim \in D
  BY ClassDimsIn, ClassDimsOccur
<1>2. M \in Nat /\ DOMAIN A = 1 .. M
  BY ListOfElements DEF KindOf
<1>3. ASSUME NEW i \in 1 .. M
      PROVE  /\ IsNode(A[i], cs) /\ DimsIn(A[i], D) /\ DimsIn(A[i], V) /\ HasParts(A[i])
             /\ LinksMatch(A[i], A[i], names)
  <2>1. IsNode(A[i], cs) /\ A[i] \in ToSet(s.nodes)
    BY <1>2 DEF KindOf
  <2>2. DimsIn(A[i], D) /\ DimsIn(A[i], V)
    BY <2>1, TensorDimsIn, TensorDimsOccur
  <2>3. QED
    BY <1>2, <2>1, <2>2
<1>4. SelfMaps(dims, classes, D, V, cs)
  BY DEF SelfMaps
<1> HIDE DEF D, V, cs, M
<1>5. SelfFits(NodesMatch(M, A, A, dims, classes, names, cs, cs), D, V, cs)
  BY <1>1, <1>2, <1>3, <1>4, SameNodes
<1>6. QED
  BY <1>5 DEF SelfFits, SelfMaps, cs, M

\* A new iterator returns the list itself first, if it has elements.
LEMMA FirstOrder ==
    ASSUME NEW B, IsList(B)
    PROVE  /\ Permutation(B).x = B
           /\ HasNext(Permutation(B)) <=> B # <<>>
           /\ HasNext(Permutation(B)) => NextOrder(Permutation(B)).x = B
<1> DEFINE it == Permutation(B)
<1>1. B \in Seq(ToSet(B))
  BY DEF IsList
<1>2. IsIterator(it, B) /\ it.x = B /\ it.iterations = 0
  BY <1>1, PermutationIsIterator
<1>3. it.max = Factorial(Len(B))
  BY <1>2 DEF IsIterator
<1> HIDE DEF it
<1>4. HasNext(it) => NextOrder(it).x = B
  BY <1>1, <1>2, NextIsIterator
<1>5. HasNext(it) <=> 0 < Factorial(Len(B))
  BY <1>2, <1>3 DEF HasNext
<1>6. B # <<>> => 0 < Factorial(Len(B))
  <2> DEFINE m == Factorial(Len(B))
  <2>1. B # <<>> => m \in Nat \ {0}
    BY <1>1, OrdersOfList
  <2> HIDE DEF m
  <2>2. B # <<>> => 0 < m
    BY <2>1
  <2>3. QED
    BY <2>2 DEF m
<1>7. B = <<>> => ~(0 < Factorial(Len(B)))
  BY DEF Factorial
<1>8. QED
  BY <1>2, <1>4, <1>5, <1>6, <1>7 DEF it

\* The number of pairs that a schema is compared with itself.
LEMMA AllPairs ==
    ASSUME NEW n \in Nat
    PROVE  Min({n, n, n}) = n
<1> DEFINE w == Min({n, n, n})
<1>1. w \in {n, n, n}
  BY SmallestOfThree
<1> HIDE DEF w
<1>2. w = n
  BY <1>1
<1>3. QED
  BY <1>2 DEF w

\* The inductive invariant of a call that compares a schema with itself: each loop is
\* before its first order, and what was bound so far stands for itself.
SelfInv ==
    /\ MatchInv
    /\ self = source =>
        /\ pc \in {"constraints", "singletons", "nonsingletons", "found"} =>
            \A n \in ToSet(source.nodes) : HasParts(n)
        /\ pc = "singletons" => orders = Permutation(Singletons(source))
        /\ pc = "nonsingletons" =>
            /\ orders = Permutation(Nonsingletons(source))
            /\ IsIdentity(dimMap) /\ IsIdentity(classMap)
        /\ SchemaMatchesItself

\* The singletons are found in the order they have,
LEMMA SelfSingletons ==
    ASSUME SelfInv, SingletonOrder, self = source
    PROVE  /\ pc' = "nonsingletons" /\ orders' = Permutation(Nonsingletons(source))
           /\ IsIdentity(dimMap') /\ IsIdentity(classMap') /\ source' = source
<1> DEFINE it == NextOrder(orders)
           B == Singletons(source)
           there == Min({Len(B), Len(B), Len(it.x)})
           r == NodesMatch(there, B, it.x, dimMap, classMap, nodeMap, source.classes, source.classes)
<1>1. pc = "singletons" /\ HasNext(orders) /\ Judge(it, r, B, there, Len(B))
  BY DEF SingletonOrder, TryOrder
<1>2. /\ IsSchema(source) /\ orders = Permutation(B) /\ \A n \in ToSet(source.nodes) : HasParts(n)
      /\ dimMap = EmptyMap /\ classMap = EmptyMap
  BY <1>1 DEF SelfInv, MatchInv
<1>3. Len(B) \in Nat /\ IsList(B) /\ KindOf(B, source, TRUE)
  BY <1>2, KindLengths, Kinds
<1>4. it.x = B /\ B # <<>>
  BY <1>1, <1>2, <1>3, FirstOrder
<1> HIDE DEF it
<1>5. there = Len(B)
  BY <1>3, <1>4, AllPairs
<1>6. Len(B) > 0
  BY <1>3, <1>4, EmptyListIs
<1>7. \A i \in DOMAIN B : LinksMatch(B[i], B[i], nodeMap)
  <2>1. SUFFICES ASSUME NEW i \in DOMAIN B PROVE B[i].links = <<>>
    BY DEF LinksMatch, ToSet
  <2>2. NodeOK(B[i]) /\ B[i].singleton = TRUE
    BY <1>3 DEF KindOf
  <2>3. QED
    BY <2>2 DEF NodeOK
<1>8. IsIdentity(EmptyMap)
  BY DEF IsIdentity, EmptyMap
<1>9. r.ok /\ IsIdentity(r.dims) /\ IsIdentity(r.classes)
  <2>1. r = NodesMatch(Len(B), B, B, EmptyMap, EmptyMap, nodeMap, source.classes, source.classes)
    BY <1>2, <1>4, <1>5
  <2>2. MapsOK(EmptyMap, EmptyMap, Occurring(source), Meanings(source), source.classes, source.classes)
    BY EmptyMapsOK
  <2> HIDE DEF r, B
  <2>3. QED
    BY <1>2, <1>3, <1>7, <1>8, <2>1, <2>2, SameKind
<1> HIDE DEF r, B, there
<1>10. ~(there < Len(B))
  BY <1>3, <1>5
<1>11. QED
  BY <1>1, <1>6, <1>9, <1>10 DEF Judge

\* and so are the other nodes.
LEMMA SelfNonsingletons ==
    ASSUME SelfInv, NonsingletonOrder, self = source
    PROVE  pc' = "found" /\ source' = source
<1> DEFINE it == NextOrder(orders)
           B == Nonsingletons(source)
           there == Min({Len(B), Len(B), Len(it.x)})
           more == Assign(nodeMap, NameMap(B, it.x))
           r == NodesMatch(there, B, it.x, dimMap, classMap, more, source.classes, source.classes)
<1>1. pc = "nonsingletons" /\ HasNext(orders) /\ Judge(it, r, B, there, Len(B))
  BY DEF NonsingletonOrder, TryOrder
<1>2. /\ IsSchema(source) /\ orders = Permutation(B) /\ \A n \in ToSet(source.nodes) : HasParts(n)
      /\ IsIdentity(dimMap) /\ IsIdentity(classMap)
      /\ FirstDone(source, source, dimMap, classMap, nodeMap, nodes, build)
  BY <1>1 DEF SelfInv, MatchInv
<1>3. Len(B) \in Nat /\ IsList(B) /\ KindOf(B, source, FALSE)
  BY <1>2, KindLengths, Kinds
<1>4. it.x = B /\ B # <<>>
  BY <1>1, <1>2, <1>3, FirstOrder
<1> HIDE DEF it
<1>5. there = Len(B)
  BY <1>3, <1>4, AllPairs
<1>6. Len(B) > 0
  BY <1>3, <1>4, EmptyListIs
<1>7. \A x \in Names(B) : x \in DOMAIN more /\ more[x] = x
  <2>1. DOMAIN NameMap(B, B) = Names(B) /\ IsIdentity(NameMap(B, B))
    BY <1>3, NameMapItself DEF KindOf
  <2>2. more = Assign(nodeMap, NameMap(B, B))
    BY <1>4
  <2> HIDE DEF more, B
  <2>3. QED
    BY <2>1, <2>2 DEF Assign, IsIdentity
<1>8. \A i \in DOMAIN B : LinksMatch(B[i], B[i], more)
  <2>1. SUFFICES ASSUME NEW i \in DOMAIN B PROVE LinksMatch(B[i], B[i], more)
    OBVIOUS
  <2>2. B[i] \in ToSet(source.nodes) /\ IsNode(B[i], source.classes)
    BY <1>3 DEF KindOf
  <2> HIDE DEF more
  <2>3. QED
    BY <1>2, <1>7, <2>2, SameLinks
<1>9. r.ok
  <2>1. r = NodesMatch(Len(B), B, B, dimMap, classMap, more, source.classes, source.classes)
    BY <1>4, <1>5
  <2>2. MapsOK(dimMap, classMap, Occurring(source), Meanings(source), source.classes, source.classes)
    BY <1>2 DEF FirstDone
  <2> HIDE DEF r, B, more
  <2>3. QED
    BY <1>2, <1>3, <1>8, <2>1, <2>2, SameKind
<1> HIDE DEF r, B, there, more
<1>10. ~(there < Len(B))
  BY <1>3, <1>5
<1>11. QED
  BY <1>1, <1>6, <1>9, <1>10 DEF Judge

\* A loop without an order had nothing to order.
LEMMA SelfNoOrder ==
    ASSUME SelfInv, NoOrderLeft, self = source
    PROVE  /\ (pc = "singletons" /\ pc' = "nonsingletons") \/ (pc = "nonsingletons" /\ pc' = "found")
           /\ orders' = Permutation(Nonsingletons(source))
           /\ dimMap' = dimMap /\ classMap' = classMap /\ source' = source
<1>1. pc \in {"singletons", "nonsingletons"} /\ ~HasNext(orders)
  BY DEF NoOrderLeft
<1>2. IsSchema(source)
  BY <1>1 DEF SelfInv, MatchInv
<1>3. IsList(Singletons(source)) /\ IsList(Nonsingletons(source))
  BY <1>2, KindLengths
<1>4. orders = Permutation(Singletons(source)) \/ orders = Permutation(Nonsingletons(source))
  BY <1>1 DEF SelfInv
<1>5. orders.x = <<>>
  BY <1>1, <1>3, <1>4, FirstOrder
<1>6. /\ pc' = (IF pc = "singletons" THEN "nonsingletons" ELSE "found")
      /\ orders' = Permutation(Nonsingletons(source)) /\ UNCHANGED <<source, maps>>
  BY <1>5 DEF NoOrderLeft
<1>7. dimMap' = dimMap /\ classMap' = classMap /\ source' = source
  BY <1>6 DEF maps
<1>8. QED
  BY <1>1, <1>6, <1>7

\* The invariant is inductive.
LEMMA NextSelfInv == SelfInv /\ [MatchNext]_matchVars => SelfInv'
<1> SUFFICES ASSUME SelfInv, [MatchNext]_matchVars PROVE SelfInv'
  OBVIOUS
<1>1. MatchInv /\ MatchInv'
  BY NextMatchInv DEF SelfInv
<1>2. SUFFICES ASSUME self' = source'
               PROVE  /\ pc' \in {"constraints", "singletons", "nonsingletons", "found"} =>
                          \A n \in ToSet(source'.nodes) : HasParts(n)
                      /\ pc' = "singletons" => orders' = Permutation(Singletons(source'))
                      /\ pc' = "nonsingletons" =>
                          /\ orders' = Permutation(Nonsingletons(source'))
                          /\ IsIdentity(dimMap') /\ IsIdentity(classMap')
                      /\ SchemaMatchesItself'
  BY <1>1 DEF SelfInv
<1>3. CASE LoadBoth
  <2>1. /\ source' = Load(call[2])
        /\ IF Malformed \in {self', source'} THEN pc' = "done" ELSE pc' = "constraints"
    BY <1>3 DEF LoadBoth
  <2>2. CASE source' = Malformed
    <3>1. pc' = "done" /\ ~Returned'
      BY <2>1, <2>2 DEF Returned
    <3>2. QED
      BY <3>1 DEF SchemaMatchesItself
  <2>3. CASE source' # Malformed
    <3>1. pc' = "constraints"
      BY <1>2, <2>1, <2>3
    <3>2. InputOK(call[2])
      BY <1>1, CallsAssumption DEF MatchInv
    <3>3. \A n \in ToSet(source'.nodes) : HasParts(n)
      BY <2>1, <2>3, <3>2, LoadedHasParts
    <3>4. QED
      BY <3>1, <3>3 DEF SchemaMatchesItself, Returned
  <2>4. QED
    BY <2>2, <2>3
<1>4. CASE Constraints
  <2>1. pc = "constraints" /\ self' = self /\ source' = source
    BY <1>4 DEF Constraints, Finish
  <2>2. ConstraintsFit
    BY <1>2, <2>1 DEF ConstraintsFit
  <2>3. pc' = "singletons" /\ orders' = Permutation(Singletons(source'))
    BY <1>4, <2>1, <2>2 DEF Constraints
  <2>4. QED
    BY <1>2, <2>1, <2>3 DEF SelfInv, SchemaMatchesItself, Returned
<1>5. CASE SingletonOrder
  <2>1. self' = self /\ source' = source /\ pc = "singletons"
    BY <1>5 DEF SingletonOrder, TryOrder, Judge, Finish
  <2>2. /\ pc' = "nonsingletons" /\ orders' = Permutation(Nonsingletons(source))
        /\ IsIdentity(dimMap') /\ IsIdentity(classMap')
    BY <1>2, <1>5, <2>1, SelfSingletons
  <2>3. QED
    BY <1>2, <2>1, <2>2 DEF SelfInv, SchemaMatchesItself, Returned
<1>6. CASE NonsingletonOrder
  <2>1. self' = self /\ source' = source /\ pc = "nonsingletons"
    BY <1>6 DEF NonsingletonOrder, TryOrder, Judge, Finish
  <2>2. pc' = "found"
    BY <1>2, <1>6, <2>1, SelfNonsingletons
  <2>3. QED
    BY <1>2, <2>1, <2>2 DEF SelfInv, SchemaMatchesItself, Returned
<1>7. CASE NoOrderLeft
  <2>1. self' = self /\ source' = source /\ pc \in {"singletons", "nonsingletons"}
    BY <1>7 DEF NoOrderLeft, Finish
  <2>2. /\ (pc = "singletons" /\ pc' = "nonsingletons") \/ (pc = "nonsingletons" /\ pc' = "found")
        /\ orders' = Permutation(Nonsingletons(source)) /\ dimMap' = dimMap /\ classMap' = classMap
    BY <1>2, <1>7, <2>1, SelfNoOrder
  <2>3. pc = "singletons" => dimMap = EmptyMap /\ classMap = EmptyMap
    BY <1>1 DEF MatchInv
  <2>4. IsIdentity(EmptyMap)
    BY DEF IsIdentity, EmptyMap
  <2>5. QED
    BY <1>2, <2>1, <2>2, <2>3, <2>4 DEF SelfInv, SchemaMatchesItself, Returned
<1>8. CASE Build
  <2>1. pc' = "done" /\ outcome' \in {"match", "exception"}
    BY <1>8 DEF Build, Finish
  <2>2. SameCounts'
    BY <1>2 DEF SameCounts
  <2>3. Returned' => outcome' \in {"match", "nomatch"}
    BY <1>1, <2>1, <2>2 DEF MatchInv, MatchIsSound
  <2>4. SchemaMatchesItself'
    BY <2>1, <2>3 DEF SchemaMatchesItself
  <2>5. QED
    BY <2>1, <2>4
<1>9. CASE UNCHANGED matchVars
  <2>1. /\ pc' = pc /\ self' = self /\ source' = source /\ orders' = orders
        /\ dimMap' = dimMap /\ classMap' = classMap /\ outcome' = outcome
    BY <1>9 DEF matchVars, maps
  <2>2. SchemaMatchesItself' <=> SchemaMatchesItself
    BY <2>1 DEF SchemaMatchesItself, Returned
  <2>3. QED
    BY <1>2, <2>1, <2>2 DEF SelfInv
<1>10. QED
  BY <1>3, <1>4, <1>5, <1>6, <1>7, <1>8, <1>9 DEF MatchNext

\* match finds every schema to fit itself, whatever repeated or skipped dimensions, names,
\* classes and links it has: the first order and the first way always succeed, and the
\* schema that is built passes the checks.
THEOREM EverySchemaMatchesItself == MatchSpec => []SchemaMatchesItself
<1>1. MatchInit => SelfInv
  <2>1. MatchInit => pc = "idle"
    BY DEF MatchInit
  <2>2. QED
    BY <2>1, InitMatchInv DEF SelfInv, SchemaMatchesItself, Returned
<1>2. SelfInv /\ [MatchNext]_matchVars => SelfInv'
  BY NextSelfInv
<1>3. SelfInv => SchemaMatchesItself
  BY DEF SelfInv, SchemaMatchesItself
<1>4. QED
  BY <1>1, <1>2, <1>3, PTL DEF MatchSpec

==============================================================================
