------------------------------ MODULE FoldTheorems ----------------------------
(***************************************************************************)
(* What the proofs need of a fold over a list, of any length: the value it *)
(* has after each element, one step at a time, and what a filter keeps.    *)
(* FoldLeft is the function its definition chooses, so that an induction   *)
(* over a set of numbers is all that it takes.                             *)
(***************************************************************************)
EXTENDS Integers, Filters, FiniteSetsExt, WellFoundedInduction, TLAPS

\* Induction over the naturals, for a set.
LEMMA SetInduction ==
  ASSUME NEW T, 0 \in T, \A n \in Nat : n \in T => n + 1 \in T
  PROVE  Nat \subseteq T
<1> DEFINE B == {n \in Nat : n \notin T}
           R == OpToRel(<, Nat)
<1> SUFFICES ASSUME B # {} PROVE FALSE
  OBVIOUS
<1>1. PICK x \in B : \A y \in B : <<y, x>> \notin R
  <2>1. B \subseteq Nat
    OBVIOUS
  <2> HIDE DEF B
  <2> QED
    BY <2>1, NatLessThanWellFounded, WFMin
<1>2. x \in Nat \ {0}
  OBVIOUS
<1>3. x - 1 \in Nat /\ x - 1 < x /\ x = (x - 1) + 1
  BY <1>2
<1>4. x - 1 \in B
  BY <1>2, <1>3
<1>5. <<x - 1, x>> \in R
  BY <1>3, <1>2 DEF OpToRel
<1> QED
  BY <1>1, <1>4, <1>5

\* A set of numbers up to n that is not empty has a largest.
LEMMA LargestIsIn ==
  ASSUME NEW n \in Nat, NEW t \in SUBSET (1 .. n), t # {}
  PROVE  Max(t) \in t /\ \A y \in t : Max(t) >= y
<1> DEFINE T == {k \in Nat : \A s \in SUBSET (1 .. k) : s # {} => \E x \in s : \A y \in s : x >= y}
<1>1. 0 \in T
  BY 1 .. 0 = {}
<1>2. ASSUME NEW k \in Nat, k \in T PROVE k + 1 \in T
  <2>1. ASSUME NEW s \in SUBSET (1 .. (k + 1)), s # {} PROVE \E x \in s : \A y \in s : x >= y
    <3>1. CASE k + 1 \in s
      BY <3>1
    <3>2. CASE k + 1 \notin s
      <4>1. s \in SUBSET (1 .. k)
        BY <3>2
      <4>2. QED BY <4>1, <1>2, <2>1
    <3>3. QED BY <3>1, <3>2
  <2>2. QED BY <2>1
<1>3. n \in T
  <2> HIDE DEF T
  <2>1. QED BY <1>1, <1>2, SetInduction
<1>4. \E x \in t : \A y \in t : x >= y
  BY <1>3
<1>5. QED BY <1>4 DEF Max

\* What the definition of a fold over 1 .. n chooses, for the steps G from base.
Folding(f, n, base, G) ==
  \A t \in SUBSET (1 .. n) :
    f[t] = IF t = {} THEN base ELSE G[<<f[t \ {Max(t)}], Max(t)>>]

\* The same of a function of which it is only known as long as it stays in D.
FoldingIn(f, n, D, base, G) ==
  /\ f[{}] = base
  /\ \A t \in SUBSET (1 .. n) :
       t # {} /\ f[t \ {Max(t)}] \in D => f[t] = G[<<f[t \ {Max(t)}], Max(t)>>]

\* The steps from base, one after the other.
Stepping(h, n, base, G) == h[0] = base /\ \A k \in 1 .. n : h[k] = G[<<h[k - 1], k>>]

\* A fold over 1 .. n whose step stays in D has the function its definition chooses.
LEMMA FoldExists ==
  ASSUME NEW n \in Nat, NEW D, NEW base \in D, NEW G \in [D \X (1 .. n) -> D]
  PROVE  \E it \in [SUBSET (1 .. n) -> D] : Folding(it, n, base, G)
<1> USE DEF Folding
<1> DEFINE Folds(it, k) == Folding(it, k, base, G)
           Reaches(k) == \E it \in [SUBSET (1 .. k) -> D] : Folds(it, k)
           T == {k \in Nat : k <= n => Reaches(k)}
<1>1. 0 \in T
  <2> DEFINE it == [t \in SUBSET (1 .. 0) |-> base]
  <2>1. it \in [SUBSET (1 .. 0) -> D] /\ Folds(it, 0)
    BY 1 .. 0 = {}
  <2>2. QED BY <2>1
<1>2. ASSUME NEW k \in Nat, k \in T PROVE k + 1 \in T
  <2> HIDE DEF Reaches
  <2> SUFFICES ASSUME k + 1 <= n PROVE Reaches(k + 1)
    OBVIOUS
  <2>0. Reaches(k)
    BY <1>2
  <2> USE DEF Reaches
  <2>1. PICK it \in [SUBSET (1 .. k) -> D] : Folds(it, k)
    BY <2>0
  <2> DEFINE more == [t \in SUBSET (1 .. (k + 1)) |->
                        IF k + 1 \in t THEN G[<<it[t \ {k + 1}], k + 1>>] ELSE it[t]]
  <2>2. ASSUME NEW t \in SUBSET (1 .. (k + 1))
        PROVE  /\ k + 1 \in t => t \ {k + 1} \in SUBSET (1 .. k)
               /\ k + 1 \notin t => t \in SUBSET (1 .. k)
               /\ more[t] \in D
    <3>1. k + 1 \in t => t \ {k + 1} \in SUBSET (1 .. k)
      OBVIOUS
    <3>2. k + 1 \notin t => t \in SUBSET (1 .. k)
      OBVIOUS
    <3>3. k + 1 \in 1 .. n
      OBVIOUS
    <3>4. CASE k + 1 \in t
      <4>1. it[t \ {k + 1}] \in D
        BY <3>1, <3>4
      <4>2. QED BY <3>1, <3>3, <3>4, <4>1
    <3>5. CASE k + 1 \notin t
      BY <3>2, <3>5
    <3>6. QED BY <3>1, <3>2, <3>4, <3>5
  <2>3. ASSUME NEW t \in SUBSET (1 .. (k + 1))
        PROVE  more[t] = IF t = {} THEN base ELSE G[<<more[t \ {Max(t)}], Max(t)>>]
    <3>1. CASE t = {}
      <4>1. more[t] = it[t] /\ t \in SUBSET (1 .. k)
        BY <3>1
      <4>2. QED BY <4>1, <3>1, <2>1
    <3>2. CASE k + 1 \in t
      <4>1. Max(t) \in t /\ \A y \in t : Max(t) >= y
        <5>1. k + 1 \in Nat /\ t # {}
          BY <3>2
        <5>2. QED BY <5>1, LargestIsIn
      <4>2. Max(t) = k + 1
        <5>1. Max(t) \in 1 .. (k + 1) /\ Max(t) >= k + 1
          BY <3>2, <4>1
        <5>2. QED BY <5>1
      <4>3. t \ {k + 1} \in SUBSET (1 .. (k + 1)) /\ k + 1 \notin t \ {k + 1}
        OBVIOUS
      <4>4. more[t \ {k + 1}] = it[t \ {k + 1}]
        BY <4>3
      <4>5. QED BY <3>2, <4>2, <4>4
    <3>3. CASE k + 1 \notin t /\ t # {}
      <4>1. t \in SUBSET (1 .. k)
        BY <2>2, <3>3
      <4>2. Max(t) \in t
        BY <4>1, <3>3, LargestIsIn
      <4>3. it[t] = G[<<it[t \ {Max(t)}], Max(t)>>]
        BY <2>1, <3>3, <4>1
      <4>4. t \ {Max(t)} \in SUBSET (1 .. (k + 1)) /\ k + 1 \notin t \ {Max(t)}
        BY <3>3
      <4>5. more[t \ {Max(t)}] = it[t \ {Max(t)}] /\ more[t] = it[t]
        BY <4>4, <3>3
      <4>6. QED BY <3>3, <4>3, <4>5
    <3>4. QED BY <3>1, <3>2, <3>3
  <2>4. more \in [SUBSET (1 .. (k + 1)) -> D]
    BY <2>2
  <2>5. QED BY <2>3, <2>4
<1>3. n \in T
  <2> HIDE DEF T
  <2>1. QED BY <1>1, <1>2, SetInduction
<1>4. Reaches(n)
  <2> HIDE DEF Reaches
  <2>1. QED BY <1>3
<1>5. QED BY <1>4

\* Up to each of 1 .. n, the largest is the last, and before it are the ones before.
LEMMA LastOfPrefix ==
  ASSUME NEW n \in Nat, NEW k \in 1 .. n
  PROVE  /\ 1 .. k \in SUBSET (1 .. n) /\ 1 .. k # {}
         /\ Max(1 .. k) = k /\ (1 .. k) \ {k} = 1 .. (k - 1) /\ k - 1 \in 0 .. n
<1>1. 1 .. k \in SUBSET (1 .. n) /\ 1 .. k # {}
  <2>1. k \in Nat /\ 1 <= k /\ k <= n
    OBVIOUS
  <2>2. QED BY <2>1
<1>2. Max(1 .. k) \in 1 .. k /\ \A y \in 1 .. k : Max(1 .. k) >= y
  BY <1>1, LargestIsIn
<1>3. Max(1 .. k) \in Int /\ Max(1 .. k) <= k /\ Max(1 .. k) >= k
  BY <1>2
<1>4. QED BY <1>1, <1>3

\* What holds of a first step and goes from each to the next holds of all n.
LEMMA StepsStay ==
  ASSUME NEW n \in Nat, NEW T, 0 \in T, \A k \in 1 .. n : k - 1 \in T => k \in T
  PROVE  \A k \in 0 .. n : k \in T
<1> DEFINE U == {k \in Nat : k <= n => k \in T}
<1>1. 0 \in U
  OBVIOUS
<1>2. ASSUME NEW k \in Nat, k \in U PROVE k + 1 \in U
  <2>1. CASE k + 1 <= n
    <3>1. k + 1 \in 1 .. n /\ (k + 1) - 1 = k /\ k \in T
      BY <2>1, <1>2
    <3>2. QED BY <3>1
  <2>2. CASE ~(k + 1 <= n)
    BY <2>2
  <2>3. QED BY <2>1, <2>2
<1>3. Nat \subseteq U
  <2> HIDE DEF U
  <2>1. QED BY <1>1, <1>2, SetInduction
<1>4. QED BY <1>3

\* A fold takes its steps one after the other: c is what its definition chooses.
LEMMA FoldSteps ==
  ASSUME NEW n \in Nat, NEW D, NEW base \in D, NEW G \in [D \X (1 .. n) -> D], NEW c,
         FoldingIn(c, n, D, base, G)
  PROVE  \E h \in [0 .. n -> D] : h[n] = c[1 .. n] /\ Stepping(h, n, base, G)
<1> USE DEF FoldingIn, Stepping
<1> DEFINE T == {k \in 0 .. n : c[1 .. k] \in D}
           h == [k \in 0 .. n |-> c[1 .. k]]
<1>1. c[1 .. 0] = base
  BY 1 .. 0 = {}
<1>2. ASSUME NEW k \in 1 .. n, c[1 .. (k - 1)] \in D
      PROVE  c[1 .. k] = G[<<c[1 .. (k - 1)], k>>] /\ c[1 .. k] \in D
  <2>1. /\ 1 .. k \in SUBSET (1 .. n) /\ 1 .. k # {}
        /\ Max(1 .. k) = k /\ (1 .. k) \ {k} = 1 .. (k - 1)
    BY LastOfPrefix
  <2>2. c[1 .. k] = G[<<c[1 .. (k - 1)], k>>]
    BY <2>1, <1>2
  <2>3. QED BY <1>2, <2>2
<1>3. 0 \in T
  BY <1>1
<1>4. ASSUME NEW k \in 1 .. n, k - 1 \in T PROVE k \in T
  <2>1. c[1 .. (k - 1)] \in D
    BY <1>4
  <2>2. c[1 .. k] \in D
    BY <1>2, <2>1
  <2>4. k \in 0 .. n
    OBVIOUS
  <2>3. QED BY <2>2, <2>4
<1>5. \A k \in 0 .. n : k \in T
  <2> HIDE DEF T
  <2>1. QED BY <1>3, <1>4, StepsStay
<1>6. \A k \in 0 .. n : c[1 .. k] \in D
  BY <1>5
<1>7. h \in [0 .. n -> D] /\ h[0] = base /\ h[n] = c[1 .. n]
  BY <1>1, <1>6
<1>8. ASSUME NEW k \in 1 .. n PROVE h[k] = G[<<h[k - 1], k>>]
  <2>1. k - 1 \in 0 .. n /\ k \in 0 .. n
    OBVIOUS
  <2>2. h[k] = c[1 .. k] /\ h[k - 1] = c[1 .. (k - 1)] /\ c[1 .. (k - 1)] \in D
    BY <2>1, <1>6
  <2>3. QED BY <2>2, <1>2
<1>9. QED BY <1>7, <1>8

\* A sequence cut down to the values in K holds them in their order: e tells where each
\* item of r was in s.
Kept(r, s, K) ==
  \E e \in [DOMAIN r -> DOMAIN s] :
    /\ \A i, j \in DOMAIN r : i < j => e[i] < e[j]
    /\ \A i \in DOMAIN r : r[i] = s[e[i]] /\ s[e[i]] \in K
    /\ \A k \in DOMAIN s : s[k] \in K => \E i \in DOMAIN r : e[i] = k

\* Taking the items of s in turn and appending those in K keeps what is in K.
LEMMA FilterKeeps ==
  ASSUME NEW S, NEW s \in Seq(S), NEW K, NEW h \in [0 .. Len(s) -> Seq(S)], h[0] = <<>>,
         \A k \in 1 .. Len(s) : h[k] = IF s[k] \in K THEN Append(h[k - 1], s[k]) ELSE h[k - 1]
  PROVE  Kept(h[Len(s)], s, K)
<1> DEFINE Upto(k) ==
             \E e \in [DOMAIN h[k] -> 1 .. k] :
               /\ \A i, j \in DOMAIN h[k] : i < j => e[i] < e[j]
               /\ \A i \in DOMAIN h[k] : h[k][i] = s[e[i]] /\ s[e[i]] \in K
               /\ \A m \in 1 .. k : s[m] \in K => \E i \in DOMAIN h[k] : e[i] = m
           T == {k \in 0 .. Len(s) : Upto(k)}
<1>1. Upto(0)
  <2> DEFINE e == [i \in {} |-> 1]
  <2>1. DOMAIN h[0] = {} /\ 1 .. 0 = {}
    OBVIOUS
  <2>2. e \in [DOMAIN h[0] -> 1 .. 0]
    BY <2>1
  <2>3. QED BY <2>1, <2>2
<1>2. ASSUME NEW k \in 1 .. Len(s), Upto(k - 1) PROVE Upto(k)
  <2>1. PICK e \in [DOMAIN h[k - 1] -> 1 .. (k - 1)] :
          /\ \A i, j \in DOMAIN h[k - 1] : i < j => e[i] < e[j]
          /\ \A i \in DOMAIN h[k - 1] : h[k - 1][i] = s[e[i]] /\ s[e[i]] \in K
          /\ \A m \in 1 .. (k - 1) : s[m] \in K => \E i \in DOMAIN h[k - 1] : e[i] = m
    BY <1>2
  <2>2. k \in Nat \ {0} /\ k - 1 \in 0 .. Len(s) /\ h[k - 1] \in Seq(S) /\ s[k] \in S
    OBVIOUS
  <2>3. CASE s[k] \notin K
    <3>1. h[k] = h[k - 1]
      BY <2>3
    <3>2. e \in [DOMAIN h[k] -> 1 .. k]
      BY <3>1, <2>2
    <3>3. \A m \in 1 .. k : s[m] \in K => m \in 1 .. (k - 1)
      BY <2>2, <2>3
    <3>4. \A m \in 1 .. k : s[m] \in K => \E i \in DOMAIN h[k] : e[i] = m
      BY <2>1, <3>1, <3>3
    <3>5. /\ \A i, j \in DOMAIN h[k] : i < j => e[i] < e[j]
          /\ \A i \in DOMAIN h[k] : h[k][i] = s[e[i]] /\ s[e[i]] \in K
      BY <2>1, <3>1
    <3>6. QED BY <3>2, <3>4, <3>5
  <2>4. CASE s[k] \in K
    <3> DEFINE n == Len(h[k - 1])
               more == [i \in 1 .. (n + 1) |-> IF i = n + 1 THEN k ELSE e[i]]
    <3>1. h[k] = Append(h[k - 1], s[k])
      BY <2>4
    <3>2. /\ n \in Nat /\ DOMAIN h[k - 1] = 1 .. n /\ DOMAIN h[k] = 1 .. (n + 1)
          /\ \A i \in 1 .. n : h[k][i] = h[k - 1][i]
          /\ h[k][n + 1] = s[k]
      BY <2>2, <3>1
    <3>3. /\ \A i \in 1 .. n : more[i] = e[i] /\ e[i] \in 1 .. (k - 1)
          /\ more[n + 1] = k
      BY <3>2
    <3>4. \A i \in 1 .. (n + 1) : i \in 1 .. n \/ i = n + 1
      BY <3>2
    <3>5. more \in [DOMAIN h[k] -> 1 .. k]
      BY <2>2, <3>2, <3>3, <3>4
    <3> HIDE DEF more, n
    <3>6. ASSUME NEW i \in 1 .. (n + 1), NEW j \in 1 .. (n + 1), i < j PROVE more[i] < more[j]
      <4>1. i \in 1 .. n
        BY <3>6, <3>2
      <4>2. CASE j \in 1 .. n
        BY <4>1, <4>2, <3>3, <3>2, <3>6, <2>1
      <4>3. CASE j = n + 1
        <5>1. more[i] \in 1 .. (k - 1) /\ more[j] = k
          BY <4>1, <4>3, <3>3
        <5>2. QED BY <5>1, <2>2
      <4>4. QED BY <3>4, <4>2, <4>3
    <3>7. ASSUME NEW i \in 1 .. (n + 1) PROVE h[k][i] = s[more[i]] /\ s[more[i]] \in K
      <4>1. CASE i \in 1 .. n
        BY <4>1, <3>2, <3>3, <2>1
      <4>2. CASE i = n + 1
        BY <4>2, <3>2, <3>3, <2>4
      <4>3. QED BY <3>4, <4>1, <4>2
    <3>8. ASSUME NEW m \in 1 .. k, s[m] \in K PROVE \E i \in 1 .. (n + 1) : more[i] = m
      <4>1. CASE m = k
        <5>1. n + 1 \in 1 .. (n + 1)
          BY <3>2
        <5>2. QED BY <4>1, <5>1, <3>3
      <4>2. CASE m # k
        <5>1. m \in 1 .. (k - 1)
          BY <4>2, <2>2
        <5>2. PICK i \in DOMAIN h[k - 1] : e[i] = m
          BY <5>1, <3>8, <2>1
        <5>3. i \in 1 .. n /\ i \in 1 .. (n + 1)
          BY <5>2, <3>2
        <5>4. QED BY <5>2, <5>3, <3>3
      <4>3. QED BY <4>1, <4>2
    <3>9. /\ \A i, j \in DOMAIN h[k] : i < j => more[i] < more[j]
          /\ \A i \in DOMAIN h[k] : h[k][i] = s[more[i]] /\ s[more[i]] \in K
          /\ \A m \in 1 .. k : s[m] \in K => \E i \in DOMAIN h[k] : more[i] = m
      BY <3>2, <3>6, <3>7, <3>8
    <3>10. QED BY <3>5, <3>9
  <2>5. QED BY <2>3, <2>4
<1>3. \A k \in 0 .. Len(s) : Upto(k)
  <2> HIDE DEF Upto
  <2>1. 0 \in T
    BY <1>1
  <2>2. ASSUME NEW k \in 1 .. Len(s), k - 1 \in T PROVE k \in T
    BY <1>2, <2>2
  <2>0. Len(s) \in Nat
    OBVIOUS
  <2> HIDE DEF T
  <2>3. \A k \in 0 .. Len(s) : k \in T
    BY <2>0, <2>1, <2>2, StepsStay
  <2> USE DEF T
  <2>4. QED BY <2>3
<1>4. Upto(Len(s))
  <2> HIDE DEF Upto
  <2>1. QED BY <1>3
<1>5. DOMAIN s = 1 .. Len(s)
  OBVIOUS
<1>6. QED BY <1>4, <1>5 DEF Kept

\* What a filter has kept after each item.
Filtering(h, s, K) ==
  /\ h[0] = <<>> /\ h[Len(s)] = ItemsIn(s, K)
  /\ \A k \in 1 .. Len(s) : h[k] = IF s[k] \in K THEN Append(h[k - 1], s[k]) ELSE h[k - 1]

\* A filter takes the items one after the other.
LEMMA FilterSteps ==
  ASSUME NEW S, NEW s \in Seq(S), NEW K
  PROVE  \E h \in [0 .. Len(s) -> Seq(S)] : Filtering(h, s, K)
<1> DEFINE n == Len(s)
           D == Seq(S)
           base == <<>>
           G == [p \in D \X (1 .. n) |-> IF s[p[2]] \in K THEN Append(p[1], s[p[2]]) ELSE p[1]]
           Then(f, t) == IF s[Max(t)] \in K THEN Append(f[t \ {Max(t)}], s[Max(t)])
                         ELSE f[t \ {Max(t)}]
           c == CHOOSE f : f = [t \in SUBSET (DOMAIN s) |-> IF t = {} THEN <<>> ELSE Then(f, t)]
<1>1. n \in Nat /\ DOMAIN s = 1 .. n /\ base \in D /\ \A i \in 1 .. n : s[i] \in S
  OBVIOUS
<1>2. ASSUME NEW a \in D, NEW i \in 1 .. n
      PROVE  /\ G[<<a, i>>] = IF s[i] \in K THEN Append(a, s[i]) ELSE a
             /\ G[<<a, i>>] \in D
  <2>1. <<a, i>> \in D \X (1 .. n)
    OBVIOUS
  <2>2. G[<<a, i>>] = IF s[i] \in K THEN Append(a, s[i]) ELSE a
    BY <2>1
  <2>3. Append(a, s[i]) \in D
    BY <1>1
  <2>4. QED BY <2>2, <2>3
<1>3. G \in [D \X (1 .. n) -> D]
  BY <1>2
<1>4. PICK it \in [SUBSET (1 .. n) -> D] : Folding(it, n, base, G)
  <2> HIDE DEF G, D, n, base
  <2>1. QED BY <1>1, <1>3, FoldExists
<1>5. ASSUME NEW t \in SUBSET (1 .. n), t # {}
      PROVE  Max(t) \in 1 .. n /\ t \ {Max(t)} \in SUBSET (1 .. n)
  BY <1>1, <1>5, LargestIsIn
<1>6. it = [t \in SUBSET (DOMAIN s) |-> IF t = {} THEN base ELSE Then(it, t)]
  <2>1. ASSUME NEW t \in SUBSET (1 .. n) PROVE it[t] = IF t = {} THEN base ELSE Then(it, t)
    <3>1. CASE t = {}
      BY <3>1, <1>4 DEF Folding
    <3>2. CASE t # {}
      <4> HIDE DEF G, D
      <4>1. Max(t) \in 1 .. n /\ it[t \ {Max(t)}] \in D
        BY <3>2, <1>4, <1>5
      <4>2. it[t] = G[<<it[t \ {Max(t)}], Max(t)>>]
        BY <3>2, <1>4 DEF Folding
      <4>3. QED BY <3>2, <4>1, <4>2, <1>2
    <3>3. QED BY <3>1, <3>2
  <2> HIDE DEF Then
  <2>2. QED BY <2>1, <1>1, <1>4
<1>7. c = [t \in SUBSET (DOMAIN s) |-> IF t = {} THEN base ELSE Then(c, t)]
  <2> HIDE DEF Then
  <2>1. QED BY <1>6
<1>8. ItemsIn(s, K) = c[1 .. n]
  BY <1>1 DEF ItemsIn, FoldLeft, MapThenFoldSet
<1>9. PICK h \in [0 .. n -> D] : h[n] = c[1 .. n] /\ Stepping(h, n, base, G)
  <2>1. c[{}] = base
    <3> HIDE DEF Then, c
    <3>1. QED BY <1>7
  <2>2. ASSUME NEW t \in SUBSET (1 .. n), t # {}, c[t \ {Max(t)}] \in D
        PROVE  c[t] = G[<<c[t \ {Max(t)}], Max(t)>>]
    <3> HIDE DEF c
    <3>1. c[t] = Then(c, t)
      <4> HIDE DEF Then
      <4>1. QED BY <1>1, <1>7, <2>2
    <3> HIDE DEF G, D
    <3>2. QED BY <3>1, <1>2, <1>5, <2>2
  <2>3. FoldingIn(c, n, D, base, G)
    <3> HIDE DEF G, D, n, base, c
    <3>1. QED BY <2>1, <2>2 DEF FoldingIn
  <2> HIDE DEF G, D, n, base, c
  <2>4. QED BY <1>1, <1>3, <2>3, FoldSteps
<1>10. ASSUME NEW k \in 1 .. n PROVE h[k] = IF s[k] \in K THEN Append(h[k - 1], s[k]) ELSE h[k - 1]
  <2> HIDE DEF G, D, c, base
  <2>1. h[k - 1] \in D /\ h[k] = G[<<h[k - 1], k>>]
    BY <1>1, <1>9 DEF Stepping
  <2>2. QED BY <2>1, <1>2
<1>12. h[0] = base
  <2> HIDE DEF G, c
  <2>1. QED BY <1>9 DEF Stepping
<1>13. Filtering(h, s, K)
  <2> HIDE DEF G, D, c
  <2>1. QED BY <1>8, <1>9, <1>10, <1>12 DEF Filtering
<1>14. QED
  <2> HIDE DEF G, c
  <2>1. QED BY <1>9, <1>13

\* A filter keeps the items in K, in their order.
LEMMA ItemsAreKept ==
  ASSUME NEW S, NEW s \in Seq(S), NEW K
  PROVE  ItemsIn(s, K) \in Seq(S) /\ Kept(ItemsIn(s, K), s, K)
<1>1. PICK h \in [0 .. Len(s) -> Seq(S)] : Filtering(h, s, K)
  BY FilterSteps
<1>2. Len(s) \in 0 .. Len(s)
  OBVIOUS
<1>3. Kept(h[Len(s)], s, K)
  BY <1>1, FilterKeeps DEF Filtering
<1>4. QED BY <1>1, <1>2, <1>3 DEF Filtering

\* Items in K up to the m-th and none after it: what is kept is up to the m-th.
LEMMA FirstAreKept ==
  ASSUME NEW S, NEW s \in Seq(S), NEW K, NEW m \in 0 .. Len(s),
         \A k \in 1 .. Len(s) : s[k] \in K <=> k <= m
  PROVE  ItemsIn(s, K) = SubSeq(s, 1, m)
<1>1. PICK h \in [0 .. Len(s) -> Seq(S)] : Filtering(h, s, K)
  BY FilterSteps
<1> DEFINE Least(k) == IF k <= m THEN k ELSE m
           T == {k \in 0 .. Len(s) : h[k] = SubSeq(s, 1, Least(k))}
<1>2. 0 \in T
  <2>1. SubSeq(s, 1, 0) = <<>>
    OBVIOUS
  <2>2. Least(0) = 0 /\ 0 \in 0 .. Len(s)
    OBVIOUS
  <2> HIDE DEF Least
  <2>3. QED BY <2>1, <2>2, <1>1 DEF Filtering
<1>3. ASSUME NEW k \in 1 .. Len(s), k - 1 \in T PROVE k \in T
  <2>1. h[k] = IF k <= m THEN Append(SubSeq(s, 1, Least(k - 1)), s[k]) ELSE SubSeq(s, 1, Least(k - 1))
    BY <1>3, <1>1 DEF Filtering
  <2>2. CASE k <= m
    <3>1. Least(k - 1) = k - 1 /\ Least(k) = k
      BY <2>2
    <3>2. Append(SubSeq(s, 1, k - 1), s[k]) = SubSeq(s, 1, k)
      OBVIOUS
    <3>3. h[k] = SubSeq(s, 1, Least(k)) /\ k \in 0 .. Len(s)
      <4> HIDE DEF Least
      <4>1. QED BY <2>1, <2>2, <3>1, <3>2
    <3>4. QED BY <3>3
  <2>3. CASE ~(k <= m)
    <3>1. Least(k - 1) = m /\ Least(k) = m
      BY <2>3
    <3>2. QED BY <2>1, <2>3, <3>1
  <2>4. QED BY <2>2, <2>3
<1>4. Len(s) \in T
  <2>1. Len(s) \in Nat /\ Len(s) \in 0 .. Len(s)
    OBVIOUS
  <2> HIDE DEF T
  <2>2. \A k \in 0 .. Len(s) : k \in T
    BY <2>1, <1>2, <1>3, StepsStay
  <2>3. QED BY <2>1, <2>2
<1>5. Least(Len(s)) = m
  OBVIOUS
<1> HIDE DEF Least
<1>6. QED BY <1>1, <1>4, <1>5 DEF Filtering

\* Only the last item is in K: it is what is kept.
LEMMA LastIsKept ==
  ASSUME NEW S, NEW s \in Seq(S), s # <<>>, NEW K,
         \A k \in 1 .. Len(s) : s[k] \in K <=> k = Len(s)
  PROVE  ItemsIn(s, K) = <<s[Len(s)]>>
<1>1. PICK h \in [0 .. Len(s) -> Seq(S)] : Filtering(h, s, K)
  BY FilterSteps
<1> DEFINE n == Len(s)
           T == {k \in 0 .. n : k < n => h[k] = <<>>}
<1>0. n \in Nat \ {0} /\ n - 1 \in 0 .. n
  OBVIOUS
<1>2. 0 \in T
  BY <1>1 DEF Filtering
<1>3. ASSUME NEW k \in 1 .. n, k - 1 \in T PROVE k \in T
  <2>1. CASE k < n
    <3>1. h[k] = h[k - 1] /\ h[k - 1] = <<>>
      BY <2>1, <1>1, <1>3 DEF Filtering
    <3>2. QED BY <3>1
  <2>2. QED BY <2>1
<1>4. h[n - 1] = <<>>
  <2> HIDE DEF T
  <2>1. \A k \in 0 .. n : k \in T
    <3> HIDE DEF n
    <3>1. QED BY <1>0, <1>2, <1>3, StepsStay
  <2>2. n - 1 \in T /\ n - 1 < n
    BY <1>0, <2>1
  <2>3. QED BY <2>2 DEF T
<1>5. h[n] = Append(h[n - 1], s[n])
  <2>1. n \in 1 .. n
    BY <1>0
  <2>2. QED BY <2>1, <1>1 DEF Filtering
<1>6. QED BY <1>1, <1>4, <1>5 DEF Filtering

=============================================================================
