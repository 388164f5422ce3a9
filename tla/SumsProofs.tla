----------------------------- MODULE SumsProofs -----------------------------
(***************************************************************************)
(* What the sums and filters of module Sums satisfy, at any length.  The   *)
(* induction is over a set of indices instead of a predicate: the least    *)
(* index outside the set comes from the well-foundedness of finite sets.   *)
(***************************************************************************)
EXTENDS Sums, FiniteSetTheorems, WellFoundedInduction, TLAPS

-----------------------------------------------------------------------------
(* Every nonempty set of naturals has a least element: among the intervals *)
(* 0..c that end in the set there is one that contains no smaller one.     *)
LEMMA LeastElement ==
  ASSUME NEW B, B \subseteq Nat, B # {}
  PROVE  \E m \in B : \A k \in B : m <= k
<1>1. PICK b \in B : b \in Nat
  OBVIOUS
<1> DEFINE R == StrictSubsetOrdering(0..b)
           F == FiniteSubsetsOf(0..b)
           T == {S \in SUBSET (0..b) : \E c \in B : S = 0..c}
<1>2. T \subseteq F
  <2>1. IsFiniteSet(0..b)
    BY <1>1, FS_Interval
  <2> QED BY <2>1, FS_FiniteSubsetsOfFinite
<1>3. T # {}
  <2>1. 0..b \in T
    BY <1>1
  <2> QED BY <2>1
<1>4. PICK x \in T : \A y \in T : <<y, x>> \notin R
  <2>1. IsWellFoundedOn(R, F)
    BY FS_StrictSubsetOrderingWellFounded
  <2> HIDE DEF R, F, T
  <2> QED BY <1>2, <1>3, <2>1, WFMin
<1>5. PICK m \in B : x = 0..m
  BY <1>4
<1>6. ASSUME NEW k \in B, k < m PROVE FALSE
  <2>1. m \in Nat /\ k \in Nat
    OBVIOUS
  <2>2. 0..k \in T
    <3>1. 0..m \subseteq 0..b
      BY <1>5
    <3>2. 0..k \subseteq 0..b
      BY <3>1, <2>1, <1>6
    <3> QED BY <3>2
  <2>3. 0..k \subseteq 0..m /\ 0..k # 0..m
    BY <2>1, <1>6
  <2>4. <<0..k, 0..m>> \in R
    BY <2>2, <2>3, <1>4, <1>5 DEF StrictSubsetOrdering
  <2> QED BY <2>2, <2>4, <1>4, <1>5
<1> QED BY <1>6

(* Induction along 0..n, for a property given as the set where it holds.   *)
LEMMA IntervalInduction ==
  ASSUME NEW n \in Nat, NEW S,
         0 \in S,
         \A i \in 1..n : i - 1 \in S => i \in S
  PROVE  \A i \in 0..n : i \in S
<1> DEFINE B == {i \in 0..n : i \notin S}
<1>1. ASSUME B # {} PROVE FALSE
  <2>1. B \subseteq Nat
    OBVIOUS
  <2>2. PICK m \in B : \A k \in B : m <= k
    <3> HIDE DEF B
    <3> QED BY <2>1, <1>1, LeastElement
  <2>3. m \in 1..n /\ m - 1 \in 0..n
    BY <2>2
  <2>4. m - 1 \in S
    BY <2>2, <2>3
  <2> QED BY <2>2, <2>3, <2>4
<1> QED BY <1>1

-----------------------------------------------------------------------------
(* The recursion of PartialSums has a solution, so it can be unfolded.     *)
LEMMA PartialSumsUnfold ==
  ASSUME NEW n \in Nat, NEW v \in [1..n -> Nat]
  PROVE  /\ PartialSums(v, n) \in [0..n -> Nat]
         /\ PartialSums(v, n)[0] = 0
         /\ \A i \in 1..n : PartialSums(v, n)[i] = PartialSums(v, n)[i - 1] + v[i]
<1> DEFINE G(g, k) == /\ g \in [0..k -> Nat]
                      /\ g = [i \in 0..k |-> IF i = 0 THEN 0 ELSE g[i - 1] + v[i]]
           S == {k \in 0..n : \E g : G(g, k)}
<1>1. 0 \in S
  <2> DEFINE g == [i \in 0..0 |-> 0]
  <2>1. G(g, 0)
    OBVIOUS
  <2> HIDE DEF G, g
  <2>2. 0 \in 0..n
    OBVIOUS
  <2> QED BY <2>1, <2>2
<1>2. ASSUME NEW m \in 1..n, m - 1 \in S PROVE m \in S
  <2>1. PICK h : G(h, m - 1)
    <3> HIDE DEF G
    <3> QED BY <1>2
  <2> DEFINE g == [i \in 0..m |-> IF i = m THEN h[m - 1] + v[m] ELSE h[i]]
  <2>2. g \in [0..m -> Nat]
    BY <2>1
  <2>3. ASSUME NEW i \in 0..m
        PROVE  g[i] = IF i = 0 THEN 0 ELSE g[i - 1] + v[i]
    <3>1. CASE i = 0
      BY <3>1, <2>1
    <3>2. CASE i # 0 /\ i # m
      <4>1. i \in 0..m - 1 /\ i - 1 \in 0..m - 1 /\ i - 1 # m
        BY <3>2
      <4>2. h[i] = h[i - 1] + v[i]
        BY <2>1, <4>1, <3>2
      <4> QED BY <4>1, <4>2, <3>2
    <3>3. CASE i = m /\ i # 0
      BY <3>3
    <3> QED BY <3>1, <3>2, <3>3
  <2>4. G(g, m)
    BY <2>2, <2>3
  <2>5. m \in 0..n
    OBVIOUS
  <2> HIDE DEF G, g
  <2> QED BY <2>4, <2>5
<1>3. n \in S
  <2>1. \A k \in 0..n : k \in S
    <3> HIDE DEF S
    <3> QED BY <1>1, <1>2, IntervalInduction
  <2>2. n \in 0..n
    OBVIOUS
  <2> HIDE DEF S
  <2> QED BY <2>1, <2>2
<1>4. PICK g : G(g, n)
  <2> HIDE DEF G
  <2> QED BY <1>3
<1> DEFINE p == PartialSums(v, n)
<1>5. p = [i \in 0..n |-> IF i = 0 THEN 0 ELSE p[i - 1] + v[i]]
  <2>1. p = CHOOSE s : s = [i \in 0..n |-> IF i = 0 THEN 0 ELSE s[i - 1] + v[i]]
    BY DEF PartialSums
  <2> HIDE DEF p
  <2> QED BY <1>4, <2>1
<1> HIDE DEF p
<1>6. \A i \in 0..n : p[i] = IF i = 0 THEN 0 ELSE p[i - 1] + v[i]
  BY <1>5
<1>7. \A i \in 0..n : p[i] \in Nat
  <2> DEFINE P == {i \in 0..n : p[i] \in Nat}
  <2>1. 0 \in P
    BY <1>6
  <2>2. ASSUME NEW i \in 1..n, i - 1 \in P PROVE i \in P
    <3>1. i \in 0..n /\ i # 0 /\ v[i] \in Nat
      OBVIOUS
    <3>2. p[i] = p[i - 1] + v[i]
      BY <3>1, <1>6
    <3> QED BY <2>2, <3>1, <3>2
  <2>3. \A i \in 0..n : i \in P
    <3> HIDE DEF P
    <3> QED BY <2>1, <2>2, IntervalInduction
  <2> QED BY <2>3
<1>8. p \in [0..n -> Nat]
  BY <1>5, <1>7
<1>9. p[0] = 0 /\ \A i \in 1..n : p[i] = p[i - 1] + v[i]
  BY <1>6
<1> QED BY <1>8, <1>9 DEF p

-----------------------------------------------------------------------------
(* A sum of naturals is a natural. *)
LEMMA SumType ==
  ASSUME NEW n \in Nat, NEW v \in [1..n -> Nat]
  PROVE  SumTo(v, n) \in Nat
BY PartialSumsUnfold DEF SumTo

(* Sums are taken term by term. *)
LEMMA SumAdd ==
  ASSUME NEW n \in Nat, NEW v \in [1..n -> Nat], NEW w \in [1..n -> Nat],
         NEW x \in [1..n -> Nat],
         \A i \in 1..n : x[i] = v[i] + w[i]
  PROVE  SumTo(x, n) = SumTo(v, n) + SumTo(w, n)
<1> DEFINE p == PartialSums(v, n)
           q == PartialSums(w, n)
           z == PartialSums(x, n)
           S == {i \in 0..n : z[i] = p[i] + q[i]}
<1>1. /\ p \in [0..n -> Nat] /\ p[0] = 0 /\ \A i \in 1..n : p[i] = p[i - 1] + v[i]
      /\ q \in [0..n -> Nat] /\ q[0] = 0 /\ \A i \in 1..n : q[i] = q[i - 1] + w[i]
      /\ z \in [0..n -> Nat] /\ z[0] = 0 /\ \A i \in 1..n : z[i] = z[i - 1] + x[i]
  BY PartialSumsUnfold
<1>2. n \in S
  <2> HIDE DEF p, q, z
  <2>1. 0 \in S
    BY <1>1
  <2>2. ASSUME NEW i \in 1..n, i - 1 \in S PROVE i \in S
    <3>1. i \in 0..n /\ i - 1 \in 0..n
      OBVIOUS
    <3>2. p[i - 1] \in Nat /\ q[i - 1] \in Nat /\ v[i] \in Nat /\ w[i] \in Nat
      BY <1>1, <3>1
    <3>3. z[i] = z[i - 1] + x[i] /\ p[i] = p[i - 1] + v[i] /\ q[i] = q[i - 1] + w[i]
      BY <1>1
    <3> QED BY <2>2, <3>1, <3>2, <3>3
  <2>3. \A i \in 0..n : i \in S
    <3> HIDE DEF S
    <3> QED BY <2>1, <2>2, IntervalInduction
  <2> QED BY <2>3
<1> QED BY <1>2 DEF SumTo

(* A sum whose terms are no larger is no larger. *)
LEMMA SumMonotone ==
  ASSUME NEW n \in Nat, NEW v \in [1..n -> Nat], NEW w \in [1..n -> Nat],
         \A i \in 1..n : v[i] <= w[i]
  PROVE  SumTo(v, n) <= SumTo(w, n)
<1> DEFINE d == [i \in 1..n |-> w[i] - v[i]]
<1>1. d \in [1..n -> Nat] /\ \A i \in 1..n : w[i] = v[i] + d[i]
  OBVIOUS
<1> HIDE DEF d
<1>2. SumTo(w, n) = SumTo(v, n) + SumTo(d, n)
  BY <1>1, SumAdd
<1>3. SumTo(v, n) \in Nat /\ SumTo(d, n) \in Nat
  BY <1>1, SumType
<1> QED BY <1>2, <1>3

(* A sum of zeros is zero. *)
LEMMA SumZero ==
  ASSUME NEW n \in Nat, NEW v \in [1..n -> Nat], \A i \in 1..n : v[i] = 0
  PROVE  SumTo(v, n) = 0
<1>1. \A i \in 1..n : v[i] = v[i] + v[i]
  OBVIOUS
<1>2. SumTo(v, n) = SumTo(v, n) + SumTo(v, n)
  BY <1>1, SumAdd
<1> QED BY <1>2, SumType

(* A sum with one nonzero term is that term. *)
LEMMA SumSingle ==
  ASSUME NEW n \in Nat, NEW v \in [1..n -> Nat], NEW k \in 1..n,
         \A i \in 1..n : i # k => v[i] = 0
  PROVE  SumTo(v, n) = v[k]
<1> DEFINE p == PartialSums(v, n)
           S == {i \in 0..n : p[i] = IF i < k THEN 0 ELSE v[k]}
<1>1. p \in [0..n -> Nat] /\ p[0] = 0 /\ \A i \in 1..n : p[i] = p[i - 1] + v[i]
  BY PartialSumsUnfold
<1>2. n \in S
  <2> HIDE DEF p
  <2>1. 0 \in S
    BY <1>1
  <2>2. ASSUME NEW i \in 1..n, i - 1 \in S PROVE i \in S
    <3>1. i - 1 \in 0..n /\ v[k] \in Nat
      OBVIOUS
    <3>2. CASE i = k
      BY <1>1, <2>2, <3>1, <3>2
    <3>3. CASE i # k
      BY <1>1, <2>2, <3>1, <3>3
    <3> QED BY <3>2, <3>3
  <2>3. \A i \in 0..n : i \in S
    <3> HIDE DEF S
    <3> QED BY <2>1, <2>2, IntervalInduction
  <2> QED BY <2>3
<1> QED BY <1>2 DEF SumTo

(* Changing one term of a table changes its sum by as much. *)
LEMMA SumUpdate ==
  ASSUME NEW n \in Nat, NEW v \in [1..n -> Nat], NEW w \in [1..n -> Nat], NEW k \in 1..n,
         \A i \in 1..n : i # k => w[i] = v[i]
  PROVE  SumTo(w, n) + v[k] = SumTo(v, n) + w[k]
<1> DEFINE a == [i \in 1..n |-> IF i = k THEN v[k] ELSE 0]
           b == [i \in 1..n |-> IF i = k THEN w[k] ELSE 0]
           x == [i \in 1..n |-> IF i = k THEN v[k] + w[k] ELSE v[i]]
<1>1. a \in [1..n -> Nat] /\ b \in [1..n -> Nat] /\ x \in [1..n -> Nat]
  OBVIOUS
<1>2. a[k] = v[k] /\ b[k] = w[k] /\ \A i \in 1..n : i # k => a[i] = 0 /\ b[i] = 0
  OBVIOUS
<1>3. \A i \in 1..n : x[i] = v[i] + b[i] /\ x[i] = w[i] + a[i]
  <2> TAKE i \in 1..n
  <2>1. CASE i = k
    BY <2>1
  <2>2. CASE i # k
    BY <2>2
  <2> QED BY <2>1, <2>2
<1> HIDE DEF a, b, x
<1>4. SumTo(x, n) = SumTo(v, n) + SumTo(b, n)
  BY <1>1, <1>3, SumAdd
<1>6. SumTo(x, n) = SumTo(w, n) + SumTo(a, n)
  BY <1>1, <1>3, SumAdd
<1>7. SumTo(v, n) \in Nat /\ SumTo(w, n) \in Nat
  BY SumType
<1>5. SumTo(a, n) = v[k] /\ SumTo(b, n) = w[k]
  BY <1>1, <1>2, SumSingle
<1> QED BY <1>4, <1>5, <1>6, <1>7

(* No term is larger than the sum. *)
LEMMA SumTerm ==
  ASSUME NEW n \in Nat, NEW v \in [1..n -> Nat], NEW k \in 1..n
  PROVE  v[k] <= SumTo(v, n)
<1> DEFINE a == [i \in 1..n |-> IF i = k THEN v[k] ELSE 0]
<1>1. a \in [1..n -> Nat] /\ a[k] = v[k] /\ \A i \in 1..n : i # k => a[i] = 0
  OBVIOUS
<1>2. \A i \in 1..n : a[i] <= v[i]
  OBVIOUS
<1> HIDE DEF a
<1>3. SumTo(a, n) <= SumTo(v, n)
  BY <1>1, <1>2, SumMonotone
<1>4. SumTo(a, n) = v[k]
  BY <1>1, SumSingle
<1> QED BY <1>3, <1>4

(* Tables that agree term by term have the same sum. *)
LEMMA SumCongruence ==
  ASSUME NEW n \in Nat, NEW v \in [1..n -> Nat], NEW w \in [1..n -> Nat],
         \A i \in 1..n : v[i] = w[i]
  PROVE  SumTo(v, n) = SumTo(w, n)
<1>1. v = w
  OBVIOUS
<1> QED BY <1>1

-----------------------------------------------------------------------------
(* What a filter leaves of a list holds none of what it drops: the          *)
(* recursion has a solution on 0..k for every k, and only one on the whole. *)
LEMMA WithoutIsLeft ==
  ASSUME NEW A, NEW s \in Seq(A), NEW P
  PROVE  Without(s, P) \in Seq(A \ P)
<1> DEFINE n == Len(s)
           Next1(g, i) == IF i = 0 THEN <<>>
                          ELSE IF s[i] \in P THEN g[i - 1] ELSE Append(g[i - 1], s[i])
           G(g, k) == /\ g \in [0..k -> Seq(A \ P)]
                      /\ g = [i \in 0..k |-> Next1(g, i)]
           S == {k \in 0..n : \E g : G(g, k)}
<1>0. n \in Nat /\ \A i \in 1..n : s[i] \in A
  OBVIOUS
<1> HIDE DEF n
<1>1. 0 \in S
  <2> DEFINE g == [i \in 0..0 |-> <<>>]
  <2>1. G(g, 0)
    OBVIOUS
  <2> HIDE DEF G, g
  <2>2. 0 \in 0..n
    BY <1>0
  <2> QED BY <2>1, <2>2
<1>2. ASSUME NEW m \in 1..n, m - 1 \in S PROVE m \in S
  <2>1. PICK h : G(h, m - 1)
    <3> HIDE DEF G
    <3> QED BY <1>2
  <2>2. h[m - 1] \in Seq(A \ P) /\ m - 1 \in 0..m - 1
    BY <1>0, <2>1
  <2> DEFINE g == [i \in 0..m |-> IF i = m THEN Next1(h, m) ELSE h[i]]
  <2>3. Next1(h, m) \in Seq(A \ P)
    BY <1>0, <2>2
  <2>4. g \in [0..m -> Seq(A \ P)]
    BY <1>0, <2>1, <2>3
  <2>5. ASSUME NEW i \in 0..m PROVE g[i] = Next1(g, i)
    <3>1. CASE i = 0
      BY <1>0, <2>1, <3>1
    <3>2. CASE i # 0 /\ i # m
      <4>1. i \in 0..m - 1 /\ i - 1 \in 0..m - 1 /\ i - 1 \in 0..m /\ i - 1 # m
        BY <1>0, <3>2
      <4>2. h[i] = Next1(h, i)
        BY <2>1, <4>1
      <4>3. g[i] = h[i] /\ g[i - 1] = h[i - 1]
        BY <3>2, <4>1
      <4> HIDE DEF g
      <4> QED BY <4>2, <4>3
    <3>3. CASE i = m /\ i # 0
      <4>1. g[m] = Next1(h, m) /\ g[m - 1] = h[m - 1]
        BY <1>0, <3>3
      <4> HIDE DEF g
      <4> QED BY <3>3, <4>1
    <3> QED BY <3>1, <3>2, <3>3
  <2>6. G(g, m)
    BY <2>4, <2>5
  <2>7. m \in 0..n
    BY <1>0
  <2> HIDE DEF G, g
  <2> QED BY <2>6, <2>7
<1>3. n \in S
  <2>1. \A k \in 0..n : k \in S
    <3> HIDE DEF S
    <3> QED BY <1>0, <1>1, <1>2, IntervalInduction
  <2>2. n \in 0..n
    BY <1>0
  <2> HIDE DEF S
  <2> QED BY <2>1, <2>2
<1>4. PICK g : G(g, n)
  <2> HIDE DEF G
  <2> QED BY <1>3
<1> DEFINE p == LET left[i \in 0..Len(s)] ==
                    IF i = 0 THEN <<>> ELSE IF s[i] \in P THEN left[i - 1] ELSE Append(left[i - 1], s[i])
                IN  left
<1>5. p = [i \in 0..n |-> Next1(p, i)]
  <2>1. p = CHOOSE k : k = [i \in 0..n |-> Next1(k, i)]
    BY DEF n
  <2> HIDE DEF p
  <2> QED BY <1>4, <2>1
<1> HIDE DEF p
<1> DEFINE T == {i \in 0..n : p[i] \in Seq(A \ P)}
<1>6. 0 \in T
  BY <1>0, <1>5
<1>7. ASSUME NEW i \in 1..n, i - 1 \in T PROVE i \in T
  <2>1. i \in 0..n /\ i # 0 /\ s[i] \in A /\ p[i - 1] \in Seq(A \ P)
    BY <1>0, <1>7
  <2>2. p[i] = IF s[i] \in P THEN p[i - 1] ELSE Append(p[i - 1], s[i])
    BY <1>5, <2>1
  <2>3. p[i] \in Seq(A \ P)
    BY <2>1, <2>2
  <2> QED BY <2>1, <2>3
<1>8. \A i \in 0..n : i \in T
  <2> HIDE DEF T
  <2> QED BY <1>0, <1>6, <1>7, IntervalInduction
<1>9. n \in T
  <2> HIDE DEF T
  <2> QED BY <1>0, <1>8
<1> QED BY <1>9 DEF Without, p, n
=============================================================================
