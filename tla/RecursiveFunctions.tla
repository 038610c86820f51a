------------------------- MODULE RecursiveFunctions -------------------------
(***************************************************************************)
(* Induction over the natural numbers and functions defined by recursion   *)
(* on an interval. The facts are stated with sets and functions instead of *)
(* operators as parameters: a property P is the set of numbers that have   *)
(* it, a step from f[i - 1] to f[i] is a function.                         *)
(***************************************************************************)
EXTENDS WellFoundedInduction, TLAPS

\* A set of natural numbers has a least one.
LEMMA LeastNatural ==
  ASSUME NEW T \in SUBSET Nat, T # {}
  PROVE  \E i \in T : \A j \in T : i <= j
<1>1. IsWellFoundedOn(OpToRel(<, Nat), Nat)
  BY NatLessThanWellFounded
<1>2. PICK i \in T : \A j \in T : <<j, i>> \notin OpToRel(<, Nat)
  BY <1>1, WFMin
<1>3. \A j \in T : ~(j < i)
  BY <1>2 DEF OpToRel
<1> QED BY <1>3

\* Induction up to n.
LEMMA IntervalInduction ==
  ASSUME NEW n \in Nat, NEW T, 0 \in T, \A i \in 1..n : i - 1 \in T => i \in T
  PROVE  \A i \in 0..n : i \in T
<1> DEFINE out == {i \in 0..n : i \notin T}
<1>1. SUFFICES ASSUME out # {} PROVE FALSE
  OBVIOUS
<1>2. PICK i \in out : \A j \in out : i <= j
  <2>1. out \subseteq Nat
    OBVIOUS
  <2> HIDE DEF out
  <2> QED BY <1>1, <2>1, LeastNatural
<1>3. i \in 1..n /\ i - 1 \in 0..n /\ i \notin T
  BY SMT
<1>4. i - 1 \notin out
  BY <1>2, <1>3
<1> QED BY <1>3, <1>4

\* Induction over all natural numbers.
LEMMA NaturalInduction ==
  ASSUME NEW T, 0 \in T, \A i \in Nat : i \in T => i + 1 \in T
  PROVE  \A i \in Nat : i \in T
<1> SUFFICES ASSUME NEW n \in Nat PROVE n \in T
  OBVIOUS
<1>1. \A i \in 1..n : i - 1 \in T => i \in T
  <2> SUFFICES ASSUME NEW i \in 1..n, i - 1 \in T PROVE i \in T
    OBVIOUS
  <2> i - 1 \in Nat /\ (i - 1) + 1 = i
    OBVIOUS
  <2> QED OBVIOUS
<1>2. \A i \in 0..n : i \in T
  BY <1>1, IntervalInduction
<1> QED BY <1>2

\* The same with all smaller numbers at hand.
LEMMA StrongInduction ==
  ASSUME NEW T, \A n \in Nat : (\A m \in Nat : m < n => m \in T) => n \in T
  PROVE  \A n \in Nat : n \in T
<1> DEFINE A == {n \in Nat : \A m \in Nat : m < n => m \in T}
<1>1. 0 \in A
  OBVIOUS
<1>2. ASSUME NEW n \in Nat, n \in A PROVE n + 1 \in A
  <2> SUFFICES ASSUME NEW m \in Nat, m < n + 1 PROVE m \in T
    OBVIOUS
  <2>1. \A k \in Nat : k < m => k \in T
    BY <1>2
  <2> QED BY <2>1
<1>3. \A n \in Nat : n \in A
  <2> HIDE DEF A
  <2> QED BY <1>1, <1>2, NaturalInduction
<1> QED BY <1>3

\* The steps of a recursion on 1..n, each a function on S, and the function they
\* make of a first value.
Steps(n, S) == [1..n -> [S -> S]]
Recursion(f, n, S, s, G) ==
  f \in [0..n -> S] /\ f[0] = s /\ \A i \in 1..n : f[i] = G[i][f[i - 1]]

\* There is a function that starts with s and makes the steps of G.
LEMMA RecursionExists ==
  ASSUME NEW n \in Nat, NEW S, NEW s \in S, NEW G \in Steps(n, S)
  PROVE  \E f : Recursion(f, n, S, s, G)
<1> DEFINE T == {m \in 0..n : \E f \in [0..m -> S] :
                     f[0] = s /\ \A i \in 1..m : f[i] = G[i][f[i - 1]]}
<1> G \in [1..n -> [S -> S]]
  BY DEF Steps
<1>1. 0 \in T
  <2> DEFINE g == [i \in 0..0 |-> s]
  <2>1. g \in [0..0 -> S] /\ g[0] = s /\ \A i \in 1..0 : g[i] = G[i][g[i - 1]]
    OBVIOUS
  <2>2. \E f \in [0..0 -> S] : f[0] = s /\ \A i \in 1..0 : f[i] = G[i][f[i - 1]]
    <3> HIDE DEF g
    <3> QED BY <2>1
  <2> QED BY <2>2
<1>2. ASSUME NEW m \in 1..n, m - 1 \in T
      PROVE  m \in T
  <2>1. PICK f \in [0..(m - 1) -> S] :
          f[0] = s /\ \A i \in 1..(m - 1) : f[i] = G[i][f[i - 1]]
    BY <1>2
  <2> DEFINE g == [i \in 0..m |-> IF i = m THEN G[m][f[m - 1]] ELSE f[i]]
  <2>2. g \in [0..m -> S]
    <3>1. f[m - 1] \in S
      OBVIOUS
    <3>2. G[m] \in [S -> S]
      OBVIOUS
    <3>3. G[m][f[m - 1]] \in S
      BY <3>1, <3>2
    <3>4. \A i \in 0..m : i # m => f[i] \in S
      OBVIOUS
    <3> QED BY <3>3, <3>4
  <2>3. g[0] = s
    BY <2>1
  <2>4. ASSUME NEW i \in 1..m
        PROVE  g[i] = G[i][g[i - 1]]
    <3>1. CASE i = m
      BY <3>1
    <3>2. CASE i # m
      <4>1. i \in 1..(m - 1) /\ i - 1 \in 0..(m - 1)
        BY <3>2
      <4>2. g[i] = f[i] /\ g[i - 1] = f[i - 1]
        BY <3>2, <4>1
      <4> QED BY <2>1, <4>1, <4>2
    <3> QED BY <3>1, <3>2
  <2>5. \E h \in [0..m -> S] : h[0] = s /\ \A i \in 1..m : h[i] = G[i][h[i - 1]]
    <3> HIDE DEF g
    <3> QED BY <2>2, <2>3, <2>4
  <2>6. m \in 0..n
    OBVIOUS
  <2> QED BY <2>5, <2>6
<1>3. n \in T
  <2> HIDE DEF T
  <2>1. \A i \in 0..n : i \in T
    BY <1>1, <1>2, IntervalInduction
  <2> QED BY <2>1
<1> QED BY <1>3 DEF Recursion

(***************************************************************************)
(* Recursion on all natural numbers: G[i][f] is the value at i, given the  *)
(* function f itself.                                                      *)
(***************************************************************************)
Equations(S) == [Nat -> [[Nat -> S] -> S]]
Solves(f, G) == \A i \in Nat : f[i] = G[i][f]

\* A value may depend on the values at smaller numbers.
LEMMA UpwardRecursion ==
  ASSUME NEW S, NEW s \in S, NEW G \in Equations(S),
         \A i \in Nat : \A f, g \in [Nat -> S] :
           (\A j \in Nat : j < i => f[j] = g[j]) => G[i][f] = G[i][g]
  PROVE  \E f \in [Nat -> S] : Solves(f, G)
<1> DEFINE F == [Nat -> S]
           UpTo(f, n) == \A i \in Nat : i < n => f[i] = G[i][f]
           T == {n \in Nat : \E f \in F : UpTo(f, n)}
<1>0. \A i \in Nat : \A f \in F : G[i][f] \in S
  BY DEF Equations
<1>1. \A n \in Nat : \E f \in F : UpTo(f, n)
  <2>1. 0 \in T
    <3>1. [i \in Nat |-> s] \in F
      OBVIOUS
    <3> HIDE DEF F
    <3> QED BY <3>1
  <2>2. ASSUME NEW n \in Nat, n \in T PROVE n + 1 \in T
    <3>1. PICK f \in F : UpTo(f, n)
      BY <2>2
    <3> DEFINE g == [f EXCEPT ![n] = G[n][f]]
    <3>2. g \in F /\ g[n] = G[n][f] /\ \A j \in Nat : j # n => g[j] = f[j]
      BY <1>0
    <3> HIDE DEF g, F
    <3>3. UpTo(g, n + 1)
      <4> SUFFICES ASSUME NEW i \in Nat, i < n + 1 PROVE g[i] = G[i][g]
        OBVIOUS
      <4>1. G[i][f] = G[i][g]
        BY <3>2 DEF F
      <4>2. CASE i = n
        BY <3>2, <4>1, <4>2
      <4>3. CASE i # n
        BY <3>1, <3>2, <4>1, <4>3
      <4> QED BY <4>2, <4>3
    <3> QED BY <3>2, <3>3
  <2>3. \A n \in Nat : n \in T
    <3> HIDE DEF T
    <3> QED BY <2>1, <2>2, NaturalInduction
  <2> QED BY <2>3
<1>2. ASSUME NEW n \in Nat, NEW m \in Nat, NEW f \in F, NEW g \in F, UpTo(f, n), UpTo(g, m)
      PROVE  \A i \in Nat : i < n /\ i < m => f[i] = g[i]
  <2> DEFINE A == {k \in Nat : \A i \in Nat : i < k /\ i < n /\ i < m => f[i] = g[i]}
  <2>1. 0 \in A
    OBVIOUS
  <2>2. ASSUME NEW k \in Nat, k \in A PROVE k + 1 \in A
    <3> SUFFICES ASSUME NEW i \in Nat, i < k + 1, i < n, i < m PROVE f[i] = g[i]
      OBVIOUS
    <3>1. \A j \in Nat : j < i => f[j] = g[j]
      BY <2>2
    <3>2. G[i][f] = G[i][g]
      BY <3>1
    <3> QED BY <1>2, <3>2
  <2>3. \A k \in Nat : k \in A
    <3> HIDE DEF A
    <3> QED BY <2>1, <2>2, NaturalInduction
  <2> SUFFICES ASSUME NEW i \in Nat, i < n, i < m PROVE f[i] = g[i]
    OBVIOUS
  <2>4. i + 1 \in A
    <3> HIDE DEF A
    <3> QED BY <2>3
  <2> QED BY <2>4
<1> DEFINE h(n) == CHOOSE f \in F : UpTo(f, n)
           d == [i \in Nat |-> h(i + 1)[i]]
<1>3. \A n \in Nat : h(n) \in F /\ UpTo(h(n), n)
  <2> HIDE DEF F, UpTo
  <2> QED BY <1>1
<1> HIDE DEF h
<1>4. d \in F
  <2>1. \A i \in Nat : h(i + 1)[i] \in S
    BY <1>3
  <2> QED BY <2>1
<1>5. ASSUME NEW i \in Nat PROVE d[i] = G[i][d]
  <2>1. h(i + 1) \in F /\ UpTo(h(i + 1), i + 1)
    BY <1>3
  <2>2. d[i] = G[i][h(i + 1)]
    BY <2>1
  <2>3. ASSUME NEW j \in Nat, j < i PROVE d[j] = h(i + 1)[j]
    <3>1. h(j + 1) \in F /\ UpTo(h(j + 1), j + 1)
      BY <1>3
    <3> HIDE DEF UpTo, F
    <3>2. h(j + 1)[j] = h(i + 1)[j]
      BY <1>2, <2>1, <2>3, <3>1
    <3> QED BY <3>2
  <2>4. G[i][d] = G[i][h(i + 1)]
    <3> HIDE DEF d
    <3> QED BY <1>4, <2>1, <2>3
  <2> QED BY <2>2, <2>4
<1> HIDE DEF d, F
<1> QED BY <1>4, <1>5 DEF Solves, F

\* Or on the values at larger numbers, up to a bound from which on it depends on none.
LEMMA DownwardRecursion ==
  ASSUME NEW S, NEW s \in S, NEW n \in Nat, NEW G \in Equations(S),
         \A i \in Nat : \A f, g \in [Nat -> S] :
           (\A j \in Nat : i < j /\ i < n => f[j] = g[j]) => G[i][f] = G[i][g]
  PROVE  \E f \in [Nat -> S] : Solves(f, G)
<1> DEFINE F == [Nat -> S]
           From(f, m) == \A i \in Nat : n <= i + m => f[i] = G[i][f]
           T == {m \in Nat : \E f \in F : From(f, m)}
<1>0. \A i \in Nat : \A f \in F : G[i][f] \in S
  BY DEF Equations
<1>1. 0 \in T
  <2> DEFINE e == [i \in Nat |-> s]
             f == [i \in Nat |-> G[i][e]]
  <2>1. e \in F
    OBVIOUS
  <2>2. f \in F
    <3> HIDE DEF e
    <3> QED BY <1>0, <2>1
  <2>3. \A i \in Nat : f[i] = G[i][e]
    OBVIOUS
  <2> HIDE DEF e, f
  <2>4. From(f, 0)
    <3> SUFFICES ASSUME NEW i \in Nat, n <= i PROVE f[i] = G[i][f]
      OBVIOUS
    <3>1. \A j \in Nat : ~(i < j /\ i < n)
      OBVIOUS
    <3>2. G[i][e] = G[i][f]
      BY <2>1, <2>2, <3>1
    <3> QED BY <2>3, <3>2
  <2> HIDE DEF F, From
  <2> QED BY <2>2, <2>4
<1>2. ASSUME NEW m \in Nat, m \in T PROVE m + 1 \in T
  <2>1. PICK f \in F : From(f, m)
    BY <1>2
  <2>2. CASE m >= n
    <3>1. From(f, m + 1)
      BY <2>1, <2>2
    <3> HIDE DEF F, From
    <3> QED BY <3>1
  <2>3. CASE m < n
    <3> DEFINE k == n - (m + 1)
               g == [f EXCEPT ![k] = G[k][f]]
    <3>1. k \in Nat /\ k < n /\ \A i \in Nat : n <= i + (m + 1) <=> k <= i
      BY <2>3
    <3>2. \A i \in Nat : k < i => n <= i + m
      BY <2>3
    <3> HIDE DEF k
    <3>3. g \in F /\ g[k] = G[k][f] /\ \A j \in Nat : j # k => g[j] = f[j]
      BY <1>0, <3>1
    <3> HIDE DEF g
    <3>4. From(g, m + 1)
      <4> SUFFICES ASSUME NEW i \in Nat, k <= i PROVE g[i] = G[i][g]
        BY <3>1
      <4>1. \A j \in Nat : i < j /\ i < n => f[j] = g[j]
        BY <3>1, <3>3
      <4>2. G[i][f] = G[i][g]
        BY <3>3, <4>1
      <4>3. CASE i = k
        BY <3>3, <4>2, <4>3
      <4>4. CASE i # k
        <5>1. f[i] = G[i][f]
          BY <2>1, <3>1, <3>2, <4>4
        <5> QED BY <3>3, <4>2, <4>4, <5>1
      <4> QED BY <4>3, <4>4
    <3> HIDE DEF F, From
    <3> QED BY <3>3, <3>4
  <2> QED BY <2>2, <2>3
<1>3. n \in T
  <2> HIDE DEF T
  <2> QED BY <1>1, <1>2, NaturalInduction
<1>4. PICK f \in F : From(f, n)
  BY <1>3
<1>5. \A i \in Nat : f[i] = G[i][f]
  BY <1>4
<1> QED BY <1>4, <1>5 DEF Solves
=============================================================================
