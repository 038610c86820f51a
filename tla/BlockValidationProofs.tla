----------------------- MODULE BlockValidationProofs -----------------------
(***************************************************************************)
(* BlockValidation, for any keys, transactions, blocks and crashes: its    *)
(* types, that software rejects nothing without reason, that the databases *)
(* of peer and card agree, and that it implements SerialLedger.            *)
(*                                                                         *)
(* What the recursive functions compute is proved first, by the inductions *)
(* of RecursiveFunctions: StatesAfter steps from state to state, Without   *)
(* lists what is not bad, and the card's result is a serial execution. The *)
(* invariant of the loop is then that the database with the batch on top   *)
(* is the state that the transactions accepted so far leave.               *)
(***************************************************************************)
EXTENDS BlockValidation, RecursiveFunctions, FiniteSetTheorems

-----------------------------------------------------------------------------
(* The states that the transactions of a block leave one after the other.  *)

\* Writes leave a state.
LEMMA WrittenType ==
  ASSUME NEW tx, NEW s \in State, NEW v \in Version
  PROVE  Written(tx, s, v) \in State
BY DEF Written, State, Version

\* The states are what their definition says, one for each number of transactions.
LEMMA StatesAfterUnfolds ==
  ASSUME NEW s \in State, NEW n \in Nat, NEW b, Len(b) \in Nat, NEW ok
  PROVE  /\ StatesAfter(s, n, b, ok) \in [0..Len(b) -> State]
         /\ StatesAfter(s, n, b, ok)[0] = s
         /\ \A i \in 1..Len(b) :
              StatesAfter(s, n, b, ok)[i] =
                IF ok[i] THEN Written(b[i], StatesAfter(s, n, b, ok)[i - 1], <<n, i - 1>>)
                ELSE StatesAfter(s, n, b, ok)[i - 1]
<1> DEFINE G == [i \in 1..Len(b) |-> [st \in State |->
                  IF ok[i] THEN Written(b[i], st, <<n, i - 1>>) ELSE st]]
           Unfolds(f) == f = [i \in 0..Len(b) |->
                           IF i = 0 THEN s
                           ELSE IF ok[i] THEN Written(b[i], f[i - 1], <<n, i - 1>>)
                           ELSE f[i - 1]]
<1>1. G \in [1..Len(b) -> [State -> State]]
  <2> SUFFICES ASSUME NEW i \in 1..Len(b), NEW st \in State
               PROVE  Written(b[i], st, <<n, i - 1>>) \in State
    OBVIOUS
  <2> <<n, i - 1>> \in Version
    BY DEF Version
  <2> QED BY WrittenType
<1>2. PICK f : Recursion(f, Len(b), State, s, G)
  <2> HIDE DEF G
  <2> QED BY <1>1, RecursionExists DEF Steps
<1>3. \A i \in 1..Len(b) : f[i] = IF ok[i] THEN Written(b[i], f[i - 1], <<n, i - 1>>)
                                  ELSE f[i - 1]
  <2> SUFFICES ASSUME NEW i \in 1..Len(b)
               PROVE  f[i] = IF ok[i] THEN Written(b[i], f[i - 1], <<n, i - 1>>)
                             ELSE f[i - 1]
    OBVIOUS
  <2> f[i - 1] \in State
    BY <1>2 DEF Recursion
  <2> QED BY <1>2 DEF Recursion
<1>4. Unfolds(f)
  BY <1>2, <1>3 DEF Recursion
<1>5. Unfolds(CHOOSE g : Unfolds(g))
  <2> HIDE DEF Unfolds
  <2> QED BY <1>4
<1> DEFINE after == StatesAfter(s, n, b, ok)
<1>6. Unfolds(after)
  BY <1>5 DEF StatesAfter
<1> HIDE DEF after
<1>7. /\ after[0] = s
      /\ \A i \in 1..Len(b) : after[i] =
           IF ok[i] THEN Written(b[i], after[i - 1], <<n, i - 1>>) ELSE after[i - 1]
  BY <1>6
<1>8. \A i \in 0..Len(b) : after[i] \in State
  <2> DEFINE T == {j \in Nat : after[j] \in State}
  <2>1. ASSUME NEW i \in 1..Len(b), i - 1 \in T PROVE i \in T
    <3> <<n, i - 1>> \in Version
      BY DEF Version
    <3> QED BY <1>7, <2>1, WrittenType
  <2>2. \A i \in 0..Len(b) : i \in T
    <3> 0 \in T
      BY <1>7
    <3> HIDE DEF T
    <3> QED BY <2>1, IntervalInduction
  <2> QED BY <2>2
<1>9. after \in [0..Len(b) -> State]
  BY <1>6, <1>8
<1> QED BY <1>7, <1>9 DEF after

\* A state depends only on what is accepted before it.
LEMMA StatesAfterPrefix ==
  ASSUME NEW s \in State, NEW n \in Nat, NEW b, Len(b) \in Nat, NEW ok, NEW okay,
         NEW k \in 0..Len(b), \A i \in 1..k : ok[i] = okay[i]
  PROVE  \A i \in 0..k : StatesAfter(s, n, b, ok)[i] = StatesAfter(s, n, b, okay)[i]
<1> DEFINE f == StatesAfter(s, n, b, ok)
           g == StatesAfter(s, n, b, okay)
           T == {i \in Nat : f[i] = g[i]}
<1>1. 0 \in T
  BY StatesAfterUnfolds
<1>2. ASSUME NEW i \in 1..k, i - 1 \in T PROVE i \in T
  <2>1. i \in 1..Len(b)
    OBVIOUS
  <2>2. f[i] = IF ok[i] THEN Written(b[i], f[i - 1], <<n, i - 1>>) ELSE f[i - 1]
    BY <2>1, StatesAfterUnfolds
  <2>3. g[i] = IF okay[i] THEN Written(b[i], g[i - 1], <<n, i - 1>>) ELSE g[i - 1]
    BY <2>1, StatesAfterUnfolds
  <2> HIDE DEF f, g
  <2> QED BY <1>2, <2>2, <2>3
<1>3. \A i \in 0..k : i \in T
  <2> k \in Nat
    OBVIOUS
  <2> HIDE DEF T
  <2> QED BY <1>1, <1>2, IntervalInduction
<1> QED BY <1>3

\* What is not accepted leaves the state as it is.
LEMMA StatesAfterRest ==
  ASSUME NEW s \in State, NEW n \in Nat, NEW b, Len(b) \in Nat, NEW ok,
         NEW k \in 0..Len(b), \A i \in 1..Len(b) : i > k => ~ok[i]
  PROVE  StatesAfter(s, n, b, ok)[Len(b)] = StatesAfter(s, n, b, ok)[k]
<1> DEFINE f == StatesAfter(s, n, b, ok)
           T == {i \in Nat : k <= i => f[i] = f[k]}
<1>1. 0 \in T
  OBVIOUS
<1>2. ASSUME NEW i \in 1..Len(b), i - 1 \in T PROVE i \in T
  <2>1. f[i] = IF ok[i] THEN Written(b[i], f[i - 1], <<n, i - 1>>) ELSE f[i - 1]
    BY StatesAfterUnfolds
  <2> HIDE DEF f
  <2> QED BY <1>2, <2>1
<1>3. \A i \in 0..Len(b) : i \in T
  <2> HIDE DEF T
  <2> QED BY <1>1, <1>2, IntervalInduction
<1>4. Len(b) \in T /\ k <= Len(b)
  BY <1>3
<1> QED BY <1>4

-----------------------------------------------------------------------------
(* The transactions that are left to judge.                                *)

\* The members of a set of numbers in their order.
Lists(t, set) ==
  /\ t \in Seq(set)
  /\ \A i, j \in 1..Len(t) : i < j => t[i] < t[j]
  /\ \A x \in set : \E i \in 1..Len(t) : t[i] = x

\* Without lists the transactions that are not bad.
LEMMA WithoutLists ==
  ASSUME NEW n \in Nat, NEW bad
  PROVE  Lists(Without(n, bad), (1..n) \ bad)
<1> DEFINE G == [j \in 1..n |-> [t \in Seq(Nat) |-> IF j \in bad THEN t ELSE Append(t, j)]]
           Unfolds(f) == f = [j \in 0..n |->
                           IF j = 0 THEN <<>> ELSE IF j \in bad THEN f[j - 1]
                           ELSE Append(f[j - 1], j)]
<1>1. G \in Steps(n, Seq(Nat))
  BY DEF Steps
<1>2. PICK f : Recursion(f, n, Seq(Nat), <<>>, G)
  <2> HIDE DEF G
  <2> <<>> \in Seq(Nat)
    OBVIOUS
  <2> QED BY <1>1, RecursionExists
<1>3. \A j \in 1..n : f[j] = IF j \in bad THEN f[j - 1] ELSE Append(f[j - 1], j)
  <2> SUFFICES ASSUME NEW j \in 1..n
               PROVE  f[j] = IF j \in bad THEN f[j - 1] ELSE Append(f[j - 1], j)
    OBVIOUS
  <2> f[j - 1] \in Seq(Nat)
    BY <1>2 DEF Recursion
  <2> QED BY <1>2 DEF Recursion
<1>4. Unfolds(f)
  <2>1. f = [j \in 0..n |-> f[j]] /\ f[0] = <<>>
    BY <1>2 DEF Recursion
  <2>2. \A j \in 0..n : j # 0 => j \in 1..n
    OBVIOUS
  <2> QED BY <2>1, <2>2, <1>3, Zenon
<1>5. Unfolds(CHOOSE g : Unfolds(g))
  <2> HIDE DEF Unfolds
  <2> QED BY <1>4
<1>6. PICK left : Unfolds(left) /\ Without(n, bad) = left[n]
  BY <1>5 DEF Without
<1> DEFINE T == {j \in Nat : Lists(left[j], (1..j) \ bad)}
<1>7. 0 \in T
  <2>1. left[0] = <<>>
    BY <1>6
  <2>2. Lists(<<>>, (1..0) \ bad)
    BY DEF Lists
  <2> QED BY <2>1, <2>2
<1>8. ASSUME NEW j \in 1..n, j - 1 \in T PROVE j \in T
  <2>1. left[j] = IF j \in bad THEN left[j - 1] ELSE Append(left[j - 1], j)
    <3> j \in 0..n /\ j # 0
      OBVIOUS
    <3> QED BY <1>6, Zenon
  <2> DEFINE t == left[j - 1]
  <2>2. Lists(t, (1..(j - 1)) \ bad)
    BY <1>8
  <2>3. CASE j \in bad
    <3> (1..j) \ bad = (1..(j - 1)) \ bad
      BY <2>3
    <3> QED BY <2>1, <2>2, <2>3
  <2>4. CASE j \notin bad
    <3> HIDE DEF t
    <3> DEFINE set == (1..(j - 1)) \ bad
    <3>1. (1..j) \ bad = set \union {j} /\ \A x \in set : x \in Nat /\ x < j
      BY <2>4
    <3> HIDE DEF set
    <3>2. t \in Seq(set) /\ Lists(t, set)
      BY <2>2 DEF Lists, set
    <3> DEFINE new == Append(t, j)
    <3>3. /\ new \in Seq(set \union {j}) /\ Len(new) = Len(t) + 1 /\ new[Len(t) + 1] = j
          /\ \A i \in 1..Len(t) : new[i] = t[i] /\ t[i] \in set
          /\ Len(t) \in Nat
      BY <3>2
    <3> HIDE DEF new
    <3>4. \A i, k \in 1..Len(new) : i < k => new[i] < new[k]
      <4> SUFFICES ASSUME NEW i \in 1..Len(new), NEW k \in 1..Len(new), i < k
                   PROVE  new[i] < new[k]
        OBVIOUS
      <4>1. i \in 1..Len(t)
        BY <3>3
      <4>2. CASE k = Len(t) + 1
        BY <4>1, <4>2, <3>1, <3>3
      <4>3. CASE k # Len(t) + 1
        <5> k \in 1..Len(t)
          BY <4>3, <3>3
        <5> QED BY <4>1, <3>2, <3>3 DEF Lists
      <4> QED BY <4>2, <4>3
    <3>5. \A x \in set \union {j} : \E i \in 1..Len(new) : new[i] = x
      <4> SUFFICES ASSUME NEW x \in set \union {j}
                   PROVE  \E i \in 1..Len(new) : new[i] = x
        OBVIOUS
      <4>1. CASE x = j
        <5> Len(t) + 1 \in 1..Len(new)
          BY <3>3
        <5> QED BY <4>1, <3>3
      <4>2. CASE x # j
        <5>1. PICK i \in 1..Len(t) : t[i] = x
          BY <4>2, <3>2 DEF Lists
        <5>2. i \in 1..Len(new)
          BY <3>3
        <5> QED BY <5>1, <5>2, <3>3
      <4> QED BY <4>1, <4>2
    <3>6. Lists(new, set \union {j})
      BY <3>3, <3>4, <3>5 DEF Lists
    <3>7. left[j] = new
      BY <2>1, <2>4 DEF t, new
    <3>8. Lists(left[j], (1..j) \ bad)
      BY <3>1, <3>6, <3>7
    <3> QED BY <3>8
  <2> QED BY <2>3, <2>4
<1>9. \A j \in 0..n : j \in T
  <2> HIDE DEF T
  <2> QED BY <1>7, <1>8, IntervalInduction
<1> QED BY <1>6, <1>9

-----------------------------------------------------------------------------
(* The card's result.                                                      *)

\* Flags that accept exactly the transactions of block b, number n, whose reads are
\* all current in the state reached, and the state that the accepted ones leave.
JudgedInTurn(n, b, ok, st) ==
  /\ ok \in Seq(BOOLEAN) /\ Len(ok) = Len(b)
  /\ st = StatesAfter(cardDb, n, b, ok)[Len(b)]
  /\ \A i \in 1..Len(b) :
       ok[i] <=> ReadsCurrent(b[i], StatesAfter(cardDb, n, b, ok)[i - 1])

\* The card accepts what finds all its reads in the state it has reached, and keeps
\* the state that all it has accepted leaves.
LEMMA CardResultIs ==
  ASSUME cardDb \in State, NEW n \in Nat, NEW b, Len(b) \in Nat,
         NEW ok, NEW st, ok = CardResult(n, b).ok, st = CardResult(n, b).state
  PROVE  JudgedInTurn(n, b, ok, st)
<1> DEFINE S == [ok : Seq(BOOLEAN), state : State]
           Accept(x, j) == [ok |-> Append(x.ok, TRUE),
                            state |-> Written(b[j], x.state, <<n, j - 1>>)]
           Reject(x) == [ok |-> Append(x.ok, FALSE), state |-> x.state]
           Step(x, j) == LET good == ReadsCurrent(b[j], x.state)
                         IN [ok |-> Append(x.ok, good),
                             state |-> IF good THEN Written(b[j], x.state, <<n, j - 1>>)
                                       ELSE x.state]
           first == [ok |-> <<>>, state |-> cardDb]
           G == [j \in 1..Len(b) |-> [x \in S |-> Step(x, j)]]
           Unfolds(f) == f = [j \in 0..Len(b) |->
                                IF j = 0 THEN first ELSE Step(f[j - 1], j)]
<1>1. ASSUME NEW x, NEW j
      PROVE  Step(x, j) = IF ReadsCurrent(b[j], x.state) THEN Accept(x, j) ELSE Reject(x)
  <2> DEFINE good == ReadsCurrent(b[j], x.state)
  <2>1. good \in BOOLEAN
    BY DEF ReadsCurrent
  <2> HIDE DEF good
  <2>2. CASE good
    <3> good = TRUE
      BY <2>1, <2>2
    <3> QED BY Zenon DEF good
  <2>3. CASE ~good
    <3> good = FALSE
      BY <2>1, <2>3
    <3> QED BY Zenon DEF good
  <2> QED BY <2>2, <2>3
<1>2. ASSUME NEW x \in S, NEW j \in 1..Len(b) PROVE Step(x, j) \in S
  <2> <<n, j - 1>> \in Version
    BY DEF Version
  <2> Written(b[j], x.state, <<n, j - 1>>) \in State
    BY WrittenType
  <2> Accept(x, j) \in S /\ Reject(x) \in S
    OBVIOUS
  <2> HIDE DEF Step, Accept, Reject
  <2> QED BY <1>1
<1> HIDE DEF Step
<1>3. G \in Steps(Len(b), S)
  BY <1>2 DEF Steps
<1>4. PICK f : Recursion(f, Len(b), S, first, G)
  <2>1. first \in S
    OBVIOUS
  <2> HIDE DEF G, first, S
  <2> QED BY <1>3, <2>1, RecursionExists
<1> HIDE DEF first, S
<1>5. Unfolds(f)
  <2>1. \A j \in 1..Len(b) : f[j] = Step(f[j - 1], j)
    <3> SUFFICES ASSUME NEW j \in 1..Len(b) PROVE f[j] = Step(f[j - 1], j)
      OBVIOUS
    <3>1. f[j - 1] \in S
      BY <1>4 DEF Recursion
    <3>2. f[j] = G[j][f[j - 1]]
      <4> HIDE DEF G
      <4> QED BY <1>4 DEF Recursion
    <3>3. G[j] = [x \in S |-> Step(x, j)]
      OBVIOUS
    <3> HIDE DEF G
    <3> QED BY <3>1, <3>2, <3>3
  <2> HIDE DEF G
  <2> QED BY <1>4, <2>1 DEF Recursion
<1>6. Unfolds(CHOOSE g : Unfolds(g))
  <2> HIDE DEF Unfolds
  <2> QED BY <1>5
<1>7. PICK run : Unfolds(run) /\ CardResult(n, b) = run[Len(b)]
  BY <1>6 DEF CardResult, Step, first
<1>8. /\ run[0] = first
      /\ \A j \in 1..Len(b) : run[j] = Step(run[j - 1], j)
  BY <1>7
<1>9. \A j \in 0..Len(b) : run[j] \in S
  <2> DEFINE T == {j \in Nat : run[j] \in S}
  <2>1. 0 \in T
    <3> first \in S
      BY DEF first, S
    <3> QED BY <1>8
  <2>2. ASSUME NEW j \in 1..Len(b), j - 1 \in T PROVE j \in T
    BY <1>2, <1>8, <2>2
  <2>3. \A j \in 0..Len(b) : j \in T
    <3> HIDE DEF T
    <3> QED BY <2>1, <2>2, IntervalInduction
  <2> QED BY <2>3
<1>10. ASSUME NEW j \in 1..Len(b)
       PROVE  /\ run[j - 1].ok \in Seq(BOOLEAN)
              /\ \/ /\ ReadsCurrent(b[j], run[j - 1].state)
                    /\ run[j].ok = Append(run[j - 1].ok, TRUE)
                    /\ run[j].state = Written(b[j], run[j - 1].state, <<n, j - 1>>)
                 \/ /\ ~ReadsCurrent(b[j], run[j - 1].state)
                    /\ run[j].ok = Append(run[j - 1].ok, FALSE)
                    /\ run[j].state = run[j - 1].state
  <2>1. run[j - 1] \in S
    <3> j - 1 \in 0..Len(b)
      OBVIOUS
    <3> QED BY <1>9
  <2>2. run[j] = IF ReadsCurrent(b[j], run[j - 1].state) THEN Accept(run[j - 1], j)
                 ELSE Reject(run[j - 1])
    <3> HIDE DEF Accept, Reject
    <3> QED BY <1>1, <1>8
  <2>3. /\ Accept(run[j - 1], j).ok = Append(run[j - 1].ok, TRUE)
        /\ Accept(run[j - 1], j).state = Written(b[j], run[j - 1].state, <<n, j - 1>>)
        /\ Reject(run[j - 1]).ok = Append(run[j - 1].ok, FALSE)
        /\ Reject(run[j - 1]).state = run[j - 1].state
    OBVIOUS
  <2> HIDE DEF Accept, Reject
  <2> QED BY <2>1, <2>2, <2>3 DEF S
<1> DEFINE Good(i) == ReadsCurrent(b[i], run[i - 1].state)
<1>11. \A j \in 0..Len(b) : /\ Len(run[j].ok) = j
                            /\ \A i \in 1..j : run[j].ok[i] <=> Good(i)
  <2> DEFINE T == {j \in Nat : /\ Len(run[j].ok) = j
                              /\ \A i \in 1..j : run[j].ok[i] <=> Good(i)}
  <2>1. 0 \in T
    BY <1>8 DEF first
  <2>2. ASSUME NEW j \in 1..Len(b), j - 1 \in T PROVE j \in T
    <3> DEFINE o == run[j - 1].ok
               new == run[j].ok
    <3>1. o \in Seq(BOOLEAN) /\ Len(o) = j - 1 /\ \A i \in 1..(j - 1) : o[i] <=> Good(i)
      BY <1>10, <2>2
    <3>2. \/ Good(j) /\ new = Append(o, TRUE)
          \/ ~Good(j) /\ new = Append(o, FALSE)
      BY <1>10
    <3> HIDE DEF o, new, Good
    <3>3. PICK x \in BOOLEAN : new = Append(o, x) /\ (x <=> Good(j))
      BY <3>2
    <3>4. Len(new) = j /\ new[j] = x /\ \A i \in 1..(j - 1) : new[i] = o[i]
      BY <3>1, <3>3
    <3>5. \A i \in 1..j : new[i] <=> Good(i)
      BY <3>1, <3>3, <3>4
    <3> QED BY <3>4, <3>5 DEF new
  <2>3. \A j \in 0..Len(b) : j \in T
    <3> HIDE DEF T
    <3> QED BY <2>1, <2>2, IntervalInduction
  <2> QED BY <2>3
<1>12. ok = run[Len(b)].ok /\ st = run[Len(b)].state
  BY <1>7
<1>13. /\ ok \in Seq(BOOLEAN) /\ Len(ok) = Len(b)
       /\ \A i \in 1..Len(b) : ok[i] <=> Good(i)
  <2> Len(b) \in 0..Len(b)
    OBVIOUS
  <2> HIDE DEF Good
  <2> QED BY <1>9, <1>11, <1>12 DEF S
<1>14. \A j \in 0..Len(b) : run[j].state = StatesAfter(cardDb, n, b, ok)[j]
  <2> DEFINE after == StatesAfter(cardDb, n, b, ok)
             T == {j \in Nat : run[j].state = after[j]}
  <2>1. 0 \in T
    BY <1>8, StatesAfterUnfolds DEF first
  <2>2. ASSUME NEW j \in 1..Len(b), j - 1 \in T PROVE j \in T
    <3>1. after[j] = IF ok[j] THEN Written(b[j], after[j - 1], <<n, j - 1>>) ELSE after[j - 1]
      BY StatesAfterUnfolds
    <3>2. run[j].state = IF Good(j) THEN Written(b[j], run[j - 1].state, <<n, j - 1>>)
                         ELSE run[j - 1].state
      BY <1>10
    <3> HIDE DEF after, Good
    <3> QED BY <1>13, <2>2, <3>1, <3>2
  <2>3. \A j \in 0..Len(b) : j \in T
    <3> HIDE DEF T
    <3> QED BY <2>1, <2>2, IntervalInduction
  <2> QED BY <2>3
<1>15. \A i \in 1..Len(b) : i - 1 \in 0..Len(b)
  OBVIOUS
<1> QED
  <2>1. /\ ok \in Seq(BOOLEAN) /\ Len(ok) = Len(b)
        /\ st = StatesAfter(cardDb, n, b, ok)[Len(b)]
        /\ \A i \in 1..Len(b) :
             ok[i] <=> ReadsCurrent(b[i], StatesAfter(cardDb, n, b, ok)[i - 1])
    BY <1>12, <1>13, <1>14, <1>15
  <2> QED BY <2>1 DEF JudgedInTurn

\* The card's state is a state.
LEMMA CardResultState ==
  ASSUME cardDb \in State, NEW n \in Nat, NEW b, Len(b) \in Nat
  PROVE  CardResult(n, b).state \in State
<1> DEFINE ok == CardResult(n, b).ok
           st == CardResult(n, b).state
<1>1. st = StatesAfter(cardDb, n, b, ok)[Len(b)]
  BY CardResultIs DEF JudgedInTurn
<1>2. StatesAfter(cardDb, n, b, ok) \in [0..Len(b) -> State] /\ Len(b) \in 0..Len(b)
  BY StatesAfterUnfolds
<1> QED BY <1>1, <1>2

-----------------------------------------------------------------------------
(* The inductive invariant.                                                *)

Versions == UNION {[d -> Version] : d \in SUBSET Keys}
Transaction == [reads : Versions, scan : [start : Nat, end : Nat, exhausted : BOOLEAN],
                results : Versions, puts : SUBSET Keys, deletes : SUBSET Keys]

\* TypeOK, with the types of what comes from outside.
TypeInv ==
  /\ TypeOK
  /\ block \in Seq(Transaction) /\ simulated \in Seq(Transaction)
  /\ last.txs \in Seq(Transaction)

\* What a phase knows of the last block; a block is recommitted only by software.
PhaseInv ==
  /\ phase \in {"idle", "validate"} => (doMVCC <=> ~Stored)
  /\ phase = "idle" => doMVCC
  /\ phase = "stored" => /\ doMVCC /\ Stored
                         /\ last.txs = block /\ last.valid = valid /\ judged = Len(txs)
  /\ phase = "down" => /\ Stored /\ last.txs = block
                       /\ updates = NoUpdates /\ judged = 0
                       /\ valid = [j \in 1..Len(block) |-> FALSE]
  /\ mode.hw => doMVCC /\ phase # "down"

InBlock == phase \in {"validate", "stored"}

\* The states the accepted transactions of the block leave, so far.
After == StatesAfter(db, height, block, valid)

\* The loop accepts in the order of the block, and the batch has what the
\* transactions accepted so far write.
LoopInv ==
  /\ last.valid \in Seq(BOOLEAN)
  /\ InBlock =>
       /\ \A j, k \in 1..Len(txs) : j < k => txs[j] < txs[k]
       /\ valid \in Seq(BOOLEAN)
       /\ \A i \in 1..Len(block) : valid[i] => \E j \in 1..judged : txs[j] = i
       /\ DOMAIN updates = WrittenBefore(Len(block) + 1)
       /\ Combined = After[Len(block)]

\* What is accepted found all its reads in the state its predecessors left.
SoundInv ==
  phase = "validate" /\ doMVCC =>
    \A i \in 1..Len(block) : valid[i] => ReadsCurrent(block[i], After[i - 1])

\* What is recommitted is what the stored codes say.
RecommitInv ==
  phase = "validate" /\ ~doMVCC =>
    /\ block = last.txs
    /\ Lists(txs, (1..Len(block)) \ StoredInvalid)
    /\ \A j \in 1..judged : valid[txs[j]]

\* What is rejected has a reason.
ReasonInv ==
  InBlock /\ ~mode.hw /\ doMVCC =>
    \A j \in 1..judged :
      LET tx == block[txs[j]]
      IN \/ valid[txs[j]]
         \/ DOMAIN tx.reads \intersect WrittenBefore(txs[j]) # {}
         \/ ~ReadsCurrent(tx, After[txs[j] - 1])

\* The card's flags are those of a serial execution on the state of the peer, which
\* gives each transaction its flag.
CardInv ==
  mode.hw =>
    /\ phase = "idle" => db = cardDb
    /\ InBlock =>
         /\ flags \in Seq(BOOLEAN) /\ Len(flags) = Len(block)
         /\ cardDb = StatesAfter(db, height, block, flags)[Len(block)]
         /\ \A i \in 1..Len(block) :
              flags[i] => ReadsCurrent(block[i], StatesAfter(db, height, block, flags)[i - 1])
         /\ Len(txs) = Len(block) /\ \A j \in 1..Len(txs) : txs[j] = j
         /\ \A j \in 1..judged : valid[j] = flags[j]

\* The card sees no transaction that the transaction validator has found invalid.
Trusted == mode.hw => mode.maxBad = 0

IInv ==
  /\ TypeInv /\ PhaseInv
  /\ Trusted => LoopInv /\ RecommitInv /\ SoundInv /\ ReasonInv /\ CardInv

-----------------------------------------------------------------------------
(* Types.                                                                  *)

\* What a query finds are versions of keys.
LEMMA FoundType ==
  ASSUME NEW q, NEW s \in State
  PROVE  Found(q, s) \in Versions
<1>1. DOMAIN Found(q, s) \in SUBSET Keys
  BY DEF Found, ScannedKeys
<1>2. \A key \in DOMAIN Found(q, s) : Found(q, s)[key] \in Version
  BY DEF Found, ScannedKeys, State
<1>3. Found(q, s) \in [DOMAIN Found(q, s) -> Version]
  BY <1>2 DEF Found
<1> QED BY <1>1, <1>3 DEF Versions

\* What is simulated on a state is a transaction.
LEMMA TransactionsType ==
  ASSUME TypeInv
  PROVE  Transactions \subseteq Transaction
<1> SUFFICES ASSUME NEW r \in NoKeyOrOne, NEW q \in Scans, NEW p \in NoKeyOrOne,
                    NEW d \in NoKeyOrOne
             PROVE  [reads |-> [key \in r |-> db[key]], scan |-> q,
                     results |-> Found(q, db), puts |-> p, deletes |-> d] \in Transaction
  BY DEF Transactions
<1>1. r \in SUBSET Keys /\ p \in SUBSET Keys /\ d \in SUBSET Keys
  BY DEF NoKeyOrOne
<1>2. db \in State
  BY DEF TypeInv, TypeOK
<1>3. [key \in r |-> db[key]] \in Versions
  <2>1. [key \in r |-> db[key]] \in [r -> Version]
    BY <1>1, <1>2 DEF State
  <2> QED BY <1>1, <2>1 DEF Versions
<1>4. Found(q, db) \in Versions
  BY <1>2, FoundType
<1>5. q \in [start : Nat, end : Nat, exhausted : BOOLEAN]
  <2>1. CASE q = NoScan
    BY <2>1 DEF NoScan
  <2>3. CASE q = FullScan
    <3> NumKeys + 1 \in Nat
      BY NumKeysAssumption
    <3> QED BY <2>3 DEF FullScan
  <2>2. CASE q \in {ScansTo(key) : key \in {x \in Keys : db[x] # NoVersion}}
    <3> PICK key \in Keys : q = ScansTo(key)
      BY <2>2
    <3> key \in Nat
      BY NumKeysAssumption DEF Keys
    <3> QED BY DEF ScansTo
  <2> QED BY <2>1, <2>2, <2>3 DEF Scans
<1> QED BY <1>1, <1>3, <1>4, <1>5 DEF Transaction

\* The state with the batch on top is a state.
LEMMA CombinedType ==
  ASSUME TypeInv
  PROVE  Combined \in State
BY DEF TypeInv, TypeOK, Combined, State

\* The new state and the new batch are of the keys' versions.
LEMMA ApplyType ==
  ASSUME TypeInv, NEW tx \in Transaction, NEW v \in Version
  PROVE  /\ DOMAIN ApplyWriteSet(tx, v) \subseteq Keys
         /\ \A key \in DOMAIN ApplyWriteSet(tx, v) : ApplyWriteSet(tx, v)[key] \in Version
<1>1. tx.puts \subseteq Keys /\ tx.deletes \subseteq Keys
  BY DEF Transaction
<1>2. NoVersion \in Version
  BY DEF Version
<1> QED BY <1>1, <1>2 DEF TypeInv, TypeOK, ApplyWriteSet

\* The initial state has its types.
LEMMA InitTypes ==
  ASSUME Init
  PROVE  TypeInv
<1>1. db \in State
  <2> \A key \in Keys : (IF key \in Genesis THEN <<0, 0>> ELSE NoVersion) \in Version
    BY DEF Version
  <2> QED BY DEF Init, State
<1>2. <<>> \in Seq(Transaction) /\ <<>> \in Seq(1..Len(block)) /\ DOMAIN updates = {}
  BY DEF Init, NoUpdates
<1> QED BY <1>1, <1>2 DEF Init, TypeInv, TypeOK, Phases, NoUpdates

\* Every step keeps the types.
LEMMA StepTypes ==
  ASSUME TypeInv, PhaseInv, [Next]_vars
  PROVE  TypeInv'
<1> USE DEF TypeInv, TypeOK, Phases
<1>1. CASE Simulate
  <2>1. PICK tx \in Transaction : simulated' = Append(simulated, tx)
    BY <1>1, TransactionsType DEF Simulate
  <2>2. simulated' \in Seq(Transaction) /\ Len(simulated') = Len(simulated) + 1
    BY <2>1
  <2> QED BY <1>1, <2>2 DEF Simulate, durable, card, State
<1>2. ASSUME NEW n \in 1..BlockSize, n <= Len(simulated), BlockArrives(n)
      PROVE  TypeInv'
  <2>0. n \in Nat /\ Len(simulated) \in Nat
    BY ValidationAssumption
  <2>1. /\ block' \in Seq(Transaction) /\ Len(block') = n
        /\ simulated' \in Seq(Transaction) /\ Len(simulated') = Len(simulated) - n
    BY <1>2, <2>0 DEF BlockArrives
  <2>2. txs' \in Seq(1..n)
    <3> PICK bad \in SUBSET (1..n) : txs' = Without(n, bad)
      BY <1>2 DEF BlockArrives
    <3>1. txs' \in Seq((1..n) \ bad)
      BY <2>0, WithoutLists DEF Lists
    <3> QED BY <3>1
  <2>3. cardDb' \in State
    <3>1. CASE mode.hw
      <4>1. cardDb' = CardResult(height, block').state
        BY <1>2, <3>1 DEF BlockArrives
      <4> QED BY <2>0, <2>1, <4>1, CardResultState
    <3>2. CASE ~mode.hw
      BY <1>2, <3>2 DEF BlockArrives, card
    <3> QED BY <3>1, <3>2
  <2>4. Len(valid') = n /\ DOMAIN updates' = {} /\ judged' \in 0..Len(txs')
    BY <1>2, <2>0, <2>2 DEF BlockArrives, NoUpdates
  <2> QED BY <1>2, <2>0, <2>1, <2>2, <2>3, <2>4 DEF BlockArrives, durable, bounds
<1>3. ASSUME NEW code, InLoop, Judge(txs[judged + 1], code)
      PROVE  TypeInv'
  <2> DEFINE n == txs[judged + 1]
  <2>1. n \in 1..Len(block) /\ judged' \in 0..Len(txs)
    BY <1>3 DEF InLoop, Judge
  <2>2. Len(valid') = Len(block)
    BY <1>3, <2>1 DEF Judge
  <2>3. block[n] \in Transaction /\ <<height, n - 1>> \in Version
    BY <2>1 DEF Version
  <2>4. /\ DOMAIN updates' \subseteq Keys
        /\ \A key \in DOMAIN updates' : updates'[key] \in Version
    BY <1>3, <2>3, ApplyType DEF Judge
  <2> HIDE DEF n
  <2> QED BY <1>3, <2>1, <2>2, <2>4 DEF Judge, durable, card, bounds
<1>4. CASE AddBlock
  BY <1>4 DEF AddBlock, card, bounds
<1>5. CASE CommitState
  <2>1. db' \in State
    BY <1>5, CombinedType DEF CommitState
  <2>2. last.num = height
    BY <1>5 DEF CommitState, PhaseInv, Stored
  <2>3. DOMAIN updates' = {}
    BY <1>5 DEF CommitState, NoUpdates
  <2>4. /\ block' = <<>> /\ valid' = <<>> /\ txs' = <<>> /\ judged' = 0
        /\ block' \in Seq(Transaction) /\ txs' \in Seq(1..Len(block'))
    BY <1>5 DEF CommitState
  <2>5. /\ height' = height + 1 /\ phase' = "idle" /\ doMVCC' = TRUE
        /\ UNCHANGED <<mode, last, simulated, cardDb, simulations, crashes>>
    BY <1>5 DEF CommitState, card, bounds
  <2>6. Len(valid') = Len(block') /\ judged' \in 0..Len(txs')
    BY <2>4
  <2>7. last.num \in {height' - 1, height'}
    BY <2>2, <2>5
  <2> HIDE DEF State
  <2> QED BY <2>1, <2>3, <2>4, <2>5, <2>6, <2>7
<1>6. CASE Crash
  <2>1. Len(valid') = Len(block) /\ DOMAIN updates' = {}
    BY <1>6 DEF Crash, NoUpdates
  <2>2. 0 \in 0..Len(txs)
    OBVIOUS
  <2> QED BY <1>6, <2>1, <2>2 DEF Crash, durable, card
<1>7. CASE RecommitLostBlock
  <2>1. block' = block /\ Len(last.txs) = Len(block)
    BY <1>7 DEF RecommitLostBlock, PhaseInv
  <2>2. txs' \in Seq(1..Len(block'))
    <3>1. txs' = Without(Len(last.txs), StoredInvalid) /\ Len(last.txs) \in Nat
      BY <1>7 DEF RecommitLostBlock
    <3>2. txs' \in Seq((1..Len(last.txs)) \ StoredInvalid)
      BY <3>1, WithoutLists DEF Lists
    <3> QED BY <2>1, <3>2
  <2>3. judged' \in 0..Len(txs')
    BY <1>7, <2>2 DEF RecommitLostBlock, PhaseInv
  <2> QED BY <1>7, <2>1, <2>2, <2>3 DEF RecommitLostBlock, durable, card, bounds
<1>8. CASE UNCHANGED vars
  BY <1>8 DEF vars, durable, card, bounds, State
<1>9. CASE SoftwareValidates
  BY <1>3, <1>9 DEF SoftwareValidates
<1>10. CASE HardwareValidates
  BY <1>3, <1>10 DEF HardwareValidates
<1> QED BY <1>1, <1>2, <1>4, <1>5, <1>6, <1>7, <1>8, <1>9, <1>10 DEF Next

-----------------------------------------------------------------------------
(* The loop.                                                               *)

\* The keys written before the n-th transaction, one by one.
LEMMA WrittenBeforeIs ==
  ASSUME NEW n, NEW key
  PROVE  key \in WrittenBefore(n) <=>
           \E j \in 1..n - 1 : valid[j] /\ key \in block[j].puts \union block[j].deletes
BY DEF WrittenBefore

\* The loop starts with an empty batch and nothing accepted.
LEMMA FreshLoop ==
  ASSUME TypeInv', updates' = NoUpdates, valid' = [j \in 1..Len(block') |-> FALSE],
         \A j, k \in 1..Len(txs') : j < k => txs'[j] < txs'[k],
         last'.valid \in Seq(BOOLEAN)
  PROVE  LoopInv' /\ SoundInv' /\ \A i \in 1..Len(block') : ~valid'[i]
<1>1. Len(block') \in Nat /\ db' \in State /\ height' \in Nat
  BY DEF TypeInv, TypeOK
<1>2. \A i \in 1..Len(block') : ~valid'[i]
  OBVIOUS
<1>3. valid' \in Seq(BOOLEAN)
  BY <1>1
<1>4. Combined' = db'
  BY <1>1 DEF Combined, State, NoUpdates
<1>5. After'[Len(block')] = db'
  <2>1. StatesAfter(db', height', block', valid')[Len(block')]
          = StatesAfter(db', height', block', valid')[0]
    BY <1>1, <1>2, StatesAfterRest
  <2>2. StatesAfter(db', height', block', valid')[0] = db'
    BY <1>1, StatesAfterUnfolds
  <2> QED BY <2>1, <2>2 DEF After
<1>6. DOMAIN updates' = {} /\ WrittenBefore(Len(block) + 1)' = {}
  <2>1. (Len(block') + 1) - 1 = Len(block')
    BY <1>1
  <2>2. {m \in 1..(Len(block') + 1) - 1 : valid'[m]} = {}
    BY <1>2, <2>1
  <2>3. WrittenBefore(Len(block) + 1)' = UNION {}
    BY <2>2 DEF WrittenBefore
  <2> QED BY <2>3 DEF NoUpdates
<1>7. LoopInv'
  <2> HIDE DEF After
  <2>1. (DOMAIN updates = WrittenBefore(Len(block) + 1))'
    BY <1>6
  <2>2. (Combined = After[Len(block)])'
    BY <1>4, <1>5
  <2> HIDE DEF After, WrittenBefore, Combined
  <2> QED BY <1>2, <1>3, <2>1, <2>2 DEF LoopInv
<1> QED BY <1>2, <1>7 DEF SoundInv

\* Accepted writes on top of the batch are writes on top of the state it shows.
LEMMA AppliedIsWritten ==
  ASSUME TypeInv, NEW tx \in Transaction, NEW v, updates' = ApplyWriteSet(tx, v), db' = db
  PROVE  /\ Combined' = Written(tx, Combined, v)
         /\ DOMAIN updates' = DOMAIN updates \union tx.puts \union tx.deletes
<1>1. tx.puts \subseteq Keys /\ tx.deletes \subseteq Keys /\ DOMAIN updates \subseteq Keys
  BY DEF Transaction, TypeInv, TypeOK
<1> QED BY <1>1 DEF Combined, Written, ApplyWriteSet

\* A round of the loop gives one transaction its code: the states before it stay, the
\* batch showed the last of them, and shows the state after it now.
LEMMA JudgeKeeps ==
  ASSUME TypeInv, LoopInv, InLoop, NEW code \in BOOLEAN, NEW n, n = txs[judged + 1],
         Judge(n, code)
  PROVE  /\ n \in 1..Len(block)
         /\ \A i \in 1..Len(block) : i >= n => ~valid[i]
         /\ valid'[n] = code /\ \A i \in 1..Len(block) : i # n => valid'[i] = valid[i]
         /\ \A j \in 1..judged : txs[j] < n /\ txs[j] \in 1..Len(block)
         /\ \A i \in 0..n - 1 : After'[i] = After[i]
         /\ Combined = After[n - 1]
         /\ LoopInv'
<1> DEFINE N == Len(block)
<1>1. /\ N \in Nat /\ db \in State /\ height \in Nat /\ Len(txs) \in Nat
      /\ judged \in 0..Len(txs) /\ judged + 1 \in 1..Len(txs) /\ judged \in Nat
      /\ txs \in Seq(1..N) /\ block \in Seq(Transaction) /\ N = Len(valid)
  BY DEF TypeInv, TypeOK, InLoop
<1>0. Len(block) \in Nat /\ db \in State /\ height \in Nat
  BY <1>1
<1>2. /\ valid \in Seq(BOOLEAN) /\ Combined = After[N]
      /\ DOMAIN updates = WrittenBefore(N + 1)
      /\ \A j, k \in 1..Len(txs) : j < k => txs[j] < txs[k]
      /\ \A i \in 1..N : valid[i] => \E j \in 1..judged : txs[j] = i
      /\ last.valid \in Seq(BOOLEAN)
  BY DEF LoopInv, InBlock, InLoop
<1>3. n \in 1..N
  BY <1>1
<1>4. \A j \in 1..judged : txs[j] < n /\ txs[j] \in 1..N
  <2> SUFFICES ASSUME NEW j \in 1..judged PROVE txs[j] < n /\ txs[j] \in 1..N
    OBVIOUS
  <2> j \in 1..Len(txs) /\ j < judged + 1
    BY <1>1
  <2> QED BY <1>1, <1>2
<1>5. \A i \in 1..N : i >= n => ~valid[i]
  <2> SUFFICES ASSUME NEW i \in 1..N, i >= n, valid[i] PROVE FALSE
    OBVIOUS
  <2>1. PICK j \in 1..judged : txs[j] = i
    BY <1>2
  <2> QED BY <2>1, <1>3, <1>4
<1>6. /\ valid' = [valid EXCEPT ![n] = code] /\ judged' = judged + 1
      /\ updates' = IF code THEN ApplyWriteSet(block[n], <<height, n - 1>>) ELSE updates
      /\ UNCHANGED <<db, height, block, txs, last, phase>>
  BY DEF Judge, durable
<1>7. /\ valid' \in Seq(BOOLEAN) /\ valid'[n] = code
      /\ \A i \in 1..N : i # n => valid'[i] = valid[i]
  BY <1>1, <1>2, <1>3, <1>6
<1>8. \A i \in 0..n - 1 : After'[i] = After[i]
  <2>1. n - 1 \in 0..N /\ \A i \in 1..n - 1 : valid'[i] = valid[i]
    BY <1>1, <1>3, <1>7
  <2>2. \A i \in 0..n - 1 : StatesAfter(db, height, block, valid')[i]
                           = StatesAfter(db, height, block, valid)[i]
    BY <1>0, <2>1, StatesAfterPrefix
  <2> QED BY <1>6, <2>2 DEF After
<1>9. Combined = After[n - 1]
  <2>1. n - 1 \in 0..N /\ \A i \in 1..N : i > n - 1 => ~valid[i]
    BY <1>1, <1>3, <1>5
  <2>2. After[N] = After[n - 1]
    BY <1>0, <2>1, StatesAfterRest DEF After
  <2> QED BY <1>2, <2>2
<1>10. After'[N] = After'[n]
  <2>1. n \in 0..N /\ \A i \in 1..N : i > n => ~valid'[i]
    BY <1>0, <1>3, <1>5, <1>7
  <2>2. StatesAfter(db, height, block, valid')[N] = StatesAfter(db, height, block, valid')[n]
    BY <1>0, <2>1, StatesAfterRest
  <2> QED BY <1>6, <2>2 DEF After
<1>11. After'[n] = IF code THEN Written(block[n], Combined, <<height, n - 1>>) ELSE Combined
  <2>1. After'[n] = IF valid'[n] THEN Written(block[n], After'[n - 1], <<height, n - 1>>)
                    ELSE After'[n - 1]
    <3>1. After' = StatesAfter(db, height, block, valid')
      BY <1>6 DEF After
    <3>2. \A i \in 1..N : StatesAfter(db, height, block, valid')[i] =
            IF valid'[i] THEN Written(block[i], StatesAfter(db, height, block, valid')[i - 1],
                                      <<height, i - 1>>)
            ELSE StatesAfter(db, height, block, valid')[i - 1]
      BY <1>0, StatesAfterUnfolds
    <3> HIDE DEF After
    <3> QED BY <1>3, <3>1, <3>2
  <2>2. After'[n - 1] = Combined
    <3> n - 1 \in 0..n - 1
      BY <1>1, <1>3
    <3> QED BY <1>8, <1>9
  <2> QED BY <1>7, <2>1, <2>2
<1>12. Combined' = After'[N]
  <2>1. CASE code
    <3> block[n] \in Transaction
      BY <1>1, <1>3
    <3>1. Combined' = Written(block[n], Combined, <<height, n - 1>>)
      BY <2>1, <1>6, AppliedIsWritten
    <3> QED BY <2>1, <3>1, <1>10, <1>11
  <2>2. CASE ~code
    <3> Combined' = Combined
      BY <2>2, <1>6 DEF Combined
    <3> QED BY <2>2, <1>10, <1>11
  <2> QED BY <2>1, <2>2
<1>13. DOMAIN updates' = WrittenBefore(N + 1)'
  <2> DEFINE keys(j) == block[j].puts \union block[j].deletes
  <2>1. \A key : key \in DOMAIN updates <=> \E j \in 1..N : valid[j] /\ key \in keys(j)
    <3> (N + 1) - 1 = N
      BY <1>0
    <3> HIDE DEF N
    <3> QED BY <1>2, WrittenBeforeIs
  <2>2. \A key : key \in WrittenBefore(N + 1)' <=> \E j \in 1..N : valid'[j] /\ key \in keys(j)
    BY <1>0, <1>6 DEF WrittenBefore
  <2>3. CASE code
    <3> block[n] \in Transaction
      BY <1>1, <1>3
    <3>1. DOMAIN updates' = DOMAIN updates \union keys(n)
      BY <2>3, <1>6, AppliedIsWritten
    <3>2. \A j \in 1..N : valid'[j] <=> valid[j] \/ j = n
      BY <2>3, <1>7
    <3> HIDE DEF keys
    <3> QED BY <2>1, <2>2, <3>1, <3>2, <1>3
  <2>4. CASE ~code
    <3>1. \A j \in 1..N : valid'[j] <=> valid[j]
      BY <2>4, <1>3, <1>5, <1>7
    <3> HIDE DEF keys
    <3> QED BY <2>1, <2>2, <2>4, <3>1, <1>6
  <2> QED BY <2>3, <2>4
<1>14. \A i \in 1..N : valid'[i] => \E j \in 1..judged + 1 : txs[j] = i
  <2> SUFFICES ASSUME NEW i \in 1..N, valid'[i] PROVE \E j \in 1..judged + 1 : txs[j] = i
    OBVIOUS
  <2>1. CASE i = n
    <3> judged + 1 \in 1..judged + 1
      BY <1>1
    <3> QED BY <2>1
  <2>2. CASE i # n
    <3>1. PICK j \in 1..judged : txs[j] = i
      BY <2>2, <1>2, <1>7
    <3>2. j \in 1..judged + 1
      BY <1>1
    <3> QED BY <3>1, <3>2
  <2> QED BY <2>1, <2>2
<1>15. LoopInv'
  <2>1. (DOMAIN updates = WrittenBefore(Len(block) + 1))'
    BY <1>6, <1>13
  <2>2. (Combined = After[Len(block)])'
    BY <1>6, <1>12
  <2> HIDE DEF After, WrittenBefore, Combined
  <2> QED BY <1>2, <1>6, <1>7, <1>14, <2>1, <2>2 DEF LoopInv
<1> QED BY <1>3, <1>4, <1>5, <1>7, <1>8, <1>9, <1>15

\* What the actions of the loop have in common.
LEMMA RoundsJudge ==
  ASSUME TypeInv, Trusted => CardInv, SoftwareValidates \/ HardwareValidates
  PROVE  /\ InLoop
         /\ \E code : /\ Judge(txs[judged + 1], code)
                      /\ ~mode.hw => (code <=> (doMVCC => ValidateTx(block[txs[judged + 1]])))
                      /\ mode.hw => code = flags[judged + 1]
                      /\ Trusted => code \in BOOLEAN
<1>1. CASE SoftwareValidates
  <2> DEFINE code == doMVCC => ValidateTx(block[txs[judged + 1]])
  <2>1. InLoop /\ ~mode.hw /\ Judge(txs[judged + 1], code)
    BY <1>1 DEF SoftwareValidates
  <2>2. code \in BOOLEAN
    OBVIOUS
  <2> HIDE DEF code
  <2>3. ~mode.hw => (code <=> (doMVCC => ValidateTx(block[txs[judged + 1]])))
    BY DEF code
  <2> QED BY <2>1, <2>2, <2>3
<1>2. CASE HardwareValidates
  <2>1. InLoop /\ mode.hw /\ Judge(txs[judged + 1], flags[judged + 1])
    BY <1>2 DEF HardwareValidates, FlagAt
  <2>2. Trusted => flags[judged + 1] \in BOOLEAN
    <3> SUFFICES ASSUME Trusted PROVE flags[judged + 1] \in BOOLEAN
      OBVIOUS
    <3>1. flags \in Seq(BOOLEAN) /\ Len(flags) = Len(txs)
      BY <2>1 DEF CardInv, InBlock, InLoop
    <3>2. judged + 1 \in 1..Len(flags)
      BY <2>1, <3>1 DEF TypeInv, TypeOK, InLoop
    <3> QED BY <3>1, <3>2
  <2> QED BY <2>1, <2>2
<1> QED BY <1>1, <1>2

\* The mode never changes.
LEMMA ModeStays ==
  ASSUME [Next]_vars
  PROVE  mode' = mode /\ (Trusted' <=> Trusted)
BY DEF Next, vars, Trusted, Simulate, BlockArrives, SoftwareValidates, HardwareValidates,
   Judge, AddBlock, CommitState, Crash, RecommitLostBlock

\* What each phase knows of the last block.
LEMMA StepPhase ==
  ASSUME TypeInv, PhaseInv, Trusted => RecommitInv, [Next]_vars
  PROVE  PhaseInv'
<1> USE DEF PhaseInv
<1>1. CASE Simulate
  BY <1>1 DEF Simulate, durable, Stored
<1>2. ASSUME NEW n \in 1..BlockSize, BlockArrives(n)
      PROVE  PhaseInv'
  BY <1>2 DEF BlockArrives, durable, Stored
<1>3. ASSUME NEW n, NEW code, InLoop, Judge(n, code)
      PROVE  PhaseInv'
  BY <1>3 DEF InLoop, Judge, durable, Stored
<1>4. CASE AddBlock
  BY <1>4 DEF AddBlock, Stored
<1>5. CASE CommitState
  <2>1. last.num = height /\ height \in Nat
    BY <1>5 DEF CommitState, Stored, TypeInv, TypeOK
  <2>2. ~Stored'
    BY <1>5, <2>1 DEF CommitState, Stored
  <2> QED BY <1>5, <2>2 DEF CommitState
<1>6. CASE Crash
  <2>1. ~mode.hw /\ Trusted /\ (Stored' <=> Stored)
    BY <1>6 DEF Crash, Trusted, Stored, durable
  <2>2. CASE Stored
    <3> last.txs = block
      BY <1>6, <2>1, <2>2 DEF Crash, RecommitInv
    <3> QED BY <1>6, <2>1, <2>2 DEF Crash, durable
  <2>3. CASE ~Stored
    BY <1>6, <2>1, <2>3 DEF Crash, durable
  <2> QED BY <2>2, <2>3
<1>7. CASE RecommitLostBlock
  BY <1>7 DEF RecommitLostBlock, durable, Stored
<1>8. CASE UNCHANGED vars
  BY <1>8 DEF vars, durable, Stored
<1>9. CASE SoftwareValidates \/ HardwareValidates
  BY <1>3, <1>9 DEF SoftwareValidates, HardwareValidates
<1> QED BY <1>1, <1>2, <1>4, <1>5, <1>6, <1>7, <1>8, <1>9 DEF Next

\* What the software accepts is current in the state the batch shows; what it rejects
\* is not, or has read a key of the batch.
LEMMA ValidateMeans ==
  ASSUME NEW tx \in Transaction
  PROVE  /\ ValidateTx(tx) => ReadsCurrent(tx, Combined)
         /\ ~ValidateTx(tx) => \/ DOMAIN tx.reads \intersect DOMAIN updates # {}
                              \/ ~ReadsCurrent(tx, Combined)
<1>1. DOMAIN tx.reads \subseteq Keys
  <2> tx.reads \in Versions
    BY DEF Transaction
  <2> QED BY DEF Versions
<1>2. \A key \in Keys : key \notin DOMAIN updates => Combined[key] = db[key]
  BY DEF Combined
<1>3. ASSUME ValidateTx(tx)
      PROVE  ReadsCurrent(tx, Combined)
  <2> HIDE DEF Combined
  <2> QED BY <1>1, <1>2, <1>3 DEF ValidateTx, ValidateKVRead, ValidateRangeQuery, ReadsCurrent
<1>4. ASSUME ~ValidateTx(tx), DOMAIN tx.reads \intersect DOMAIN updates = {}
      PROVE  ~ReadsCurrent(tx, Combined)
  <2> HIDE DEF Combined
  <2> QED BY <1>1, <1>2, <1>4 DEF ValidateTx, ValidateKVRead, ValidateRangeQuery, ReadsCurrent
<1> QED BY <1>3, <1>4

\* What Without keeps is in order.
LEMMA WithoutIncreases ==
  ASSUME NEW n \in Nat, NEW bad, txs' = Without(n, bad)
  PROVE  \A j, k \in 1..Len(txs') : j < k => txs'[j] < txs'[k]
BY WithoutLists DEF Lists

\* The loop and what it has accepted.
LEMMA StepLoop ==
  ASSUME TypeInv, TypeInv', PhaseInv, LoopInv, SoundInv, CardInv, Trusted, [Next]_vars
  PROVE  LoopInv' /\ SoundInv'
<1>1. CASE Simulate
  BY <1>1 DEF Simulate, LoopInv, SoundInv, InBlock, durable
<1>2. ASSUME NEW n \in 1..BlockSize, n <= Len(simulated), BlockArrives(n)
      PROVE  LoopInv' /\ SoundInv'
  <2>1. n \in Nat /\ Len(block') = n
    BY <1>2, ValidationAssumption DEF BlockArrives, TypeInv
  <2>2. PICK bad : txs' = Without(n, bad)
    BY <1>2 DEF BlockArrives
  <2>3. \A j, k \in 1..Len(txs') : j < k => txs'[j] < txs'[k]
    BY <2>1, <2>2, WithoutIncreases
  <2>4. /\ updates' = NoUpdates /\ valid' = [j \in 1..Len(block') |-> FALSE]
        /\ last'.valid \in Seq(BOOLEAN)
    BY <1>2, <2>1 DEF BlockArrives, durable, LoopInv
  <2> QED BY <2>3, <2>4, FreshLoop
<1>3. CASE SoftwareValidates \/ HardwareValidates
  <2> DEFINE n == txs[judged + 1]
  <2>1. InLoop
    BY <1>3, RoundsJudge
  <2>2. PICK code : /\ Judge(n, code)
                    /\ ~mode.hw => (code <=> (doMVCC => ValidateTx(block[n])))
                    /\ mode.hw => code = flags[judged + 1]
                    /\ code \in BOOLEAN
    BY <1>3, RoundsJudge
  <2>3. /\ n \in 1..Len(block) /\ valid'[n] = code /\ Combined = After[n - 1] /\ LoopInv'
        /\ \A i \in 1..Len(block) : i >= n => ~valid[i]
        /\ \A i \in 1..Len(block) : i # n => valid'[i] = valid[i]
        /\ \A i \in 0..n - 1 : After'[i] = After[i]
    <3> HIDE DEF n
    <3> QED BY <2>1, <2>2, JudgeKeeps DEF n
  <2>4. UNCHANGED <<phase, doMVCC, block>>
    BY <2>2 DEF Judge
  <2>5. ASSUME doMVCC, code
        PROVE  ReadsCurrent(block[n], Combined)
    <3> DEFINE f == StatesAfter(db, height, block, flags)
    <3>0. /\ InBlock /\ judged + 1 \in 1..Len(txs) /\ judged \in Nat
          /\ Len(block) \in Nat /\ db \in State /\ height \in Nat
      BY <2>1 DEF InLoop, InBlock, TypeInv, TypeOK
    <3>1. CASE mode.hw
      <4>1. /\ \A i \in 1..Len(block) : flags[i] => ReadsCurrent(block[i], f[i - 1])
            /\ \A j \in 1..Len(txs) : txs[j] = j
            /\ \A j \in 1..judged : valid[j] = flags[j]
        BY <3>0, <3>1 DEF CardInv
      <4>2. n = judged + 1 /\ flags[n] /\ n - 1 = judged
        <5>1. n = judged + 1
          BY <3>0, <4>1
        <5>2. flags[judged + 1]
          BY <2>2, <2>5, <3>1
        <5> HIDE DEF n
        <5> QED BY <3>0, <5>1, <5>2
      <4>3. judged \in 0..Len(block)
        BY <2>3, <3>0, <4>2
      <4>4. \A i \in 0..judged : After[i] = f[i]
        <5> HIDE DEF n
        <5> QED BY <3>0, <4>1, <4>3, StatesAfterPrefix DEF After
      <4>5. Combined = f[n - 1]
        <5>1. judged \in 0..judged
          BY <3>0
        <5>2. Combined = After[judged]
          BY <2>3, <4>2
        <5> QED BY <4>2, <4>4, <5>1, <5>2
      <4> HIDE DEF n, f
      <4> QED BY <2>3, <4>1, <4>2, <4>5
    <3>2. CASE ~mode.hw
      <4>1. block[n] \in Transaction
        <5> HIDE DEF n
        <5> QED BY <2>3 DEF TypeInv
      <4>2. ValidateTx(block[n])
        BY <2>2, <2>5, <3>2
      <4> HIDE DEF n
      <4> QED BY <4>1, <4>2, ValidateMeans
    <3> QED BY <3>1, <3>2
  <2>6. SoundInv'
    <3> SUFFICES ASSUME phase = "validate", doMVCC, NEW i \in 1..Len(block), valid'[i]
                 PROVE  ReadsCurrent(block[i], After'[i - 1])
      BY <2>4 DEF SoundInv
    <3> HIDE DEF n
    <3>1. i <= n /\ i - 1 \in 0..n - 1
      BY <2>3
    <3>2. CASE i = n
      BY <2>3, <2>5, <3>1, <3>2
    <3>3. CASE i # n
      BY <2>3, <3>1, <3>3 DEF SoundInv
    <3> QED BY <3>2, <3>3
  <2> QED BY <2>3, <2>6
<1>4. CASE AddBlock
  BY <1>4 DEF AddBlock, LoopInv, SoundInv, InBlock, After, Combined, WrittenBefore
<1>5. CASE CommitState
  BY <1>5 DEF CommitState, LoopInv, SoundInv, InBlock
<1>6. CASE Crash
  <2>1. CASE Stored
    BY <1>6, <2>1 DEF Crash, durable, LoopInv, SoundInv, InBlock
  <2>2. CASE ~Stored
    <3>1. phase = "validate"
      BY <1>6, <2>2 DEF Crash, PhaseInv
    <3>2. \A j, k \in 1..Len(txs') : j < k => txs'[j] < txs'[k]
      BY <1>6, <3>1 DEF Crash, LoopInv, InBlock
    <3> QED BY <1>6, <3>2, FreshLoop DEF Crash, durable, LoopInv
  <2> QED BY <2>1, <2>2
<1>7. CASE RecommitLostBlock
  <2>1. txs' = Without(Len(last.txs), StoredInvalid) /\ Len(last.txs) \in Nat
    BY <1>7 DEF RecommitLostBlock, TypeInv
  <2>2. \A j, k \in 1..Len(txs') : j < k => txs'[j] < txs'[k]
    BY <2>1, WithoutIncreases
  <2>3. updates' = NoUpdates /\ valid' = [j \in 1..Len(block') |-> FALSE]
    BY <1>7 DEF RecommitLostBlock, PhaseInv
  <2> QED BY <1>7, <2>2, <2>3, FreshLoop DEF RecommitLostBlock, durable, LoopInv
<1>8. CASE UNCHANGED vars
  BY <1>8 DEF vars, durable, bounds, LoopInv, SoundInv, InBlock, After, Combined,
     WrittenBefore
<1> QED BY <1>1, <1>2, <1>3, <1>4, <1>5, <1>6, <1>7, <1>8 DEF Next

\* What is recommitted is what the stored codes say.
LEMMA StepRecommit ==
  ASSUME TypeInv, PhaseInv, LoopInv, CardInv, RecommitInv, Trusted, [Next]_vars
  PROVE  RecommitInv'
<1>1. CASE Simulate
  BY <1>1 DEF Simulate, RecommitInv
<1>2. ASSUME NEW n \in 1..BlockSize, BlockArrives(n)
      PROVE  RecommitInv'
  BY <1>2 DEF BlockArrives, RecommitInv
<1>3. CASE SoftwareValidates \/ HardwareValidates
  <2> DEFINE n == txs[judged + 1]
  <2>1. InLoop
    BY <1>3, RoundsJudge
  <2>2. PICK code : /\ Judge(n, code)
                    /\ ~mode.hw => (code <=> (doMVCC => ValidateTx(block[n])))
                    /\ code \in BOOLEAN
    BY <1>3, RoundsJudge
  <2>3. /\ n \in 1..Len(block) /\ valid'[n] = code
        /\ \A i \in 1..Len(block) : i # n => valid'[i] = valid[i]
        /\ \A j \in 1..judged : txs[j] < n /\ txs[j] \in 1..Len(block)
    <3> HIDE DEF n
    <3> QED BY <2>1, <2>2, JudgeKeeps DEF n
  <2>4. UNCHANGED <<phase, doMVCC, block, txs, last>> /\ judged' = judged + 1
    BY <2>2 DEF Judge, durable
  <2>5. SUFFICES ASSUME phase = "validate", ~doMVCC
                 PROVE  RecommitInv'
    BY <2>4 DEF RecommitInv
  <2>6. code
    BY <2>2, <2>5 DEF PhaseInv
  <2>7. \A j \in 1..judged' : valid'[txs[j]]
    <3> SUFFICES ASSUME NEW j \in 1..judged + 1 PROVE valid'[txs[j]]
      BY <2>4
    <3> judged \in Nat
      BY DEF TypeInv, TypeOK
    <3>1. CASE j = judged + 1
      BY <2>3, <2>6, <3>1
    <3>2. CASE j # judged + 1
      <4>1. j \in 1..judged
        BY <3>2
      <4>2. txs[j] \in 1..Len(block) /\ txs[j] # n /\ valid[txs[j]]
        BY <2>3, <2>5, <4>1 DEF RecommitInv
      <4> QED BY <2>3, <4>2
    <3> QED BY <3>1, <3>2
  <2> QED BY <2>4, <2>5, <2>7 DEF RecommitInv, StoredInvalid
<1>4. CASE AddBlock
  BY <1>4 DEF AddBlock, RecommitInv
<1>5. CASE CommitState
  BY <1>5 DEF CommitState, RecommitInv
<1>6. CASE Crash
  BY <1>6 DEF Crash, RecommitInv, PhaseInv, durable
<1>7. CASE RecommitLostBlock
  <2>1. /\ block' = last.txs /\ last' = last /\ judged' = 0
        /\ txs' = Without(Len(last.txs), StoredInvalid) /\ Len(last.txs) \in Nat
    BY <1>7 DEF RecommitLostBlock, PhaseInv, durable, TypeInv
  <2>2. Lists(txs', (1..Len(block')) \ StoredInvalid')
    BY <2>1, WithoutLists DEF StoredInvalid
  <2> QED BY <2>1, <2>2 DEF RecommitInv, Lists
<1>8. CASE UNCHANGED vars
  BY <1>8 DEF vars, durable, RecommitInv, StoredInvalid
<1> QED BY <1>1, <1>2, <1>3, <1>4, <1>5, <1>6, <1>7, <1>8 DEF Next

\* What the software rejects has a reason.
LEMMA StepReason ==
  ASSUME TypeInv, PhaseInv, LoopInv, CardInv, ReasonInv, Trusted, [Next]_vars
  PROVE  ReasonInv'
<1>1. CASE Simulate
  BY <1>1 DEF Simulate, ReasonInv, InBlock
<1>2. ASSUME NEW n \in 1..BlockSize, BlockArrives(n)
      PROVE  ReasonInv'
  BY <1>2 DEF BlockArrives, ReasonInv
<1>3. CASE SoftwareValidates \/ HardwareValidates
  <2>0. PICK n : n = txs[judged + 1]
    OBVIOUS
  <2>1. InLoop
    BY <1>3, RoundsJudge
  <2>2. PICK code : /\ Judge(n, code)
                    /\ ~mode.hw => (code <=> (doMVCC => ValidateTx(block[n])))
                    /\ code \in BOOLEAN
    BY <1>3, <2>0, RoundsJudge
  <2>3. /\ n \in 1..Len(block) /\ valid'[n] = code /\ Combined = After[n - 1]
        /\ \A i \in 1..Len(block) : i >= n => ~valid[i]
        /\ \A i \in 1..Len(block) : i # n => valid'[i] = valid[i]
        /\ \A j \in 1..judged : txs[j] < n /\ txs[j] \in 1..Len(block)
        /\ \A i \in 0..n - 1 : After'[i] = After[i]
    BY <2>0, <2>1, <2>2, JudgeKeeps
  <2>4. UNCHANGED <<mode, phase, doMVCC, block, txs>> /\ judged' = judged + 1
    BY <2>2 DEF Judge
  <2>5. SUFFICES ASSUME InBlock, ~mode.hw, doMVCC, NEW j \in 1..judged + 1
                 PROVE  \/ valid'[txs[j]]
                        \/ DOMAIN block[txs[j]].reads \intersect WrittenBefore(txs[j])' # {}
                        \/ ~ReadsCurrent(block[txs[j]], After'[txs[j] - 1])
    BY <2>4 DEF ReasonInv, InBlock
  <2> judged \in Nat
    BY DEF TypeInv, TypeOK
  <2>6. ASSUME NEW m \in 1..n
        PROVE  WrittenBefore(m)' = WrittenBefore(m)
    <3>1. \A i \in 1..m - 1 : valid'[i] = valid[i]
      BY <2>3
    <3> QED BY <2>4, <3>1 DEF WrittenBefore
  <2>7. CASE j = judged + 1
    <3>1. block[n] \in Transaction /\ n \in 1..n /\ n - 1 \in 0..n - 1
      BY <2>3 DEF TypeInv
    <3>2. DOMAIN updates = WrittenBefore(n)
      <4>1. DOMAIN updates = WrittenBefore(Len(block) + 1)
        BY <2>5 DEF LoopInv
      <4>2. {i \in 1..(Len(block) + 1) - 1 : valid[i]} = {i \in 1..n - 1 : valid[i]}
        BY <2>3 DEF TypeInv
      <4> QED BY <4>1, <4>2 DEF WrittenBefore
    <3>3. WrittenBefore(n)' = DOMAIN updates
      BY <3>1, <3>2, <2>6
    <3>4. \/ code
          \/ DOMAIN block[n].reads \intersect DOMAIN updates # {}
          \/ ~ReadsCurrent(block[n], Combined)
      BY <2>2, <2>5, <3>1, ValidateMeans
    <3>5. After'[n - 1] = Combined
      BY <2>3, <3>1
    <3>6. txs[j] = n
      BY <2>0, <2>7
    <3>7. WrittenBefore(txs[j])' = DOMAIN updates
      BY <2>4, <3>3, <3>6 DEF WrittenBefore
    <3> QED BY <2>3, <3>4, <3>5, <3>6, <3>7
  <2>8. CASE j # judged + 1
    <3>1. j \in 1..judged
      BY <2>8
    <3>2. /\ txs[j] \in 1..n /\ txs[j] \in 1..Len(block) /\ txs[j] # n
          /\ txs[j] - 1 \in 0..n - 1
      BY <2>3, <3>1
    <3>3. /\ valid'[txs[j]] = valid[txs[j]]
          /\ WrittenBefore(txs[j])' = WrittenBefore(txs[j])
          /\ After'[txs[j] - 1] = After[txs[j] - 1]
      BY <2>3, <2>4, <2>6, <3>2
    <3>4. \/ valid[txs[j]]
          \/ DOMAIN block[txs[j]].reads \intersect WrittenBefore(txs[j]) # {}
          \/ ~ReadsCurrent(block[txs[j]], After[txs[j] - 1])
      BY <2>5, <3>1 DEF ReasonInv
    <3> QED BY <3>3, <3>4
  <2> QED BY <2>7, <2>8
<1>4. CASE AddBlock
  BY <1>4 DEF AddBlock, ReasonInv, InBlock, After, WrittenBefore
<1>5. CASE CommitState
  BY <1>5 DEF CommitState, ReasonInv, InBlock
<1>6. CASE Crash
  BY <1>6 DEF Crash, ReasonInv
<1>7. CASE RecommitLostBlock
  BY <1>7 DEF RecommitLostBlock, ReasonInv
<1>8. CASE UNCHANGED vars
  BY <1>8 DEF vars, durable, ReasonInv, InBlock, After, WrittenBefore
<1> QED BY <1>1, <1>2, <1>3, <1>4, <1>5, <1>6, <1>7, <1>8 DEF Next

\* A list of all numbers up to n has each at its own place.
LEMMA IdentityLists ==
  ASSUME NEW n \in Nat, NEW t, Lists(t, 1..n)
  PROVE  Len(t) = n /\ \A j \in 1..Len(t) : t[j] = j
<1>1. /\ Len(t) \in Nat /\ \A i \in 1..Len(t) : t[i] \in 1..n
      /\ \A i, j \in 1..Len(t) : i < j => t[i] < t[j]
      /\ \A x \in 1..n : \E i \in 1..Len(t) : t[i] = x
  <2>1. t \in Seq(1..n)
    BY DEF Lists
  <2>2. Len(t) \in Nat /\ \A i \in 1..Len(t) : t[i] \in 1..n
    BY <2>1
  <2> QED BY <2>2 DEF Lists
<1> DEFINE T == {j \in Nat : j <= Len(t) /\ \A i \in 1..j : t[i] = i}
<1>2. 0 \in T
  BY <1>1
<1>3. ASSUME NEW j \in 1..n, j - 1 \in T PROVE j \in T
  <2>1. PICK i \in 1..Len(t) : t[i] = j
    BY <1>1
  <2>2. \A k \in 1..j - 1 : t[k] = k
    BY <1>3
  <2>3. i \notin 1..j - 1
    BY <2>1, <2>2
  <2>4. j <= i /\ j \in 1..Len(t)
    BY <1>1, <2>3
  <2>5. CASE i = j
    BY <2>1, <2>2, <2>4, <2>5
  <2>6. CASE i # j
    <3>1. t[j] < j /\ t[j] \in 1..n
      BY <1>1, <2>1, <2>4, <2>6
    <3>2. t[j] \in 1..j - 1 /\ t[j] \in 1..Len(t)
      BY <2>4, <3>1
    <3>3. t[t[j]] = t[j] /\ t[t[j]] < t[j]
      BY <1>1, <2>2, <2>4, <3>1, <3>2
    <3> QED BY <3>1, <3>3
  <2> QED BY <2>5, <2>6
<1>4. \A j \in 0..n : j \in T
  <2> HIDE DEF T
  <2> QED BY <1>2, <1>3, IntervalInduction
<1>5. n <= Len(t) /\ \A i \in 1..n : t[i] = i
  <2> n \in T
    BY <1>4
  <2> QED OBVIOUS
<1>6. ~(n < Len(t))
  <2> SUFFICES ASSUME n < Len(t) PROVE FALSE
    OBVIOUS
  <2>1. n + 1 \in 1..Len(t) /\ t[n + 1] \in 1..n
    BY <1>1
  <2>2. t[t[n + 1]] = t[n + 1] /\ t[n + 1] < n + 1 /\ t[n + 1] \in 1..Len(t)
    BY <1>5, <2>1
  <2> QED BY <1>1, <2>1, <2>2
<1> QED BY <1>1, <1>5, <1>6

\* The card's flags, and its state.
LEMMA StepCard ==
  ASSUME TypeInv, TypeInv', PhaseInv, LoopInv, CardInv, Trusted, [Next]_vars
  PROVE  CardInv'
<1>0. SUFFICES ASSUME mode.hw
               PROVE  CardInv'
  BY ModeStays DEF CardInv
<1>1. CASE Simulate
  BY <1>1 DEF Simulate, CardInv, InBlock, durable, card
<1>2. ASSUME NEW n \in 1..BlockSize, n <= Len(simulated), BlockArrives(n)
      PROVE  CardInv'
  <2>1. n \in Nat /\ Len(block') = n
    BY <1>2, ValidationAssumption DEF BlockArrives, TypeInv
  <2>2. db = cardDb /\ db \in State /\ height \in Nat
    BY <1>0, <1>2 DEF BlockArrives, CardInv, TypeInv, TypeOK
  <2>3. Len(txs') = n /\ \A j \in 1..Len(txs') : txs'[j] = j
    <3>1. PICK bad \in SUBSET (1..n) : Cardinality(bad) <= mode.maxBad /\ txs' = Without(n, bad)
      BY <1>2 DEF BlockArrives
    <3>2. mode.maxBad = 0 /\ IsFiniteSet(bad)
      <4> IsFiniteSet(1..n)
        BY <2>1, FS_Interval
      <4> QED BY <1>0, FS_Subset DEF Trusted
    <3>3. Cardinality(bad) = 0
      BY <3>1, <3>2, FS_CardinalityType
    <3>4. bad = {}
      BY <3>2, <3>3, FS_EmptySet
    <3>5. Lists(txs', (1..n) \ bad)
      BY <2>1, <3>1, WithoutLists
    <3>6. Lists(txs', 1..n)
      <4> (1..n) \ bad = 1..n
        BY <3>4
      <4> QED BY <3>5
    <3> QED BY <2>1, <3>6, IdentityLists
  <2>4. /\ flags' \in Seq(BOOLEAN) /\ Len(flags') = n
        /\ cardDb' = StatesAfter(db, height, block', flags')[n]
        /\ \A i \in 1..n :
             flags'[i] => ReadsCurrent(block'[i], StatesAfter(db, height, block', flags')[i - 1])
    <3>1. PICK b, ok, st : b = block' /\ ok = flags' /\ st = cardDb'
      OBVIOUS
    <3>2. ok = CardResult(height, b).ok /\ st = CardResult(height, b).state
      BY <1>0, <1>2, <3>1 DEF BlockArrives
    <3>3. Len(b) = n /\ Len(b) \in Nat /\ cardDb \in State
      BY <2>1, <2>2, <3>1
    <3>4. JudgedInTurn(height, b, ok, st)
      BY <2>2, <3>2, <3>3, CardResultIs
    <3>5. /\ ok \in Seq(BOOLEAN) /\ Len(ok) = Len(b)
          /\ st = StatesAfter(cardDb, height, b, ok)[Len(b)]
          /\ \A i \in 1..Len(b) :
               ok[i] <=> ReadsCurrent(b[i], StatesAfter(cardDb, height, b, ok)[i - 1])
      BY <3>4 DEF JudgedInTurn
    <3> QED BY <2>2, <3>1, <3>3, <3>5
  <2>5. /\ judged' = 0 /\ phase' = "validate"
        /\ UNCHANGED <<mode, db, height>>
    BY <1>2 DEF BlockArrives, durable
  <2> QED BY <2>1, <2>3, <2>4, <2>5 DEF CardInv
<1>3. CASE SoftwareValidates \/ HardwareValidates
  <2> DEFINE n == txs[judged + 1]
  <2>1. InLoop
    BY <1>3, RoundsJudge
  <2>2. PICK code : /\ Judge(n, code) /\ code = flags[judged + 1] /\ code \in BOOLEAN
    BY <1>0, <1>3, RoundsJudge
  <2>3. /\ n \in 1..Len(block) /\ valid'[n] = code
        /\ \A i \in 1..Len(block) : i # n => valid'[i] = valid[i]
    <3> HIDE DEF n
    <3> QED BY <2>1, <2>2, JudgeKeeps DEF n
  <2>4. UNCHANGED <<mode, db, height, phase, block, txs, flags, cardDb>> /\ judged' = judged + 1
    BY <2>2 DEF Judge, durable, card
  <2>5. InBlock
    BY <2>1 DEF InLoop, InBlock
  <2>6. \A j \in 1..judged' : valid'[j] = flags'[j]
    <3>0. judged + 1 \in 1..Len(txs) /\ judged \in Nat
      <4>1. judged \in 0..Len(txs) /\ txs \in Seq(1..Len(block)) /\ judged < Len(txs)
        BY <2>1 DEF InLoop, TypeInv, TypeOK
      <4>2. Len(txs) \in Nat
        BY <4>1
      <4> HIDE DEF n
      <4> QED BY <4>1, <4>2
    <3>1. n = judged + 1 /\ \A j \in 1..judged : valid[j] = flags[j]
      BY <1>0, <2>5, <3>0 DEF CardInv
    <3> HIDE DEF n
    <3> QED BY <2>2, <2>3, <2>4, <3>0, <3>1
  <2> QED BY <1>0, <2>4, <2>5, <2>6 DEF CardInv, InBlock
<1>4. CASE AddBlock
  BY <1>4 DEF AddBlock, CardInv, InBlock, card
<1>5. CASE CommitState
  <2>1. /\ InBlock /\ judged = Len(txs) /\ db' = Combined /\ phase' = "idle" /\ cardDb' = cardDb
    BY <1>0, <1>5 DEF CommitState, InBlock, PhaseInv, card
  <2>2. /\ \A j \in 1..Len(block) : valid[j] = flags[j]
        /\ cardDb = StatesAfter(db, height, block, flags)[Len(block)]
    BY <1>0, <2>1 DEF CardInv
  <2>3. Combined = StatesAfter(db, height, block, valid)[Len(block)]
    BY <2>1 DEF LoopInv, After
  <2>4. db \in State /\ height \in Nat /\ Len(block) \in Nat /\ Len(block) \in 0..Len(block)
    BY DEF TypeInv, TypeOK
  <2>5. StatesAfter(db, height, block, valid)[Len(block)]
          = StatesAfter(db, height, block, flags)[Len(block)]
    BY <2>2, <2>4, StatesAfterPrefix
  <2> QED BY <2>1, <2>2, <2>3, <2>5 DEF CardInv, InBlock
<1>6. CASE Crash
  BY <1>0, <1>6 DEF Crash
<1>7. CASE RecommitLostBlock
  BY <1>0, <1>7 DEF RecommitLostBlock, PhaseInv
<1>8. CASE UNCHANGED vars
  BY <1>8 DEF vars, durable, card, CardInv, InBlock
<1> QED BY <1>1, <1>2, <1>3, <1>4, <1>5, <1>6, <1>7, <1>8 DEF Next

-----------------------------------------------------------------------------
(* The theorems.                                                           *)

\* The invariant holds at first.
LEMMA InitInvariant ==
  ASSUME Init
  PROVE  IInv
<1>1. TypeInv
  BY InitTypes
<1>2. PhaseInv
  BY DEF Init, PhaseInv, Stored
<1>3. LoopInv
  <2> <<>> \in Seq(BOOLEAN)
    OBVIOUS
  <2> QED BY DEF Init, LoopInv, InBlock
<1> QED BY <1>1, <1>2, <1>3 DEF Init, IInv, RecommitInv, SoundInv, ReasonInv, CardInv, InBlock

\* Every step keeps the invariant.
LEMMA StepInvariant ==
  ASSUME IInv, [Next]_vars
  PROVE  IInv'
<1>1. TypeInv' /\ PhaseInv'
  BY StepTypes, StepPhase DEF IInv
<1>2. ASSUME Trusted'
      PROVE  LoopInv' /\ RecommitInv' /\ SoundInv' /\ ReasonInv' /\ CardInv'
  <2> Trusted
    BY <1>2, ModeStays
  <2> QED BY <1>1, StepLoop, StepRecommit, StepReason, StepCard DEF IInv
<1> QED BY <1>1, <1>2 DEF IInv

\* The invariant holds in every state.
THEOREM ValidationInvariant == Spec => []IInv
BY InitInvariant, StepInvariant, PTL DEF Spec

\* The state keeps the shape the code gives it, whatever the card answers and whoever
\* dies (validator.go).
THEOREM TypeCorrect == Spec => []TypeOK
<1>1. IInv => TypeOK
  BY DEF IInv, TypeInv
<1> QED BY <1>1, ValidationInvariant, PTL

\* A transaction that the software rejects has read something that is not current, or a
\* key that an accepted transaction before it in the block writes (validateTx and the
\* batch of updates in validateAndPrepareBatch).
THEOREM NoneRejectedForNothingCorrect == Spec => []NoneRejectedForNothing
<1>1. IInv => NoneRejectedForNothing
  <2> SUFFICES ASSUME IInv, phase = "stored", ~mode.hw
               PROVE  NoneRejectedForNothing
    BY DEF NoneRejectedForNothing
  <2>1. ReasonInv /\ judged = Len(txs) /\ doMVCC /\ InBlock
    BY DEF IInv, Trusted, PhaseInv, InBlock
  <2> QED BY <2>1 DEF ReasonInv, NoneRejectedForNothing, After
<1> QED BY <1>1, ValidationInvariant, PTL

\* The modes of a card that sees no transaction which the transaction validator has
\* found invalid. (The run hw_flags shows what the merge of the flags does if it does.)
CardSeesValid == \A m \in Modes : m.hw => m.maxBad = 0

\* Then the peer's own database is the card's after every block, although the one
\* applies write sets in a batch and the other one after the other.
THEOREM FollowsCardCorrect ==
  ASSUME CardSeesValid
  PROVE  Spec => []FollowsCard
<1>1. IInv => FollowsCard
  BY DEF IInv, TypeInv, TypeOK, Trusted, CardSeesValid, CardInv, FollowsCard
<1> QED BY <1>1, ValidationInvariant, PTL

\* When a block is committed, what its transactions leave goes to the database, also if
\* all that is left of its validation are the stored codes.
LEMMA CommitsStoredState ==
  ASSUME IInv, Trusted, CommitState
  PROVE  db' = StoredState /\ last' = last /\ height' = height + 1
<1>1. /\ db' = Combined /\ last' = last /\ height' = height + 1 /\ InBlock
      /\ judged = Len(txs) /\ Stored /\ block = last.txs
  BY DEF IInv, CommitState, InBlock, PhaseInv, RecommitInv
<1>2. /\ db \in State /\ height \in Nat /\ Len(block) \in Nat
      /\ Len(block) \in 0..Len(block) /\ Len(last.txs) = Len(last.valid)
  BY DEF IInv, TypeInv, TypeOK
<1>3. \A i \in 1..Len(block) : valid[i] = last.valid[i]
  <2>1. CASE phase = "stored"
    BY <2>1 DEF IInv, PhaseInv
  <2>2. CASE phase # "stored"
    <3>1. /\ phase = "validate" /\ ~doMVCC
          /\ valid \in Seq(BOOLEAN) /\ Len(valid) = Len(block)
          /\ last.valid \in Seq(BOOLEAN) /\ Len(last.valid) = Len(block)
          /\ \A i \in 1..Len(block) : valid[i] => \E j \in 1..judged : txs[j] = i
          /\ \A j \in 1..judged : valid[txs[j]]
      BY <1>1, <1>2, <2>2 DEF CommitState, IInv, LoopInv, RecommitInv, TypeInv, TypeOK, InBlock
    <3>2. /\ \A j \in 1..Len(txs) : txs[j] \in (1..Len(block)) \ StoredInvalid
          /\ \A i \in (1..Len(block)) \ StoredInvalid : \E j \in 1..Len(txs) : txs[j] = i
      <4>1. Lists(txs, (1..Len(block)) \ StoredInvalid)
        BY <3>1 DEF IInv, RecommitInv
      <4> DEFINE left == (1..Len(block)) \ StoredInvalid
      <4> HIDE DEF left
      <4>2. txs \in Seq(left) /\ \A i \in left : \E j \in 1..Len(txs) : txs[j] = i
        BY <4>1 DEF Lists, left
      <4>3. \A j \in 1..Len(txs) : txs[j] \in left
        BY <4>2
      <4> QED BY <4>2, <4>3 DEF left
    <3>3. \A i \in 1..Len(block) : i \notin StoredInvalid <=> last.valid[i]
      BY <1>1 DEF StoredInvalid
    <3>4. \A i \in 1..Len(block) : valid[i] <=> last.valid[i]
      BY <1>1, <3>1, <3>2, <3>3
    <3>5. \A i \in 1..Len(block) : valid[i] \in BOOLEAN /\ last.valid[i] \in BOOLEAN
      BY <3>1
    <3> QED BY <3>4, <3>5
  <2> QED BY <2>1, <2>2
<1>4. Combined = StatesAfter(db, height, block, valid)[Len(block)]
  BY <1>1 DEF IInv, LoopInv, After
<1>5. StatesAfter(db, height, block, valid)[Len(block)]
        = StatesAfter(db, height, block, last.valid)[Len(block)]
  BY <1>2, <1>3, StatesAfterPrefix
<1> QED BY <1>1, <1>4, <1>5 DEF StoredState

\* The serial ledger's operators are those of the same names here.
LEMMA SerialOperators ==
  /\ Serial!Keys = Keys /\ Serial!NoVersion = NoVersion
  /\ \A tx, s : Serial!ReadsCurrent(tx, s) <=> ReadsCurrent(tx, s)
  /\ \A s, n, b, ok : Serial!StatesAfter(s, n, b, ok) = StatesAfter(s, n, b, ok)
<1>1. Serial!Keys = Keys /\ Serial!NoVersion = NoVersion
  BY DEF Serial!Keys, Keys, Serial!NoVersion, NoVersion
<1>2. ASSUME NEW q, NEW s
      PROVE  Serial!Found(q, s) = Found(q, s)
  BY <1>1, Zenon DEF Serial!Found, Found, Serial!ScannedKeys, ScannedKeys, Serial!Keys, Keys,
     Serial!NoVersion, NoVersion
<1>3. ASSUME NEW tx, NEW s
      PROVE  Serial!ReadsCurrent(tx, s) <=> ReadsCurrent(tx, s)
  BY <1>2 DEF Serial!ReadsCurrent, ReadsCurrent
<1>4. ASSUME NEW s, NEW n, NEW b, NEW ok
      PROVE  Serial!StatesAfter(s, n, b, ok) = StatesAfter(s, n, b, ok)
  BY Zenon DEF Serial!StatesAfter, StatesAfter, Serial!Written, Written, Serial!Keys, Keys,
     Serial!NoVersion, NoVersion
<1> QED BY <1>1, <1>3, <1>4

\* A block that is added is a step of the serial ledger.
LEMMA AddBlockIsSerial ==
  ASSUME IInv, Trusted, AddBlock
  PROVE  Serial!AddBlock
<1>1. /\ last'.num = height /\ last'.txs = block /\ last'.valid = valid
      /\ db' = db /\ height' = height /\ phase = "validate" /\ doMVCC
  BY DEF AddBlock
<1>2. ~Stored /\ last.num + 1 = height /\ Stored' /\ height \in Nat
  BY <1>1 DEF IInv, PhaseInv, Stored, TypeInv, TypeOK
<1>3. /\ StoredState = db
      /\ StoredState' = StatesAfter(db, height, block, valid)[Len(block)]
  BY <1>1, <1>2 DEF StoredState
<1>4. \A i \in 1..Len(block) :
        valid[i] => ReadsCurrent(block[i], StatesAfter(db, height, block, valid)[i - 1])
  BY <1>1 DEF IInv, SoundInv, After
<1> HIDE DEF StoredState
<1> QED BY <1>1, <1>2, <1>3, <1>4, SerialOperators DEF Serial!AddBlock

\* The mode is one of the modes, so that the card is trusted.
LEMMA CardIsTrusted ==
  ASSUME IInv, CardSeesValid
  PROVE  Trusted
BY DEF IInv, TypeInv, TypeOK, Trusted, CardSeesValid

\* The ledger starts as the serial one does.
LEMMA InitIsSerial ==
  ASSUME Init
  PROVE  Serial!Init
<1>1. ~Stored /\ last.num + 1 = 1 /\ last.txs = <<>> /\ last.valid = <<>>
  BY DEF Init, Stored
<1>2. StoredState \in [Keys -> {NoVersion, <<0, 0>>}]
  BY <1>1 DEF StoredState, Init
<1> QED BY <1>1, <1>2, SerialOperators DEF Serial!Init

\* No other step changes what the serial ledger sees.
LEMMA StepIsSerial ==
  ASSUME IInv, IInv', CardSeesValid, [Next]_vars
  PROVE  [Serial!AddBlock]_Serial!serialVars
<1>1. ASSUME UNCHANGED durable
      PROVE  UNCHANGED Serial!serialVars
  BY <1>1 DEF durable, StoredState, Stored, Serial!serialVars
<1>2. CASE AddBlock
  BY <1>2, CardIsTrusted, AddBlockIsSerial
<1>3. CASE CommitState
  <2>1. db' = StoredState /\ last' = last /\ height' = height + 1
    BY <1>3, CardIsTrusted, CommitsStoredState
  <2>2. ~Stored'
    BY <1>3 DEF IInv, PhaseInv, CommitState
  <2>3. StoredState' = db'
    BY <2>2 DEF StoredState
  <2> QED BY <2>1, <2>3 DEF Serial!serialVars
<1>4. CASE Simulate
  BY <1>1, <1>4 DEF Simulate
<1>5. ASSUME NEW n \in 1..BlockSize, BlockArrives(n)
      PROVE  UNCHANGED durable
  BY <1>5 DEF BlockArrives
<1>6. CASE SoftwareValidates \/ HardwareValidates
  BY <1>1, <1>6 DEF SoftwareValidates, HardwareValidates, Judge
<1>7. CASE Crash
  BY <1>1, <1>7 DEF Crash
<1>8. CASE RecommitLostBlock
  BY <1>1, <1>8 DEF RecommitLostBlock
<1>9. CASE UNCHANGED vars
  BY <1>1, <1>9 DEF vars
<1> QED BY <1>1, <1>2, <1>3, <1>4, <1>5, <1>6, <1>7, <1>8, <1>9 DEF Next

\* Software, and a card that sees no invalid transaction, accept what a serial execution
\* in block order accepts, and the state database gets what it leaves, through crashes
\* and recommits (validateAndPrepareBatch, CommitLostBlock).
THEOREM ImplementsSerialLedgerCorrect ==
  ASSUME CardSeesValid
  PROVE  Spec => ImplementsSerialLedger
BY InitIsSerial, StepIsSerial, ValidationInvariant, PTL
   DEF Spec, ImplementsSerialLedger, Serial!Spec
=============================================================================
