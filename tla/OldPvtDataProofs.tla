-------------------------- MODULE OldPvtDataProofs --------------------------
(***************************************************************************)
(* That what has expired stays gone is inductive by itself: old data takes *)
(* the version of the hash that it is checked against, and that hash has   *)
(* not expired. The other properties rest on an invariant that says what   *)
(* the hash, the private value and a batch have to do with the last valid  *)
(* write of the blocks they cover, and which data may still be pending.    *)
(***************************************************************************)
EXTENDS OldPvtData, RecursiveFunctions

\* A written block leaves no entry in the state that expires with it.
LEMMA WriteStateExpires ==
  ASSUME NEW b, NEW n, WriteState(b, n)
  PROVE  ExpiredStaysGone'
BY DEF WriteState, Unexpired, ExpiredStaysGone, Expired

\* Old data that is not stale is a deletion or takes the version of the hash.
LEMMA OldDataFollowsHash ==
  ASSUME ExpiredStaysGone, NEW data, ApplyOldData(data)
  PROVE  ExpiredStaysGone'
<1> DEFINE fresh == {v \in ConstructUniquePvtData(FilterPvtDataOfInvalidTx(data)) :
                       ~CheckIfPvtWriteIsStale(v)}
<1>1. hash' = hash /\ savepoint' = savepoint
  BY DEF ApplyOldData
<1>2. pvt' \in {pvt, Absent} \/ (hash # Absent /\ pvt'.ver = hash.ver)
  <2>1. CASE fresh = {}
    BY <2>1 DEF ApplyOldData
  <2>2. CASE fresh # {}
    <3> DEFINE v == CHOOSE w \in fresh : TRUE
    <3>1. v \in fresh
      BY <2>2
    <3>2. pvt' = IF Tx(v).op = "delete" THEN Absent
                 ELSE [ver |-> IF hash = Absent THEN v ELSE hash.ver, val |-> Tx(v).op]
      BY <2>2 DEF ApplyOldData
    <3>3. hash = Absent => Tx(v).op = "delete"
      BY <3>1 DEF CheckIfPvtWriteIsStale
    <3> HIDE DEF v
    <3> QED BY <3>2, <3>3
  <2> QED BY <2>1, <2>2
<1>3. \A e \in {hash', pvt'} \ {Absent} : ~Expired(e.ver, savepoint)
  <2>1. CASE pvt' \in {pvt, Absent}
    BY <1>1, <2>1 DEF ExpiredStaysGone
  <2>2. CASE hash # Absent /\ pvt'.ver = hash.ver
    <3>1. Expired(pvt'.ver, savepoint) = Expired(hash.ver, savepoint)
      BY <2>2
    <3> QED BY <1>1, <2>2, <3>1 DEF ExpiredStaysGone
  <2> QED BY <1>2, <2>1, <2>2
<1> QED BY <1>1, <1>3 DEF ExpiredStaysGone, Expired, Absent

-----------------------------------------------------------------------------
(* The steps.                                                              *)

\* At first the state is empty.
LEMMA InitExpired == Init => ExpiredStaysGone
BY DEF Init, ExpiredStaysGone

\* Every step leaves nothing expired in the state.
LEMMA StepExpires ==
  ASSUME ExpiredStaysGone, [Next]_vars
  PROVE  ExpiredStaysGone'
<1> DEFINE Kept == UNCHANGED <<hash, pvt, savepoint>>
<1>1. Kept => ExpiredStaysGone'
  BY DEF ExpiredStaysGone, Expired, Absent
<1>2. CASE CommitStep
  <2>1. CASE ValidateAndPrepare
    BY <1>1, <2>1 DEF ValidateAndPrepare, state
  <2>2. CASE CommitStores
    BY <1>1, <2>2 DEF CommitStores, state
  <2>3. CASE CommitState
    BY <2>3, WriteStateExpires DEF CommitState
  <2> QED BY <1>2, <2>1, <2>2, <2>3 DEF CommitStep
<1>3. CASE ReconcilerStep
  <2>1. CASE FetchMissing
    BY <1>1, <2>1 DEF FetchMissing, state
  <2>2. CASE CommitOldDataToState \/ CommitOldDataToStateV14
    BY <2>2, OldDataFollowsHash DEF CommitOldDataToState, CommitOldDataToStateV14
  <2>3. CASE CommitOldDataToStore \/ CommitOldDataToStoreV14
    BY <1>1, <2>3 DEF CommitOldDataToStore, CommitOldDataToStoreV14, state
  <2>4. CASE ResetLastUpdatedOldBlocksList
    BY <1>1, <2>4 DEF ResetLastUpdatedOldBlocksList, state
  <2> QED BY <1>3, <2>1, <2>2, <2>3, <2>4 DEF ReconcilerStep
<1>4. CASE OpenStep
  <2>1. CASE Open \/ Opened
    BY <1>1, <2>1 DEF Open, Opened, state
  <2>2. CASE RecommitLostBlock
    BY <2>2, WriteStateExpires DEF RecommitLostBlock
  <2>3. CASE SyncStateDBWithOldBlkPvtdata
    BY <2>3, OldDataFollowsHash DEF SyncStateDBWithOldBlkPvtdata
  <2> QED BY <1>4, <2>1, <2>2, <2>3 DEF OpenStep
<1>5. CASE ReconciliationFails \/ Crash \/ UpgradePeer
  BY <1>1, <1>5 DEF ReconciliationFails, Crash, UpgradePeer, state
<1>6. CASE Rollback
  BY <1>6 DEF Rollback, ExpiredStaysGone
<1>7. CASE UNCHANGED vars
  BY <1>1, <1>7 DEF vars
<1> QED BY <1>2, <1>3, <1>4, <1>5, <1>6, <1>7 DEF Next

\* Whatever the reconciler brings, and whenever, no entry of the state outlives its
\* collection's blocks to live.
THEOREM ExpiredStaysGoneCorrect == Spec => []ExpiredStaysGone
BY InitExpired, StepExpires, PTL DEF Spec
-----------------------------------------------------------------------------
(* Versions and their order.                                               *)

Op == {"a", "b", "delete", "meta"}
TxRecord == [op : Op, valid : BOOLEAN]
Version == Nat \X Nat

\* Of two versions one is later, unless they are the same.
LEMMA VersionOrder ==
  ASSUME NEW u \in Version, NEW v \in Version, NEW w \in Version
  PROVE  /\ ~Later(u, u)
         /\ Later(u, v) => ~Later(v, u)
         /\ Later(u, v) \/ Later(v, u) \/ u = v
         /\ Later(u, v) /\ ~Later(w, v) => Later(u, w)
         /\ Later(u, v) /\ ~Later(u, w) => Later(w, v)
         /\ Later(u, v) /\ Later(v, w) => Later(u, w)
BY DEF Version, Later

\* The chain is a sequence of sequences of transactions.
LEMMA ChainType ==
  ASSUME chain \in Chains
  PROVE  /\ Len(chain) \in Nat
         /\ \A n \in 1..Len(chain) :
              /\ chain[n] \in Seq(TxRecord)
              /\ Len(chain[n]) \in Nat
              /\ DOMAIN chain[n] = 1..Len(chain[n])
<1>1. chain \in Seq(Seq(TxRecord))
  BY ChainsAssumption DEF TxRecord, Op
<1>2. \A n \in 1..Len(chain) : chain[n] \in Seq(TxRecord)
  BY <1>1
<1>3. \A n \in 1..Len(chain) : Len(chain[n]) \in Nat /\ DOMAIN chain[n] = 1..Len(chain[n])
  BY <1>2
<1> QED BY <1>1, <1>2, <1>3

\* The versions of the first n blocks.
LEMMA UpToVersions ==
  ASSUME chain \in Chains, NEW n \in 0..Len(chain)
  PROVE  /\ UpTo(n) \subseteq Version
         /\ \A u \in UpTo(n) : /\ u[1] \in 1..n /\ u[2] \in 1..Len(chain[u[1]])
                               /\ u = <<u[1], u[2]>> /\ u \in Versions(u[1])
                               /\ Tx(u) \in TxRecord
         /\ \A m \in 1..n : \A i \in 1..Len(chain[m]) : <<m, i>> \in UpTo(n)
<1>1. ASSUME NEW u \in UpTo(n)
      PROVE  /\ u[1] \in 1..n /\ u[2] \in 1..Len(chain[u[1]])
             /\ u = <<u[1], u[2]>> /\ u \in Versions(u[1])
  <2>1. PICK b \in 1..n : u \in Versions(b)
    BY DEF UpTo
  <2>2. u = <<u[1], u[2]>> /\ u[1] = b /\ u[2] \in DOMAIN chain[b]
    BY <2>1 DEF Versions
  <2>3. b \in 1..Len(chain)
    BY ChainType
  <2> QED BY <2>1, <2>2, <2>3, ChainType
<1>2. ASSUME NEW u \in UpTo(n)
      PROVE  Tx(u) \in TxRecord /\ u \in Version
  <2>1. u[1] \in 1..Len(chain)
    BY <1>1, ChainType
  <2>2. chain[u[1]] \in Seq(TxRecord) /\ u[2] \in 1..Len(chain[u[1]])
    BY <1>1, <2>1, ChainType
  <2>3. chain[u[1]][u[2]] \in TxRecord
    BY <2>2
  <2>4. u[1] \in Nat /\ u[2] \in Nat
    BY <1>1, <2>2, <2>1, ChainType
  <2> QED BY <1>1, <2>3, <2>4 DEF Tx, Version
<1>3. ASSUME NEW m \in 1..n, NEW i \in 1..Len(chain[m])
      PROVE  <<m, i>> \in UpTo(n)
  <2>1. m \in 1..Len(chain)
    BY ChainType
  <2> QED BY <2>1, ChainType DEF UpTo, Versions
<1> QED BY <1>1, <1>2, <1>3

-----------------------------------------------------------------------------
(* What the invariant says.                                                *)

IsWrite(w) == Tx(w).valid /\ Tx(w).op # "meta"
LastIn(w, S) == w \in S /\ IsWrite(w) /\ \A u \in S : IsWrite(u) => ~Later(u, w)

\* The transactions up to the i-th of block n, and those that are not after v.
Done(n, i) == {u \in UpTo(n) : u[1] < n \/ u[2] <= i}
Before(v) == Done(v[1], v[2])

\* An entry of the hashed state is right for the transactions S, block k the last one
\* that has purged: it has the last version, and the last value.
HashRight(e, S, k) ==
  /\ e # Absent =>
       /\ e \in [ver : S, val : {"a", "b"}]
       /\ Tx(e.ver).valid
       /\ \A u \in S : Tx(u).valid => ~Later(u, e.ver)
       /\ \A w : LastIn(w, S) => Tx(w).op = e.val
  /\ e = Absent => \A w : LastIn(w, S) => Tx(w).op = "delete" \/ Expired(w, k)

\* A private entry is right: its value is the last one as of its version.
PvtRight(e, S) ==
  e # Absent =>
    /\ e \in [ver : S, val : {"a", "b"}]
    /\ Tx(e.ver).valid
    /\ \A w : LastIn(w, Before(e.ver)) => Tx(w).op = e.val

\* An entry has the value of a write, and is as new.
Has(e, w) ==
  IF Tx(w).op = "delete" THEN e = Absent
  ELSE e \notin {Absent, Unchanged} /\ e.val = Tx(w).op /\ ~Later(w, e.ver)

\* The updates of block n are right for the data they were made from.
BatchRight(b, n) ==
  /\ HashRight(b.hash, UpTo(n), n - 1)
  /\ b.pvt # Unchanged => PvtRight(b.pvt, UpTo(n))
  /\ b.pvt \notin {Absent, Unchanged} => b.pvt.ver[1] = n
  /\ \A w \in b.data : w[1] = n /\ LastIn(w, UpTo(n)) => Has(b.pvt, w)
  /\ (\A w \in Versions(n) : ~IsWrite(w)) =>
       b.pvt # Absent /\ (b.pvt # Unchanged => b.hash # Absent /\ b.pvt.val = b.hash.val)

\* Data on its way into the state, by the list of v1.4 or in the reconciler's hands.
Pending ==
  IF lastUpdated = {} \/ pc = "reset" \/ rec.at = "reset" THEN {}
  ELSE IF rec.at = "half" THEN rec.data
  ELSE {v \in UpTo(pvtHeight) : v[1] \in lastUpdated}
\* Data the private data store has, or will have when v2.2 gets to write it.
Held ==
  stored \union (IF release = "v2.2" /\ rec.at = "half"
                 THEN {v \in rec.data : ~Expired(v, pvtHeight)} ELSE {})

-----------------------------------------------------------------------------
(* The inductive invariant.                                                *)

PhaseInv ==
  /\ pc \in {"idle", "prepared", "reset"} => savepoint = height
  /\ pc = "stored" => savepoint = height - 1
  /\ pc = "prepared" => height < Len(chain) /\ batch.data \subseteq Versions(height + 1)
  /\ ~Running => rec = NoWork
  /\ rec.data \subseteq UpTo(height)
  /\ release = "v2.2" /\ Running => lastUpdated = {}
  /\ rec.at = "reset" => release = "v1.4"
  /\ release = "v1.4" /\ rec.at = "half" => lastUpdated = {v[1] : v \in rec.data}

StateInv ==
  /\ HashRight(hash, UpTo(savepoint), savepoint)
  /\ PvtRight(pvt, UpTo(savepoint))
  /\ pc \in {"prepared", "stored"} => BatchRight(batch, savepoint + 1)

StoreInv ==
  /\ \A v \in stored : ~Expired(v, pvtHeight)
  /\ pc = "prepared" => stored \cap Versions(height + 1) \subseteq batch.data
  /\ pc = "stored" =>
       Held \cap Versions(height) \subseteq batch.data \union early \union Pending

\* A last write that the store has is in the state, unless it is pending.
FollowInv ==
  \A w \in Held \ (early \union Pending) :
    LastIn(w, UpTo(savepoint)) /\ (\A u \in UpTo(height) : IsWrite(u) => u[1] <= savepoint)
      => Has(pvt, w)

IInv == TypeOK /\ PhaseInv /\ StateInv /\ StoreInv /\ FollowInv
-----------------------------------------------------------------------------
(* The updates of a block.                                                 *)

\* The transactions done grow one by one, from those of the blocks before.
LEMMA DoneSteps ==
  ASSUME chain \in Chains, NEW n \in 1..Len(chain)
  PROVE  /\ Done(n, 0) = UpTo(n - 1)
         /\ Done(n, Len(chain[n])) = UpTo(n)
         /\ \A i \in 1..Len(chain[n]) :
              /\ Done(n, i) = Done(n, i - 1) \union {<<n, i>>}
              /\ \A u \in Done(n, i - 1) : Later(<<n, i>>, u)
<1>1. /\ Len(chain) \in Nat /\ n \in 0..Len(chain) /\ n - 1 \in 0..Len(chain)
      /\ Len(chain[n]) \in Nat
  BY ChainType
<1>2. \A u \in UpTo(n) : /\ u[1] \in 1..n /\ u[2] \in 1..Len(chain[u[1]])
                         /\ u = <<u[1], u[2]>>
  BY <1>1, UpToVersions
<1>3. \A m \in 1..n : \A i \in 1..Len(chain[m]) : <<m, i>> \in UpTo(n)
  BY <1>1, UpToVersions
<1>4. \A m \in 1..n - 1 : \A i \in 1..Len(chain[m]) : <<m, i>> \in UpTo(n - 1)
  BY <1>1, UpToVersions
<1>5. \A u \in UpTo(n - 1) : /\ u[1] \in 1..n - 1 /\ u[2] \in 1..Len(chain[u[1]])
                             /\ u = <<u[1], u[2]>>
  BY <1>1, UpToVersions
<1>6. \A u \in UpTo(n) : u[1] \in Nat /\ u[2] \in Nat
  BY <1>1, UpToVersions DEF Version
<1>7. Done(n, 0) = UpTo(n - 1)
  <2>1. ASSUME NEW u \in UpTo(n), u[1] < n \/ u[2] <= 0 PROVE u \in UpTo(n - 1)
    <3>1. u[1] \in 1..n - 1 /\ u[2] \in 1..Len(chain[u[1]])
      BY <2>1, <1>1, <1>2, <1>6
    <3> QED BY <3>1, <1>2, <1>4
  <2>2. ASSUME NEW u \in UpTo(n - 1) PROVE u \in UpTo(n) /\ u[1] < n
    BY <1>1, <1>3, <1>5
  <2> QED BY <2>1, <2>2 DEF Done
<1>8. Done(n, Len(chain[n])) = UpTo(n)
  <2>1. \A u \in UpTo(n) : u[1] < n \/ u[2] <= Len(chain[n])
    BY <1>1, <1>2
  <2> QED BY <2>1 DEF Done
<1>9. ASSUME NEW i \in 1..Len(chain[n])
      PROVE  /\ Done(n, i) = Done(n, i - 1) \union {<<n, i>>}
             /\ \A u \in Done(n, i - 1) : Later(<<n, i>>, u)
  <2>1. <<n, i>> \in UpTo(n)
    BY <1>1, <1>3
  <2>2. \A u \in UpTo(n) : u[1] < n \/ u[2] <= i <=> (u[1] < n \/ u[2] <= i - 1) \/ u = <<n, i>>
    BY <1>1, <1>2, <1>6
  <2>3. \A u \in Done(n, i - 1) : Later(<<n, i>>, u)
    BY <1>1, <1>2, <1>6 DEF Done, Later
  <2> QED BY <2>1, <2>2, <2>3 DEF Done
<1> QED BY <1>7, <1>8, <1>9

\* The last write of a set that has grown by a later transaction.
LEMMA LastInMore ==
  ASSUME NEW S \in SUBSET Version, NEW v \in Version, \A u \in S : Later(v, u),
         NEW w, LastIn(w, S \union {v})
  PROVE  IF IsWrite(v) THEN w = v ELSE LastIn(w, S)
BY VersionOrder DEF LastIn

\* The right entry of the hashed state stays right over one more transaction.
LEMMA HashAfterRight ==
  ASSUME NEW S \in SUBSET Version, NEW v \in Version, \A u \in S : Later(v, u),
         Tx(v) \in TxRecord, NEW e, NEW k, HashRight(e, S, k)
  PROVE  HashRight(HashAfter(e, v), S \union {v}, k)
<1> DEFINE T == S \union {v}
           f == HashAfter(e, v)
<1> SUFFICES HashRight(f, T, k)
  OBVIOUS
<1>1. \A w : LastIn(w, T) => IF IsWrite(v) THEN w = v ELSE LastIn(w, S)
  BY LastInMore
<1>2. \A u \in T : ~Later(u, v)
  BY VersionOrder
<1>3. /\ Tx(v).valid \in BOOLEAN
      /\ Tx(v).op \in {"a", "b", "delete", "meta"}
  BY DEF TxRecord, Op
<1>4. CASE ~Tx(v).valid
  <2>1. f = e /\ ~IsWrite(v)
    BY <1>4 DEF HashAfter, IsWrite
  <2>2. e # Absent => \A u \in T : Tx(u).valid => ~Later(u, e.ver)
    BY <1>4 DEF HashRight
  <2>3. e # Absent => e \in [ver : T, val : {"a", "b"}]
    BY DEF HashRight
  <2> HIDE DEF f, T
  <2> QED BY <2>1, <2>2, <2>3, <1>1 DEF HashRight
<1>5. CASE Tx(v).valid /\ Tx(v).op = "delete"
  <2>1. f = Absent /\ IsWrite(v)
    BY <1>5 DEF HashAfter, IsWrite
  <2> HIDE DEF f, T
  <2> QED BY <2>1, <1>1, <1>5 DEF HashRight
<1>6. CASE Tx(v).valid /\ Tx(v).op = "meta" /\ e = Absent
  <2>1. f = Absent /\ ~IsWrite(v)
    BY <1>6 DEF HashAfter, IsWrite
  <2> HIDE DEF f, T
  <2> QED BY <2>1, <1>1, <1>6 DEF HashRight
<1>7. CASE Tx(v).valid /\ Tx(v).op = "meta" /\ e # Absent
  <2>1. f = [e EXCEPT !.ver = v] /\ ~IsWrite(v)
    BY <1>7 DEF HashAfter, IsWrite
  <2>2. e \in [ver : S, val : {"a", "b"}]
    BY <1>7 DEF HashRight
  <2>3. f = [ver |-> v, val |-> e.val] /\ e.val \in {"a", "b"}
    BY <2>1, <2>2
  <2>4. f # Absent /\ f \in [ver : T, val : {"a", "b"}] /\ f.ver = v /\ f.val = e.val
    BY <2>3 DEF Absent
  <2> HIDE DEF f, T
  <2> QED BY <2>1, <2>4, <1>1, <1>2, <1>7 DEF HashRight
<1>8. CASE Tx(v).valid /\ Tx(v).op \in {"a", "b"}
  <2>1. f = [ver |-> v, val |-> Tx(v).op] /\ IsWrite(v)
    BY <1>8 DEF HashAfter, IsWrite
  <2>4. f # Absent /\ f \in [ver : T, val : {"a", "b"}] /\ f.ver = v /\ f.val = Tx(v).op
    BY <2>1, <1>8 DEF Absent
  <2> HIDE DEF f, T
  <2> QED BY <2>1, <2>4, <1>1, <1>2, <1>8 DEF HashRight
<1> QED BY <1>3, <1>4, <1>5, <1>6, <1>7, <1>8
\* The block's hashes are taken up one after the other.
LEMMA HashAfterBlockSteps ==
  ASSUME chain \in Chains, NEW n \in 1..Len(chain),
         hash \in {Absent} \union [ver : Version, val : {"a", "b"}]
  PROVE  \E f : /\ f[0] = hash
                /\ \A i \in 1..Len(chain[n]) : f[i] = HashAfter(f[i - 1], <<n, i>>)
                /\ HashAfterBlock(n) = f[Len(chain[n])]
<1> DEFINE S == {Absent} \union [ver : Version, val : {"a", "b"}]
           N == Len(chain[n])
           G == [i \in 1..N |-> [e \in S |-> HashAfter(e, <<n, i>>)]]
           Unfolds(f) == f = [i \in 0..N |-> IF i = 0 THEN hash
                                             ELSE HashAfter(f[i - 1], <<n, i>>)]
<1>1. /\ N \in Nat
      /\ \A i \in 1..N : <<n, i>> \in Version /\ Tx(<<n, i>>) \in TxRecord
  <2>1. n \in 0..Len(chain) /\ n \in Nat /\ N \in Nat
    BY ChainType
  <2>2. \A i \in 1..N : <<n, i>> \in UpTo(n)
    BY <2>1, UpToVersions
  <2> QED BY <2>1, <2>2, UpToVersions
<1>2. G \in Steps(N, S)
  <2>1. ASSUME NEW i \in 1..N, NEW e \in S PROVE HashAfter(e, <<n, i>>) \in S
    <3> DEFINE v == <<n, i>>
    <3>1. v \in Version /\ Tx(v).op \in {"a", "b", "delete", "meta"} /\ Tx(v).valid \in BOOLEAN
      BY <1>1 DEF TxRecord, Op
    <3> HIDE DEF v
    <3> SUFFICES HashAfter(e, v) \in S
      BY DEF v
    <3>2. e # Absent => [e EXCEPT !.ver = v] = [ver |-> v, val |-> e.val] /\ e.val \in {"a", "b"}
      OBVIOUS
    <3> QED BY <3>1, <3>2 DEF HashAfter
  <2> QED BY <2>1 DEF Steps
<1>3. PICK f : Recursion(f, N, S, hash, G)
  <2> hash \in S
    OBVIOUS
  <2> HIDE DEF G, S, N
  <2> QED BY <1>1, <1>2, RecursionExists
<1>4. \A i \in 1..N : f[i] = HashAfter(f[i - 1], <<n, i>>)
  <2> SUFFICES ASSUME NEW i \in 1..N PROVE f[i] = HashAfter(f[i - 1], <<n, i>>)
    OBVIOUS
  <2> f[i - 1] \in S
    BY <1>1, <1>3 DEF Recursion
  <2> HIDE DEF S
  <2> QED BY <1>3 DEF Recursion
<1>5. Unfolds(f)
  <2>1. f = [i \in 0..N |-> f[i]] /\ f[0] = hash
    BY <1>3 DEF Recursion
  <2>2. \A i \in 0..N : i # 0 => i \in 1..N
    BY <1>1
  <2> HIDE DEF N
  <2> QED BY <2>1, <2>2, <1>4, Zenon
<1>6. Unfolds(CHOOSE g : Unfolds(g))
  <2> HIDE DEF Unfolds
  <2> QED BY <1>5
<1>7. PICK after : Unfolds(after) /\ HashAfterBlock(n) = after[N]
  BY <1>6 DEF HashAfterBlock
<1>8. after[0] = hash /\ \A i \in 1..N : after[i] = HashAfter(after[i - 1], <<n, i>>)
  <2>1. 0 \in 0..N /\ \A i \in 1..N : i \in 0..N /\ i # 0
    BY <1>1
  <2> HIDE DEF N
  <2> QED BY <1>7, <2>1
<1> QED BY <1>7, <1>8

\* The right entry before a block is right after it.
LEMMA HashAfterBlockRight ==
  ASSUME chain \in Chains, NEW n \in 1..Len(chain), HashRight(hash, UpTo(n - 1), n - 1)
  PROVE  HashRight(HashAfterBlock(n), UpTo(n), n - 1)
<1> DEFINE N == Len(chain[n])
<1>1. /\ N \in Nat /\ n \in 0..Len(chain) /\ n - 1 \in 0..Len(chain)
  BY ChainType
<1>2. PICK f : /\ f[0] = hash
               /\ \A i \in 1..N : f[i] = HashAfter(f[i - 1], <<n, i>>)
               /\ HashAfterBlock(n) = f[N]
  <2>1. UpTo(n - 1) \subseteq Version
    BY <1>1, UpToVersions
  <2>2. hash \in {Absent} \union [ver : Version, val : {"a", "b"}]
    BY <2>1 DEF HashRight
  <2> QED BY <2>2, HashAfterBlockSteps
<1> DEFINE T == {i \in 0..N : HashRight(f[i], Done(n, i), n - 1)}
<1>3. 0 \in T
  BY <1>1, <1>2, DoneSteps
<1>4. ASSUME NEW i \in 1..N, i - 1 \in T
      PROVE  i \in T
  <2>1. /\ Done(n, i - 1) \subseteq Version
        /\ <<n, i>> \in UpTo(n) /\ <<n, i>> \in Version /\ Tx(<<n, i>>) \in TxRecord
    <3>1. <<n, i>> \in UpTo(n)
      BY <1>1, UpToVersions
    <3> QED BY <3>1, <1>1, UpToVersions DEF Done
  <2>2. /\ Done(n, i) = Done(n, i - 1) \union {<<n, i>>}
        /\ \A u \in Done(n, i - 1) : Later(<<n, i>>, u)
    BY DoneSteps
  <2>3. HashRight(f[i - 1], Done(n, i - 1), n - 1)
    BY <1>4
  <2>4. HashRight(HashAfter(f[i - 1], <<n, i>>), Done(n, i - 1) \union {<<n, i>>}, n - 1)
    BY <2>1, <2>2, <2>3, HashAfterRight
  <2>5. i \in 0..N
    OBVIOUS
  <2> QED BY <1>2, <2>2, <2>4, <2>5
<1>5. N \in T
  <2> HIDE DEF T
  <2>1. \A i \in 0..N : i \in T
    BY <1>1, <1>3, <1>4, IntervalInduction
  <2> QED BY <1>1, <2>1
<1> QED BY <1>2, <1>5, DoneSteps
\* The update of the private value, after the transactions S of block n: the last write
\* if the data has it, otherwise at most one that was made in the block.
UpdateRight(e, S, n, data) ==
  /\ e \notin {Absent, Unchanged} =>
       /\ e \in [ver : S, val : {"a", "b"}]
       /\ e.ver[1] = n /\ IsWrite(e.ver) /\ Tx(e.ver).op = e.val
  /\ \A w : LastIn(w, S) /\ w[1] = n /\ w \in data =>
       e = IF Tx(w).op = "delete" THEN Absent ELSE [ver |-> w, val |-> Tx(w).op]
  /\ (\A w \in S : w[1] = n => ~IsWrite(w)) => e = Unchanged

\* One more transaction.
LEMMA AddPvtRWSetRight ==
  ASSUME NEW n, NEW data, NEW S \in SUBSET Version, NEW v \in Version, v[1] = n,
         \A u \in S : Later(v, u), Tx(v) \in TxRecord, NEW e, UpdateRight(e, S, n, data)
  PROVE  UpdateRight(AddPvtRWSet(e, v, data), S \union {v}, n, data)
<1> DEFINE T == S \union {v}
           f == AddPvtRWSet(e, v, data)
<1> SUFFICES UpdateRight(f, T, n, data)
  OBVIOUS
<1>1. \A w : LastIn(w, T) => IF IsWrite(v) THEN w = v ELSE LastIn(w, S)
  BY LastInMore
<1>3. /\ Tx(v).valid \in BOOLEAN
      /\ Tx(v).op \in {"a", "b", "delete", "meta"}
  BY DEF TxRecord, Op
<1>4. CASE ~Tx(v).valid \/ Tx(v).op = "meta"
  <2>1. f = e /\ ~IsWrite(v)
    BY <1>4 DEF AddPvtRWSet, IsWrite
  <2>2. e \notin {Absent, Unchanged} => e \in [ver : T, val : {"a", "b"}]
    BY DEF UpdateRight
  <2>3. (\A w \in T : w[1] = n => ~IsWrite(w)) => \A w \in S : w[1] = n => ~IsWrite(w)
    OBVIOUS
  <2> HIDE DEF f, T
  <2> QED BY <2>1, <2>2, <2>3, <1>1 DEF UpdateRight
<1>5. CASE Tx(v).valid /\ Tx(v).op # "meta" /\ v \notin data
  <2>1. f = e /\ IsWrite(v) /\ v \in T
    BY <1>5 DEF AddPvtRWSet, IsWrite
  <2>2. e \notin {Absent, Unchanged} => e \in [ver : T, val : {"a", "b"}]
    BY DEF UpdateRight
  <2> HIDE DEF f, T
  <2> QED BY <2>1, <2>2, <1>1, <1>5 DEF UpdateRight
<1>6. CASE Tx(v).valid /\ Tx(v).op = "delete" /\ v \in data
  <2>1. f = Absent /\ IsWrite(v) /\ v \in T
    BY <1>6 DEF AddPvtRWSet, IsWrite
  <2> HIDE DEF f, T
  <2> QED BY <2>1, <1>1, <1>6 DEF UpdateRight
<1>7. CASE Tx(v).valid /\ Tx(v).op \in {"a", "b"} /\ v \in data
  <2>1. f = [ver |-> v, val |-> Tx(v).op] /\ IsWrite(v) /\ v \in T
    BY <1>7 DEF AddPvtRWSet, IsWrite
  <2>2. f \in [ver : T, val : {"a", "b"}] /\ f.ver = v /\ f.val = Tx(v).op
    BY <2>1, <1>7
  <2> HIDE DEF f, T
  <2> QED BY <2>1, <2>2, <1>1, <1>7 DEF UpdateRight
<1> QED BY <1>3, <1>4, <1>5, <1>6, <1>7

\* The block's private writes are taken up one after the other.
LEMMA PvtUpdateSteps ==
  ASSUME chain \in Chains, NEW n \in 1..Len(chain), NEW data
  PROVE  \E f : /\ f[0] = Unchanged
                /\ \A i \in 1..Len(chain[n]) : f[i] = AddPvtRWSet(f[i - 1], <<n, i>>, data)
                /\ PvtUpdate(n, data) = f[Len(chain[n])]
<1> DEFINE S == {Absent, Unchanged} \union [ver : Version, val : {"a", "b"}]
           N == Len(chain[n])
           G == [i \in 1..N |-> [e \in S |-> AddPvtRWSet(e, <<n, i>>, data)]]
           Unfolds(f) == f = [i \in 0..N |-> IF i = 0 THEN Unchanged
                                             ELSE AddPvtRWSet(f[i - 1], <<n, i>>, data)]
<1>1. /\ N \in Nat
      /\ \A i \in 1..N : <<n, i>> \in Version /\ Tx(<<n, i>>) \in TxRecord
  <2>1. n \in 0..Len(chain) /\ n \in Nat /\ N \in Nat
    BY ChainType
  <2>2. \A i \in 1..N : <<n, i>> \in UpTo(n)
    BY <2>1, UpToVersions
  <2> QED BY <2>1, <2>2, UpToVersions
<1>2. G \in Steps(N, S)
  <2>1. ASSUME NEW i \in 1..N, NEW e \in S PROVE AddPvtRWSet(e, <<n, i>>, data) \in S
    <3> DEFINE v == <<n, i>>
    <3>1. v \in Version /\ Tx(v).op \in {"a", "b", "delete", "meta"} /\ Tx(v).valid \in BOOLEAN
      BY <1>1 DEF TxRecord, Op
    <3> HIDE DEF v
    <3> SUFFICES AddPvtRWSet(e, v, data) \in S
      BY DEF v
    <3> QED BY <3>1 DEF AddPvtRWSet
  <2> QED BY <2>1 DEF Steps
<1>3. PICK f : Recursion(f, N, S, Unchanged, G)
  <2> Unchanged \in S
    OBVIOUS
  <2> HIDE DEF G, S, N
  <2> QED BY <1>1, <1>2, RecursionExists
<1>4. \A i \in 1..N : f[i] = AddPvtRWSet(f[i - 1], <<n, i>>, data)
  <2> SUFFICES ASSUME NEW i \in 1..N PROVE f[i] = AddPvtRWSet(f[i - 1], <<n, i>>, data)
    OBVIOUS
  <2> f[i - 1] \in S
    BY <1>1, <1>3 DEF Recursion
  <2> HIDE DEF S
  <2> QED BY <1>3 DEF Recursion
<1>5. Unfolds(f)
  <2>1. f = [i \in 0..N |-> f[i]] /\ f[0] = Unchanged
    BY <1>3 DEF Recursion
  <2>2. \A i \in 0..N : i # 0 => i \in 1..N
    BY <1>1
  <2> HIDE DEF N
  <2> QED BY <2>1, <2>2, <1>4, Zenon
<1>6. Unfolds(CHOOSE g : Unfolds(g))
  <2> HIDE DEF Unfolds
  <2> QED BY <1>5
<1>7. PICK after : Unfolds(after) /\ PvtUpdate(n, data) = after[N]
  BY <1>6 DEF PvtUpdate
<1>8. /\ after[0] = Unchanged
      /\ \A i \in 1..N : after[i] = AddPvtRWSet(after[i - 1], <<n, i>>, data)
  <2>1. 0 \in 0..N /\ \A i \in 1..N : i \in 0..N /\ i # 0
    BY <1>1
  <2> HIDE DEF N
  <2> QED BY <1>7, <2>1
<1> QED BY <1>7, <1>8

\* What a block's private writes add up to.
LEMMA PvtUpdateRight ==
  ASSUME chain \in Chains, NEW n \in 1..Len(chain), NEW data
  PROVE  UpdateRight(PvtUpdate(n, data), UpTo(n), n, data)
<1> DEFINE N == Len(chain[n])
<1>1. /\ N \in Nat /\ n \in 0..Len(chain) /\ n - 1 \in 0..Len(chain)
  BY ChainType
<1>2. PICK f : /\ f[0] = Unchanged
               /\ \A i \in 1..N : f[i] = AddPvtRWSet(f[i - 1], <<n, i>>, data)
               /\ PvtUpdate(n, data) = f[N]
  BY PvtUpdateSteps
<1> DEFINE T == {i \in 0..N : UpdateRight(f[i], Done(n, i), n, data)}
<1>3. 0 \in T
  <2>1. \A w \in Done(n, 0) : w[1] # n
    BY <1>1, DoneSteps, UpToVersions
  <2>2. UpdateRight(f[0], Done(n, 0), n, data)
    BY <1>2, <2>1 DEF UpdateRight, LastIn
  <2> QED BY <1>1, <2>2
<1>4. ASSUME NEW i \in 1..N, i - 1 \in T
      PROVE  i \in T
  <2>1. /\ Done(n, i - 1) \subseteq Version
        /\ <<n, i>> \in UpTo(n) /\ <<n, i>> \in Version /\ Tx(<<n, i>>) \in TxRecord
    <3>1. <<n, i>> \in UpTo(n)
      BY <1>1, UpToVersions
    <3> QED BY <3>1, <1>1, UpToVersions DEF Done
  <2>2. /\ Done(n, i) = Done(n, i - 1) \union {<<n, i>>}
        /\ \A u \in Done(n, i - 1) : Later(<<n, i>>, u)
    BY DoneSteps
  <2>3. UpdateRight(f[i - 1], Done(n, i - 1), n, data)
    BY <1>4
  <2>4. UpdateRight(AddPvtRWSet(f[i - 1], <<n, i>>, data), Done(n, i - 1) \union {<<n, i>>},
                    n, data)
    <3>1. <<n, i>>[1] = n
      OBVIOUS
    <3> QED BY <2>1, <2>2, <2>3, <3>1, AddPvtRWSetRight
  <2>5. i \in 0..N
    OBVIOUS
  <2> QED BY <1>2, <2>2, <2>4, <2>5
<1>5. N \in T
  <2> HIDE DEF T
  <2>1. \A i \in 0..N : i \in T
    BY <1>1, <1>3, <1>4, IntervalInduction
  <2> QED BY <1>1, <2>1
<1> QED BY <1>2, <1>5, DoneSteps
\* Before a version are the transactions that are not later.
LEMMA BeforeVersion ==
  ASSUME chain \in Chains, NEW n \in 0..Len(chain), NEW v \in UpTo(n)
  PROVE  /\ v \in Before(v)
         /\ \A u : u \in Before(v) <=> u \in UpTo(n) /\ ~Later(u, v)
<1>1. Len(chain) \in Nat /\ v[1] \in 1..n /\ v[1] \in 0..Len(chain) /\ v \in Version
  BY ChainType, UpToVersions
<1>2. \A u \in UpTo(n) : /\ u[1] \in 1..n /\ u[2] \in 1..Len(chain[u[1]])
                         /\ u = <<u[1], u[2]>> /\ u[1] \in Nat /\ u[2] \in Nat
  BY UpToVersions DEF Version
<1>3. \A u \in UpTo(v[1]) : u \in UpTo(n) /\ u[1] \in 1..v[1] /\ u[2] \in Nat /\ u[1] \in Nat
  <2> SUFFICES ASSUME NEW u \in UpTo(v[1])
               PROVE  u \in UpTo(n) /\ u[1] \in 1..v[1] /\ u[2] \in Nat /\ u[1] \in Nat
    OBVIOUS
  <2>1. /\ u[1] \in 1..v[1] /\ u[2] \in 1..Len(chain[u[1]])
        /\ u = <<u[1], u[2]>> /\ u \in Version
    BY <1>1, UpToVersions
  <2>2. u[1] \in 1..n
    BY <1>1, <2>1
  <2> QED BY <2>1, <2>2, UpToVersions DEF Version
<1>4. ASSUME NEW u \in UpTo(n), ~Later(u, v)
      PROVE  u \in UpTo(v[1]) /\ (u[1] < v[1] \/ u[2] <= v[2])
  <2>1. u[1] \in 1..v[1] /\ (u[1] < v[1] \/ u[2] <= v[2])
    BY <1>1, <1>2, <1>4 DEF Later, Version
  <2> QED BY <1>1, <1>2, <2>1, UpToVersions
<1>5. ASSUME NEW u \in UpTo(v[1]), u[1] < v[1] \/ u[2] <= v[2]
      PROVE  ~Later(u, v)
  BY <1>1, <1>3, <1>5 DEF Later, Version
<1>6. \A u : u \in Before(v) <=> u \in UpTo(n) /\ ~Later(u, v)
  BY <1>3, <1>4, <1>5 DEF Before, Done
<1> QED BY <1>1, <1>6, VersionOrder

\* The update of the private value is what the private writes add up to, unless an
\* update of the metadata makes it the entry of the hashes.
LEMMA PreparedPvt ==
  ASSUME NEW n, NEW data, pvt = Absent \/ pvt \in [ver : Version, val : {"a", "b"}],
         PvtUpdate(n, data) \in {Absent, Unchanged} \union [ver : Version, val : {"a", "b"}],
         HashAfterBlock(n) \in {Absent} \union [ver : Version, val : {"a", "b"}]
  PROVE  LET p == PrepareBatch(n, data).pvt
             hashed == HashAfterBlock(n)
         IN  \/ p = PvtUpdate(n, data)
             \/ hashed # Absent /\ hashed.ver[1] = n /\ p = hashed
<1> DEFINE hashed == HashAfterBlock(n)
           update == PvtUpdate(n, data)
           latest == IF update \in {Absent, Unchanged} THEN pvt ELSE update
           p == PrepareBatch(n, data).pvt
<1>1. SUFFICES ASSUME p # update
               PROVE  hashed # Absent /\ hashed.ver[1] = n /\ p = hashed
  OBVIOUS
<1>2. /\ hashed # Absent /\ hashed.ver[1] = n /\ p = IncrementPvtdataVersion(update, hashed)
  BY <1>1 DEF PrepareBatch
<1>3. latest # Absent /\ latest.val = hashed.val /\ p = [latest EXCEPT !.ver = hashed.ver]
  BY <1>1, <1>2 DEF IncrementPvtdataVersion
<1>4. latest \in [ver : Version, val : {"a", "b"}]
  BY <1>3
<1>5. p = [ver |-> hashed.ver, val |-> hashed.val]
  <2> HIDE DEF latest, hashed, p
  <2> QED BY <1>3, <1>4
<1>6. hashed = [ver |-> hashed.ver, val |-> hashed.val]
  BY <1>2
<1> QED BY <1>2, <1>5, <1>6

\* The updates of a block, made on the state of the block before, are right.
LEMMA PrepareBatchRight ==
  ASSUME chain \in Chains, NEW n \in 1..Len(chain), NEW data,
         HashRight(hash, UpTo(n - 1), n - 1), PvtRight(pvt, UpTo(n - 1))
  PROVE  BatchRight(PrepareBatch(n, data), n)
<1> DEFINE b == PrepareBatch(n, data)
           hashed == HashAfterBlock(n)
           update == PvtUpdate(n, data)
<1> SUFFICES BatchRight(b, n)
  OBVIOUS
<1>1. Len(chain) \in Nat /\ n \in 0..Len(chain) /\ n - 1 \in 0..Len(chain)
  BY ChainType
<1>2. b.hash = hashed /\ b.data = data
  BY DEF PrepareBatch
<1>3. HashRight(hashed, UpTo(n), n - 1)
  BY HashAfterBlockRight
<1>4. UpdateRight(update, UpTo(n), n, data)
  BY PvtUpdateRight
<1>5. UpTo(n) \subseteq Version
  BY <1>1, UpToVersions
<1>6. b.pvt = update \/ (hashed # Absent /\ hashed.ver[1] = n /\ b.pvt = hashed)
  <2>1. pvt = Absent \/ pvt \in [ver : Version, val : {"a", "b"}]
    BY <1>1, UpToVersions DEF PvtRight
  <2>2. update \in {Absent, Unchanged} \union [ver : Version, val : {"a", "b"}]
    <3> HIDE DEF update
    <3> QED BY <1>4, <1>5 DEF UpdateRight
  <2>3. hashed \in {Absent} \union [ver : Version, val : {"a", "b"}]
    <3> HIDE DEF hashed
    <3> QED BY <1>3, <1>5 DEF HashRight
  <2> QED BY <2>1, <2>2, <2>3, PreparedPvt
<1>7. \A u \in Versions(n) : u \in UpTo(n) /\ u[1] = n
  BY <1>1 DEF UpTo, Versions
<1>8. \A u \in UpTo(n) : u[1] = n => u \in Versions(n)
  BY <1>1, UpToVersions
<1> HIDE DEF b, hashed, update
<1>9. CASE b.pvt = update
  <2>1. ASSUME update \notin {Absent, Unchanged}
        PROVE  PvtRight(update, UpTo(n)) /\ update.ver[1] = n
    <3> DEFINE v == update.ver
    <3>1. /\ update \in [ver : UpTo(n), val : {"a", "b"}]
          /\ v[1] = n /\ IsWrite(v) /\ Tx(v).op = update.val
      BY <1>4, <2>1 DEF UpdateRight
    <3>2. v \in UpTo(n)
      BY <3>1
    <3> HIDE DEF v
    <3>3. v \in Before(v) /\ \A u \in Before(v) : u \in UpTo(n) /\ ~Later(u, v)
      BY <1>1, <3>2, BeforeVersion
    <3>4. \A w : LastIn(w, Before(v)) => w = v
      BY <3>1, <3>2, <3>3, <1>5, VersionOrder DEF LastIn
    <3> QED BY <3>1, <3>4 DEF v, PvtRight, IsWrite
  <2>2. PvtRight(Absent, UpTo(n))
    BY DEF PvtRight
  <2>3. ASSUME NEW w \in data, w[1] = n, LastIn(w, UpTo(n))
        PROVE  Has(update, w)
    <3>1. update = IF Tx(w).op = "delete" THEN Absent ELSE [ver |-> w, val |-> Tx(w).op]
      BY <1>4, <2>3 DEF UpdateRight
    <3>2. w \in Version /\ Tx(w) \in TxRecord /\ ~Later(w, w)
      BY <1>1, <2>3, UpToVersions, VersionOrder DEF LastIn
    <3>3. Tx(w).op \in {"a", "b", "delete"}
      BY <2>3, <3>2 DEF LastIn, IsWrite, TxRecord, Op
    <3> QED BY <3>1, <3>2, <3>3 DEF Has, Absent, Unchanged
  <2>4. (\A w \in Versions(n) : ~IsWrite(w)) => update = Unchanged
    BY <1>4, <1>8 DEF UpdateRight
  <2>5. Unchanged # Absent
    BY DEF Unchanged, Absent
  <2> QED BY <1>2, <1>3, <1>9, <2>1, <2>2, <2>3, <2>4, <2>5 DEF BatchRight
<1>10. CASE hashed # Absent /\ hashed.ver[1] = n /\ b.pvt = hashed
  <2> DEFINE v == hashed.ver
  <2>1. /\ hashed \in [ver : UpTo(n), val : {"a", "b"}]
        /\ Tx(v).valid
        /\ \A u \in UpTo(n) : Tx(u).valid => ~Later(u, v)
        /\ \A w : LastIn(w, UpTo(n)) => Tx(w).op = hashed.val
    BY <1>3, <1>10 DEF HashRight
  <2>2. v \in UpTo(n)
    BY <2>1
  <2> HIDE DEF v
  <2>3. \A w : LastIn(w, Before(v)) => LastIn(w, UpTo(n))
    BY <1>1, <2>1, <2>2, BeforeVersion DEF LastIn, IsWrite
  <2>4. PvtRight(hashed, UpTo(n))
    BY <2>1, <2>3 DEF v, PvtRight
  <2>5. ASSUME NEW w \in data, w[1] = n, LastIn(w, UpTo(n))
        PROVE  Has(hashed, w)
    <3>1. Tx(w).op = hashed.val /\ hashed.val \in {"a", "b"} /\ ~Later(w, v)
      BY <2>1, <2>5 DEF LastIn, IsWrite
    <3>2. hashed \notin {Absent, Unchanged}
      BY <3>1 DEF Absent, Unchanged
    <3> QED BY <3>1, <3>2 DEF Has, v
  <2> QED BY <1>2, <1>3, <1>10, <2>4, <2>5 DEF BatchRight
<1> QED BY <1>6, <1>9, <1>10
-----------------------------------------------------------------------------
(* What a step does to the state.                                          *)

\* A right entry of the hashed state would be right as a private one, and has the last
\* write unless that has expired.
LEMMA HashRightIsPvtRight ==
  ASSUME chain \in Chains, NEW n \in 0..Len(chain), NEW k, NEW e, HashRight(e, UpTo(n), k)
  PROVE  /\ PvtRight(e, UpTo(n))
         /\ \A w : LastIn(w, UpTo(n)) /\ ~Expired(w, k) => Has(e, w)
<1>1. CASE e = Absent
  BY <1>1 DEF HashRight, PvtRight, Has
<1>2. CASE e # Absent
  <2> DEFINE v == e.ver
  <2>1. /\ e \in [ver : UpTo(n), val : {"a", "b"}]
        /\ Tx(v).valid
        /\ \A u \in UpTo(n) : Tx(u).valid => ~Later(u, v)
        /\ \A w : LastIn(w, UpTo(n)) => Tx(w).op = e.val
    BY <1>2 DEF HashRight
  <2>2. v \in UpTo(n)
    BY <2>1
  <2> HIDE DEF v
  <2>3. \A w : LastIn(w, Before(v)) => LastIn(w, UpTo(n))
    BY <2>1, <2>2, BeforeVersion DEF LastIn, IsWrite
  <2>4. PvtRight(e, UpTo(n))
    BY <2>1, <2>3 DEF v, PvtRight
  <2>5. ASSUME NEW w, LastIn(w, UpTo(n))
        PROVE  Has(e, w)
    <3>1. Tx(w).op = e.val /\ e.val \in {"a", "b"} /\ ~Later(w, v)
      BY <2>1, <2>5 DEF LastIn, IsWrite
    <3>2. e \notin {Absent, Unchanged}
      BY <3>1 DEF Absent, Unchanged
    <3> QED BY <3>1, <3>2 DEF Has, v
  <2> QED BY <2>4, <2>5
<1> QED BY <1>1, <1>2

\* What has expired stays expired, and so has all that came before.
LEMMA ExpiredMore ==
  ASSUME NEW v \in Version, NEW w \in Version, NEW n \in Nat, NEW k \in Nat, k <= n
  PROVE  /\ Expired(v, k) => Expired(v, n)
         /\ Expired(v, n) /\ ~Later(w, v) => Expired(w, n)
         /\ v[1] = n => ~Expired(v, n)
BY BTLAssumption DEF Expired, Later, Version

\* The hashes of a block that is written are right, expiry included.
LEMMA WriteStateHash ==
  ASSUME chain \in Chains, NEW n \in 1..Len(chain), NEW e, HashRight(e, UpTo(n), n - 1)
  PROVE  HashRight(Unexpired(e, n), UpTo(n), n)
<1>1. Len(chain) \in Nat /\ n \in 0..Len(chain) /\ n \in Nat /\ n - 1 \in Nat /\ n - 1 <= n
  BY ChainType
<1>2. UpTo(n) \subseteq Version
  BY <1>1, UpToVersions
<1>3. CASE Unexpired(e, n) = e /\ e # Absent
  BY <1>3 DEF HashRight
<1>4. CASE e = Absent
  <2>1. Unexpired(e, n) = Absent
    BY <1>4 DEF Unexpired
  <2>2. \A w : LastIn(w, UpTo(n)) /\ Expired(w, n - 1) => Expired(w, n)
    BY <1>1, <1>2, ExpiredMore DEF LastIn
  <2> QED BY <1>4, <2>1, <2>2 DEF HashRight
<1>5. CASE e # Absent /\ Expired(e.ver, n)
  <2>1. Unexpired(e, n) = Absent
    BY <1>5 DEF Unexpired
  <2>2. e.ver \in Version /\ \A u \in UpTo(n) : Tx(u).valid => ~Later(u, e.ver)
    BY <1>2, <1>5 DEF HashRight
  <2>3. \A w : LastIn(w, UpTo(n)) => Expired(w, n)
    BY <1>1, <1>2, <1>5, <2>2, ExpiredMore DEF LastIn, IsWrite
  <2> QED BY <2>1, <2>3 DEF HashRight
<1> QED BY <1>3, <1>4, <1>5 DEF Unexpired

\* More blocks do not make a private entry wrong.
LEMMA PvtRightMore ==
  ASSUME NEW S, NEW T, S \subseteq T, NEW e, PvtRight(e, S)
  PROVE  PvtRight(e, T)
BY DEF PvtRight

\* A block is written: the state stays right, and has the block's last write if the data
\* was there, or the last write from before if the block has none.
LEMMA WriteStateRight ==
  ASSUME chain \in Chains, NEW n \in 1..Len(chain), NEW b, BatchRight(b, n),
         PvtRight(pvt, UpTo(n - 1)), WriteState(b, n)
  PROVE  /\ HashRight(hash', UpTo(n), n)
         /\ PvtRight(pvt', UpTo(n))
         /\ \A w \in b.data : w[1] = n /\ LastIn(w, UpTo(n)) => Has(pvt', w)
         /\ \A w : LastIn(w, UpTo(n)) /\ w[1] # n /\ ~Expired(w, n) /\ Has(pvt, w)
                     => Has(pvt', w)
<1>1. /\ Len(chain) \in Nat /\ n \in 0..Len(chain) /\ n - 1 \in 0..Len(chain) /\ n \in Nat
      /\ n <= n
  BY ChainType
<1>2. UpTo(n) \subseteq Version /\ UpTo(n - 1) \subseteq UpTo(n)
  <2>1. UpTo(n - 1) \subseteq UpTo(n)
    BY <1>1 DEF UpTo
  <2> QED BY <1>1, <2>1, UpToVersions
<1>3. HashRight(hash', UpTo(n), n)
  BY WriteStateHash DEF WriteState, BatchRight
<1> DEFINE p == IF b.pvt = Unchanged THEN pvt ELSE b.pvt
<1>4. pvt' = p \/ (pvt' = Absent /\ p # Absent /\ Expired(p.ver, n))
  BY DEF WriteState, Unexpired
<1>5. PvtRight(p, UpTo(n))
  BY <1>2, PvtRightMore DEF BatchRight
<1>6. PvtRight(pvt', UpTo(n))
  <2>1. PvtRight(Absent, UpTo(n))
    BY DEF PvtRight
  <2> HIDE DEF p
  <2> QED BY <1>4, <1>5, <2>1
<1>7. ASSUME NEW w \in b.data, w[1] = n, LastIn(w, UpTo(n))
      PROVE  Has(pvt', w)
  <2>1. Has(b.pvt, w)
    BY <1>7 DEF BatchRight
  <2>2. b.pvt # Unchanged
    BY <2>1 DEF Has, Absent, Unchanged
  <2>3. p = b.pvt
    BY <2>2
  <2>4. b.pvt # Absent => ~Expired(b.pvt.ver, n)
    <3> SUFFICES ASSUME b.pvt # Absent PROVE ~Expired(b.pvt.ver, n)
      OBVIOUS
    <3>1. b.pvt.ver[1] = n /\ b.pvt.ver \in Version
      BY <1>2, <2>2 DEF BatchRight, PvtRight
    <3> QED BY <3>1, <1>1, ExpiredMore
  <2> QED BY <1>4, <2>1, <2>3, <2>4
<1>8. ASSUME NEW w, LastIn(w, UpTo(n)), w[1] # n, ~Expired(w, n), Has(pvt, w)
      PROVE  Has(pvt', w)
  <2>0. w \in Version /\ w \in UpTo(n)
    BY <1>2, <1>8 DEF LastIn
  <2>1. \A u \in Versions(n) : ~IsWrite(u)
    <3> SUFFICES ASSUME NEW u \in Versions(n), IsWrite(u) PROVE FALSE
      OBVIOUS
    <3>1. u \in UpTo(n) /\ u[1] = n
      BY <1>1 DEF UpTo, Versions
    <3>2. w[1] \in 1..n /\ w[1] < n
      BY <1>1, <1>8, <2>0, UpToVersions
    <3>3. Later(u, w)
      BY <3>1, <3>2 DEF Later
    <3> QED BY <1>8, <3>1, <3>3 DEF LastIn
  <2>2. b.pvt # Absent /\ (b.pvt # Unchanged => b.hash # Absent /\ b.pvt.val = b.hash.val)
    BY <2>1 DEF BatchRight
  <2>3. CASE b.pvt = Unchanged
    <3>1. p = pvt
      BY <2>3
    <3>2. pvt # Absent => ~Expired(pvt.ver, n)
      <4> SUFFICES ASSUME pvt # Absent, Expired(pvt.ver, n) PROVE FALSE
        OBVIOUS
      <4>1. pvt.ver \in Version
        BY <1>2 DEF PvtRight
      <4>2. Tx(w).op # "delete" /\ ~Later(w, pvt.ver)
        BY <1>8 DEF Has
      <4>3. Expired(w, n)
        BY <4>1, <4>2, <2>0, <1>1, ExpiredMore
      <4> QED BY <4>3, <1>8
    <3> QED BY <1>4, <1>8, <3>1, <3>2
  <2>4. CASE b.pvt # Unchanged
    <3>1. p = b.pvt /\ b.pvt.ver[1] = n /\ b.pvt \in [ver : UpTo(n), val : {"a", "b"}]
      BY <2>2, <2>4 DEF BatchRight, PvtRight
    <3>2. ~Expired(b.pvt.ver, n)
      BY <1>1, <1>2, <3>1, ExpiredMore
    <3>3. Tx(w).op = b.hash.val
      BY <1>8, <2>2, <2>4 DEF BatchRight, HashRight
    <3>4. ~Later(w, b.pvt.ver)
      <4>1. w[1] \in 1..n /\ w[1] < n /\ w[1] \in Nat
        BY <1>1, <1>8, <2>0, UpToVersions
      <4> QED BY <4>1, <3>1 DEF Later
    <3>5. Has(b.pvt, w)
      BY <2>2, <2>4, <3>1, <3>3, <3>4 DEF Has
    <3> QED BY <1>4, <3>1, <3>2, <3>5
  <2> QED BY <2>3, <2>4
<1> QED BY <1>3, <1>6, <1>7, <1>8
\* Old data that is not stale makes the private value what its hash is of; and the data
\* of the last write is not stale.
LEMMA ApplyOldDataRight ==
  ASSUME chain \in Chains, NEW n \in 0..Len(chain), HashRight(hash, UpTo(n), n),
         NEW data \in SUBSET UpTo(Len(chain)), ApplyOldData(data)
  PROVE  /\ hash' = hash /\ savepoint' = savepoint
         /\ pvt' \in {pvt, hash}
         /\ \A w \in data : LastIn(w, UpTo(n)) /\ LastIn(w, data) /\ ~Expired(w, n)
                              => pvt' = hash
<1> DEFINE unique == ConstructUniquePvtData(FilterPvtDataOfInvalidTx(data))
           fresh == {v \in unique : ~CheckIfPvtWriteIsStale(v)}
           Applied(v) == IF Tx(v).op = "delete" THEN Absent
                         ELSE [ver |-> IF hash = Absent THEN v ELSE hash.ver,
                               val |-> Tx(v).op]
<1>1. /\ hash' = hash /\ savepoint' = savepoint
      /\ pvt' = IF fresh = {} THEN pvt ELSE Applied(CHOOSE w \in fresh : TRUE)
  BY DEF ApplyOldData
<1>2. \A v : v \in unique <=> v \in data /\ IsWrite(v)
                              /\ \A u \in data : IsWrite(u) /\ u # v => Later(v, u)
  BY DEF ConstructUniquePvtData, FilterPvtDataOfInvalidTx, IsWrite
<1>3. data \subseteq Version
  <2>1. Len(chain) \in 0..Len(chain)
    BY ChainType
  <2> QED BY <2>1, UpToVersions
<1>4. UpTo(n) \subseteq Version
  BY UpToVersions
<1>5. ASSUME NEW v \in fresh
      PROVE  Applied(v) = hash
  <2>1. IsWrite(v) /\ ~CheckIfPvtWriteIsStale(v)
    BY <1>2
  <2>2. CASE hash = Absent
    BY <2>1, <2>2 DEF CheckIfPvtWriteIsStale
  <2>3. CASE hash # Absent
    <3>1. /\ hash \in [ver : UpTo(n), val : {"a", "b"}]
          /\ \A u \in UpTo(n) : Tx(u).valid => ~Later(u, hash.ver)
          /\ \A w : LastIn(w, UpTo(n)) => Tx(w).op = hash.val
      BY <2>3 DEF HashRight
    <3>2. hash.ver = v => LastIn(v, UpTo(n))
      BY <2>1, <3>1 DEF LastIn, IsWrite
    <3>3. hash.val = Tx(v).op
      BY <2>1, <2>3, <3>1, <3>2 DEF CheckIfPvtWriteIsStale
    <3>4. hash = [ver |-> hash.ver, val |-> hash.val] /\ hash.val # "delete"
      BY <3>1
    <3> QED BY <2>3, <3>3, <3>4
  <2> QED BY <2>2, <2>3
<1>6. pvt' \in {pvt, hash}
  <2>1. CASE fresh = {}
    BY <1>1, <2>1
  <2>2. CASE fresh # {}
    <3>1. (CHOOSE w \in fresh : TRUE) \in fresh
      BY <2>2
    <3> HIDE DEF fresh, Applied
    <3> QED BY <1>1, <1>5, <2>2, <3>1
  <2> QED BY <2>1, <2>2
<1>7. ASSUME NEW w \in data, LastIn(w, UpTo(n)), LastIn(w, data), ~Expired(w, n)
      PROVE  pvt' = hash
  <2>1. w \in unique
    <3>1. \A u \in data : IsWrite(u) /\ u # w => Later(w, u)
      BY <1>3, <1>7, VersionOrder DEF LastIn
    <3> HIDE DEF unique
    <3> QED BY <1>2, <1>7, <3>1 DEF LastIn
  <2>2. ~CheckIfPvtWriteIsStale(w)
    BY <1>7 DEF CheckIfPvtWriteIsStale, HashRight
  <2>3. w \in fresh
    BY <2>1, <2>2
  <2>4. (CHOOSE v \in fresh : TRUE) \in fresh
    BY <2>3
  <2> HIDE DEF fresh, Applied
  <2> QED BY <1>1, <1>5, <2>3, <2>4
<1> QED BY <1>1, <1>6, <1>7
-----------------------------------------------------------------------------
(* The chain does not change.                                              *)

\* What is said of a chain is said of it after a step.
LEMMA SameChain ==
  ASSUME chain' = chain
  PROVE  /\ \A n : Versions(n)' = Versions(n) /\ UpTo(n)' = UpTo(n)
         /\ \A w : IsWrite(w)' <=> IsWrite(w)
         /\ \A w, S : LastIn(w, S)' <=> LastIn(w, S)
         /\ \A e, w : Has(e, w)' <=> Has(e, w)
         /\ \A e, S, k : HashRight(e, S, k)' <=> HashRight(e, S, k)
         /\ \A e, S : PvtRight(e, S)' <=> PvtRight(e, S)
         /\ \A b, n : BatchRight(b, n)' <=> BatchRight(b, n)
         /\ Entry' = Entry
<1>1. \A n : Versions(n)' = Versions(n)
  BY DEF Versions
<1>2. \A n : UpTo(n)' = UpTo(n)
  BY <1>1 DEF UpTo
<1>3. \A w : IsWrite(w)' <=> IsWrite(w)
  BY DEF IsWrite, Tx
<1>4. \A w, S : LastIn(w, S)' <=> LastIn(w, S)
  BY <1>3 DEF LastIn
<1>5. \A e, w : Has(e, w)' <=> Has(e, w)
  BY DEF Has, Tx
<1>6. \A e, S, k : HashRight(e, S, k)' <=> HashRight(e, S, k)
  BY <1>4 DEF HashRight, Tx
<1>7. \A e, S : PvtRight(e, S)' <=> PvtRight(e, S)
  BY <1>2, <1>4 DEF PvtRight, Before, Done, Tx
<1>8. \A b, n : BatchRight(b, n)' <=> BatchRight(b, n)
  BY <1>1, <1>2, <1>3, <1>4, <1>5, <1>6, <1>7 DEF BatchRight
<1>9. Entry' = Entry
  BY <1>2 DEF Entry
<1> QED BY <1>1, <1>2, <1>3, <1>4, <1>5, <1>6, <1>7, <1>8, <1>9
\* The transactions of more blocks are more transactions.
LEMMA UpToMore ==
  ASSUME NEW m \in Int, NEW n \in Int, m <= n
  PROVE  UpTo(m) \subseteq UpTo(n)
BY DEF UpTo

-----------------------------------------------------------------------------
(* The state and the batch stay right.                                     *)

\* A step that writes neither the state nor the batch.
LEMMA StateKept ==
  ASSUME StateInv, chain' = chain, UNCHANGED state,
         pc' \in {"prepared", "stored"} => pc \in {"prepared", "stored"} /\ batch' = batch
  PROVE  StateInv'
BY SameChain DEF StateInv, state

\* A step of old data.
LEMMA StateAfterOldData ==
  ASSUME TypeOK, StateInv, NEW data \in SUBSET UpTo(Len(chain)), ApplyOldData(data),
         UNCHANGED <<chain, batch>>,
         pc' \in {"prepared", "stored"} => pc \in {"prepared", "stored"}
  PROVE  StateInv'
<1>1. chain \in Chains /\ savepoint \in 0..Len(chain)
  BY ChainType DEF TypeOK
<1>2. hash' = hash /\ savepoint' = savepoint /\ pvt' \in {pvt, hash}
  BY <1>1, ApplyOldDataRight DEF StateInv
<1>3. PvtRight(pvt', UpTo(savepoint))
  BY <1>1, <1>2, HashRightIsPvtRight DEF StateInv
<1> QED BY <1>2, <1>3, SameChain DEF StateInv

\* The state and the batch stay right.
LEMMA StateStep ==
  ASSUME TypeOK, PhaseInv, StateInv, [Next]_vars
  PROVE  StateInv'
<1>1. /\ chain \in Chains /\ Len(chain) \in Nat /\ height \in 0..Len(chain)
      /\ savepoint \in 0..height /\ savepoint \in 0..Len(chain) /\ pvtHeight \in 0..Len(chain)
  BY ChainType DEF TypeOK
<1>2. CASE CommitStep
  <2>1. CASE ValidateAndPrepare
    <3> DEFINE n == height + 1
    <3>1. PICK data : batch' = PrepareBatch(n, data)
      BY <2>1 DEF ValidateAndPrepare
    <3>2. n \in 1..Len(chain) /\ n - 1 = savepoint
      BY <1>1, <2>1 DEF ValidateAndPrepare, PhaseInv
    <3>3. BatchRight(batch', n)
      BY <1>1, <3>1, <3>2, PrepareBatchRight DEF StateInv
    <3>4. chain' = chain /\ UNCHANGED state /\ savepoint' + 1 = n
      BY <1>1, <2>1, <3>2 DEF ValidateAndPrepare, state
    <3> HIDE DEF n
    <3> QED BY <3>3, <3>4, SameChain DEF StateInv, state
  <2>2. CASE CommitStores
    BY <2>2, StateKept DEF CommitStores
  <2>3. CASE CommitState
    <3>1. /\ height \in 1..Len(chain) /\ savepoint = height - 1 /\ savepoint + 1 = height
          /\ pc = "stored" /\ WriteState(batch, height) /\ chain' = chain
          /\ savepoint' = height /\ pc' = "idle"
      BY <1>1, <2>3 DEF CommitState, PhaseInv, WriteState
    <3>2. HashRight(hash', UpTo(height), height) /\ PvtRight(pvt', UpTo(height))
      BY <1>1, <3>1, WriteStateRight DEF StateInv
    <3> QED BY <3>1, <3>2, SameChain DEF StateInv
  <2> QED BY <1>2, <2>1, <2>2, <2>3 DEF CommitStep
<1>3. CASE ReconcilerStep
  <2>1. CASE CommitOldDataToState \/ CommitOldDataToStateV14
    <3>1. rec.data \subseteq UpTo(Len(chain))
      BY <1>1, UpToMore DEF TypeOK
    <3> QED BY <2>1, <3>1, StateAfterOldData DEF CommitOldDataToState, CommitOldDataToStateV14
  <2>2. CASE FetchMissing \/ CommitOldDataToStore \/ CommitOldDataToStoreV14
             \/ ResetLastUpdatedOldBlocksList
    BY <2>2, StateKept DEF FetchMissing, CommitOldDataToStore, CommitOldDataToStoreV14,
       ResetLastUpdatedOldBlocksList
  <2> QED BY <1>3, <2>1, <2>2 DEF ReconcilerStep
<1>4. CASE OpenStep
  <2>1. CASE Open \/ Opened
    BY <2>1, StateKept DEF Open, Opened
  <2>2. CASE RecommitLostBlock
    <3> DEFINE n == savepoint + 1
    <3>1. PICK data : WriteState(PrepareBatch(n, data), n)
      BY <2>2 DEF RecommitLostBlock
    <3>2. n \in 1..Len(chain) /\ n - 1 = savepoint
      BY <1>1, <2>2 DEF RecommitLostBlock
    <3>3. BatchRight(PrepareBatch(n, data), n)
      BY <1>1, <3>2, PrepareBatchRight DEF StateInv
    <3>4. chain' = chain /\ pc' = "sync" /\ savepoint' = n
      BY <2>2, <3>1 DEF RecommitLostBlock, WriteState
    <3> HIDE DEF n
    <3>5. HashRight(hash', UpTo(n), n) /\ PvtRight(pvt', UpTo(n))
      BY <1>1, <3>1, <3>2, <3>3, WriteStateRight DEF StateInv
    <3> QED BY <3>4, <3>5, SameChain DEF StateInv
  <2>3. CASE SyncStateDBWithOldBlkPvtdata
    <3> DEFINE data == {v \in stored : v[1] \in FilterYetToCommitBlocks(lastUpdated)}
    <3>1. data \subseteq UpTo(Len(chain))
      BY <1>1, UpToMore DEF TypeOK
    <3>2. ApplyOldData(data) /\ UNCHANGED <<chain, batch>> /\ pc' = "reset"
      BY <2>3 DEF SyncStateDBWithOldBlkPvtdata
    <3> HIDE DEF data
    <3> QED BY <3>1, <3>2, StateAfterOldData
  <2> QED BY <1>4, <2>1, <2>2, <2>3 DEF OpenStep
<1>5. CASE ReconciliationFails \/ Crash \/ UpgradePeer
  BY <1>5, StateKept DEF ReconciliationFails, Crash, UpgradePeer
<1>6. CASE Rollback
  <2>1. /\ hash' = Absent /\ pvt' = Absent /\ savepoint' = 0 /\ chain' = chain
        /\ pc' = "down"
    BY <1>6 DEF Rollback
  <2>2. HashRight(Absent, UpTo(0), 0) /\ PvtRight(Absent, UpTo(0))
    BY DEF HashRight, PvtRight, LastIn, UpTo
  <2> QED BY <2>1, <2>2, SameChain DEF StateInv
<1>7. CASE UNCHANGED vars
  BY <1>7, StateKept DEF vars, state
<1> QED BY <1>2, <1>3, <1>4, <1>5, <1>6, <1>7 DEF Next
-----------------------------------------------------------------------------
(* Phases and types.                                                       *)

\* The commit, the reconciler and the opening keep to their order.
LEMMA PhaseStep ==
  ASSUME TypeOK, PhaseInv, [Next]_vars
  PROVE  PhaseInv'
<1>1. /\ chain \in Chains /\ Len(chain) \in Nat /\ height \in 0..Len(chain)
      /\ savepoint \in 0..height /\ pvtHeight \in height..Len(chain) /\ height \in Int
      /\ rec \in [at : {"idle", "fetched", "half", "reset"}, data : SUBSET UpTo(pvtHeight)]
  BY ChainType DEF TypeOK
<1>2. NoWork.at = "idle" /\ NoWork.data = {}
  BY DEF NoWork
<1>3. CASE CommitStep
  <2>1. CASE ValidateAndPrepare
    <3>1. /\ UNCHANGED <<release, chain, height, savepoint, lastUpdated, rec>>
          /\ pc = "idle" /\ pc' = "prepared" /\ height < Len(chain)
      BY <2>1 DEF ValidateAndPrepare, state, pvtStore
    <3>2. batch'.data \subseteq Versions(height + 1)
      BY <2>1 DEF ValidateAndPrepare, PrepareBatch
    <3> QED BY <3>1, <3>2, SameChain DEF PhaseInv, Running
  <2>2. CASE CommitStores
    <3>1. /\ UNCHANGED <<release, chain, savepoint, lastUpdated, rec>>
          /\ pc = "prepared" /\ pc' = "stored" /\ height' = height + 1
      BY <2>2 DEF CommitStores, state
    <3>2. UpTo(height) \subseteq UpTo(height')
      BY <1>1, <3>1, UpToMore
    <3> QED BY <1>1, <3>1, <3>2, SameChain DEF PhaseInv, Running
  <2>3. CASE CommitState
    <3>1. /\ UNCHANGED <<release, chain, height, lastUpdated, rec>>
          /\ pc = "stored" /\ pc' = "idle" /\ savepoint' = height
      BY <2>3 DEF CommitState, WriteState, pvtStore
    <3> QED BY <3>1, SameChain DEF PhaseInv, Running
  <2> QED BY <1>3, <2>1, <2>2, <2>3 DEF CommitStep
<1>4. CASE ReconcilerStep
  <2>1. CASE FetchMissing
    <3>1. PICK data \in SUBSET GetMissingPvtDataInfo : rec' = [at |-> "fetched", data |-> data]
      BY <2>1 DEF FetchMissing
    <3>2. rec'.at = "fetched" /\ rec'.data = data
      BY <3>1
    <3>3. data \subseteq UpTo(height)
      <4>1. height < pvtHeight \/ height = pvtHeight
        BY <1>1
      <4> QED BY <4>1 DEF GetMissingPvtDataInfo, TypeOK
    <3>4. UNCHANGED <<release, chain, height, savepoint, lastUpdated, pc, batch>> /\ Running
      BY <2>1 DEF FetchMissing, state, pvtStore
    <3> QED BY <3>2, <3>3, <3>4, SameChain DEF PhaseInv, Running
  <2>2. CASE CommitOldDataToState
    <3>1. UNCHANGED <<release, chain, height, savepoint, lastUpdated, pc, batch>> /\ Running
      BY <2>2 DEF CommitOldDataToState, ApplyOldData, pvtStore
    <3>2. release = "v2.2" /\ rec'.at = "half" /\ rec'.data = rec.data
      BY <1>1, <2>2 DEF CommitOldDataToState, StateFirst
    <3> QED BY <3>1, <3>2, SameChain DEF PhaseInv, Running
  <2>3. CASE CommitOldDataToStore
    <3>1. /\ UNCHANGED <<release, chain, height, savepoint, lastUpdated, pc, batch>> /\ Running
          /\ release = "v2.2" /\ rec' = NoWork
      BY <2>3 DEF CommitOldDataToStore, StateFirst, state
    <3> QED BY <1>2, <3>1, SameChain DEF PhaseInv, Running
  <2>4. CASE CommitOldDataToStoreV14
    <3>1. /\ UNCHANGED <<release, chain, height, savepoint, pc, batch>> /\ Running
          /\ release = "v1.4" /\ lastUpdated' = {v[1] : v \in rec.data}
      BY <2>4 DEF CommitOldDataToStoreV14, state
    <3>2. rec'.at = "half" /\ rec'.data = rec.data
      BY <1>1, <2>4 DEF CommitOldDataToStoreV14
    <3> QED BY <3>1, <3>2, SameChain DEF PhaseInv, Running
  <2>5. CASE CommitOldDataToStateV14
    <3>1. UNCHANGED <<release, chain, height, savepoint, lastUpdated, pc, batch>> /\ Running
      BY <2>5 DEF CommitOldDataToStateV14, ApplyOldData, pvtStore
    <3>2. release # "v2.2" /\ rec'.at = "reset" /\ rec'.data = rec.data
      BY <1>1, <2>5 DEF CommitOldDataToStateV14, StateFirst
    <3>3. release = "v1.4"
      BY <3>2 DEF TypeOK
    <3> QED BY <3>1, <3>2, <3>3, SameChain DEF PhaseInv, Running
  <2>6. CASE ResetLastUpdatedOldBlocksList
    <3>1. /\ UNCHANGED <<release, chain, height, savepoint, pc, batch>> /\ Running
          /\ rec' = NoWork /\ lastUpdated' = {}
      BY <2>6 DEF ResetLastUpdatedOldBlocksList, state
    <3> QED BY <1>2, <3>1, SameChain DEF PhaseInv, Running
  <2> QED BY <1>4, <2>1, <2>2, <2>3, <2>4, <2>5, <2>6 DEF ReconcilerStep
<1>5. CASE OpenStep
  <2>1. CASE Open
    <3>1. /\ UNCHANGED <<release, chain, height, savepoint, lastUpdated, rec>>
          /\ pc = "down" /\ pc' = "sync"
      BY <2>1 DEF Open, state, pvtStore
    <3> QED BY <3>1, SameChain DEF PhaseInv, Running
  <2>2. CASE RecommitLostBlock
    <3>1. UNCHANGED <<release, chain, height, lastUpdated, rec>> /\ pc = "sync" /\ pc' = "sync"
      BY <2>2 DEF RecommitLostBlock, pvtStore
    <3> QED BY <3>1, SameChain DEF PhaseInv, Running
  <2>3. CASE SyncStateDBWithOldBlkPvtdata
    <3>1. /\ UNCHANGED <<release, chain, height, savepoint, lastUpdated, rec>>
          /\ pc = "sync" /\ pc' = "reset" /\ savepoint = height
      BY <2>3 DEF SyncStateDBWithOldBlkPvtdata, ApplyOldData, pvtStore
    <3> QED BY <3>1, SameChain DEF PhaseInv, Running
  <2>4. CASE Opened
    <3>1. /\ UNCHANGED <<release, chain, height, savepoint, rec>>
          /\ pc = "reset" /\ pc' = "idle" /\ lastUpdated' = {}
      BY <2>4 DEF Opened, state
    <3> QED BY <1>2, <3>1, SameChain DEF PhaseInv, Running
  <2> QED BY <1>5, <2>1, <2>2, <2>3, <2>4 DEF OpenStep
<1>6. CASE ReconciliationFails
  <2>1. /\ UNCHANGED <<release, chain, height, savepoint, lastUpdated, pc, batch>> /\ Running
        /\ rec' = NoWork
    BY <1>6 DEF ReconciliationFails, state, pvtStore
  <2> QED BY <1>2, <2>1, SameChain DEF PhaseInv, Running
<1>7. CASE Crash
  <2>1. /\ UNCHANGED <<release, chain, height, savepoint, lastUpdated>>
        /\ pc' = "down" /\ rec' = NoWork
    BY <1>7 DEF Crash, state, pvtStore
  <2> QED BY <1>2, <2>1, SameChain DEF PhaseInv, Running
<1>8. CASE UpgradePeer
  <2>1. /\ UNCHANGED <<chain, height, savepoint, lastUpdated, pc, rec>> /\ pc = "down"
    BY <1>8 DEF UpgradePeer, state, pvtStore
  <2> QED BY <1>2, <2>1, SameChain DEF PhaseInv, Running
<1>9. CASE Rollback
  <2>1. /\ UNCHANGED <<release, chain, lastUpdated, pc, rec>> /\ pc = "down"
    BY <1>9 DEF Rollback, pvtStore
  <2> QED BY <1>2, <2>1, SameChain DEF PhaseInv, Running
<1>10. CASE UNCHANGED vars
  BY <1>10, SameChain DEF vars, PhaseInv, Running
<1> QED BY <1>3, <1>4, <1>5, <1>6, <1>7, <1>8, <1>9, <1>10 DEF Next
\* The heights: the state is not ahead of the blocks, nor they of the private data store.
LEMMA HeightStep ==
  ASSUME TypeOK, PhaseInv, [Next]_vars
  PROVE  /\ chain' = chain /\ release' \in {"v1.4", "v2.2"}
         /\ height' \in 0..Len(chain) /\ pvtHeight' \in height'..Len(chain)
         /\ savepoint' \in 0..height'
         /\ pvtHeight <= pvtHeight'
<1>1. /\ chain \in Chains /\ Len(chain) \in Nat /\ height \in 0..Len(chain)
      /\ savepoint \in 0..height /\ pvtHeight \in height..Len(chain)
      /\ release \in {"v1.4", "v2.2"}
  BY ChainType DEF TypeOK
<1>2. CASE UNCHANGED <<chain, release, height, pvtHeight, savepoint>>
  BY <1>1, <1>2
<1>3. CASE ValidateAndPrepare
  BY <1>2, <1>3 DEF ValidateAndPrepare, state, pvtStore
<1>4. CASE CommitStores
  BY <1>1, <1>4 DEF CommitStores, PhaseInv, state
<1>5. CASE CommitState
  BY <1>1, <1>5 DEF CommitState, WriteState, pvtStore
<1>6. CASE ReconcilerStep
  BY <1>2, <1>6 DEF ReconcilerStep, FetchMissing, CommitOldDataToState, CommitOldDataToStore,
     CommitOldDataToStoreV14, CommitOldDataToStateV14, ResetLastUpdatedOldBlocksList,
     ApplyOldData, state, pvtStore
<1>7. CASE Open \/ Opened \/ SyncStateDBWithOldBlkPvtdata
  BY <1>2, <1>7 DEF Open, Opened, SyncStateDBWithOldBlkPvtdata, ApplyOldData, state, pvtStore
<1>8. CASE RecommitLostBlock
  BY <1>1, <1>8 DEF RecommitLostBlock, WriteState, pvtStore
<1>9. CASE ReconciliationFails \/ Crash
  BY <1>2, <1>9 DEF ReconciliationFails, Crash, state, pvtStore
<1>10. CASE UpgradePeer
  BY <1>1, <1>10 DEF UpgradePeer, state, pvtStore
<1>11. CASE Rollback
  BY <1>1, <1>11 DEF Rollback, pvtStore
<1>12. CASE UNCHANGED vars
  BY <1>2, <1>12 DEF vars
<1> QED BY <1>3, <1>4, <1>5, <1>6, <1>7, <1>8, <1>9, <1>10, <1>11, <1>12
        DEF Next, CommitStep, OpenStep

\* Entries that are right have their type.
LEMMA RightEntries ==
  ASSUME chain \in Chains, NEW n \in 0..Len(chain), NEW e
  PROVE  /\ \A k : HashRight(e, UpTo(n), k) => e \in Entry
         /\ PvtRight(e, UpTo(n)) => e \in Entry
<1>1. UpTo(n) \subseteq UpTo(Len(chain))
  BY ChainType, UpToMore
<1> QED BY <1>1 DEF HashRight, PvtRight, Entry

\* The state has the shape the code gives it, after every step.
LEMMA TypeStep ==
  ASSUME TypeOK, PhaseInv, StateInv, [Next]_vars
  PROVE  TypeOK'
<1>1. /\ chain \in Chains /\ Len(chain) \in Nat /\ height \in 0..Len(chain)
      /\ savepoint \in 0..height /\ pvtHeight \in height..Len(chain) /\ pvtHeight \in Int
  BY ChainType DEF TypeOK
<1>2. /\ chain' = chain /\ release' \in {"v1.4", "v2.2"}
      /\ height' \in 0..Len(chain) /\ pvtHeight' \in height'..Len(chain)
      /\ savepoint' \in 0..height' /\ pvtHeight <= pvtHeight'
  BY HeightStep
<1>3. StateInv'
  BY StateStep
<1>4. hash' \in Entry /\ pvt' \in Entry
  <2>1. savepoint' \in 0..Len(chain)
    BY <1>1, <1>2
  <2>2. HashRight(hash', UpTo(savepoint'), savepoint') /\ PvtRight(pvt', UpTo(savepoint'))
    BY <1>2, <1>3, SameChain DEF StateInv
  <2> QED BY <1>1, <2>1, <2>2, RightEntries
<1>5. UpTo(pvtHeight) \subseteq UpTo(pvtHeight') /\ pvtHeight' \in Int
  <2>1. pvtHeight' \in Int
    BY <1>1, <1>2
  <2> QED BY <1>1, <1>2, <2>1, UpToMore
<1>6. UpTo(pvtHeight') \subseteq UpTo(Len(chain)) /\ UpTo(pvtHeight) \subseteq UpTo(Len(chain))
  BY <1>1, <1>2, UpToMore
<1>7. \A v \in UpTo(pvtHeight) : v[1] \in 1..pvtHeight
  <2> pvtHeight \in 0..Len(chain)
    BY <1>1
  <2> QED BY <1>1, UpToVersions
<1>8. \A n \in 1..pvtHeight' : Versions(n) \subseteq UpTo(pvtHeight')
  BY DEF UpTo
<1> DEFINE Stores == /\ stored' \subseteq UpTo(pvtHeight') /\ missing' \subseteq UpTo(pvtHeight')
                     /\ lastUpdated' \subseteq 1..pvtHeight'
           Work == rec' \in [at : {"idle", "fetched", "half", "reset"},
                             data : SUBSET UpTo(pvtHeight')]
           Early == early' \subseteq UpTo(pvtHeight')
           Batch == batch' \in [hash : Entry, pvt : Entry \union {Unchanged},
                                data : SUBSET UpTo(Len(chain))]
           Rest == /\ pc' \in {"idle", "prepared", "stored", "sync", "reset", "down"}
                   /\ crashes' \in Nat /\ faults' \in Nat /\ rollbacks' \in Nat
<1>9. UNCHANGED pvtStore => Stores
  BY <1>1, <1>2, <1>5 DEF TypeOK, pvtStore
<1>10. (UNCHANGED rec => Work) /\ (rec' = NoWork => Work)
  BY <1>5 DEF TypeOK, NoWork
<1>11. UNCHANGED early => Early
  BY <1>5 DEF TypeOK
<1>12. (UNCHANGED batch => Batch) /\ (batch' = NoBatch => Batch)
  <2>1. Absent \in Entry
    BY DEF Entry
  <2> QED BY <2>1 DEF TypeOK, NoBatch
<1>13. UNCHANGED <<pc, bounds>> => Rest
  BY DEF TypeOK, bounds
<1>14. \A at \in {"idle", "fetched", "half", "reset"} :
          rec' = [rec EXCEPT !.at = at] => Work
  <2>1. rec \in [at : {"idle", "fetched", "half", "reset"}, data : SUBSET UpTo(pvtHeight)]
    BY DEF TypeOK
  <2>2. rec.data \subseteq UpTo(pvtHeight')
    BY <1>5, <2>1
  <2>3. \A at : [rec EXCEPT !.at = at] = [at |-> at, data |-> rec.data]
    BY <2>1
  <2> QED BY <2>2, <2>3
<1>15. \A data \in SUBSET UpTo(pvtHeight) : ApplyOldData(data) => Early
  BY <1>5 DEF ApplyOldData, TypeOK
<1>16. stored \subseteq UpTo(pvtHeight) /\ rec.data \in SUBSET UpTo(pvtHeight)
  BY DEF TypeOK
<1>17. SUFFICES Stores /\ Work /\ Early /\ Batch /\ Rest
  <2>1. TypeOK' <=> /\ release' \in {"v1.4", "v2.2"} /\ chain' \in Chains
                    /\ height' \in 0..Len(chain') /\ pvtHeight' \in height'..Len(chain')
                    /\ savepoint' \in 0..height'
                    /\ Stores /\ hash' \in Entry /\ pvt' \in Entry /\ Work /\ Early /\ Batch
                    /\ Rest
    BY <1>2, SameChain DEF TypeOK
  <2> QED BY <2>1, <1>1, <1>2, <1>4
<1> HIDE DEF Stores, Work, Early, Batch, Rest
<1>18. CASE ValidateAndPrepare
  <2> DEFINE n == height + 1
  <2>1. PICK data : batch' = PrepareBatch(n, data \cap Versions(n))
    BY <1>18 DEF ValidateAndPrepare
  <2>2. n \in 1..Len(chain) /\ n \in 0..Len(chain) /\ n = savepoint' + 1
    BY <1>1, <1>18 DEF ValidateAndPrepare, PhaseInv, state
  <2>3. BatchRight(batch', n)
    <3>1. pc' = "prepared"
      BY <1>18 DEF ValidateAndPrepare
    <3> HIDE DEF n
    <3> QED BY <1>2, <1>3, <3>1, <2>2, SameChain DEF StateInv
  <2>4. Versions(n) \subseteq UpTo(Len(chain))
    BY <1>1, <2>2 DEF UpTo
  <2>5. batch' = [hash |-> batch'.hash, pvt |-> batch'.pvt, data |-> data \cap Versions(n)]
    BY <2>1 DEF PrepareBatch
  <2>6. batch'.hash \in Entry /\ batch'.pvt \in Entry \union {Unchanged}
    <3> HIDE DEF n
    <3> QED BY <1>1, <2>2, <2>3, RightEntries DEF BatchRight
  <2>7. Batch
    <3> HIDE DEF n
    <3> QED BY <2>4, <2>5, <2>6 DEF Batch
  <2>8. Rest
    BY <1>18 DEF ValidateAndPrepare, bounds, TypeOK, Rest
  <2> QED BY <1>9, <1>10, <1>11, <1>18, <2>7, <2>8 DEF ValidateAndPrepare
<1>19. CASE CommitStores
  <2>1. Stores
    <3>1. CASE height < pvtHeight
      BY <1>9, <1>19, <3>1 DEF CommitStores, pvtStore
    <3>2. CASE ~(height < pvtHeight)
      <4>1. /\ pvtHeight' = height' /\ height' = height + 1
            /\ stored' \subseteq stored \union batch.data
            /\ missing' \subseteq missing \union Versions(height')
            /\ lastUpdated' = lastUpdated
        BY <1>19, <3>2 DEF CommitStores
      <4>2. batch.data \subseteq UpTo(pvtHeight')
        <5>1. batch.data \subseteq Versions(height + 1) /\ height + 1 \in 1..pvtHeight'
          BY <1>1, <1>2, <1>19, <4>1 DEF CommitStores, PhaseInv
        <5> QED BY <1>8, <5>1
      <4>3. Versions(height') \subseteq UpTo(pvtHeight')
        BY <1>1, <1>8, <4>1
      <4>4. lastUpdated' \subseteq 1..pvtHeight'
        BY <1>1, <1>2, <4>1 DEF TypeOK
      <4> QED BY <1>5, <4>1, <4>2, <4>3, <4>4 DEF TypeOK, Stores
    <3> QED BY <3>1, <3>2
  <2>2. Rest
    BY <1>19 DEF CommitStores, bounds, TypeOK, Rest
  <2> QED BY <1>10, <1>11, <1>12, <1>19, <2>1, <2>2 DEF CommitStores
<1>20. CASE CommitState
  <2>1. Rest
    BY <1>20 DEF CommitState, bounds, TypeOK, Rest
  <2> QED BY <1>9, <1>10, <1>11, <1>12, <1>20, <2>1 DEF CommitState
<1>21. CASE FetchMissing
  <2>1. Work
    <3>1. PICK data \in SUBSET GetMissingPvtDataInfo : rec' = [at |-> "fetched", data |-> data]
      BY <1>21 DEF FetchMissing
    <3>2. data \subseteq UpTo(pvtHeight')
      BY <1>5 DEF GetMissingPvtDataInfo, TypeOK
    <3> QED BY <3>1, <3>2 DEF Work
  <2> QED BY <1>9, <1>11, <1>12, <1>13, <1>21, <2>1 DEF FetchMissing
<1>22. CASE CommitOldDataToState \/ CommitOldDataToStateV14
  <2>1. Work
    BY <1>14, <1>22 DEF CommitOldDataToState, CommitOldDataToStateV14
  <2>2. Early
    BY <1>15, <1>16, <1>22 DEF CommitOldDataToState, CommitOldDataToStateV14
  <2> QED BY <1>9, <1>12, <1>13, <1>22, <2>1, <2>2
          DEF CommitOldDataToState, CommitOldDataToStateV14
<1>23. CASE CommitOldDataToStore
  <2>1. /\ stored' \subseteq stored \union rec.data /\ missing' \subseteq missing
        /\ lastUpdated' = lastUpdated /\ pvtHeight' = pvtHeight
    BY <1>23 DEF CommitOldDataToStore, Reconciled
  <2>2. Stores
    BY <1>5, <1>16, <2>1 DEF TypeOK, Stores
  <2>3. Work
    BY <1>10, <1>14, <1>23 DEF CommitOldDataToStore
  <2> QED BY <1>11, <1>12, <1>13, <1>23, <2>2, <2>3 DEF CommitOldDataToStore
<1>24. CASE CommitOldDataToStoreV14
  <2>1. /\ stored' \subseteq stored \union rec.data /\ missing' \subseteq missing
        /\ lastUpdated' = {v[1] : v \in rec.data} /\ pvtHeight' = pvtHeight
    BY <1>24 DEF CommitOldDataToStoreV14, Reconciled
  <2>2. Stores
    BY <1>5, <1>7, <1>16, <2>1 DEF TypeOK, Stores
  <2>3. Work
    BY <1>14, <1>24 DEF CommitOldDataToStoreV14
  <2> QED BY <1>11, <1>12, <1>13, <1>24, <2>2, <2>3 DEF CommitOldDataToStoreV14
<1>25. CASE ResetLastUpdatedOldBlocksList \/ Opened
  <2>1. Stores
    BY <1>25 DEF ResetLastUpdatedOldBlocksList, Opened, TypeOK, Stores
  <2>2. Rest
    BY <1>25 DEF ResetLastUpdatedOldBlocksList, Opened, TypeOK, Rest, bounds
  <2> QED BY <1>10, <1>11, <1>12, <1>25, <2>1, <2>2 DEF ResetLastUpdatedOldBlocksList, Opened
<1>26. CASE Open
  <2>1. Rest
    BY <1>26 DEF Open, TypeOK, Rest, bounds
  <2> QED BY <1>9, <1>10, <1>11, <1>12, <1>26, <2>1 DEF Open
<1>27. CASE RecommitLostBlock
  <2>1. Early
    BY <1>5, <1>27 DEF RecommitLostBlock, TypeOK, Early
  <2> QED BY <1>9, <1>10, <1>12, <1>13, <1>27, <2>1 DEF RecommitLostBlock
<1>28. CASE SyncStateDBWithOldBlkPvtdata
  <2>1. Early
    <3> DEFINE data == {v \in stored : v[1] \in FilterYetToCommitBlocks(lastUpdated)}
    <3>1. data \in SUBSET UpTo(pvtHeight) /\ ApplyOldData(data)
      BY <1>16, <1>28 DEF SyncStateDBWithOldBlkPvtdata
    <3> HIDE DEF data
    <3> QED BY <1>15, <3>1
  <2>2. Rest
    BY <1>28 DEF SyncStateDBWithOldBlkPvtdata, TypeOK, Rest, bounds
  <2> QED BY <1>9, <1>10, <1>12, <1>28, <2>1, <2>2 DEF SyncStateDBWithOldBlkPvtdata
<1>29. CASE ReconciliationFails
  <2>1. Rest
    BY <1>29 DEF ReconciliationFails, Fault, TypeOK, Rest
  <2> QED BY <1>9, <1>10, <1>11, <1>12, <1>29, <2>1 DEF ReconciliationFails
<1>30. CASE Crash
  <2>1. Rest
    BY <1>30 DEF Crash, TypeOK, Rest
  <2> QED BY <1>9, <1>10, <1>11, <1>12, <1>30, <2>1 DEF Crash
<1>31. CASE UpgradePeer
  BY <1>9, <1>10, <1>11, <1>12, <1>13, <1>31 DEF UpgradePeer
<1>32. CASE Rollback
  <2>1. Rest
    BY <1>32 DEF Rollback, TypeOK, Rest
  <2>2. Early
    BY <1>32 DEF Rollback, Early
  <2> QED BY <1>9, <1>10, <1>12, <1>32, <2>1, <2>2 DEF Rollback
<1>33. CASE UNCHANGED vars
  BY <1>9, <1>10, <1>11, <1>12, <1>13, <1>33 DEF vars, pvtStore, bounds
<1> QED BY <1>18, <1>19, <1>20, <1>21, <1>22, <1>23, <1>24, <1>25, <1>26, <1>27, <1>28,
           <1>29, <1>30, <1>31, <1>32, <1>33 DEF Next, CommitStep, ReconcilerStep, OpenStep
-----------------------------------------------------------------------------
(* What the private data store has, and what is pending.                   *)

\* Data that is held has a version, and has not expired.
LEMMA HeldUnexpired ==
  ASSUME TypeOK, StoreInv, NEW w, w \in Held \/ (w \in rec.data /\ ~Expired(w, pvtHeight))
  PROVE  /\ w \in UpTo(pvtHeight) /\ w \in Version
         /\ \A n \in 0..pvtHeight : ~Expired(w, n)
<1>1. chain \in Chains /\ pvtHeight \in 0..Len(chain) /\ pvtHeight \in Nat
  BY ChainType DEF TypeOK
<1>2. w \in UpTo(pvtHeight) /\ ~Expired(w, pvtHeight)
  BY DEF TypeOK, StoreInv, Held
<1>3. w \in Version
  BY <1>1, <1>2, UpToVersions
<1> QED BY <1>1, <1>2, <1>3, ExpiredMore

\* Data that is held, and neither early nor pending, was so before or has just reached
\* a place it has to reach: the batch, or the state.
LEMMA HeldStep ==
  ASSUME TypeOK, PhaseInv, [Next]_vars, ~RecommitLostBlock, ~Rollback,
         NEW v, v \in Held' \ (early' \union Pending')
  PROVE  \/ v \in Held \ (early \union Pending)
         \/ CommitStores /\ v \in batch.data
         \/ CommitOldDataToState /\ v \in rec.data /\ ~Expired(v, pvtHeight)
         \/ CommitOldDataToStateV14 /\ v \in rec.data /\ v \in Held
         \/ SyncStateDBWithOldBlkPvtdata /\ v \in stored /\ v[1] \in lastUpdated
<1>1. /\ chain \in Chains /\ Len(chain) \in Nat /\ pvtHeight \in Int
      /\ release \in {"v1.4", "v2.2"}
      /\ rec \in [at : {"idle", "fetched", "half", "reset"}, data : SUBSET UpTo(pvtHeight)]
  BY ChainType DEF TypeOK
<1>2. NoWork.at = "idle" /\ NoWork.data = {}
  BY DEF NoWork
<1>3. /\ chain' = chain /\ pvtHeight' \in Int /\ pvtHeight <= pvtHeight'
      /\ UpTo(pvtHeight)' = UpTo(pvtHeight')
      /\ UpTo(pvtHeight) \subseteq UpTo(pvtHeight')
  <2>1. chain' = chain /\ pvtHeight' \in Int /\ pvtHeight <= pvtHeight'
    BY HeightStep
  <2> QED BY <1>1, <2>1, UpToMore, SameChain
<1>4. Held' = stored' \union (IF release' = "v2.2" /\ rec'.at = "half"
                               THEN {u \in rec'.data : ~Expired(u, pvtHeight')} ELSE {})
  BY DEF Held, Expired
<1>5. Pending' = IF lastUpdated' = {} \/ pc' = "reset" \/ rec'.at = "reset" THEN {}
                 ELSE IF rec'.at = "half" THEN rec'.data
                 ELSE {u \in UpTo(pvtHeight') : u[1] \in lastUpdated'}
  BY <1>3 DEF Pending
<1>6. Pending = IF lastUpdated = {} \/ pc = "reset" \/ rec.at = "reset" THEN {}
                ELSE IF rec.at = "half" THEN rec.data
                ELSE {u \in UpTo(pvtHeight) : u[1] \in lastUpdated}
  BY DEF Pending
<1>7. Held = stored \union (IF release = "v2.2" /\ rec.at = "half"
                            THEN {u \in rec.data : ~Expired(u, pvtHeight)} ELSE {})
  BY DEF Held
<1>8. CASE /\ UNCHANGED <<release, pvtStore, rec, early>>
           /\ pc' = "reset" <=> pc = "reset"
  BY <1>3, <1>4, <1>5, <1>6, <1>7, <1>8 DEF pvtStore
<1>9. CASE ValidateAndPrepare \/ CommitState \/ Open
  BY <1>8, <1>9 DEF ValidateAndPrepare, CommitState, Open
<1>10. CASE CommitStores
  <2>1. /\ UNCHANGED <<release, lastUpdated, rec, early>>
        /\ stored' \subseteq stored \union batch.data
        /\ pc = "prepared" /\ pc' = "stored"
    BY <1>10 DEF CommitStores
  <2>2. ASSUME NEW u \in rec.data, ~Expired(u, pvtHeight')
        PROVE  ~Expired(u, pvtHeight)
    <3>1. u \in Version
      <4>1. pvtHeight \in 0..Len(chain)
        BY DEF TypeOK
      <4> QED BY <1>1, <4>1, UpToVersions
    <3> QED BY <1>1, <1>3, <2>2, <3>1, BTLAssumption DEF Expired, Version
  <2>3. Held' \subseteq Held \union batch.data
    BY <1>4, <1>7, <2>1, <2>2
  <2>4. Pending \subseteq Pending'
    BY <1>3, <1>5, <1>6, <2>1
  <2> QED BY <1>10, <2>1, <2>3, <2>4
<1>11. CASE FetchMissing
  <2>1. /\ UNCHANGED <<release, pvtStore, pc, early>> /\ rec = NoWork /\ rec'.at = "fetched"
    BY <1>11 DEF FetchMissing
  <2> QED BY <1>2, <1>4, <1>5, <1>6, <1>7, <2>1 DEF pvtStore
<1>12. CASE CommitOldDataToState
  <2>1. /\ UNCHANGED <<release, pvtStore>> /\ rec'.data = rec.data /\ early \subseteq early'
        /\ Running /\ release = "v2.2"
    BY <1>1, <1>12 DEF CommitOldDataToState, StateFirst, ApplyOldData
  <2>2. lastUpdated = {}
    BY <2>1 DEF PhaseInv
  <2> QED BY <1>4, <1>6, <1>7, <1>12, <2>1, <2>2 DEF pvtStore
<1>13. CASE CommitOldDataToStore
  <2>1. /\ Running /\ release = "v2.2" /\ rec.at = "half" /\ UNCHANGED <<early, release>>
        /\ stored' = stored \union {u \in rec.data : ~Expired(u, pvtHeight)}
        /\ rec' = NoWork
    BY <1>13 DEF CommitOldDataToStore, StateFirst
  <2>2. lastUpdated = {}
    BY <2>1 DEF PhaseInv
  <2> QED BY <1>2, <1>4, <1>6, <1>7, <2>1, <2>2
<1>14. CASE CommitOldDataToStoreV14
  <2>1. /\ Running /\ release = "v1.4" /\ rec.at = "fetched" /\ lastUpdated = {}
        /\ UNCHANGED <<early, release, pc>>
        /\ stored' = stored \union {u \in rec.data : ~Expired(u, pvtHeight)}
        /\ lastUpdated' = {u[1] : u \in rec.data}
    BY <1>14 DEF CommitOldDataToStoreV14
  <2>2. rec'.at = "half" /\ rec'.data = rec.data
    BY <1>1, <1>14 DEF CommitOldDataToStoreV14
  <2>3. ASSUME v \in rec.data PROVE FALSE
    <3>1. v[1] \in lastUpdated' /\ pc' # "reset"
      BY <2>1, <2>3 DEF Running
    <3>2. v \in Pending'
      BY <1>5, <2>2, <2>3, <3>1
    <3> QED BY <3>2
  <2> QED BY <1>4, <1>6, <1>7, <2>1, <2>3
<1>15. CASE CommitOldDataToStateV14
  <2>1. /\ rec.at = "half" /\ release # "v2.2" /\ UNCHANGED <<release, pvtStore>>
        /\ early \subseteq early'
    BY <1>15 DEF CommitOldDataToStateV14, StateFirst, ApplyOldData
  <2> QED BY <1>4, <1>6, <1>7, <1>15, <2>1 DEF pvtStore
<1>16. CASE ResetLastUpdatedOldBlocksList
  <2>1. /\ rec.at = "reset" /\ UNCHANGED <<release, stored, early>> /\ rec' = NoWork
    BY <1>16 DEF ResetLastUpdatedOldBlocksList
  <2> QED BY <1>2, <1>4, <1>6, <1>7, <2>1
<1>17. CASE ReconciliationFails \/ Crash
  <2>1. /\ UNCHANGED <<release, pvtStore, early>> /\ rec' = NoWork
        /\ pc' # "reset"
    BY <1>17 DEF ReconciliationFails, Crash, Running
  <2>2. Held' \subseteq Held
    BY <1>2, <1>4, <1>7, <2>1 DEF pvtStore
  <2>3. Pending \subseteq Pending'
    <3> SUFFICES ASSUME NEW u \in Pending PROVE u \in Pending'
      OBVIOUS
    <3>1. lastUpdated # {} /\ lastUpdated' = lastUpdated /\ pvtHeight' = pvtHeight
      BY <1>6, <2>1 DEF pvtStore
    <3>2. u \in UpTo(pvtHeight)
      BY <1>1, <1>6
    <3>3. u[1] \in lastUpdated
      <4>1. CASE rec.at = "half"
        <5>1. Running
          BY <1>2, <4>1 DEF PhaseInv
        <5>2. release = "v1.4"
          BY <1>1, <3>1, <5>1 DEF PhaseInv
        <5>3. lastUpdated = {x[1] : x \in rec.data} /\ u \in rec.data
          BY <1>6, <4>1, <5>2 DEF PhaseInv
        <5> QED BY <5>3
      <4>2. CASE rec.at # "half"
        BY <1>6, <4>2
      <4> QED BY <4>1, <4>2
    <3> QED BY <1>2, <1>5, <2>1, <3>1, <3>2, <3>3
  <2> QED BY <2>1, <2>2, <2>3
<1>18. CASE SyncStateDBWithOldBlkPvtdata
  <2>1. /\ UNCHANGED <<release, pvtStore, rec>> /\ early \subseteq early' /\ pc = "sync"
    BY <1>18 DEF SyncStateDBWithOldBlkPvtdata, ApplyOldData
  <2>2. rec.at = "idle"
    BY <1>2, <2>1 DEF PhaseInv, Running
  <2> QED BY <1>4, <1>6, <1>7, <1>18, <2>1, <2>2 DEF pvtStore
<1>19. CASE Opened
  <2>1. /\ UNCHANGED <<release, stored, pvtHeight, rec, early>> /\ pc = "reset"
    BY <1>19 DEF Opened
  <2> QED BY <1>4, <1>6, <1>7, <2>1
<1>20. CASE UpgradePeer
  <2>1. /\ UNCHANGED <<pvtStore, rec, early, pc>> /\ pc = "down"
    BY <1>20 DEF UpgradePeer
  <2>2. rec.at = "idle"
    BY <1>2, <2>1 DEF PhaseInv, Running
  <2> QED BY <1>3, <1>4, <1>5, <1>6, <1>7, <2>1, <2>2 DEF pvtStore
<1>21. CASE UNCHANGED vars
  BY <1>8, <1>21 DEF vars, pvtStore
<1> QED BY <1>9, <1>10, <1>11, <1>12, <1>13, <1>14, <1>15, <1>16, <1>17, <1>18, <1>19, <1>20,
           <1>21 DEF Next, CommitStep, ReconcilerStep, OpenStep
\* The private data store purges, and a batch has the data that was held of its block.
LEMMA StoreStep ==
  ASSUME TypeOK, PhaseInv, StoreInv, [Next]_vars
  PROVE  StoreInv'
<1>1. /\ chain \in Chains /\ Len(chain) \in Nat /\ height \in 0..Len(chain) /\ height \in Int
      /\ savepoint \in 0..height /\ pvtHeight \in height..Len(chain) /\ pvtHeight \in Nat
      /\ height + 1 \in Int
  BY ChainType DEF TypeOK
<1>2. chain' = chain /\ \A n : Versions(n)' = Versions(n)
  BY HeightStep, SameChain
<1>3. \A n : \A v \in Versions(n) : v[1] = n
  BY DEF Versions
<1>4. \A v \in UpTo(height) : v[1] \in 1..height
  BY <1>1, UpToVersions
<1>5. rec.data \subseteq UpTo(height)
  BY DEF PhaseInv
<1>6. \A v \in stored' : ~Expired(v, pvtHeight')
  <2>1. CASE stored' = stored /\ pvtHeight' = pvtHeight
    BY <2>1 DEF StoreInv
  <2>2. CASE CommitStores
    <3>1. height < pvtHeight => stored' = stored /\ pvtHeight' = pvtHeight
      BY <2>2 DEF CommitStores
    <3>2. ~(height < pvtHeight) => /\ pvtHeight' = height'
                                   /\ \A v \in stored' : ~Expired(v, height')
      BY <2>2 DEF CommitStores
    <3>3. pvtHeight' = height' /\ (\A v \in stored' : ~Expired(v, height'))
          => \A v \in stored' : ~Expired(v, pvtHeight')
      BY DEF Expired
    <3> QED BY <2>1, <3>1, <3>2, <3>3
  <2>3. CASE CommitOldDataToStore \/ CommitOldDataToStoreV14
    <3>1. /\ stored' = stored \union {v \in rec.data : ~Expired(v, pvtHeight)}
          /\ pvtHeight' = pvtHeight
      BY <2>3 DEF CommitOldDataToStore, CommitOldDataToStoreV14
    <3>2. \A v : Expired(v, pvtHeight') <=> Expired(v, pvtHeight)
      BY <3>1 DEF Expired
    <3> QED BY <3>1, <3>2 DEF StoreInv
  <2>4. CASE ~CommitStores /\ ~CommitOldDataToStore /\ ~CommitOldDataToStoreV14
    <3>1. stored' = stored /\ pvtHeight' = pvtHeight
      BY <2>4 DEF Next, CommitStep, ReconcilerStep, OpenStep, vars, pvtStore,
         ValidateAndPrepare, CommitState, FetchMissing, CommitOldDataToState,
         CommitOldDataToStateV14, ResetLastUpdatedOldBlocksList, ReconciliationFails, Open,
         RecommitLostBlock, SyncStateDBWithOldBlkPvtdata, Opened, Crash, UpgradePeer, Rollback
    <3> QED BY <2>1, <3>1
  <2> QED BY <2>2, <2>3, <2>4
<1>7. ASSUME pc' = "prepared"
      PROVE  stored' \cap Versions(height' + 1) \subseteq batch'.data
  <2>1. CASE ValidateAndPrepare
    <3> DEFINE n == height + 1
               Found == IF height < pvtHeight THEN {stored} ELSE SUBSET Versions(n)
    <3>1. \E d \in Found : batch'.data = d \cap Versions(n)
      <4>1. PICK d \in Found : batch' = PrepareBatch(n, d \cap Versions(n))
        BY <2>1 DEF ValidateAndPrepare
      <4>2. PrepareBatch(n, d \cap Versions(n)).data = d \cap Versions(n)
        BY DEF PrepareBatch
      <4> QED BY <4>1, <4>2
    <3>2. stored' = stored /\ height' = height
      BY <2>1 DEF ValidateAndPrepare, pvtStore
    <3>3. CASE height < pvtHeight
      BY <3>1, <3>2, <3>3
    <3>4. CASE ~(height < pvtHeight)
      <4>1. stored \subseteq UpTo(height)
        BY <1>1, <3>4 DEF TypeOK
      <4>2. stored \cap Versions(height + 1) = {}
        BY <1>1, <1>3, <1>4, <4>1
      <4> QED BY <3>2, <4>2
    <3> QED BY <3>3, <3>4
  <2>2. CASE ~ValidateAndPrepare
    <3>1. /\ pc = "prepared" /\ height' = height /\ batch' = batch
          /\ stored' \subseteq stored \union rec.data
      BY <1>7, <2>2 DEF Next, CommitStep, ReconcilerStep, OpenStep, vars, pvtStore,
         CommitStores, CommitState, FetchMissing, CommitOldDataToState, CommitOldDataToStore,
         CommitOldDataToStoreV14, CommitOldDataToStateV14, ResetLastUpdatedOldBlocksList,
         ReconciliationFails, Open, RecommitLostBlock, SyncStateDBWithOldBlkPvtdata, Opened,
         Crash, UpgradePeer, Rollback
    <3>2. rec.data \cap Versions(height + 1) = {}
      BY <1>1, <1>3, <1>4, <1>5
    <3> QED BY <3>1, <3>2 DEF StoreInv
  <2> QED BY <2>1, <2>2
<1>8. ASSUME pc' = "stored"
      PROVE  Held' \cap Versions(height') \subseteq batch'.data \union early' \union Pending'
  <2> SUFFICES ASSUME NEW v \in Held' \ (early' \union Pending'), v \in Versions(height')
               PROVE  v \in batch'.data
    OBVIOUS
  <2>1. \/ CommitStores
        \/ /\ pc = "stored" /\ height' = height /\ batch' = batch
           /\ ~CommitStores /\ ~SyncStateDBWithOldBlkPvtdata /\ ~RecommitLostBlock /\ ~Rollback
    BY <1>8 DEF Next, CommitStep, ReconcilerStep, OpenStep, vars,
       ValidateAndPrepare, CommitStores, CommitState, FetchMissing, CommitOldDataToState,
       CommitOldDataToStore, CommitOldDataToStoreV14, CommitOldDataToStateV14,
       ResetLastUpdatedOldBlocksList, ReconciliationFails, Open, RecommitLostBlock,
       SyncStateDBWithOldBlkPvtdata, Opened, Crash, UpgradePeer, Rollback, Running
  <2>2. CASE CommitStores
    <3>1. /\ pc = "prepared" /\ height' = height + 1 /\ batch' = batch
      BY <2>2 DEF CommitStores
    <3>2. ~RecommitLostBlock /\ ~Rollback /\ ~CommitOldDataToState
          /\ ~CommitOldDataToStateV14 /\ ~SyncStateDBWithOldBlkPvtdata
      BY <2>2 DEF CommitStores, RecommitLostBlock, Rollback, CommitOldDataToState,
         CommitOldDataToStateV14, SyncStateDBWithOldBlkPvtdata
    <3>3. v \in Held \/ v \in batch.data
      BY <2>2, <3>2, HeldStep
    <3>4. v \notin rec.data
      BY <1>1, <1>3, <1>4, <1>5, <3>1
    <3>5. v \in stored \/ v \in batch.data
      BY <3>3, <3>4 DEF Held
    <3> QED BY <3>1, <3>5 DEF StoreInv
  <2>3. CASE /\ pc = "stored" /\ height' = height /\ batch' = batch
             /\ ~CommitStores /\ ~SyncStateDBWithOldBlkPvtdata /\ ~RecommitLostBlock /\ ~Rollback
    <3>1. \/ v \in Held \ (early \union Pending)
          \/ (CommitOldDataToState \/ CommitOldDataToStateV14) /\ v \in rec.data
      BY <2>3, HeldStep
    <3>2. CASE v \in Held \ (early \union Pending)
      BY <2>3, <3>2 DEF StoreInv
    <3>3. CASE (CommitOldDataToState \/ CommitOldDataToStateV14) /\ v \in rec.data
      <4>1. early' = early \union {u \in rec.data : u[1] > savepoint}
        BY <3>3 DEF CommitOldDataToState, CommitOldDataToStateV14, ApplyOldData
      <4>2. v[1] > savepoint
        BY <1>1, <1>3, <2>3 DEF PhaseInv
      <4> QED BY <3>3, <4>1, <4>2
    <3> QED BY <3>1, <3>2, <3>3
  <2> QED BY <2>1, <2>2, <2>3
<1> QED BY <1>2, <1>6, <1>7, <1>8 DEF StoreInv

-----------------------------------------------------------------------------
(* The state follows the store.                                            *)

\* If the last write up to a block is not in the block, the block has none.
LEMMA NoWriteInBlock ==
  ASSUME chain \in Chains, NEW n \in 1..Len(chain), NEW w, LastIn(w, UpTo(n)), w[1] # n
  PROVE  /\ LastIn(w, UpTo(n - 1))
         /\ \A u \in UpTo(n) : IsWrite(u) => u[1] <= n - 1
<1>1. /\ Len(chain) \in Nat /\ n \in 0..Len(chain) /\ n - 1 \in 0..Len(chain)
      /\ n \in Int /\ n - 1 \in Int /\ n - 1 <= n
  BY ChainType
<1>2. w \in UpTo(n) /\ IsWrite(w) /\ \A u \in UpTo(n) : IsWrite(u) => ~Later(u, w)
  BY DEF LastIn
<1>3. /\ w[1] \in 1..n - 1 /\ w[2] \in 1..Len(chain[w[1]]) /\ w = <<w[1], w[2]>>
  BY <1>1, <1>2, UpToVersions
<1>4. w \in UpTo(n - 1)
  BY <1>1, <1>3, UpToVersions
<1>5. UpTo(n - 1) \subseteq UpTo(n)
  BY <1>1, UpToMore
<1>6. ASSUME NEW u \in UpTo(n), IsWrite(u)
      PROVE  u[1] <= n - 1
  <2>1. ~Later(u, w) /\ u[1] \in 1..n
    BY <1>1, <1>2, <1>6, UpToVersions
  <2> QED BY <1>1, <1>3, <2>1 DEF Later
<1> QED BY <1>2, <1>4, <1>5, <1>6 DEF LastIn

\* Old data with the last write brings it into the state; other data leaves it there.
LEMMA FollowsOldData ==
  ASSUME TypeOK, StateInv, NEW data \in SUBSET UpTo(height), ApplyOldData(data),
         NEW w, LastIn(w, UpTo(savepoint)), ~Expired(w, savepoint),
         \A u \in UpTo(height) : IsWrite(u) => u[1] <= savepoint,
         w \in data \/ Has(pvt, w)
  PROVE  Has(pvt', w)
<1>1. /\ chain \in Chains /\ Len(chain) \in Nat /\ height \in 0..Len(chain) /\ height \in Int
      /\ savepoint \in 0..height /\ savepoint \in 0..Len(chain)
  BY ChainType DEF TypeOK
<1>2. HashRight(hash, UpTo(savepoint), savepoint)
  BY DEF StateInv
<1>3. data \in SUBSET UpTo(Len(chain))
  BY <1>1, UpToMore
<1>4. Has(hash, w)
  BY <1>1, <1>2, HashRightIsPvtRight
<1>5. w \in data => LastIn(w, data)
  <2> SUFFICES ASSUME NEW u \in data, IsWrite(u) PROVE ~Later(u, w)
    BY DEF LastIn
  <2>1. u \in UpTo(height) /\ u[1] <= savepoint
    OBVIOUS
  <2>2. u[1] \in 1..savepoint /\ u[2] \in 1..Len(chain[u[1]]) /\ u = <<u[1], u[2]>>
    BY <1>1, <2>1, UpToVersions
  <2>3. u \in UpTo(savepoint)
    BY <1>1, <2>2, UpToVersions
  <2> QED BY <2>3 DEF LastIn
<1>6. /\ pvt' \in {pvt, hash}
      /\ w \in data => pvt' = hash
  BY <1>1, <1>2, <1>3, <1>5, ApplyOldDataRight
<1> QED BY <1>4, <1>6

\* Every step leaves the last write in the state, if the store has it.
LEMMA FollowStep ==
  ASSUME TypeOK, PhaseInv, StateInv, StoreInv, FollowInv, [Next]_vars
  PROVE  FollowInv'
<1>1. /\ chain \in Chains /\ Len(chain) \in Nat /\ height \in 0..Len(chain) /\ height \in Int
      /\ savepoint \in 0..height /\ pvtHeight \in height..Len(chain) /\ pvtHeight \in Nat
      /\ savepoint \in 0..pvtHeight /\ savepoint \in 0..Len(chain) /\ savepoint \in Int
  BY ChainType DEF TypeOK
<1>2. chain' = chain
  BY HeightStep
<1>3. SUFFICES ASSUME NEW w \in Held' \ (early' \union Pending'),
                      LastIn(w, UpTo(savepoint')),
                      \A u \in UpTo(height') : IsWrite(u) => u[1] <= savepoint'
               PROVE  Has(pvt', w)
  BY <1>2, SameChain DEF FollowInv
<1>4. rec.data \subseteq UpTo(height)
  BY DEF PhaseInv
<1>5. CASE w \in Held \ (early \union Pending) /\ UNCHANGED <<pvt, savepoint, height>>
  BY <1>3, <1>5 DEF FollowInv
<1>6. CASE CommitStores
  <2>1. pvt' = pvt /\ savepoint' = savepoint /\ height' = height + 1 /\ pc = "prepared"
    BY <1>6 DEF CommitStores, state
  <2>2. ~RecommitLostBlock /\ ~Rollback /\ ~CommitOldDataToState
        /\ ~CommitOldDataToStateV14 /\ ~SyncStateDBWithOldBlkPvtdata
    BY <1>6 DEF CommitStores, RecommitLostBlock, Rollback, CommitOldDataToState,
       CommitOldDataToStateV14, SyncStateDBWithOldBlkPvtdata
  <2>3. w \in Held \ (early \union Pending) \/ w \in batch.data
    BY <1>6, <2>2, HeldStep
  <2>4. w \notin batch.data
    <3>1. w[1] \in 1..savepoint
      BY <1>1, <1>3, <2>1, UpToVersions DEF LastIn
    <3>2. savepoint = height /\ batch.data \subseteq Versions(height + 1)
      BY <2>1 DEF PhaseInv
    <3> QED BY <1>1, <3>1, <3>2 DEF Versions
  <2>5. UpTo(height) \subseteq UpTo(height')
    BY <1>1, <2>1, UpToMore
  <2> QED BY <1>3, <2>1, <2>3, <2>4, <2>5 DEF FollowInv
<1>7. CASE CommitState
  <2>1. /\ height \in 1..Len(chain) /\ savepoint = height - 1 /\ savepoint + 1 = height
        /\ pc = "stored" /\ WriteState(batch, height) /\ savepoint' = height
        /\ height' = height
    BY <1>1, <1>7 DEF CommitState, PhaseInv, WriteState
  <2>2. ~RecommitLostBlock /\ ~Rollback /\ ~CommitOldDataToState /\ ~CommitStores
        /\ ~CommitOldDataToStateV14 /\ ~SyncStateDBWithOldBlkPvtdata
    BY <1>7 DEF CommitState, CommitStores, RecommitLostBlock, Rollback, CommitOldDataToState,
       CommitOldDataToStateV14, SyncStateDBWithOldBlkPvtdata, Running
  <2>3. w \in Held \ (early \union Pending)
    BY <1>7, <2>2, HeldStep
  <2>4. ~Expired(w, height)
    BY <1>1, <2>3, HeldUnexpired
  <2>5. LastIn(w, UpTo(height))
    BY <1>3, <2>1
  <2>6. /\ \A u \in batch.data : u[1] = height /\ LastIn(u, UpTo(height)) => Has(pvt', u)
        /\ \A u : LastIn(u, UpTo(height)) /\ u[1] # height /\ ~Expired(u, height)
                    /\ Has(pvt, u) => Has(pvt', u)
    BY <1>1, <2>1, WriteStateRight DEF StateInv
  <2>7. CASE w[1] = height
    <3>1. w \in Versions(height)
      BY <1>1, <2>5, <2>7, UpToVersions DEF LastIn
    <3>2. w \in batch.data
      BY <2>1, <2>3, <3>1 DEF StoreInv
    <3> QED BY <2>5, <2>6, <2>7, <3>2
  <2>8. CASE w[1] # height
    <3>1. LastIn(w, UpTo(savepoint)) /\ \A u \in UpTo(height) : IsWrite(u) => u[1] <= savepoint
      BY <1>1, <2>1, <2>5, <2>8, NoWriteInBlock
    <3>2. Has(pvt, w)
      BY <2>3, <3>1 DEF FollowInv
    <3> QED BY <2>4, <2>5, <2>6, <2>8, <3>2
  <2> QED BY <2>7, <2>8
<1>8. CASE CommitOldDataToState \/ CommitOldDataToStateV14
  <2>1. /\ ApplyOldData(rec.data) /\ UNCHANGED <<height, savepoint>>
        /\ ~RecommitLostBlock /\ ~Rollback /\ ~CommitStores /\ ~SyncStateDBWithOldBlkPvtdata
    BY <1>8 DEF CommitOldDataToState, CommitOldDataToStateV14, ApplyOldData, CommitStores,
       RecommitLostBlock, Rollback, SyncStateDBWithOldBlkPvtdata, Running
  <2>2. \/ w \in Held \ (early \union Pending)
        \/ w \in rec.data /\ ~Expired(w, pvtHeight)
        \/ w \in rec.data /\ w \in Held
    BY <1>8, <2>1, HeldStep
  <2>3. ~Expired(w, savepoint)
    BY <1>1, <2>2, HeldUnexpired
  <2>4. w \in rec.data \/ Has(pvt, w)
    BY <1>3, <2>1, <2>2 DEF FollowInv
  <2> QED BY <1>3, <1>4, <2>1, <2>3, <2>4, FollowsOldData
<1>9. CASE SyncStateDBWithOldBlkPvtdata
  <2> DEFINE data == {v \in stored : v[1] \in FilterYetToCommitBlocks(lastUpdated)}
  <2>1. /\ ApplyOldData(data) /\ UNCHANGED <<height, savepoint>> /\ savepoint = height
        /\ ~RecommitLostBlock /\ ~Rollback /\ ~CommitStores /\ ~CommitOldDataToState
        /\ ~CommitOldDataToStateV14
    BY <1>9 DEF CommitOldDataToState, CommitOldDataToStateV14, ApplyOldData, CommitStores,
       RecommitLostBlock, Rollback, SyncStateDBWithOldBlkPvtdata, Running
  <2>2. w \in Held \ (early \union Pending) \/ (w \in stored /\ w[1] \in lastUpdated)
    BY <1>9, <2>1, HeldStep
  <2>3. w \in Held
    BY <2>2 DEF Held
  <2>4. ~Expired(w, savepoint)
    BY <1>1, <2>3, HeldUnexpired
  <2>5. w[1] \in 1..height
    BY <1>1, <1>3, <2>1, UpToVersions DEF LastIn
  <2>6. data \subseteq UpTo(height)
    <3> SUFFICES ASSUME NEW v \in data PROVE v \in UpTo(height)
      OBVIOUS
    <3>1. v \in UpTo(pvtHeight) /\ v[1] <= height
      BY DEF TypeOK, FilterYetToCommitBlocks
    <3>2. v[1] \in 1..height /\ v[2] \in 1..Len(chain[v[1]]) /\ v = <<v[1], v[2]>>
      <4>1. pvtHeight \in 0..Len(chain)
        BY <1>1
      <4> QED BY <1>1, <3>1, <4>1, UpToVersions
    <3> QED BY <1>1, <3>2, UpToVersions
  <2>7. w \in data \/ Has(pvt, w)
    <3>1. CASE w \in Held \ (early \union Pending)
      BY <1>3, <2>1, <3>1 DEF FollowInv
    <3>2. CASE w \in stored /\ w[1] \in lastUpdated
      BY <1>1, <2>5, <3>2 DEF FilterYetToCommitBlocks
    <3> QED BY <2>2, <3>1, <3>2
  <2> HIDE DEF data
  <2> QED BY <1>3, <2>1, <2>4, <2>6, <2>7, FollowsOldData
<1>10. CASE RecommitLostBlock
  <2> DEFINE n == savepoint + 1
             data == stored \cap Versions(n)
             b == PrepareBatch(n, data)
  <2>1. /\ pc = "sync" /\ n \in 1..Len(chain) /\ n - 1 = savepoint /\ n \in 0..pvtHeight
        /\ WriteState(b, n) /\ savepoint' = n /\ height' = height
        /\ early' = early \ Versions(n) /\ UNCHANGED <<release, pvtStore, rec, pc>>
    BY <1>1, <1>10 DEF RecommitLostBlock, WriteState
  <2>2. rec.at = "idle"
    BY <2>1 DEF PhaseInv, Running, NoWork
  <2>3. b.data = data
    BY DEF PrepareBatch
  <2>4. w \in Held /\ w \in stored /\ w \notin Pending
    <3>1. Held' = stored /\ Held = stored
      BY <2>1, <2>2 DEF Held, pvtStore
    <3>2. Pending' = Pending
      <4>1. UpTo(pvtHeight)' = UpTo(pvtHeight)
        BY <1>2, <2>1, SameChain DEF pvtStore
      <4> QED BY <2>1, <4>1 DEF Pending, pvtStore
    <3> QED BY <3>1, <3>2
  <2>5. ~Expired(w, n)
    BY <2>1, <2>4, HeldUnexpired
  <2> HIDE DEF n, b, data
  <2>6. BatchRight(b, n)
    BY <1>1, <2>1, PrepareBatchRight DEF StateInv, b
  <2>7. /\ \A u \in data : u[1] = n /\ LastIn(u, UpTo(n)) => Has(pvt', u)
        /\ \A u : LastIn(u, UpTo(n)) /\ u[1] # n /\ ~Expired(u, n) /\ Has(pvt, u)
                    => Has(pvt', u)
    BY <1>1, <2>1, <2>3, <2>6, WriteStateRight DEF StateInv
  <2>8. LastIn(w, UpTo(n))
    BY <1>3, <2>1
  <2>9. n \in 0..Len(chain) /\ n \in Int
    BY <1>1, <2>1
  <2>10. CASE w[1] = n
    <3>1. w \in Versions(n)
      BY <1>1, <2>8, <2>9, <2>10, UpToVersions DEF LastIn
    <3> QED BY <2>4, <2>7, <2>8, <2>10, <3>1 DEF data
  <2>11. CASE w[1] # n
    <3>1. LastIn(w, UpTo(savepoint)) /\ \A u \in UpTo(n) : IsWrite(u) => u[1] <= savepoint
      BY <1>1, <2>1, <2>8, <2>11, NoWriteInBlock
    <3>2. \A u \in UpTo(height) : IsWrite(u) => u[1] <= savepoint
      <4> SUFFICES ASSUME NEW u \in UpTo(height), IsWrite(u) PROVE u[1] <= savepoint
        OBVIOUS
      <4>1. u[1] <= n /\ u[1] \in 1..height /\ u[2] \in 1..Len(chain[u[1]])
            /\ u = <<u[1], u[2]>>
        BY <1>1, <1>3, <2>1, UpToVersions
      <4>2. u \in UpTo(n)
        BY <1>1, <2>9, <4>1, UpToVersions
      <4> QED BY <3>1, <4>2
    <3>3. w \notin early
      BY <2>1, <2>11 DEF Versions
    <3>4. Has(pvt, w)
      BY <2>4, <3>1, <3>2, <3>3 DEF FollowInv
    <3> QED BY <2>5, <2>7, <2>8, <2>11, <3>4
  <2> QED BY <2>10, <2>11
<1>11. CASE Rollback
  <2>1. savepoint' = 0
    BY <1>11 DEF Rollback
  <2>2. UpTo(0) = {}
    BY DEF UpTo
  <2> QED BY <1>3, <2>1, <2>2 DEF LastIn
<1>12. CASE \/ ValidateAndPrepare \/ FetchMissing \/ CommitOldDataToStore
            \/ CommitOldDataToStoreV14 \/ ResetLastUpdatedOldBlocksList
            \/ ReconciliationFails \/ Open \/ Opened \/ Crash \/ UpgradePeer \/ UNCHANGED vars
  <2>1. UNCHANGED <<pvt, savepoint, height>>
    BY <1>12 DEF ValidateAndPrepare, FetchMissing, CommitOldDataToStore,
       CommitOldDataToStoreV14, ResetLastUpdatedOldBlocksList, ReconciliationFails, Open,
       Opened, Crash, UpgradePeer, vars, state
  <2>2. CASE \/ RecommitLostBlock \/ Rollback \/ CommitStores \/ CommitOldDataToState
             \/ CommitOldDataToStateV14 \/ SyncStateDBWithOldBlkPvtdata
    BY <1>6, <1>8, <1>9, <1>10, <1>11, <2>2
  <2>3. CASE ~(\/ RecommitLostBlock \/ Rollback \/ CommitStores \/ CommitOldDataToState
               \/ CommitOldDataToStateV14 \/ SyncStateDBWithOldBlkPvtdata)
    <3>1. w \in Held \ (early \union Pending)
      BY <2>3, HeldStep
    <3> QED BY <1>5, <2>1, <3>1
  <2> QED BY <2>2, <2>3
<1> QED BY <1>6, <1>7, <1>8, <1>9, <1>10, <1>11, <1>12
        DEF Next, CommitStep, ReconcilerStep, OpenStep
-----------------------------------------------------------------------------
(* Results.                                                                *)

\* At first there are no blocks.
LEMMA InitIInv == Init => IInv
<1> SUFFICES ASSUME Init PROVE IInv
  OBVIOUS
<1>1. chain \in Chains /\ Len(chain) \in Nat
  BY ChainType DEF Init
<1>2. UpTo(0) = {}
  BY DEF UpTo
<1>3. /\ NoWork = [at |-> "idle", data |-> {}] /\ Absent \in Entry
      /\ NoBatch = [hash |-> Absent, pvt |-> Unchanged, data |-> {}]
  BY DEF NoWork, NoBatch, Entry
<1>4. TypeOK
  <2>1. release \in {"v1.4", "v2.2"}
    BY ReleasesAssumption DEF Init
  <2>2. rec \in [at : {"idle", "fetched", "half", "reset"}, data : SUBSET UpTo(pvtHeight)]
    BY <1>3 DEF Init
  <2>3. batch \in [hash : Entry, pvt : Entry \union {Unchanged}, data : SUBSET UpTo(Len(chain))]
    BY <1>3 DEF Init
  <2> QED BY <1>1, <1>2, <1>3, <2>1, <2>2, <2>3 DEF Init, TypeOK
<1>5. PhaseInv
  BY <1>3 DEF Init, PhaseInv, Running
<1>6. StateInv
  BY <1>2 DEF Init, StateInv, HashRight, PvtRight, LastIn
<1>7. StoreInv /\ FollowInv
  BY <1>3 DEF Init, StoreInv, FollowInv, Held
<1> QED BY <1>4, <1>5, <1>6, <1>7 DEF IInv

\* The whole inductive invariant, for every chain and number of blocks to live.
THEOREM OldDataInvariant == Spec => []IInv
<1>1. IInv /\ [Next]_vars => IInv'
  BY TypeStep, PhaseStep, StateStep, StoreStep, FollowStep DEF IInv
<1> QED BY InitIInv, <1>1, PTL DEF Spec

\* The stores, the state and the reconciler keep the shape the code gives them.
THEOREM TypeCorrect == Spec => []TypeOK
<1>1. IInv => TypeOK
  BY DEF IInv
<1> QED BY OldDataInvariant, <1>1, PTL

\* The last write as the properties have it.
LEMMA LastWriteIsLast ==
  ASSUME chain \in Chains, NEW n \in 0..Len(chain), NEW v \in UpTo(n), NEW w \in LastWrite(v)
  PROVE  LastIn(w, Before(v))
<1> DEFINE writes == {u \in UpTo(v[1]) : Tx(u).valid /\ Tx(u).op # "meta" /\ ~Later(u, v)}
<1>1. w \in writes /\ \A u \in writes \ {w} : Later(w, u)
  BY DEF LastWrite
<1>2. \A u : u \in Before(v) <=> u \in UpTo(n) /\ ~Later(u, v)
  BY BeforeVersion
<1>3. Before(v) \subseteq UpTo(v[1])
  BY DEF Before, Done
<1>4. UpTo(n) \subseteq Version
  BY UpToVersions
<1>5. UpTo(v[1]) \subseteq UpTo(n)
  <2>1. v[1] \in Int /\ v[1] <= n /\ n \in Int
    BY ChainType, UpToVersions
  <2> QED BY <2>1, UpToMore
<1>6. \A u : u \in writes <=> u \in Before(v) /\ IsWrite(u)
  BY <1>2, <1>3, <1>5 DEF IsWrite
<1>7. \A u \in Before(v) : IsWrite(u) => ~Later(u, w)
  <2> SUFFICES ASSUME NEW u \in Before(v), IsWrite(u) PROVE ~Later(u, w)
    OBVIOUS
  <2>1. u \in Version /\ w \in Version
    BY <1>1, <1>2, <1>4, <1>6
  <2>2. u = w \/ Later(w, u)
    BY <1>1, <1>6
  <2> QED BY <2>1, <2>2, VersionOrder
<1> QED BY <1>1, <1>6, <1>7 DEF LastIn

\* A simulation reads the private value that belongs to its version, or is refused,
\* whatever the reconciler, crashes, a rollback and the upgrade did before.
THEOREM ReadsRightOrRefusesCorrect == Spec => []ReadsRightOrRefuses
<1>1. IInv => ReadsRightOrRefuses
  <2> SUFFICES ASSUME IInv, pvt # Absent
               PROVE  /\ Tx(pvt.ver).valid
                      /\ \A w \in LastWrite(pvt.ver) : Tx(w).op = pvt.val
                      /\ hash # Absent => ~Later(pvt.ver, hash.ver)
    BY DEF ReadsRightOrRefuses
  <2>1. chain \in Chains /\ savepoint \in 0..Len(chain)
    BY ChainType DEF IInv, TypeOK
  <2> DEFINE v == pvt.ver
  <2>2. /\ v \in UpTo(savepoint) /\ Tx(v).valid
        /\ \A w : LastIn(w, Before(v)) => Tx(w).op = pvt.val
    BY DEF IInv, StateInv, PvtRight
  <2>3. hash # Absent => ~Later(v, hash.ver)
    BY <2>2 DEF IInv, StateInv, HashRight
  <2> HIDE DEF v
  <2>4. \A w \in LastWrite(v) : Tx(w).op = pvt.val
    BY <2>1, <2>2, LastWriteIsLast
  <2> QED BY <2>2, <2>3, <2>4 DEF v
<1> QED BY OldDataInvariant, <1>1, PTL

\* When nothing is on its way into the state, a key whose last write the private data
\* store has is in the state with that write's value.
THEOREM StateFollowsStoreCorrect == Spec => []StateFollowsStore
<1>1. IInv => StateFollowsStore
  <2> SUFFICES ASSUME IInv, Quiet,
                      NEW w \in LastWrite(<<height, Len(chain[height])>>),
                      w \in stored, w \notin early
               PROVE  IF Tx(w).op = "delete" THEN pvt = Absent
                      ELSE pvt.val = Tx(w).op /\ (hash.ver = w => pvt.ver = w)
    BY DEF StateFollowsStore
  <2>1. /\ chain \in Chains /\ Len(chain) \in Nat /\ height \in 1..Len(chain)
        /\ height \in 0..Len(chain) /\ savepoint = height
        /\ Len(chain[height]) \in Nat
    BY ChainType DEF IInv, TypeOK, PhaseInv, Quiet
  <2>2. LastIn(w, UpTo(height))
    <3> DEFINE v == <<height, Len(chain[height])>>
               writes == {u \in UpTo(height) : /\ Tx(u).valid /\ Tx(u).op # "meta"
                                               /\ ~Later(u, v)}
    <3>1. w \in writes /\ \A u \in writes \ {w} : Later(w, u)
      BY DEF LastWrite
    <3>2. \A u \in UpTo(height) : u \in Version /\ ~Later(u, v)
      <4> SUFFICES ASSUME NEW u \in UpTo(height) PROVE u \in Version /\ ~Later(u, v)
        OBVIOUS
      <4>1. u \in Version /\ u[1] \in 1..height /\ u[2] \in 1..Len(chain[u[1]])
        BY <2>1, UpToVersions
      <4> QED BY <2>1, <4>1 DEF Later
    <3>3. \A u : u \in writes <=> u \in UpTo(height) /\ IsWrite(u)
      BY <3>2 DEF IsWrite
    <3>4. \A u \in UpTo(height) : IsWrite(u) => u = w \/ Later(w, u)
      BY <3>1, <3>3
    <3>5. \A u \in UpTo(height) : IsWrite(u) => ~Later(u, w)
      BY <3>1, <3>2, <3>4, VersionOrder
    <3> QED BY <3>1, <3>3, <3>5 DEF LastIn
  <2>3. w \in Held \ (early \union Pending)
    BY DEF Quiet, Held, Pending
  <2>4. \A u \in UpTo(height) : u[1] <= savepoint
    BY <2>1, UpToVersions
  <2>5. Has(pvt, w)
    BY <2>1, <2>2, <2>3, <2>4 DEF IInv, FollowInv
  <2>6. ASSUME pvt # Absent, ~Later(w, pvt.ver), hash.ver = w
        PROVE  pvt.ver = w
    <3>1. pvt.ver \in UpTo(height) /\ Tx(pvt.ver).valid
      BY <2>1, <2>6 DEF IInv, StateInv, PvtRight
    <3>2. w \in UpTo(height) /\ w \in Version /\ pvt.ver \in Version
      BY <2>1, <2>2, <3>1, UpToVersions DEF LastIn
    <3>3. hash # Absent
      <4>1. w[1] \in 1..height
        BY <2>1, <3>2, UpToVersions
      <4> QED BY <2>6, <4>1 DEF Absent
    <3>4. ~Later(pvt.ver, w)
      BY <2>1, <2>6, <3>1, <3>3 DEF IInv, StateInv, HashRight
    <3> QED BY <2>6, <3>2, <3>4, VersionOrder
  <2> QED BY <2>5, <2>6 DEF Has
<1> QED BY OldDataInvariant, <1>1, PTL
=============================================================================
