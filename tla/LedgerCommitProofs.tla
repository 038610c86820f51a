------------------------- MODULE LedgerCommitProofs -------------------------
(***************************************************************************)
(* Proofs about LedgerCommit, for every set of configurations and every    *)
(* number of blocks, crashes and faults.                                   *)
(***************************************************************************)
EXTENDS LedgerCommitInvariants, SequenceTheorems, TLAPS

\* The fields of the configuration have the types of Configuration.
LEMMA ConfigurationTypes ==
  ASSUME TypeOK
  PROVE  /\ conf.hw \in BOOLEAN /\ conf.swStateDb \in BOOLEAN
         /\ conf.resetFpga \in BOOLEAN /\ conf.parallel \in BOOLEAN
         /\ conf.history \in BOOLEAN /\ conf.startingBlock \in Nat \ {0}
BY ConfigurationsAssumption DEF TypeOK, Configuration

\* The last entries of the two nonempty sequences have their element types.
LEMMA LastEntries ==
  ASSUME TypeOK
  PROVE  /\ Len(blockStore) \in Nat \ {0} /\ Len(stateDb) \in Nat \ {0}
         /\ Savepoint \in Nat /\ LastPersistedCommitHash \in Hashes
BY DEF TypeOK, Savepoint, LastPersistedCommitHash, Hashes

\* The hash of the next block is a hash.
LEMMA NextHashType ==
  ASSUME NEW n \in Nat, NEW h \in Hashes
  PROVE  NextHash(n, h) \in Hashes
BY DEF NextHash, Hashes

\* A dead process leaves well-typed memory behind.
LEMMA DeathType ==
  ASSUME TypeOK, ProcessDies, UNCHANGED <<conf, durable>>,
         cardNext' \in Nat, hwSent' \in Nat, crashes' \in Nat, faults' \in Nat
  PROVE  TypeOK'
<1>1. NoHash \in Hashes
  BY DEF NoHash, Hashes
<1>2. QED
  BY <1>1 DEF TypeOK, ProcessDies, durable, Phases

-----------------------------------------------------------------------------
\* Every step keeps the variables in their types.
LEMMA TypeInductive == TypeOK /\ [Next]_vars => TypeOK'
<1> SUFFICES ASSUME TypeOK, [Next]_vars PROVE TypeOK'
  OBVIOUS
<1> USE DEF TypeOK, Phases, mainThread, goroutines, recovery, card, bounds
<1>1. CASE StoreBlock
  BY <1>1 DEF StoreBlock, durable
<1>2. CASE EnterPrepare
  BY <1>2 DEF EnterPrepare, durable
<1>3. CASE Prepare
  <2>1. commitHash' \in Hashes
    BY <1>3, NextHashType DEF Prepare
  <2>2. storeQueue' \subseteq StoreCall
    BY <1>3, <2>1 DEF Prepare, StoreCall
  <2>3. stateQueue' \subseteq Nat /\ pc' \in Phases
    BY <1>3 DEF Prepare
  <2>4. cardNext' \in Nat
    BY <1>3 DEF Prepare
  <2>5. /\ UNCHANGED <<conf, durable, fetch, pvtAhead, storing, purgeQueue, next,
                      recovery, hwSent, bounds>>
        /\ current' = next
    BY <1>3 DEF Prepare
  <2>6. QED
    BY <2>1, <2>2, <2>3, <2>4, <2>5 DEF durable
<1>4. CASE HardwareRejects
  BY <1>4, DeathType DEF HardwareRejects, Fault
<1>5. CASE CommitHistory
  BY <1>5 DEF CommitHistory, PurgeAfterCommit
<1>6. ASSUME NEW n \in purgeQueue, Purge(n) PROVE TypeOK'
  BY <1>6 DEF Purge
<1>7. ASSUME NEW b \in storeQueue, CommitPvt(b) PROVE TypeOK'
  <2>1. b.num \in Nat /\ b.hash \in Hashes
    BY DEF StoreCall
  <2>2. storing' \subseteq LockedStoreCall
    BY <1>7, <2>1 DEF CommitPvt, LockedStoreCall
  <2>3. QED
    BY <1>7, <2>1, <2>2 DEF CommitPvt
<1>8. ASSUME NEW b \in storeQueue, CommitPvtFails(b) PROVE TypeOK'
  <2>1. CASE ~ProcessDies
    <3>1. storeQueue' \subseteq StoreCall /\ storing' = {} /\ faults' \in Nat
      BY <1>8, <2>1 DEF CommitPvtFails, WriterFails, Fault
    <3>2. UNCHANGED <<conf, durable, card, crashes, mainThread, current, commitHash,
                      pvtAhead, stateQueue, purgeQueue, recovery>>
      BY <1>8, <2>1 DEF CommitPvtFails, WriterFails
    <3>3. QED
      BY <3>1, <3>2 DEF durable
  <2>2. CASE ProcessDies
    BY <1>8, <2>2, DeathType DEF CommitPvtFails, Fault
  <2>3. QED
    BY <2>1, <2>2
<1>9. ASSUME NEW b \in storing, AddBlock(b) PROVE TypeOK'
  <2>1. b.num \in Nat /\ b.hash \in Hashes
    BY DEF LockedStoreCall
  <2>2. blockStore' \in Seq(Hashes) /\ blockStore' # <<>>
    BY <1>9, <2>1 DEF AddBlock
  <2>3. stateQueue' \subseteq Nat /\ pc' \in Phases
    BY <1>9, <2>1 DEF AddBlock
  <2>4. QED
    BY <1>9, <2>2, <2>3 DEF AddBlock
<1>10. ASSUME NEW b \in storing, AddBlockFails(b) PROVE TypeOK'
  <2>1. CASE ~ProcessDies
    <3>1. storeQueue' \subseteq StoreCall /\ storing' = {} /\ faults' \in Nat
      BY <1>10, <2>1 DEF AddBlockFails, WriterFails, Fault
    <3>2. UNCHANGED <<conf, durable, card, crashes, mainThread, current, commitHash,
                      pvtAhead, stateQueue, purgeQueue, recovery>>
      BY <1>10, <2>1 DEF AddBlockFails, WriterFails
    <3>3. QED
      BY <3>1, <3>2 DEF durable
  <2>2. CASE ProcessDies
    BY <1>10, <2>2, DeathType DEF AddBlockFails, Fault
  <2>3. QED
    BY <2>1, <2>2
<1>11. ASSUME NEW n \in stateQueue, CommitState(n) PROVE TypeOK'
  <2>1. stateDb' \in Seq(Nat) /\ stateDb' # <<>>
    BY <1>11 DEF CommitState, Batch
  <2>2. QED
    BY <1>11, <2>1 DEF CommitState
<1>12. ASSUME NEW n \in stateQueue, CommitStatePanics(n) PROVE TypeOK'
  BY <1>12, DeathType DEF CommitStatePanics
<1>13. CASE Crash
  BY <1>13, DeathType DEF Crash
<1>14. CASE Restart
  <2>1. commitHash' \in Hashes /\ Savepoint \in Nat
    BY <1>14, LastEntries DEF Restart
  <2>2. recState' \in Nat /\ recHistory' \in Nat
    BY <1>14, <2>1, LastEntries DEF Restart, StateHeight
  <2>3. cardNext' \in Nat
    BY <1>14 DEF Restart, CardAfterOpening
  <2>4. QED
    BY <1>14, <2>1, <2>2, <2>3 DEF Restart, durable, AheadOfBlockStore
<1>15. CASE RecommitState
  <2>1. stateDb' \in Seq(Nat) /\ stateDb' # <<>>
    BY <1>15 DEF RecommitState, Batch
  <2>2. QED
    BY <1>15, <2>1 DEF RecommitState
<1>16. CASE RecommitHistory
  BY <1>16 DEF RecommitHistory
<1>17. CASE Recovered
  BY <1>17 DEF Recovered, durable
<1>18. CASE OrdererSends
  BY <1>18 DEF OrdererSends, durable
<1>19. CASE UNCHANGED vars
  BY <1>19 DEF vars
<1>20. QED
  BY <1>1, <1>2, <1>3, <1>4, <1>5, <1>6, <1>7, <1>8, <1>9, <1>10, <1>11, <1>12,
     <1>13, <1>14, <1>15, <1>16, <1>17, <1>18, <1>19
  DEF Next, CommitterStep, WriterStep, StateStep, RecoveryStep, FaultStep

\* Every behaviour keeps the types, for every set of configurations.
LEMMA TypeInit == Init => TypeOK
<1> SUFFICES ASSUME Init PROVE TypeOK
  OBVIOUS
<1>1. conf \in Configurations /\ conf.startingBlock \in Nat
  BY ConfigurationsAssumption DEF Init, Configuration
<1>2. NoHash \in Hashes
  BY DEF NoHash, Hashes
<1>3. blockStore \in Seq(Hashes) /\ blockStore # <<>>
  BY <1>2 DEF Init
<1>4. stateDb \in Seq(Nat) /\ stateDb # <<>>
  BY DEF Init
<1>5. transient \subseteq Nat
  BY BoundsAssumption DEF Init
<1>6. QED
  BY <1>1, <1>2, <1>3, <1>4, <1>5 DEF Init, TypeOK, Phases

\* The state of the peer keeps its shape: every commit hash is a sequence of block
\* numbers, every queued call names a block, every height is a number.
THEOREM TypeCorrect == Spec => []TypeOK
BY TypeInit, TypeInductive, PTL DEF Spec

-----------------------------------------------------------------------------
(* The parts of the inductive invariant, one lemma each.                   *)

\* A ledger that is not open has nothing in memory.
LEMMA QuietInductive == TypeOK /\ QuietInv /\ [Next]_vars => QuietInv'
<1> SUFFICES ASSUME TypeOK, QuietInv, [Next]_vars PROVE QuietInv'
  OBVIOUS
<1> USE DEF QuietInv, NotOpen, mainThread, goroutines, recovery
<1>1. CASE StoreBlock \/ EnterPrepare \/ Recovered
  BY <1>1 DEF StoreBlock, EnterPrepare, Recovered
<1>2. CASE Prepare \/ CommitHistory
  BY <1>2 DEF Prepare, CommitHistory
<1>3. CASE HardwareRejects \/ Crash
  BY <1>3 DEF HardwareRejects, Crash, ProcessDies
<1>4. ASSUME NEW n \in purgeQueue, Purge(n) PROVE QuietInv'
  BY <1>4 DEF Purge
<1>5. ASSUME NEW b \in storeQueue, CommitPvt(b) \/ CommitPvtFails(b) PROVE QuietInv'
  BY <1>5 DEF CommitPvt, CommitPvtFails, WriterFails, ProcessDies
<1>6. ASSUME NEW b \in storing, AddBlock(b) \/ AddBlockFails(b) PROVE QuietInv'
  BY <1>6 DEF AddBlock, AddBlockFails, WriterFails, ProcessDies
<1>7. ASSUME NEW n \in stateQueue, CommitState(n) \/ CommitStatePanics(n)
      PROVE  QuietInv'
  BY <1>7 DEF CommitState, CommitStatePanics, ProcessDies
<1>8. CASE Restart
  BY <1>8 DEF Restart
<1>9. CASE RecommitState \/ RecommitHistory
  BY <1>9 DEF RecommitState, RecommitHistory
<1>10. CASE OrdererSends
  BY <1>10 DEF OrdererSends
<1>11. CASE UNCHANGED vars
  BY <1>11 DEF vars
<1>12. QED
  BY <1>1, <1>2, <1>3, <1>4, <1>5, <1>6, <1>7, <1>8, <1>9, <1>10, <1>11
  DEF Next, CommitterStep, WriterStep, StateStep, RecoveryStep, FaultStep

\* Hashing one more block lengthens the chain by that block.
LEMMA NextOfChain ==
  ASSUME NEW n \in Nat, n >= 1
  PROVE  NextHash(n, Chain(n - 1)) = Chain(n)
<1>1. Chain(n - 1) \in Seq(Nat) /\ Len(Chain(n - 1)) = n - 1
  BY DEF Chain
<1>2. Append(Chain(n - 1), n) = Chain(n)
  BY <1>1 DEF Chain
<1>3. n # 1 => Chain(n - 1) # NoHash
  BY <1>1 DEF NoHash
<1>4. QED
  BY <1>2, <1>3 DEF NextHash

\* In the sequential commit a call that is under way tells the phase.
LEMMA PhaseOfCalls ==
  ASSUME TypeOK, QuietInv, PhaseInv, ~conf.parallel
  PROVE  /\ WriterCalls # {} => pc = "store"
         /\ stateQueue # {} => pc = "state"
BY DEF TypeOK, Phases, QuietInv, PhaseInv, NotOpen, BeforePrepare, WriterCalls

\* Every commit hash is the chain over all the blocks before.
LEMMA HashInductive ==
  TypeOK /\ QuietInv /\ PhaseInv /\ HashInv /\ [Next]_vars => HashInv'
<1> SUFFICES ASSUME TypeOK, QuietInv, PhaseInv, HashInv, [Next]_vars PROVE HashInv'
  OBVIOUS
<1>0. Height \in Nat \ {0}
  BY LastEntries DEF Height
<1> USE DEF HashInv, WriterCalls, BeforePrepare, AfterPrepare, Running, Height
<1>1. CASE StoreBlock \/ EnterPrepare \/ OrdererSends
  BY <1>1 DEF StoreBlock, EnterPrepare, OrdererSends, durable, goroutines, mainThread
<1>2. CASE Prepare
  <2>1. next >= 1 /\ next \in Nat /\ commitHash' = Chain(next)
    BY <1>2, NextOfChain DEF Prepare, TypeOK
  <2>2. storeQueue' = storeQueue \union {[num |-> next, hash |-> Chain(next)]}
    BY <1>2, <2>1 DEF Prepare
  <2>3. /\ UNCHANGED <<blockStore, next, storing>>
        /\ pc' \in {"store", "history"}
    BY <1>2 DEF Prepare, durable
  <2>4. QED
    BY <2>1, <2>2, <2>3
<1>3. CASE CommitHistory
  BY <1>3 DEF CommitHistory, TypeOK
<1>4. ASSUME ProcessDies, UNCHANGED durable PROVE HashInv'
  BY <1>4 DEF ProcessDies, durable
<1>5. ASSUME NEW n \in purgeQueue, Purge(n) PROVE HashInv'
  BY <1>5 DEF Purge, mainThread
<1>6. ASSUME NEW b \in storeQueue, CommitPvt(b) PROVE HashInv'
  BY <1>6 DEF CommitPvt, mainThread
<1>7. ASSUME NEW b \in storeQueue, CommitPvtFails(b) PROVE HashInv'
  BY <1>4, <1>7 DEF CommitPvtFails, WriterFails, mainThread, durable
<1>8. ASSUME NEW b \in storing, AddBlock(b) PROVE HashInv'
  <2>1. b.hash = Chain(Height) /\ b.num = Height /\ b.num >= 1
    BY <1>8 DEF AddBlock
  <2>2. blockStore' = Append(blockStore, b.hash) /\ b.hash \in Hashes
    BY <1>8 DEF AddBlock, TypeOK, LockedStoreCall
  <2>3. \A i \in 1..Len(blockStore') : blockStore'[i] = Chain(i - 1)
    BY <1>0, <2>1, <2>2 DEF TypeOK
  <2>4. /\ UNCHANGED <<commitHash, next, storeQueue>>
        /\ storing' = {}
        /\ pc' = pc \/ pc' = "state"
    BY <1>8 DEF AddBlock
  <2>5. (pc' = "state" => pc \in {"store", "state"}) /\ pc # "recover"
    BY <1>8, PhaseOfCalls DEF AddBlock, QuietInv, NotOpen
  <2>6. QED
    BY <2>3, <2>4, <2>5
<1>9. ASSUME NEW b \in storing, AddBlockFails(b) PROVE HashInv'
  BY <1>4, <1>9 DEF AddBlockFails, WriterFails, mainThread, durable
<1>10. ASSUME NEW n \in stateQueue, CommitState(n) PROVE HashInv'
  <2>1. pc' = pc \/ (pc = "state" /\ pc' = "history")
    BY <1>10, PhaseOfCalls DEF CommitState
  <2>2. UNCHANGED <<blockStore, commitHash, next, storeQueue, storing>>
    BY <1>10 DEF CommitState
  <2>3. QED
    BY <2>1, <2>2
<1>11. ASSUME NEW n \in stateQueue, CommitStatePanics(n) PROVE HashInv'
  BY <1>4, <1>11 DEF CommitStatePanics
<1>12. CASE HardwareRejects \/ Crash
  BY <1>4, <1>12 DEF HardwareRejects, Crash
<1>13. CASE Restart
  <2>1. commitHash' = Chain(Height - 1)
    BY <1>0, <1>13 DEF Restart, LastPersistedCommitHash
  <2>2. /\ pc' \in {"refused", "recover"}
        /\ UNCHANGED <<blockStore, next, storeQueue, storing>>
    BY <1>13 DEF Restart, durable, goroutines
  <2>3. QED
    BY <2>1, <2>2
<1>14. CASE RecommitState \/ RecommitHistory
  BY <1>14 DEF RecommitState, RecommitHistory, mainThread, goroutines
<1>15. CASE Recovered
  <2>1. /\ next' = Height /\ pc' = "idle"
        /\ UNCHANGED <<blockStore, commitHash, storeQueue, storing>>
    BY <1>15 DEF Recovered, durable, goroutines
  <2>2. commitHash' = Chain(next' - 1)
    BY <1>15, <2>1 DEF Recovered
  <2>3. QED
    BY <1>0, <2>1, <2>2
<1>16. CASE UNCHANGED vars
  BY <1>16 DEF vars
<1>17. QED
  BY <1>1, <1>2, <1>3, <1>5, <1>6, <1>7, <1>8, <1>9, <1>10, <1>11, <1>12, <1>13,
     <1>14, <1>15, <1>16
  DEF Next, CommitterStep, WriterStep, StateStep, RecoveryStep, FaultStep

\* The phase of the sequential commit tells which call is in progress.
LEMMA PhaseInductive == TypeOK /\ QuietInv /\ PhaseInv /\ [Next]_vars => PhaseInv'
<1> SUFFICES ASSUME TypeOK, QuietInv, PhaseInv, [Next]_vars, ~conf'.parallel
             PROVE  PhaseInv'
  BY DEF PhaseInv
<1>0. ~conf.parallel /\ conf' = conf
  BY DEF Next, vars, CommitterStep, WriterStep, StateStep, RecoveryStep, FaultStep,
     StoreBlock, EnterPrepare, Prepare, CommitHistory, CommitPvt, AddBlock, CommitState,
     CommitStatePanics, Purge, Restart, RecommitState, RecommitHistory, Recovered,
     OrdererSends, HardwareRejects, CommitPvtFails, AddBlockFails, Crash
<1> USE <1>0 DEF PhaseInv, WriterCalls, BeforePrepare, Height
<1>1. CASE StoreBlock \/ EnterPrepare \/ OrdererSends
  BY <1>1 DEF StoreBlock, EnterPrepare, OrdererSends, durable, goroutines, mainThread
<1>2. CASE Prepare
  <2>1. /\ storeQueue' = {[num |-> next, hash |-> commitHash']} /\ storing' = {}
        /\ pc' = "store" /\ stateQueue' = {} /\ current' = next
        /\ UNCHANGED <<blockStore, next>> /\ Height = next
    BY <1>2 DEF Prepare, durable
  <2>2. QED
    BY <2>1
<1>3. CASE CommitHistory
  BY <1>3 DEF CommitHistory
<1>4. ASSUME ProcessDies PROVE PhaseInv'
  BY <1>4 DEF ProcessDies
<1>5. ASSUME NEW n \in purgeQueue, Purge(n) PROVE PhaseInv'
  BY <1>5 DEF Purge, mainThread
<1>6. ASSUME NEW b \in storeQueue, CommitPvt(b) PROVE PhaseInv'
  <2>1. pc = "store"
    BY <1>6, PhaseOfCalls
  <2>2. b.num = next /\ storeQueue = {b}
    BY <1>6, <2>1
  <2>3. /\ storeQueue' = {}
        /\ storing' = {[num |-> next, hash |-> b.hash, height |-> pvtHeight]}
        /\ UNCHANGED <<pc, next, blockStore, stateQueue, current>>
    BY <1>6, <2>2 DEF CommitPvt, mainThread
  <2>4. QED
    BY <2>1, <2>3
<1>7. ASSUME NEW b \in storing, AddBlock(b) PROVE PhaseInv'
  <2>1. pc = "store"
    BY <1>7, PhaseOfCalls
  <2>2. b.num = next /\ storeQueue = {} /\ stateQueue = {} /\ current = next
    BY <1>7, <2>1
  <2>3. /\ storeQueue' = {} /\ storing' = {} /\ pc' = "state"
        /\ stateQueue' = {next} /\ current' = next /\ next' = next
    BY <1>7, <2>2 DEF AddBlock
  <2>4. Len(blockStore') = next + 1
    BY <1>7, <2>1 DEF AddBlock, TypeOK, LockedStoreCall
  <2>5. QED
    BY <2>3, <2>4
<1>8. ASSUME NEW b \in storeQueue, CommitPvtFails(b) PROVE PhaseInv'
  BY <1>4, <1>8 DEF CommitPvtFails, WriterFails
<1>9. ASSUME NEW b \in storing, AddBlockFails(b) PROVE PhaseInv'
  BY <1>4, <1>9 DEF AddBlockFails, WriterFails
<1>10. ASSUME NEW n \in stateQueue, CommitState(n) PROVE PhaseInv'
  <2>1. pc = "state"
    BY <1>10, PhaseOfCalls
  <2>2. stateQueue' = {} /\ pc' = "history"
    BY <1>10, <2>1 DEF CommitState
  <2>3. UNCHANGED <<blockStore, next, storeQueue, storing>>
    BY <1>10 DEF CommitState
  <2>4. QED
    BY <2>1, <2>2, <2>3
<1>11. ASSUME NEW n \in stateQueue, CommitStatePanics(n) PROVE PhaseInv'
  BY <1>4, <1>11 DEF CommitStatePanics
<1>12. CASE HardwareRejects \/ Crash
  BY <1>4, <1>12 DEF HardwareRejects, Crash
<1>13. CASE Restart
  BY <1>13 DEF Restart
<1>14. CASE RecommitState \/ RecommitHistory
  BY <1>14 DEF RecommitState, RecommitHistory, mainThread, goroutines
<1>15. CASE Recovered
  BY <1>15 DEF Recovered, durable, goroutines, QuietInv, NotOpen
<1>16. CASE UNCHANGED vars
  BY <1>16 DEF vars
<1>17. QED
  BY <1>1, <1>2, <1>3, <1>5, <1>6, <1>7, <1>8, <1>9, <1>10, <1>11, <1>12, <1>13,
     <1>14, <1>15, <1>16
  DEF Next, CommitterStep, WriterStep, StateStep, RecoveryStep, FaultStep

-----------------------------------------------------------------------------
\* A ledger that has just been created satisfies the first parts of the invariant.
LEMMA FirstPartsInit == Init => QuietInv /\ PhaseInv /\ HashInv
<1> SUFFICES ASSUME Init PROVE QuietInv /\ PhaseInv /\ HashInv
  OBVIOUS
<1>1. NoHash = Chain(0)
  BY DEF NoHash, Chain
<1>2. HashInv
  BY <1>1 DEF Init, HashInv, BeforePrepare, AfterPrepare, WriterCalls, Height
<1>3. QED
  BY <1>2 DEF Init, QuietInv, NotOpen, PhaseInv, BeforePrepare, WriterCalls, Height

\* The hash stored with a block covers exactly the blocks up to it, whatever the
\* interleaving of the writers, the crashes and the failed writes: lastPersisted-
\* CommitHash always reloads the hash the chain goes on from.
THEOREM HashChainCorrect == Spec => []HashChain
<1> DEFINE Inv == TypeOK /\ QuietInv /\ PhaseInv /\ HashInv
<1>1. Init => Inv
  BY TypeInit, FirstPartsInit
<1>2. Inv /\ [Next]_vars => Inv'
  BY TypeInductive, QuietInductive, PhaseInductive, HashInductive
<1>3. Inv => HashChain
  BY DEF HashInv, HashChain, Chain, Height
<1>4. QED
  BY <1>1, <1>2, <1>3, PTL DEF Spec

-----------------------------------------------------------------------------
(* The private data store and the transient store.                          *)

\* No step changes the configuration, or takes a fault back.
LEMMA ConfIsFixed ==
  ASSUME TypeOK, [Next]_vars
  PROVE  conf' = conf /\ (faults' = 0 => faults = 0)
<1>1. conf' = conf
  BY DEF Next, vars, CommitterStep, WriterStep, StateStep, RecoveryStep, FaultStep,
     StoreBlock, EnterPrepare, Prepare, CommitHistory, CommitPvt, AddBlock, CommitState,
     CommitStatePanics, Purge, Restart, RecommitState, RecommitHistory, Recovered,
     OrdererSends, HardwareRejects, CommitPvtFails, AddBlockFails, Crash
<1>2. faults' = faults \/ faults' = faults + 1
  BY DEF Next, vars, CommitterStep, WriterStep, StateStep, RecoveryStep, FaultStep,
     StoreBlock, EnterPrepare, Prepare, CommitHistory, CommitPvt, AddBlock, CommitState,
     CommitStatePanics, Purge, Restart, RecommitState, RecommitHistory, Recovered,
     OrdererSends, HardwareRejects, CommitPvtFails, AddBlockFails, Crash, Fault, bounds
<1>3. QED
  BY <1>1, <1>2 DEF TypeOK

-----------------------------------------------------------------------------
(* The private data store is level with the block store or one ahead.      *)

\* Every step keeps the private data store level with the block store or one ahead.
LEMMA PvtInductive == TypeOK /\ QuietInv /\ PvtInv /\ [Next]_vars => PvtInv'
<1> SUFFICES ASSUME TypeOK, QuietInv, PvtInv, [Next]_vars,
                    ~conf'.parallel \/ faults' = 0
             PROVE  PvtInv'
  BY DEF PvtInv
<1>0. /\ ~conf.parallel \/ faults = 0
      /\ conf.parallel => conf'.parallel
      /\ Height \in Nat \ {0} /\ pvtHeight \in Nat
  BY ConfIsFixed, LastEntries DEF Height, TypeOK
<1> USE <1>0 DEF PvtInv, Height, Running
<1>1. CASE StoreBlock \/ EnterPrepare \/ OrdererSends
  BY <1>1 DEF StoreBlock, EnterPrepare, OrdererSends, durable, goroutines, mainThread
<1>2. CASE Prepare \/ CommitHistory
  BY <1>2 DEF Prepare, CommitHistory, durable
<1>3. ASSUME ProcessDies, UNCHANGED durable PROVE PvtInv'
  BY <1>3 DEF ProcessDies, durable
<1>4. ASSUME NEW n \in purgeQueue, Purge(n) PROVE PvtInv'
  BY <1>4 DEF Purge, mainThread
<1>5. ASSUME NEW b \in storeQueue, CommitPvt(b) PROVE PvtInv'
  <2>1. pc \notin {"down", "refused", "recover"}
    BY <1>5 DEF QuietInv, NotOpen
  <2>2. /\ storing = {} /\ b.num = pvtHeight
        /\ storing' = {[num |-> b.num, hash |-> b.hash, height |-> pvtHeight]}
        /\ pvtHeight' = IF pvtAhead THEN pvtHeight ELSE b.num + 1
        /\ UNCHANGED <<blockStore, pc, pvtAhead>>
    BY <1>5 DEF CommitPvt, StoreTurn, mainThread
  <2>3. \A c \in storing' : c.num = pvtHeight /\ c.height = pvtHeight
    BY <2>2
  <2>4. \A c, d \in storing' : c = d
    BY <2>2
  <2>5. CASE pvtAhead
    <3>1. pvtHeight = Height + 1 /\ pvtHeight' = Height + 1 /\ pvtAhead'
      BY <2>2, <2>5
    <3>2. QED
      BY <2>1, <2>2, <2>3, <2>4, <3>1
  <2>6. CASE ~pvtAhead
    <3>1. pvtHeight = Height /\ pvtHeight' = Height + 1 /\ ~pvtAhead'
      BY <2>1, <2>2, <2>6
    <3>2. storing' # {}
      BY <2>2
    <3>3. QED
      BY <2>1, <2>2, <2>3, <2>4, <3>1, <3>2
  <2>7. QED
    BY <2>5, <2>6
<1>6. ASSUME NEW b \in storing, AddBlock(b) PROVE PvtInv'
  <2>1. pc \notin {"down", "refused", "recover"}
    BY <1>6 DEF QuietInv, NotOpen
  <2>2. ~pvtAhead /\ b.height = Height /\ b.num = Height /\ pvtHeight = Height + 1
    BY <1>6, <2>1 DEF AddBlock
  <2>3. Len(blockStore') = Height + 1
    BY <1>6 DEF AddBlock, TypeOK, LockedStoreCall
  <2>4. storing' = {} /\ ~pvtAhead' /\ pvtHeight' = pvtHeight
    BY <1>6, <2>2 DEF AddBlock, TypeOK
  <2>5. pc' = pc \/ pc' = "state"
    BY <1>6 DEF AddBlock
  <2>6. QED
    BY <2>1, <2>2, <2>3, <2>4, <2>5
<1>7. ASSUME NEW b \in storeQueue, CommitPvtFails(b) PROVE PvtInv'
  BY <1>3, <1>7, ConfIsFixed DEF CommitPvtFails, WriterFails, Fault, TypeOK
<1>8. ASSUME NEW b \in storing, AddBlockFails(b) PROVE PvtInv'
  <2>1. CASE ProcessDies
    BY <1>3, <1>8, <2>1 DEF AddBlockFails
  <2>2. CASE ~ProcessDies
    <3>1. conf.parallel /\ faults' = 0
      BY <1>8, <2>2, ConfIsFixed DEF AddBlockFails, WriterFails
    <3>2. b.num # Height
      BY <1>8, <3>1 DEF AddBlockFails, Fault, TypeOK
    <3>3. pvtAhead
      BY <1>8, <3>2 DEF QuietInv, NotOpen
    <3>4. storing' = {} /\ UNCHANGED <<blockStore, pvtHeight, pvtAhead, pc>>
      BY <1>8, <2>2 DEF AddBlockFails, WriterFails, durable, mainThread
    <3>5. pc # "recover"
      BY <1>8 DEF QuietInv, NotOpen
    <3>6. QED
      BY <3>3, <3>4, <3>5
  <2>3. QED
    BY <2>1, <2>2
<1>9. ASSUME NEW n \in stateQueue, CommitState(n) PROVE PvtInv'
  <2>1. pc \notin {"down", "refused", "recover"}
    BY <1>9 DEF QuietInv, NotOpen
  <2>2. QED
    BY <1>9, <2>1 DEF CommitState
<1>10. ASSUME NEW n \in stateQueue, CommitStatePanics(n) PROVE PvtInv'
  BY <1>3, <1>10 DEF CommitStatePanics
<1>11. CASE HardwareRejects \/ Crash
  BY <1>3, <1>11 DEF HardwareRejects, Crash
<1>12. CASE Restart
  <2>1. storing = {}
    BY <1>12 DEF Restart, QuietInv, NotOpen
  <2>2. /\ pvtAhead' = (pvtHeight > Height) /\ storing' = {}
        /\ pc' \in {"refused", "recover"}
        /\ UNCHANGED <<blockStore, pvtHeight>>
    BY <1>12, <2>1 DEF Restart, AheadOfBlockStore, goroutines, durable
  <2>3. CASE pvtHeight = Height
    <3>1. ~(pvtHeight > Height)
      BY <2>3
    <3>2. ~pvtAhead'
      BY <2>2, <3>1, Zenon
    <3>3. QED
      BY <2>2, <2>3, <3>2
  <2>4. CASE pvtHeight = Height + 1
    <3>1. pvtHeight > Height
      BY <2>4
    <3>2. pvtAhead'
      BY <2>2, <3>1, Zenon
    <3>3. QED
      BY <2>2, <2>4, <3>2
  <2>5. QED
    BY <2>3, <2>4
<1>13. CASE RecommitState \/ RecommitHistory
  BY <1>13 DEF RecommitState, RecommitHistory, mainThread, goroutines
<1>14. CASE Recovered
  BY <1>14 DEF Recovered, durable, goroutines, QuietInv, NotOpen
<1>15. CASE UNCHANGED vars
  BY <1>15 DEF vars
<1>16. QED
  BY <1>1, <1>2, <1>4, <1>5, <1>6, <1>7, <1>8, <1>9, <1>10, <1>11, <1>12, <1>13,
     <1>14, <1>15
  DEF Next, CommitterStep, WriterStep, StateStep, RecoveryStep, FaultStep

-----------------------------------------------------------------------------
(* What the transient store has lost, the private data store has.          *)

\* The height of the private data store never falls.
LEMMA PvtHeightGrows ==
  ASSUME TypeOK, [Next]_vars
  PROVE  pvtHeight \in Nat /\ pvtHeight' \in Nat /\ pvtHeight <= pvtHeight'
<1>1. CASE \E b \in storeQueue : CommitPvt(b)
  BY <1>1 DEF CommitPvt, StoreTurn, TypeOK
<1>2. CASE pvtHeight' = pvtHeight
  BY <1>2 DEF TypeOK
<1>3. QED
  BY <1>1, <1>2 DEF Next, vars, CommitterStep, WriterStep, StateStep, RecoveryStep,
     FaultStep, StoreBlock, EnterPrepare, Prepare, CommitHistory, AddBlock, CommitState,
     CommitStatePanics, Purge, Restart, RecommitState, RecommitHistory, Recovered,
     OrdererSends, HardwareRejects, CommitPvtFails, AddBlockFails, Crash, durable

\* Every step keeps it that only what the private data store holds is purged.
LEMMA PurgeInductive ==
  TypeOK /\ PhaseInv /\ PvtInv /\ PurgeInv /\ [Next]_vars => PurgeInv'
<1> SUFFICES ASSUME TypeOK, PhaseInv, PvtInv, PurgeInv, [Next]_vars, ~conf'.parallel,
                    NEW n \in purgeQueue'
             PROVE  n < pvtHeight'
  BY DEF PurgeInv
<1>1. ~conf.parallel /\ pvtHeight <= pvtHeight' /\ pvtHeight \in Nat /\ pvtHeight' \in Nat
  BY ConfIsFixed, PvtHeightGrows
<1>2. CASE n \in purgeQueue
  BY <1>1, <1>2 DEF PurgeInv, TypeOK
<1>3. CASE n \notin purgeQueue
  <2>1. CommitHistory /\ n = next
    BY <1>3 DEF Next, vars, CommitterStep, WriterStep, StateStep, RecoveryStep,
     FaultStep, StoreBlock, EnterPrepare, Prepare, CommitHistory, PurgeAfterCommit,
     CommitPvt, AddBlock, CommitState, CommitStatePanics, Purge, Restart, RecommitState,
     RecommitHistory, Recovered, OrdererSends, HardwareRejects, CommitPvtFails,
     AddBlockFails, WriterFails, Crash, ProcessDies, goroutines
  <2>2. Height = next + 1 /\ pvtHeight >= Height /\ next \in Nat
    BY <1>1, <2>1, LastEntries DEF CommitHistory, PhaseInv, PvtInv, Height, TypeOK
  <2>3. QED
    BY <1>1, <2>1, <2>2
<1>4. QED
  BY <1>2, <1>3

\* Every step keeps the private data that is not stored yet in the transient store.
LEMMA SurvivalInductive ==
  TypeOK /\ PurgeInv /\ PvtDataSurvives /\ [Next]_vars => PvtDataSurvives'
<1> SUFFICES ASSUME TypeOK, PurgeInv, PvtDataSurvives, [Next]_vars, ~conf'.parallel,
                    NEW n \in pvtHeight'..MaxBlock
             PROVE  n \in transient'
  BY DEF PvtDataSurvives
<1>1. ~conf.parallel /\ pvtHeight <= pvtHeight' /\ pvtHeight \in Nat /\ pvtHeight' \in Nat
  BY ConfIsFixed, PvtHeightGrows
<1>2. n \in transient
  BY <1>1, BoundsAssumption DEF PvtDataSurvives
<1>3. CASE \E m \in purgeQueue : Purge(m)
  <2>1. PICK m \in purgeQueue : Purge(m)
    BY <1>3
  <2>2. m < pvtHeight /\ m \in Nat /\ transient' = transient \ {m}
    BY <1>1, <2>1 DEF PurgeInv, Purge, TypeOK
  <2>3. QED
    BY <1>1, <1>2, <2>2
<1>4. CASE transient' = transient
  BY <1>2, <1>4
<1>5. QED
  BY <1>3, <1>4 DEF Next, vars, CommitterStep, WriterStep, StateStep, RecoveryStep,
     FaultStep, StoreBlock, EnterPrepare, Prepare, CommitHistory, CommitPvt, AddBlock,
     CommitState, CommitStatePanics, Restart, RecommitState, RecommitHistory,
     Recovered, OrdererSends, HardwareRejects, CommitPvtFails, AddBlockFails, Crash,
     durable

\* A ledger that has just been created satisfies the parts on private data.
LEMMA PvtPartsInit == Init => PvtInv /\ PurgeInv /\ PvtDataSurvives
BY DEF Init, PvtInv, PurgeInv, PvtDataSurvives, Height, Running

\* The private data store is level with the block store or one block ahead of it,
\* unless a write of the parallel commit has failed.
THEOREM PvtGapCorrect == Spec => []PvtGap
<1> DEFINE Inv == TypeOK /\ QuietInv /\ PvtInv
<1>1. Init => Inv
  BY TypeInit, FirstPartsInit, PvtPartsInit
<1>2. Inv /\ [Next]_vars => Inv'
  BY TypeInductive, QuietInductive, PvtInductive
<1>3. Inv => PvtGap
  BY LastEntries DEF PvtInv, PvtGap, Height, TypeOK
<1>4. QED
  BY <1>1, <1>2, <1>3, PTL DEF Spec

\* The sequential commit never purges private data from the transient store that a
\* crash could still make it need: all of it from the private data store's height
\* on is there.
THEOREM PvtDataCorrect == Spec => []PvtDataSurvives
<1> DEFINE Inv == /\ TypeOK /\ QuietInv /\ PhaseInv /\ PvtInv /\ PurgeInv
                  /\ PvtDataSurvives
<1>1. Init => Inv
  BY TypeInit, FirstPartsInit, PvtPartsInit
<1>2. Inv /\ [Next]_vars => Inv'
  BY TypeInductive, QuietInductive, PhaseInductive, PvtInductive, PurgeInductive,
     SurvivalInductive
<1>3. QED
  BY <1>1, <1>2, PTL DEF Spec

-----------------------------------------------------------------------------
(* The databases: which blocks the state and the history database hold in  *)
(* every phase, crash and recovery, that batches are applied in order, and *)
(* that the commit implements Ledger.                                      *)

\* A failed write changes no store; the process dies or, in the parallel commit,
\* nothing but the queues of writes changes.
LEMMA FailedWrite ==
  ASSUME NEW b, CommitPvtFails(b) \/ AddBlockFails(b)
  PROVE  /\ UNCHANGED <<conf, durable>>
         /\ \/ ProcessDies
            \/ conf.parallel /\ UNCHANGED <<mainThread, current, stateQueue, recovery>>
BY DEF CommitPvtFails, AddBlockFails, WriterFails

-----------------------------------------------------------------------------
(* Lemmas about the state database as a sequence of blocks.                *)

\* With one batch per block in block order, the savepoint is the last batch.
LEMMA SavepointOfOrder ==
  ASSUME TypeOK, AppliedInOrder, Synchronised
  PROVE  Savepoint = Len(stateDb) - 1
BY LastEntries DEF AppliedInOrder, Savepoint

\* Appending the next number keeps a sequence of numbers in order.
LEMMA AppendInOrder ==
  ASSUME NEW s \in Seq(Nat), \A i \in 1..Len(s) : s[i] = i - 1
  PROVE  LET t == Append(s, Len(s))
         IN  Len(t) = Len(s) + 1 /\ \A i \in 1..Len(t) : t[i] = i - 1
OBVIOUS

\* How much of a block store the state database is to hold.
LEMMA ReachOfHeight ==
  ASSUME TypeOK, NEW h \in Nat \ {0}
  PROVE  /\ StateShouldReach(h) \in Nat \ {0}
         /\ StateShouldReach(h) <= h
         /\ StateShouldReach(h) # h =>
              conf.hw /\ ~conf.swStateDb /\ StateShouldReach(h) = conf.startingBlock
         /\ conf.hw /\ ~conf.swStateDb => StateShouldReach(h) <= conf.startingBlock
         /\ StateShouldReach(h + 1) =
              IF WritesState(h) THEN StateShouldReach(h) + 1 ELSE StateShouldReach(h)
         /\ WritesState(h) => StateShouldReach(h) = h
<1>1. conf.startingBlock \in Nat \ {0}
  BY ConfigurationTypes
<1>2. QED
  BY <1>1 DEF StateShouldReach, WritesState

\* The block whose batch a commit finds is the one after the savepoint, if its
\* updates are to be written at all.
LEMMA CommittedBlock ==
  ASSUME TypeOK, QuietInv, PhaseInv, HashInv, StateInv, TurnInv, Synchronised,
         NEW n \in stateQueue, CommitState(n), WritesState(current)
  PROVE  current = Len(stateDb)
<1>1. CASE conf.parallel
  BY <1>1 DEF TurnInv
<1>2. CASE ~conf.parallel
  <2>1. pc = "state"
    BY <1>2, PhaseOfCalls
  <2>2. /\ current = next /\ Height = next + 1 /\ next \in Nat \ {0}
        /\ Len(stateDb) = StateShouldReach(Height - 1)
    BY <1>2, <2>1 DEF PhaseInv, StateInv, HashInv, Running, TypeOK
  <2>3. QED
    BY <2>2, ReachOfHeight
<1>3. QED
  BY <1>1, <1>2

\* The same for a recommit.
LEMMA RecommittedBlock ==
  ASSUME TypeOK, StateInv, AppliedInOrder, Synchronised, RecommitState,
         WritesState(recState)
  PROVE  recState = Len(stateDb)
<1>1. Savepoint + 1 = Len(stateDb)
  BY LastEntries, SavepointOfOrder
<1>2. CASE recState = Savepoint + 1
  BY <1>1, <1>2
<1>3. CASE conf.hw /\ ~conf.swStateDb
  <2>1. ~conf.parallel /\ pc = "recover"
    BY <1>3 DEF Synchronised, RecommitState
  <2>2. /\ recState < conf.startingBlock /\ Len(stateDb) <= recState
        /\ recState > Len(stateDb) => Len(stateDb) = conf.startingBlock
    BY <1>3, <2>1 DEF WritesState, StateInv
  <2>3. QED
    BY <2>2, ConfigurationTypes, LastEntries DEF TypeOK
<1>4. QED
  BY <1>2, <1>3 DEF RecommitState, PrepareTurn

-----------------------------------------------------------------------------
(* Every batch is applied once and in block order.                         *)

\* Every step keeps the batches in block order, if the stores are synchronised.
LEMMA AppliedInductive ==
  /\ TypeOK /\ QuietInv /\ PhaseInv /\ HashInv /\ StateInv /\ TurnInv
  /\ AppliedInOrder /\ [Next]_vars
  => AppliedInOrder'
<1> SUFFICES ASSUME TypeOK, QuietInv, PhaseInv, HashInv, StateInv, TurnInv,
                    AppliedInOrder, [Next]_vars, Synchronised'
             PROVE  \A i \in 1..Len(stateDb') : stateDb'[i] = i - 1
  BY DEF AppliedInOrder
<1>1. Synchronised
  BY ConfIsFixed DEF Synchronised
<1>2. stateDb \in Seq(Nat) /\ \A i \in 1..Len(stateDb) : stateDb[i] = i - 1
  BY <1>1 DEF AppliedInOrder, TypeOK
<1>3. CASE stateDb' = stateDb
  BY <1>2, <1>3
<1>4. ASSUME NEW n \in stateQueue, CommitState(n), WritesState(current)
      PROVE  \A i \in 1..Len(stateDb') : stateDb'[i] = i - 1
  <2>1. stateDb' = Append(stateDb, Len(stateDb))
    BY <1>1, <1>4, CommittedBlock DEF CommitState, Batch
  <2>2. QED
    BY <1>2, <2>1, AppendInOrder
<1>5. ASSUME RecommitState, WritesState(recState)
      PROVE  \A i \in 1..Len(stateDb') : stateDb'[i] = i - 1
  <2>1. stateDb' = Append(stateDb, Len(stateDb))
    BY <1>1, <1>5, RecommittedBlock DEF RecommitState, Batch
  <2>2. QED
    BY <1>2, <2>1, AppendInOrder
<1>6. QED
  BY <1>3, <1>4, <1>5 DEF Next, vars, CommitterStep, WriterStep, StateStep,
     RecoveryStep, FaultStep, StoreBlock, EnterPrepare, Prepare, CommitHistory,
     CommitPvt, AddBlock, CommitState, Batch, CommitStatePanics, Purge, Restart,
     RecommitState, RecommitHistory, Recovered, OrdererSends, HardwareRejects,
     CommitPvtFails, AddBlockFails, Crash, durable

\* One waiting state commit at most, and none while a block is validated.
LEMMA TurnInductive ==
  TypeOK /\ QuietInv /\ AppliedInOrder /\ TurnInv /\ [Next]_vars => TurnInv'
<1> SUFFICES ASSUME TypeOK, QuietInv, AppliedInOrder, TurnInv, [Next]_vars,
                    conf'.parallel, Synchronised'
             PROVE  TurnInv'
  BY DEF TurnInv
<1>0. conf.parallel /\ Synchronised /\ conf' = conf
  BY ConfIsFixed DEF Synchronised
<1> USE <1>0 DEF TurnInv
<1>1. CASE StoreBlock \/ OrdererSends
  BY <1>1 DEF StoreBlock, OrdererSends, durable, goroutines, mainThread
<1>2. CASE EnterPrepare
  <2>1. next = Len(stateDb) /\ pc = "turn"
    BY <1>2, LastEntries, SavepointOfOrder DEF EnterPrepare, PrepareTurn, Synchronised
  <2>2. stateQueue = {}
    BY <2>1, LastEntries
  <2>3. UNCHANGED <<stateDb, stateQueue, next>>
    BY <1>2 DEF EnterPrepare, durable, goroutines
  <2>4. QED
    BY <2>1, <2>2, <2>3
<1>3. CASE Prepare
  <2>1. /\ stateQueue' = {next} /\ current' = next /\ pc' = "history"
        /\ next = Len(stateDb)
        /\ UNCHANGED <<next, stateDb>>
    BY <1>3 DEF Prepare, durable
  <2>2. QED
    BY <2>1
<1>4. CASE CommitHistory
  <2>1. /\ next' = next + 1 /\ pc' = "idle" /\ next \in Nat
        /\ UNCHANGED <<stateDb, stateQueue, current>>
    BY <1>4 DEF CommitHistory, TypeOK
  <2>2. \A m \in stateQueue : m = Len(stateDb) /\ current = m /\ m <= next
    BY <1>4, LastEntries, <2>1
  <2>3. QED
    BY <2>1, <2>2, LastEntries
<1>5. ASSUME NEW n \in purgeQueue, Purge(n) PROVE TurnInv'
  BY <1>5 DEF Purge, mainThread
<1>6. ASSUME NEW b \in storeQueue, CommitPvt(b) PROVE TurnInv'
  BY <1>6 DEF CommitPvt, mainThread
<1>7. ASSUME NEW b \in storing, AddBlock(b) PROVE TurnInv'
  BY <1>7 DEF AddBlock
<1>8. ASSUME NEW n \in stateQueue, CommitState(n) PROVE TurnInv'
  <2>1. \A m \in stateQueue : m = n
    BY <1>8
  <2>2. stateQueue' = {} /\ pc' # "prepare"
    BY <1>8, <2>1 DEF CommitState
  <2>3. QED
    BY <2>2
<1>9. ASSUME ProcessDies PROVE TurnInv'
  BY <1>9 DEF ProcessDies
<1>10. ASSUME NEW b, CommitPvtFails(b) \/ AddBlockFails(b) PROVE TurnInv'
  BY <1>9, <1>10, FailedWrite DEF mainThread, durable
<1>11. ASSUME NEW n \in stateQueue, CommitStatePanics(n) PROVE TurnInv'
  BY <1>9, <1>11 DEF CommitStatePanics
<1>12. CASE HardwareRejects \/ Crash
  BY <1>9, <1>12 DEF HardwareRejects, Crash
<1>13. CASE Restart \/ RecommitState \/ RecommitHistory \/ Recovered
  <2>1. stateQueue' = {} /\ pc' # "prepare"
    BY <1>13 DEF Restart, RecommitState, RecommitHistory, Recovered, goroutines,
       mainThread, QuietInv, NotOpen
  <2>2. QED
    BY <2>1
<1>14. CASE UNCHANGED vars
  BY <1>14 DEF vars
<1>15. QED
  BY <1>1, <1>2, <1>3, <1>4, <1>5, <1>6, <1>7, <1>8, <1>10, <1>11, <1>12, <1>13,
     <1>14
  DEF Next, CommitterStep, WriterStep, StateStep, RecoveryStep, FaultStep

-----------------------------------------------------------------------------
(* What the state database of the sequential commit holds in every phase.  *)

\* A recommit brings the state database one block nearer to the block store.
LEMMA RecommitReaches ==
  ASSUME TypeOK, AppliedInOrder, StateInv, ~conf.parallel, RecommitState
  PROVE  /\ recState' = recState + 1 /\ recState' <= Height
         /\ Len(stateDb') <= recState'
         /\ recState' > Len(stateDb') =>
              conf.hw /\ ~conf.swStateDb /\ Len(stateDb') = conf.startingBlock
         /\ Len(stateDb') \in {StateShouldReach(Height), StateShouldReach(Height - 1)}
         /\ Height > 1
<1>1. Synchronised /\ pc = "recover" /\ recState < Height /\ recState' = recState + 1
  BY DEF Synchronised, RecommitState, Recommits, Height
<1>2. /\ Height \in Nat \ {0} /\ Len(stateDb) \in Nat \ {0} /\ recState \in Nat
      /\ Len(stateDb) <= recState
      /\ recState > Len(stateDb) =>
           conf.hw /\ ~conf.swStateDb /\ Len(stateDb) = conf.startingBlock
  BY <1>1, LastEntries DEF StateInv, Height, TypeOK
<1>3. /\ Height > 1
      /\ Len(stateDb) \in {StateShouldReach(Height), StateShouldReach(Height - 1)}
  BY <1>1, <1>2 DEF StateInv, NotOpen
<1>4. Height - 1 \in Nat \ {0} /\ (Height - 1) + 1 = Height
  BY <1>2, <1>3
<1>5. conf.startingBlock \in Nat \ {0}
  BY ConfigurationTypes
<1>6. CASE WritesState(recState)
  <2>1. recState = Len(stateDb) /\ stateDb' = Append(stateDb, recState)
    BY <1>1, <1>6, RecommittedBlock DEF RecommitState, Batch
  <2>2. Len(stateDb') = recState + 1
    BY <2>1 DEF TypeOK
  <2>3. Len(stateDb) = Height - 1
    <3>1. conf.hw /\ ~conf.swStateDb => recState < conf.startingBlock
      BY <1>6 DEF WritesState
    <3>2. /\ StateShouldReach(Height) # Height =>
               /\ conf.hw /\ ~conf.swStateDb
               /\ StateShouldReach(Height) = conf.startingBlock
          /\ StateShouldReach(Height - 1) # Height - 1 =>
               /\ conf.hw /\ ~conf.swStateDb
               /\ StateShouldReach(Height - 1) = conf.startingBlock
      BY <1>2, <1>4, ReachOfHeight
    <3>3. QED
      BY <1>1, <1>2, <1>3, <1>5, <2>1, <3>1, <3>2
  <2>4. StateShouldReach(Height) = Height
    BY <1>2, <1>4, <1>5, <1>6, <2>1, <2>3 DEF StateShouldReach, WritesState
  <2>5. QED
    BY <1>1, <1>2, <1>3, <2>1, <2>2, <2>3, <2>4
<1>7. CASE ~WritesState(recState)
  <2>1. Len(stateDb') = Len(stateDb)
    BY <1>7 DEF RecommitState, Batch
  <2>2. conf.hw /\ ~conf.swStateDb /\ recState >= conf.startingBlock
    BY <1>2, <1>5, <1>7 DEF WritesState
  <2>3. Len(stateDb) <= conf.startingBlock
    BY <1>2, <1>3, <1>4, <2>2, ReachOfHeight
  <2>4. Len(stateDb) = conf.startingBlock
    BY <1>2, <1>5, <2>2, <2>3
  <2>5. QED
    BY <1>1, <1>2, <1>3, <2>1, <2>2, <2>4
<1>8. QED
  BY <1>6, <1>7

\* Every step keeps the state database as far as its phase says.
LEMMA StateInductive ==
  /\ TypeOK /\ QuietInv /\ PhaseInv /\ HashInv /\ AppliedInOrder /\ StateInv
  /\ [Next]_vars
  => StateInv'
<1> SUFFICES ASSUME TypeOK, QuietInv, PhaseInv, HashInv, AppliedInOrder, StateInv,
                    [Next]_vars, ~conf'.parallel
             PROVE  StateInv'
  BY DEF StateInv
<1>0. ~conf.parallel /\ conf' = conf /\ Synchronised
  BY ConfIsFixed DEF Synchronised
<1>a. Height \in Nat \ {0} /\ Len(stateDb) \in Nat \ {0} /\ next \in Nat
  BY LastEntries DEF Height, TypeOK
<1> USE <1>0 DEF StateInv, NotOpen, BeforePrepare, Height, StateShouldReach
<1>1. CASE StoreBlock \/ EnterPrepare \/ OrdererSends
  BY <1>1 DEF StoreBlock, EnterPrepare, OrdererSends, durable, recovery, mainThread
<1>2. CASE Prepare \/ CommitHistory
  BY <1>2 DEF Prepare, CommitHistory, durable
<1>3. ASSUME ProcessDies, UNCHANGED durable PROVE StateInv'
  <2>1. pc' = "down" /\ UNCHANGED <<blockStore, stateDb>>
    BY <1>3 DEF ProcessDies, durable
  <2>2. pc = "state" => Height > 1
    BY <1>a DEF PhaseInv, HashInv, Running
  <2>3. QED
    BY <2>1, <2>2 DEF TypeOK, Phases
<1>4. ASSUME NEW n \in purgeQueue, Purge(n) PROVE StateInv'
  BY <1>4 DEF Purge, mainThread, recovery
<1>5. ASSUME NEW b \in storeQueue, CommitPvt(b) PROVE StateInv'
  BY <1>5 DEF CommitPvt, mainThread, recovery
<1>6. ASSUME NEW b \in storing, AddBlock(b) PROVE StateInv'
  <2>1. pc = "store" /\ pc' = "state" /\ UNCHANGED stateDb
    BY <1>6, PhaseOfCalls DEF AddBlock, WriterCalls
  <2>2. Len(blockStore') = Height + 1
    BY <1>6 DEF AddBlock, TypeOK, LockedStoreCall
  <2>3. (Height + 1) - 1 = Height
    BY <1>a
  <2>4. QED
    BY <2>1, <2>2, <2>3
<1>7. ASSUME NEW b, CommitPvtFails(b) \/ AddBlockFails(b) PROVE StateInv'
  BY <1>3, <1>7, FailedWrite
<1>8. ASSUME NEW n \in stateQueue, CommitState(n) PROVE StateInv'
  <2>1. pc = "state"
    BY <1>8, PhaseOfCalls
  <2>2. /\ pc' = "history" /\ UNCHANGED blockStore
        /\ stateDb' = Batch(next)
        /\ Height = next + 1 /\ next \in Nat \ {0}
        /\ Len(stateDb) = StateShouldReach(next)
    BY <1>8, <1>a, <2>1 DEF CommitState, PhaseInv, HashInv, Running
  <2>3. Len(stateDb') = IF WritesState(next) THEN Len(stateDb) + 1 ELSE Len(stateDb)
    BY <2>2 DEF Batch, TypeOK
  <2>4. Len(stateDb') = StateShouldReach(next + 1)
    BY <2>2, <2>3, ReachOfHeight
  <2>5. QED
    BY <2>2, <2>4
<1>9. ASSUME NEW n \in stateQueue, CommitStatePanics(n) PROVE StateInv'
  BY <1>3, <1>9 DEF CommitStatePanics
<1>10. CASE HardwareRejects \/ Crash
  BY <1>3, <1>10 DEF HardwareRejects, Crash
<1>11. CASE Restart
  <2>1. /\ pc = "down" /\ pc' \in {"refused", "recover"}
        /\ UNCHANGED <<blockStore, stateDb>> /\ recState' = Len(stateDb)
    BY <1>11, <1>a, SavepointOfOrder DEF Restart, StateHeight, durable
  <2>2. Len(stateDb) <= Height
    BY <1>a, <2>1, ConfigurationTypes
  <2>3. QED
    BY <1>a, <2>1, <2>2
<1>12. CASE RecommitState
  <2>1. pc' = "recover" /\ blockStore' = blockStore
    BY <1>12 DEF RecommitState, mainThread
  <2>2. QED
    BY <1>12, <2>1, RecommitReaches
<1>13. CASE RecommitHistory
  BY <1>13 DEF RecommitHistory, mainThread
<1>14. CASE Recovered
  <2>1. /\ pc = "recover" /\ pc' = "idle" /\ UNCHANGED <<blockStore, stateDb>>
        /\ recState = Height /\ recState \in Nat
    BY <1>14, <1>a DEF Recovered, durable, TypeOK
  <2>2. Len(stateDb) = StateShouldReach(Height)
    BY <1>a, <2>1, ConfigurationTypes
  <2>3. QED
    BY <2>1, <2>2
<1>15. CASE UNCHANGED vars
  BY <1>15 DEF vars
<1>16. QED
  BY <1>1, <1>2, <1>4, <1>5, <1>6, <1>7, <1>8, <1>9, <1>10, <1>11, <1>12, <1>13,
     <1>14, <1>15
  DEF Next, CommitterStep, WriterStep, StateStep, RecoveryStep, FaultStep

\* The same for the history database, which every configuration writes in full.
LEMMA HistoryInductive ==
  TypeOK /\ QuietInv /\ PhaseInv /\ HistoryInv /\ [Next]_vars => HistoryInv'
<1> SUFFICES ASSUME TypeOK, QuietInv, PhaseInv, HistoryInv, [Next]_vars,
                    ~conf'.parallel, conf'.history
             PROVE  HistoryInv'
  BY DEF HistoryInv
<1>0. ~conf.parallel /\ conf.history /\ conf' = conf
  BY ConfIsFixed
<1>a. Height \in Nat \ {0} /\ historyHeight \in Nat /\ next \in Nat
  BY LastEntries DEF Height, TypeOK
<1> USE <1>0, <1>a DEF HistoryInv, NotOpen, BeforePrepare, Height
<1>1. CASE StoreBlock \/ EnterPrepare \/ OrdererSends
  BY <1>1 DEF StoreBlock, EnterPrepare, OrdererSends, durable, recovery, mainThread
<1>2. CASE Prepare
  BY <1>2 DEF Prepare, durable
<1>3. CASE CommitHistory
  BY <1>3 DEF CommitHistory, PhaseInv
<1>4. ASSUME ProcessDies, UNCHANGED durable PROVE HistoryInv'
  BY <1>4 DEF ProcessDies, durable, TypeOK, Phases
<1>5. ASSUME NEW n \in purgeQueue, Purge(n) PROVE HistoryInv'
  BY <1>5 DEF Purge, mainThread, recovery
<1>6. ASSUME NEW b \in storeQueue, CommitPvt(b) PROVE HistoryInv'
  BY <1>6 DEF CommitPvt, mainThread, recovery
<1>7. ASSUME NEW b \in storing, AddBlock(b) PROVE HistoryInv'
  <2>1. pc = "store" /\ pc' = "state" /\ UNCHANGED historyHeight
    BY <1>7, PhaseOfCalls DEF AddBlock, WriterCalls
  <2>2. Len(blockStore') = Height + 1
    BY <1>7 DEF AddBlock, TypeOK, LockedStoreCall
  <2>3. QED
    BY <2>1, <2>2
<1>8. ASSUME NEW b, CommitPvtFails(b) \/ AddBlockFails(b) PROVE HistoryInv'
  BY <1>4, <1>8, FailedWrite
<1>9. ASSUME NEW n \in stateQueue, CommitState(n) PROVE HistoryInv'
  <2>1. pc = "state"
    BY <1>9, PhaseOfCalls
  <2>2. pc' = "history" /\ UNCHANGED <<blockStore, historyHeight>>
    BY <1>9 DEF CommitState
  <2>3. QED
    BY <2>1, <2>2
<1>10. ASSUME NEW n \in stateQueue, CommitStatePanics(n) PROVE HistoryInv'
  BY <1>4, <1>10 DEF CommitStatePanics
<1>11. CASE HardwareRejects \/ Crash
  BY <1>4, <1>11 DEF HardwareRejects, Crash
<1>12. CASE Restart
  BY <1>12 DEF Restart, durable
<1>13. CASE RecommitState
  BY <1>13 DEF RecommitState, mainThread
<1>14. CASE RecommitHistory
  BY <1>14 DEF RecommitHistory, Recommits, mainThread
<1>15. CASE Recovered
  BY <1>15 DEF Recovered, durable
<1>16. CASE UNCHANGED vars
  BY <1>16 DEF vars
<1>17. QED
  BY <1>1, <1>2, <1>3, <1>5, <1>6, <1>7, <1>8, <1>9, <1>10, <1>11, <1>12, <1>13,
     <1>14, <1>15, <1>16
  DEF Next, CommitterStep, WriterStep, StateStep, RecoveryStep, FaultStep

\* No database of the sequential commit is ahead of the block store.
LEMMA OpensInductive ==
  /\ TypeOK /\ AppliedInOrder /\ StateInv /\ HistoryInv /\ OpensAfterCrash
  /\ [Next]_vars
  => OpensAfterCrash'
<1> SUFFICES ASSUME TypeOK, AppliedInOrder, StateInv, HistoryInv, OpensAfterCrash,
                    [Next]_vars, ~conf'.parallel
             PROVE  pc' # "refused"
  BY DEF OpensAfterCrash
<1>1. ~conf.parallel /\ Synchronised /\ pc # "refused"
  BY ConfIsFixed DEF Synchronised, OpensAfterCrash
<1>2. CASE Restart
  <2>1. StateHeight = Len(stateDb) /\ Len(stateDb) \in Nat /\ Height \in Nat \ {0}
    BY <1>1, LastEntries, SavepointOfOrder DEF StateHeight, Height
  <2>2. Len(stateDb) <= Height
    BY <1>1, <1>2, <2>1, ConfigurationTypes
    DEF Restart, StateInv, NotOpen, StateShouldReach
  <2>3. conf.history => historyHeight <= Height
    BY <1>1, <1>2, <2>1 DEF Restart, HistoryInv, NotOpen
  <2>4. QED
    BY <1>2, <2>1, <2>2, <2>3 DEF Restart, AheadOfBlockStore, Height, TypeOK
<1>3. CASE pc' = pc \/ ProcessDies
  BY <1>1, <1>3 DEF ProcessDies
<1>4. CASE pc' \in {"turn", "prepare", "store", "history", "state", "idle"}
  BY <1>4
<1>5. QED
  BY <1>1, <1>2, <1>3, <1>4 DEF Next, vars, CommitterStep, WriterStep, StateStep,
     RecoveryStep, FaultStep, StoreBlock, EnterPrepare, Prepare, CommitHistory,
     CommitPvt, AddBlock, CommitState, CommitStatePanics, Purge, RecommitState,
     RecommitHistory, Recovered, OrdererSends, HardwareRejects, CommitPvtFails,
     AddBlockFails, WriterFails, Crash, mainThread

-----------------------------------------------------------------------------
(* Two parts that hold in the unsynchronised configurations as well.       *)

\* A batch that is appended is the savepoint.
LEMMA AppendLast ==
  ASSUME TypeOK, NEW n \in Nat, stateDb' = Append(stateDb, n)
  PROVE  Len(stateDb') = Len(stateDb) + 1 /\ Savepoint' = n
BY DEF TypeOK, Savepoint

\* Every step keeps the savepoint behind the blocks that may still be written.
LEMMA OrderInductive == TypeOK /\ QuietInv /\ OrderInv /\ [Next]_vars => OrderInv'
<1> SUFFICES ASSUME TypeOK, QuietInv, OrderInv, [Next]_vars PROVE OrderInv'
  OBVIOUS
<1>0. /\ Height \in Nat \ {0} /\ Len(stateDb) \in Nat \ {0} /\ Savepoint \in Nat
      /\ next \in Nat /\ current \in Nat \union {NoBlock} /\ recState \in Nat
  BY LastEntries DEF Height, TypeOK
<1>a. stateDb' = stateDb => Savepoint' = Savepoint
  BY DEF Savepoint
<1> USE <1>0, <1>a DEF OrderInv, BeforePrepare, AfterPrepare, NoBlock
<1>1. CASE StoreBlock \/ EnterPrepare \/ OrdererSends
  BY <1>1 DEF StoreBlock, EnterPrepare, OrdererSends, durable, mainThread, recovery,
     Height
<1>2. CASE Prepare
  <2>1. /\ current' = next /\ pc' \in {"store", "history"} /\ Savepoint < next
        /\ UNCHANGED <<stateDb, next>>
    BY <1>2 DEF Prepare, durable
  <2>2. QED
    BY <2>1
<1>3. CASE CommitHistory
  BY <1>3 DEF CommitHistory
<1>4. ASSUME ProcessDies, UNCHANGED durable PROVE OrderInv'
  BY <1>4 DEF ProcessDies, durable
<1>5. ASSUME NEW n \in purgeQueue, Purge(n) PROVE OrderInv'
  BY <1>5 DEF Purge, mainThread, recovery, Height
<1>6. ASSUME NEW b \in storeQueue, CommitPvt(b) PROVE OrderInv'
  BY <1>6 DEF CommitPvt, mainThread, recovery, Height
<1>7. ASSUME NEW b \in storing, AddBlock(b) PROVE OrderInv'
  <2>1. pc # "recover"
    BY <1>7 DEF QuietInv, NotOpen
  <2>2. pc' = pc \/ pc' = "state"
    BY <1>7 DEF AddBlock
  <2>3. UNCHANGED <<stateDb, current, next>>
    BY <1>7 DEF AddBlock
  <2>4. Savepoint <= next /\ current <= next
    BY <1>7 DEF QuietInv, NotOpen, TypeOK, Phases
  <2>5. QED
    BY <2>1, <2>2, <2>3, <2>4
<1>8. ASSUME NEW b, CommitPvtFails(b) \/ AddBlockFails(b) PROVE OrderInv'
  BY <1>4, <1>8, FailedWrite DEF mainThread, recovery, durable, Height
<1>9. ASSUME NEW n \in stateQueue, CommitState(n) PROVE OrderInv'
  <2>1. /\ current \in Nat /\ current' = NoBlock /\ next' = next
        /\ stateDb' = Batch(current) /\ pc' \in {pc, "history"}
        /\ pc \notin {"down", "refused", "recover"}
    BY <1>9 DEF CommitState, QuietInv, NotOpen
  <2>2. Savepoint <= next /\ current <= next
    BY <2>1 DEF TypeOK, Phases
  <2>3. Savepoint' \in {Savepoint, current} /\ Len(stateDb') <= Savepoint' + 1
    BY <2>1, AppendLast DEF Batch
  <2>4. BeforePrepare => current < next
    OBVIOUS
  <2>5. QED
    BY <2>1, <2>2, <2>3, <2>4
<1>10. ASSUME NEW n \in stateQueue, CommitStatePanics(n) PROVE OrderInv'
  BY <1>4, <1>10 DEF CommitStatePanics
<1>11. CASE HardwareRejects \/ Crash
  BY <1>4, <1>11 DEF HardwareRejects, Crash
<1>12. CASE Restart
  <2>1. /\ UNCHANGED <<stateDb, blockStore>> /\ recState' = Savepoint + 1
        /\ pc' \in {"refused", "recover"} /\ current' = NoBlock
        /\ pc' = "recover" => ~(Savepoint + 1 > Height)
    BY <1>12 DEF Restart, StateHeight, AheadOfBlockStore, durable, Height, QuietInv,
       NotOpen
  <2>2. QED
    BY <2>1 DEF Height
<1>13. CASE RecommitState
  <2>1. /\ recState < Height /\ recState' = recState + 1 /\ pc' = pc /\ pc = "recover"
        /\ blockStore' = blockStore /\ stateDb' = Batch(recState)
        /\ UNCHANGED <<current, next>>
    BY <1>13 DEF RecommitState, Recommits, mainThread, Height
  <2>2. Savepoint' \in {Savepoint, recState} /\ Len(stateDb') <= Savepoint' + 1
    BY <2>1, AppendLast DEF Batch
  <2>3. current = NoBlock
    BY <2>1 DEF QuietInv, NotOpen
  <2>4. QED
    BY <2>1, <2>2, <2>3 DEF Height
<1>14. CASE RecommitHistory
  BY <1>14 DEF RecommitHistory, mainThread, Height
<1>15. CASE Recovered
  <2>1. /\ next' = Height /\ pc' = "idle" /\ UNCHANGED <<stateDb, current>>
        /\ Savepoint < Height /\ current = NoBlock
    BY <1>15 DEF Recovered, durable, Height, QuietInv, NotOpen
  <2>2. QED
    BY <2>1
<1>16. CASE UNCHANGED vars
  BY <1>16 DEF vars, Height
<1>17. QED
  BY <1>1, <1>2, <1>3, <1>5, <1>6, <1>7, <1>8, <1>9, <1>10, <1>11, <1>12, <1>13,
     <1>14, <1>15, <1>16
  DEF Next, CommitterStep, WriterStep, StateStep, RecoveryStep, FaultStep

\* Every step keeps within the bound on the blocks.
LEMMA BoundInductive ==
  TypeOK /\ QuietInv /\ PhaseInv /\ BoundInv /\ [Next]_vars => BoundInv'
<1> SUFFICES ASSUME TypeOK, QuietInv, PhaseInv, BoundInv, [Next]_vars PROVE BoundInv'
  OBVIOUS
<1>0. Height \in Nat \ {0} /\ next \in Nat /\ MaxBlock \in Nat
  BY LastEntries, BoundsAssumption DEF Height, TypeOK
<1> USE <1>0 DEF BoundInv, AfterPrepare, WriterCalls, NoBlock
<1>1. CASE StoreBlock \/ EnterPrepare \/ OrdererSends
  BY <1>1 DEF StoreBlock, EnterPrepare, OrdererSends, durable, mainThread, goroutines,
     Height
<1>2. CASE Prepare
  <2>1. storeQueue' = storeQueue \union {[num |-> next, hash |-> commitHash']}
    BY <1>2 DEF Prepare
  <2>2. /\ current' = next /\ next <= MaxBlock
        /\ UNCHANGED <<blockStore, next, storing>>
    BY <1>2 DEF Prepare, durable
  <2>3. QED
    BY <2>1, <2>2 DEF Height
<1>3. CASE CommitHistory
  BY <1>3 DEF CommitHistory, Height
<1>4. ASSUME ProcessDies, UNCHANGED durable PROVE BoundInv'
  BY <1>4 DEF ProcessDies, durable, Height
<1>5. ASSUME NEW n \in purgeQueue, Purge(n) PROVE BoundInv'
  BY <1>5 DEF Purge, mainThread, Height
<1>6. ASSUME NEW b \in storeQueue, CommitPvt(b) PROVE BoundInv'
  BY <1>6 DEF CommitPvt, mainThread, Height
<1>7. ASSUME NEW b \in storing, AddBlock(b) PROVE BoundInv'
  <2>1. b.num = Height /\ Len(blockStore') = Height + 1
    BY <1>7 DEF AddBlock, TypeOK, LockedStoreCall, Height
  <2>2. pc \in Phases \ {"down", "refused", "recover"} /\ pc' \in {pc, "state"}
    BY <1>7 DEF AddBlock, QuietInv, NotOpen, TypeOK
  <2>3. storing' = {} /\ UNCHANGED <<next, storeQueue, current>>
    BY <1>7 DEF AddBlock
  <2>4. pc' = pc \/ pc = "store"
    BY <1>7, PhaseOfCalls DEF AddBlock
  <2>5. QED
    BY <2>1, <2>2, <2>3, <2>4 DEF Height
<1>8. ASSUME NEW b, CommitPvtFails(b) \/ AddBlockFails(b) PROVE BoundInv'
  <2>1. CASE ProcessDies
    BY <1>4, <1>8, <2>1, FailedWrite
  <2>2. CASE ~ProcessDies
    <3>1. UNCHANGED <<durable, mainThread, current>>
      BY <1>8, <2>2, FailedWrite
    <3>2. storeQueue' \subseteq storeQueue /\ storing' = {}
      BY <1>8, <2>2 DEF CommitPvtFails, AddBlockFails, WriterFails
    <3>3. QED
      BY <3>1, <3>2 DEF durable, mainThread, Height
  <2>3. QED
    BY <2>1, <2>2
<1>9. ASSUME NEW n \in stateQueue, CommitState(n) PROVE BoundInv'
  <2>1. /\ current' = NoBlock /\ UNCHANGED <<blockStore, next, storeQueue, storing>>
        /\ pc' = pc \/ (pc = "state" /\ pc' = "history")
    BY <1>9, PhaseOfCalls DEF CommitState
  <2>2. QED
    BY <2>1 DEF Height
<1>10. ASSUME NEW n \in stateQueue, CommitStatePanics(n) PROVE BoundInv'
  BY <1>4, <1>10 DEF CommitStatePanics
<1>11. CASE HardwareRejects \/ Crash
  BY <1>4, <1>11 DEF HardwareRejects, Crash
<1>12. CASE Restart
  BY <1>12 DEF Restart, durable, goroutines, Height
<1>13. CASE RecommitState \/ RecommitHistory
  BY <1>13 DEF RecommitState, RecommitHistory, mainThread, goroutines, Height
<1>14. CASE Recovered
  BY <1>14 DEF Recovered, durable, goroutines, Height
<1>15. CASE UNCHANGED vars
  BY <1>15 DEF vars, Height
<1>16. QED
  BY <1>1, <1>2, <1>3, <1>5, <1>6, <1>7, <1>8, <1>9, <1>10, <1>11, <1>12, <1>13,
     <1>14, <1>15
  DEF Next, CommitterStep, WriterStep, StateStep, RecoveryStep, FaultStep

-----------------------------------------------------------------------------
(* Every prepared block has its call to the stores.                        *)

\* Every step keeps a call for each prepared block that is not stored.
LEMMA CallsInductive ==
  TypeOK /\ QuietInv /\ PhaseInv /\ HashInv /\ PvtInv /\ CallsInv /\ [Next]_vars
  => CallsInv'
<1> SUFFICES ASSUME TypeOK, QuietInv, PhaseInv, HashInv, PvtInv, CallsInv,
                    [Next]_vars, Running', pc' # "recover", faults' = 0, ~pvtAhead'
             PROVE  CallsInv'
  BY DEF CallsInv
<1>0. /\ faults = 0 /\ next \in Nat /\ Height \in Nat \ {0} /\ faults \in Nat
  BY ConfIsFixed, LastEntries DEF Height, TypeOK
<1> USE <1>0 DEF CallsInv, WriterCalls, Prepared
<1>1. CASE StoreBlock \/ EnterPrepare \/ OrdererSends
  BY <1>1 DEF StoreBlock, EnterPrepare, OrdererSends, durable, goroutines, mainThread,
     Running, Height
<1>2. CASE Prepare
  <2>1. storeQueue' = storeQueue \union {[num |-> next, hash |-> commitHash']}
    BY <1>2 DEF Prepare
  <2>2. /\ pc = "prepare" /\ pc' \in {"store", "history"} /\ ~pvtAhead /\ Height' = Height
        /\ UNCHANGED <<next, storing>>
    BY <1>2 DEF Prepare, durable, Height
  <2>3. /\ \A b \in WriterCalls : b.num \in Height..next - 1
        /\ \A n \in Height..next - 1 : \E b \in WriterCalls : b.num = n
        /\ \A b \in storeQueue, c \in storing : b.num # c.num
        /\ Height <= next
    BY <2>2 DEF Running
  <2>4. \A b \in WriterCalls' : b.num \in Height..next
    BY <2>1, <2>2, <2>3
  <2>5. \A n \in Height..next : \E b \in WriterCalls' : b.num = n
    <3>1. \E b \in storeQueue' : b.num = next
      <4>1. [num |-> next, hash |-> commitHash'] \in storeQueue'
        BY <2>1
      <4>2. [num |-> next, hash |-> commitHash'].num = next
        OBVIOUS
      <4>3. QED
        BY <4>1, <4>2
    <3>2. \A n \in Height..next - 1 : \E b \in WriterCalls' : b.num = n
      BY <2>1, <2>2, <2>3
    <3>3. \A n \in Height..next : n = next \/ n \in Height..next - 1
      OBVIOUS
    <3>4. QED
      BY <3>1, <3>2, <3>3
  <2>6. \A b \in storeQueue', c \in storing' : b.num # c.num
    BY <2>1, <2>2, <2>3
  <2>7. QED
    BY <2>2, <2>3, <2>4, <2>5, <2>6
<1>3. CASE CommitHistory
  BY <1>3 DEF CommitHistory, Running, Height
<1>4. ASSUME NEW n \in purgeQueue, Purge(n) PROVE CallsInv'
  BY <1>4 DEF Purge, mainThread, Running, Height
<1>5. ASSUME NEW b \in storeQueue, CommitPvt(b) PROVE CallsInv'
  <2>1. /\ storing = {} /\ storeQueue' = storeQueue \ {b}
        /\ storing' = {[num |-> b.num, hash |-> b.hash, height |-> pvtHeight]}
        /\ UNCHANGED <<pc, next, blockStore, pvtAhead>>
    BY <1>5 DEF CommitPvt, mainThread
  <2>2. \A c \in storeQueue : c.num = b.num => c = b
    BY DEF TypeOK, StoreCall, HashInv
  <2>3. \A c \in storing' : c.num = b.num
    BY <2>1
  <2>4. \A c \in WriterCalls' : \E d \in WriterCalls : d.num = c.num
    BY <2>1, <2>3
  <2>5. \A n \in Nat, c \in WriterCalls : c.num = n => \E d \in WriterCalls' : d.num = n
    <3>1. b.num = [num |-> b.num, hash |-> b.hash, height |-> pvtHeight].num
      OBVIOUS
    <3>2. QED
      BY <2>1, <3>1
  <2>6. \A c \in storeQueue', d \in storing' : c.num # d.num
    BY <2>1, <2>2, <2>3
  <2>7. /\ Height' = Height /\ Prepared' = Prepared /\ Running /\ pc # "recover"
        /\ ~pvtAhead
    BY <2>1 DEF Running, Height
  <2>8. QED
    BY <2>4, <2>5, <2>6, <2>7
<1>6. ASSUME NEW b \in storing, AddBlock(b) PROVE CallsInv'
  <2>1. /\ storing' = {} /\ UNCHANGED <<next, storeQueue>> /\ b.num = Height
        /\ Height' = Height + 1
    BY <1>6 DEF AddBlock, TypeOK, LockedStoreCall, Height
  <2>2. b.num = b.height /\ storing = {b} /\ b.num # b.num + 1
    BY <1>6, <2>1 DEF PvtInv
  <2>3. ~pvtAhead
    BY <1>6, <2>2, Zenon DEF AddBlock
  <2>4. (pc' = pc \/ (pc = "store" /\ pc' = "state")) /\ Running /\ pc # "recover"
    BY <1>6, PhaseOfCalls DEF AddBlock, QuietInv, NotOpen, Running
  <2>5. Prepared' = Prepared
    BY <2>1, <2>4
  <2>6. QED
    BY <2>1, <2>2, <2>3, <2>4, <2>5
<1>7. ASSUME NEW b \in storeQueue, CommitPvtFails(b) PROVE CallsInv'
  BY <1>7 DEF CommitPvtFails, Fault
<1>8. ASSUME NEW b \in storing, AddBlockFails(b) PROVE CallsInv'
  <2>1. b.num # Height
    BY <1>8 DEF AddBlockFails, Fault, Height
  <2>2. ~ProcessDies
    BY DEF ProcessDies, Running
  <2>3. Running /\ pc # "recover" /\ ~pvtAhead
    BY <1>8, <2>2 DEF AddBlockFails, WriterFails, mainThread, Running
  <2>4. QED
    BY <2>1, <2>3 DEF PvtInv
<1>9. ASSUME NEW n \in stateQueue, CommitState(n) PROVE CallsInv'
  <2>1. pc' = pc \/ (pc = "state" /\ pc' = "history")
    BY <1>9, PhaseOfCalls DEF CommitState
  <2>2. /\ UNCHANGED <<blockStore, next, storeQueue, storing, pvtAhead>>
        /\ Running /\ pc # "recover"
    BY <1>9 DEF CommitState, QuietInv, NotOpen, Running
  <2>3. QED
    BY <2>1, <2>2 DEF Height
<1>10. ASSUME NEW n \in stateQueue, CommitStatePanics(n) PROVE CallsInv'
  BY <1>10 DEF CommitStatePanics, ProcessDies, Running
<1>11. CASE HardwareRejects \/ Crash
  BY <1>11 DEF HardwareRejects, Crash, ProcessDies, Running
<1>12. CASE Restart \/ RecommitState \/ RecommitHistory
  BY <1>12 DEF Restart, RecommitState, RecommitHistory, mainThread, Running
<1>13. CASE Recovered
  <2>1. /\ next' = Height /\ pc' = "idle" /\ Height' = Height
        /\ storeQueue' = {} /\ storing' = {}
    BY <1>13 DEF Recovered, durable, goroutines, QuietInv, NotOpen, Height
  <2>2. QED
    BY <2>1
<1>14. CASE UNCHANGED vars
  BY <1>14 DEF vars, Running, Height
<1>15. QED
  BY <1>1, <1>2, <1>3, <1>4, <1>5, <1>6, <1>7, <1>8, <1>9, <1>10, <1>11, <1>12,
     <1>13, <1>14
  DEF Next, CommitterStep, WriterStep, StateStep, RecoveryStep, FaultStep

-----------------------------------------------------------------------------
\* A ledger that has just been created satisfies the parts on the databases.
LEMMA StatePartsInit ==
  Init => /\ AppliedInOrder /\ TurnInv /\ StateInv /\ HistoryInv /\ OpensAfterCrash
          /\ OrderInv /\ BoundInv /\ CallsInv
<1> SUFFICES ASSUME Init
             PROVE  /\ AppliedInOrder /\ TurnInv /\ StateInv /\ HistoryInv
                    /\ OpensAfterCrash /\ OrderInv /\ BoundInv /\ CallsInv
  OBVIOUS
<1>1. conf.startingBlock \in Nat \ {0}
  BY ConfigurationsAssumption DEF Init, Configuration
<1>2. StateShouldReach(1) = 1
  BY <1>1 DEF StateShouldReach
<1>3. Len(blockStore) = 1 /\ Len(stateDb) = 1 /\ stateDb[1] = 0 /\ pc = "idle"
  BY DEF Init
<1>4. AppliedInOrder
  BY <1>3 DEF AppliedInOrder
<1>5. StateInv
  BY <1>2, <1>3 DEF StateInv, NotOpen, BeforePrepare, Height
<1>6. OrderInv /\ BoundInv /\ CallsInv
  BY <1>3, BoundsAssumption
  DEF Init, OrderInv, BoundInv, CallsInv, BeforePrepare, AfterPrepare, WriterCalls,
      Prepared, Savepoint, NoBlock, Height
<1>7. QED
  BY <1>3, <1>4, <1>5, <1>6
  DEF Init, TurnInv, HistoryInv, OpensAfterCrash, NotOpen, BeforePrepare, Height

\* The whole inductive invariant holds in every reachable state.
THEOREM InductiveInvariant == Spec => []IInv
<1>1. Init => IInv
  BY TypeInit, FirstPartsInit, PvtPartsInit, StatePartsInit DEF IInv
<1>2. IInv /\ [Next]_vars => IInv'
  BY TypeInductive, QuietInductive, PhaseInductive, HashInductive, AppliedInductive,
     TurnInductive, StateInductive, HistoryInductive, PvtInductive, PurgeInductive,
     SurvivalInductive, OpensInductive, OrderInductive, BoundInductive,
     CallsInductive
  DEF IInv
<1>3. QED
  BY <1>1, <1>2, PTL DEF Spec

\* Every batch is applied to the state database once and in block order, over
\* crashes, recoveries and the interleavings of the parallel commit.
THEOREM AppliedInOrderCorrect == Spec => []AppliedInOrder
<1>1. IInv => AppliedInOrder
  BY DEF IInv
<1>2. QED
  BY <1>1, InductiveInvariant, PTL

\* The sequential commit leaves no database ahead of the block store, wherever it
\* crashes: the ledger opens again.
THEOREM OpensAfterCrashCorrect == Spec => []OpensAfterCrash
<1>1. IInv => OpensAfterCrash
  BY DEF IInv
<1>2. QED
  BY <1>1, InductiveInvariant, PTL

\* A txmgr.Commit that waits finds the batch of its own block: the validation of the
\* next block cannot start before it has run.
THEOREM CommitsOwnBatchCorrect == Spec => []CommitsOwnBatch
<1>1. IInv => CommitsOwnBatch
  <2> SUFFICES ASSUME IInv, Synchronised, NEW n \in stateQueue PROVE current = n
    BY DEF CommitsOwnBatch
  <2>1. CASE conf.parallel
    BY <2>1 DEF IInv, TurnInv
  <2>2. CASE ~conf.parallel
    <3>1. pc = "state"
      BY <2>2, PhaseOfCalls DEF IInv
    <3>2. QED
      BY <2>2, <3>1 DEF IInv, PhaseInv
  <2>3. QED
    BY <2>1, <2>2
<1>2. QED
  BY <1>1, InductiveInvariant, PTL

\* Software validates a block on a state that holds all blocks before it and none
\* after, in the sequential commit and behind the waiting loop of the parallel one.
THEOREM PreparesOnCommittedStateCorrect == Spec => []PreparesOnCommittedState
<1>1. IInv => PreparesOnCommittedState
  <2> SUFFICES ASSUME IInv, Synchronised, pc = "prepare", ~HwValidates(next)
               PROVE  Savepoint = next - 1
    BY DEF PreparesOnCommittedState
  <2>1. Savepoint = Len(stateDb) - 1
    BY SavepointOfOrder DEF IInv
  <2>2. CASE conf.parallel
    BY <2>1, <2>2 DEF IInv, TurnInv
  <2>3. CASE ~conf.parallel
    <3>1. Height = next /\ Len(stateDb) = StateShouldReach(next)
      BY <2>3 DEF IInv, PhaseInv, StateInv, BeforePrepare
    <3>2. StateShouldReach(next) = next
      BY <2>3, ConfigurationTypes
      DEF IInv, TypeOK, StateShouldReach, HwValidates
    <3>3. QED
      BY <2>1, <3>1, <3>2
  <2>4. QED
    BY <2>2, <2>3
<1>2. QED
  BY <1>1, InductiveInvariant, PTL

\* Between two blocks of the sequential commit the four stores agree, but for a lead
\* of the private data store that a crash left.
THEOREM StoresAgreeCorrect == Spec => []StoresAgreeBetweenBlocks
<1>1. IInv => StoresAgreeBetweenBlocks
  <2> SUFFICES ASSUME IInv, ~conf.parallel, pc = "idle"
               PROVE  /\ Len(stateDb) = StateShouldReach(Len(blockStore))
                      /\ conf.history => historyHeight = Len(blockStore)
                      /\ pvtHeight = Len(blockStore) + (IF pvtAhead THEN 1 ELSE 0)
                      /\ next = Len(blockStore)
    BY DEF StoresAgreeBetweenBlocks
  <2>1. storing = {} /\ next = Height
    BY DEF IInv, PhaseInv, BeforePrepare, WriterCalls
  <2>2. pvtHeight = Height + (IF pvtAhead THEN 1 ELSE 0)
    <3>1. CASE pvtAhead
      BY <3>1 DEF IInv, PvtInv
    <3>2. CASE ~pvtAhead
      BY <2>1, <3>2, LastEntries DEF IInv, PvtInv, Running, Height
    <3>3. QED
      BY <3>1, <3>2
  <2>3. QED
    BY <2>1, <2>2 DEF IInv, StateInv, HistoryInv, BeforePrepare, Height
<1>2. QED
  BY <1>1, InductiveInvariant, PTL

\* No prepared block is forgotten: until it is stored a call to the stores waits or
\* runs for it, and for no other block, however many blocks are queued.
THEOREM NoBlockForgottenCorrect == Spec => []NoBlockForgotten
<1>1. IInv => NoBlockForgotten
  BY DEF IInv, CallsInv, NoBlockForgotten, WriterCalls, Height
<1>2. QED
  BY <1>1, InductiveInvariant, PTL

-----------------------------------------------------------------------------
(* The commit implements Ledger.                                           *)

\* A block that is added to the chain is added as Ledger's Extend adds it.
LEMMA AddBlockExtends ==
  ASSUME IInv, conf' = conf, NEW b \in storing, AddBlock(b)
  PROVE  LedgerView!Extend
<1>1. /\ b.num = Height /\ b.hash = Chain(Height) /\ Height \in Nat \ {0}
      /\ blockStore' = Append(blockStore, b.hash) /\ stateDb' = stateDb
  BY LastEntries DEF IInv, HashInv, WriterCalls, AddBlock, Height
<1>2. ~conf.parallel => LedgerView!CaughtUp
  <2> SUFFICES ASSUME ~conf.parallel
               PROVE  Len(stateDb) = IF Height < KeptByState THEN Height ELSE KeptByState
    BY DEF LedgerView!CaughtUp, Height
  <2>1. pc = "store"
    BY PhaseOfCalls DEF IInv, WriterCalls
  <2>2. /\ Height = next /\ next <= MaxBlock /\ Len(stateDb) = StateShouldReach(Height)
    BY <2>1 DEF IInv, PhaseInv, StateInv, BoundInv, AfterPrepare
  <2>3. QED
    BY <1>1, <2>2, ConfigurationTypes, BoundsAssumption
    DEF IInv, StateShouldReach, KeptByState
<1>3. KeptByState' = KeptByState
  BY DEF KeptByState
<1>4. QED
  BY <1>1, <1>2, <1>3 DEF LedgerView!Extend, Chain, Height

\* A batch that is applied to the state database is one Ledger's Apply allows.
LEMMA BatchApplies ==
  ASSUME IInv, conf' = conf, blockStore' = blockStore,
         NEW n \in Nat, stateDb' = Append(stateDb, n), WritesState(n), n <= MaxBlock,
         Savepoint < n, Synchronised => n = Len(stateDb),
         ~conf.parallel => n < Height
  PROVE  LedgerView!Apply
<1>1. /\ Len(stateDb) \in Nat \ {0} /\ Savepoint \in Nat
      /\ Len(stateDb) <= Savepoint + 1
      /\ Len(stateDb') = Len(stateDb) + 1
      /\ conf.startingBlock \in Nat \ {0}
  BY LastEntries, AppendLast, ConfigurationTypes DEF IInv, OrderInv
<1>2. Len(stateDb) <= n
  BY <1>1
<1>3. Len(stateDb) < KeptByState
  BY <1>1, <1>2, BoundsAssumption DEF KeptByState, WritesState
<1>4. ~conf.parallel => Len(stateDb) < Len(blockStore)
  BY <1>2, LastEntries, <1>1 DEF Height, IInv
<1>5. KeptByState' = KeptByState
  BY DEF KeptByState
<1>6. QED
  BY <1>1, <1>3, <1>4, <1>5 DEF LedgerView!Apply

\* Every step of the ledger is a step of the abstract ledger or leaves it alone.
LEMMA LedgerStep == IInv /\ [Next]_vars => [LedgerView!Next]_(LedgerView!ledgerVars)
<1> SUFFICES ASSUME IInv, [Next]_vars
             PROVE  [LedgerView!Next]_(LedgerView!ledgerVars)
  OBVIOUS
<1>0. conf' = conf
  BY ConfIsFixed DEF IInv
<1>1. ASSUME NEW b \in storing, AddBlock(b) PROVE LedgerView!Next
  BY <1>0, <1>1, AddBlockExtends DEF LedgerView!Next
<1>2. ASSUME NEW n \in stateQueue, CommitState(n), WritesState(current)
      PROVE  LedgerView!Next
  <2>1. /\ current \in Nat /\ current <= MaxBlock /\ Savepoint < current
        /\ stateDb' = Append(stateDb, current) /\ blockStore' = blockStore
    BY <1>2 DEF CommitState, Batch, IInv, TypeOK, BoundInv, OrderInv
  <2>2. Synchronised => current = Len(stateDb)
    BY <1>2, CommittedBlock DEF IInv
  <2>3. ~conf.parallel => current < Height
    <3> SUFFICES ASSUME ~conf.parallel PROVE current < Height
      OBVIOUS
    <3>1. pc = "state"
      BY <1>2, PhaseOfCalls DEF IInv
    <3>2. QED
      BY <2>1, <3>1 DEF IInv, PhaseInv
  <2>4. QED
    BY <1>0, <1>2, <2>1, <2>2, <2>3, BatchApplies DEF LedgerView!Next
<1>3. ASSUME RecommitState, WritesState(recState) PROVE LedgerView!Next
  <2>1. /\ recState \in Nat /\ recState < Height /\ Savepoint < recState
        /\ stateDb' = Append(stateDb, recState) /\ blockStore' = blockStore
    BY <1>3 DEF RecommitState, Recommits, Batch, IInv, TypeOK, OrderInv, Height
  <2>2. recState <= MaxBlock
    BY <2>1, LastEntries, BoundsAssumption DEF IInv, BoundInv, Height
  <2>3. Synchronised => recState = Len(stateDb)
    BY <1>3, RecommittedBlock DEF IInv
  <2>4. QED
    BY <1>0, <1>3, <2>1, <2>2, <2>3, BatchApplies DEF LedgerView!Next
<1>4. CASE UNCHANGED <<blockStore, stateDb>>
  BY <1>0, <1>4 DEF LedgerView!ledgerVars, KeptByState
<1>5. QED
  BY <1>1, <1>2, <1>3, <1>4 DEF Next, vars, CommitterStep, WriterStep, StateStep,
     RecoveryStep, FaultStep, StoreBlock, EnterPrepare, Prepare, CommitHistory,
     CommitPvt, CommitState, Batch, CommitStatePanics, Purge, Restart, RecommitState,
     RecommitHistory, Recovered, OrdererSends, HardwareRejects, CommitPvtFails,
     AddBlockFails, Crash, durable

\* The commit of every configuration implements the ledger: its chain grows by one
\* block at a time, each hashed over all before it, its state database applies a
\* block at a time and only what it keeps; and in the sequential commit neither
\* overtakes the other, whatever crashes or fails.
THEOREM CommitImplementsLedger == Spec => ImplementsLedger
<1>1. Init => LedgerView!Init
  <2> SUFFICES ASSUME Init PROVE LedgerView!Init
    OBVIOUS
  <2>1. conf.startingBlock \in Nat /\ conf.parallel \in BOOLEAN
    BY TypeInit, ConfigurationTypes
  <2>2. KeptByState \in Nat /\ (~conf.parallel) \in BOOLEAN
    BY <2>1, BoundsAssumption DEF KeptByState
  <2>3. blockStore = << <<>> >> /\ Len(stateDb) = 1
    BY DEF Init, NoHash
  <2>4. QED
    BY <2>2, <2>3 DEF LedgerView!Init
<1>2. IInv /\ [Next]_vars => [LedgerView!Next]_(LedgerView!ledgerVars)
  BY LedgerStep
<1>3. QED
  BY <1>1, <1>2, InductiveInvariant, PTL DEF Spec, ImplementsLedger, LedgerView!Spec
=============================================================================
