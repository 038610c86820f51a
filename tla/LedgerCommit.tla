---------------------------- MODULE LedgerCommit ----------------------------
(***************************************************************************)
(* How a Fabric machine peer (v2.2) commits one channel's blocks, crashes  *)
(* and recovers: coordinator.StoreBlock, kvLedger.CommitLegacy with its    *)
(* block store and state goroutines, LockBasedTxMgr.ValidateAndPrepare and *)
(* Commit, and the recovery newKVLedger runs when the ledger is opened.    *)
(*                                                                         *)
(* A block is its number; a commit hash is the sequence of the numbers of  *)
(* the blocks it was computed over; the state database is the sequence of  *)
(* the blocks whose update batches it applied, the last one its savepoint. *)
(* Block 0 is the genesis block, which the ledger provider commits when it *)
(* creates the ledger: behaviours start after that.                        *)
(***************************************************************************)
EXTENDS Integers, Sequences, FiniteSets

CONSTANTS
  Configurations,  \* the peer configurations to start from
  MaxBlock,        \* bound: the last block of the channel
  MaxCrashes,      \* bound: how often the peer process may die
  MaxFaults        \* bound: how often a store write or a hardware block fails

(***************************************************************************)
(* hw            a hardware configuration file was found (fmapi.IsEnabled) *)
(* startingBlock the first block the hardware processes                    *)
(* swStateDb     the software state database is kept beside the hardware   *)
(* resetFpga     opening a ledger resets the card                          *)
(* parallel      peer.ledger.statedb.parallelcommit                        *)
(* history       the history database is enabled                           *)
(***************************************************************************)
Configuration ==
  [hw : BOOLEAN, startingBlock : Nat \ {0}, swStateDb : BOOLEAN,
   resetFpga : BOOLEAN, parallel : BOOLEAN, history : BOOLEAN]

ASSUME ConfigurationsAssumption == Configurations \subseteq Configuration
ASSUME BoundsAssumption ==
  MaxBlock \in Nat /\ MaxCrashes \in Nat /\ MaxFaults \in Nat

VARIABLES
  conf,           \* the configuration, fixed when the peer is started
  \* durable
  blockStore,     \* Seq: entry n+1 is the commit hash stored with block n
  pvtHeight,      \* height of the private data store
  stateDb,        \* blocks applied to the state database, in order
  historyHeight,  \* height of the history database
  transient,      \* blocks whose private data the transient store holds
  \* the goroutine that commits the blocks
  pc,             \* where it is: see Phases
  next,           \* the block it works on, or waits for
  fetch,          \* pvtdata is taken from the ledger (StoreBlock's `exist`)
  \* memory shared with the goroutines it starts
  current,        \* txmgr.current: block of the prepared batch, or NoBlock
  commitHash,     \* kvLedger.commitHash
  pvtAhead,       \* kvLedger.isPvtstoreAheadOfBlkstore
  storeQueue,     \* commitToPvtAndBlockStore calls that wait for their turn
  storing,        \* the one call that holds blockAPIsRWLock, if any
  stateQueue,     \* blocks whose txmgr.Commit call has not run
  purgeQueue,     \* blocks whose Purge call has not run
  \* recovery
  recState, recHistory,  \* next block to recommit to each database
  recFirst,       \* the database each common block is recommitted to first
  \* the card and the orderer that feeds it
  cardNext,       \* the first block the card has not handed over
  hwSent,         \* the next block the orderer sends to the card
  \* bounds
  crashes, faults

durable    == <<blockStore, pvtHeight, stateDb, historyHeight, transient>>
mainThread == <<pc, next, fetch>>
goroutines == <<storeQueue, storing, stateQueue, purgeQueue>>
recovery   == <<recState, recHistory, recFirst>>
card       == <<cardNext, hwSent>>
bounds     == <<crashes, faults>>
vars == <<conf, blockStore, pvtHeight, stateDb, historyHeight, transient, pc,
          next, fetch, current, commitHash, pvtAhead, storeQueue, storing,
          stateQueue, purgeQueue, recState, recHistory, recFirst, cardNext,
          hwSent, crashes, faults>>

NoBlock == -1
NoHash  == <<>>

(***************************************************************************)
(* idle     waits for the next block          turn     waits for its turn  *)
(* prepare  validates, holding oldBlockCommit store    block store is next *)
(* state    state database is next            history  history is next     *)
(* down     the process is dead               recover  the ledger is being *)
(* refused  the ledger refused to open                 opened              *)
(***************************************************************************)
Phases == {"idle", "turn", "prepare", "store", "state", "history", "down",
           "recover", "refused"}

-----------------------------------------------------------------------------
(* What the configuration decides for block n.                             *)

\* The hardware, not the software, validates block n.
HwValidates(n) == conf.hw /\ n >= conf.startingBlock

\* Commit writes the updates of block n to the state database. (In v1.4 it does so
\* for no block once there is a card.)
WritesStateV14(n) == ~conf.hw \/ conf.swStateDb
WritesState(n) == n < conf.startingBlock \/ ~conf.hw \/ conf.swStateDb

Savepoint == stateDb[Len(stateDb)]

\* The condition on which ValidateAndPrepare leaves its waiting loop.
NoTurn(n) == TRUE
AfterSavepoint(n) == n = Savepoint + 1
PrepareTurn(n) == n = Savepoint + 1 \/ (conf.hw /\ ~conf.swStateDb)

\* GetBlockData(n, 0) returns only when the card presents block n: the next one to
\* hand over, or, to a peer that has been restarted, the last one, which an idle
\* card that was not reset still shows (FabricMachine has the details).
CardPresents(n) ==
  \/ n = cardNext /\ n < hwSent
  \/ n = cardNext - 1 /\ ~conf.resetFpga

\* addBlockCommitHash, or the block keeps no hash.
NextHash(n, h) == IF n = 1 \/ h # NoHash THEN Append(h, n) ELSE h

\* The condition on which commitToPvtAndBlockStore leaves its waiting loop.
NoStoreTurn(n, height) == TRUE
StoreTurn(n, height) == height = n

-----------------------------------------------------------------------------
(* The Go process dies: everything in memory is lost.                      *)

ProcessDies ==
  /\ pc' = "down"
  /\ next' = 0
  /\ fetch' = FALSE
  /\ current' = NoBlock
  /\ commitHash' = NoHash
  /\ pvtAhead' = FALSE
  /\ storeQueue' = {}
  /\ storing' = {}
  /\ stateQueue' = {}
  /\ purgeQueue' = {}
  /\ recState' = 0
  /\ recHistory' = 0
  /\ recFirst' = "state"

Running == pc \notin {"down", "refused"}

\* One more failure, as far as the bound allows.
Fault == faults < MaxFaults /\ faults' = faults + 1

-----------------------------------------------------------------------------
(* The committing goroutine: StoreBlock and CommitLegacy.                  *)

\* StoreBlock up to CommitLegacy. A block a peer receives has passed the
\* orderer's deliver stream, which sends it to the card first.
StoreBlock ==
  /\ pc = "idle"
  /\ next <= MaxBlock
  /\ HwValidates(next) => next < hwSent
  /\ pc' = "turn"
  /\ fetch' = (next + 1 <= pvtHeight)
  /\ UNCHANGED <<conf, durable, next, current, commitHash, pvtAhead, goroutines,
                 recovery, card, bounds>>

\* ValidateAndPrepare takes oldBlockCommit and leaves its loop.
EnterPrepare ==
  /\ pc = "turn"
  /\ PrepareTurn(next)
  /\ pc' = "prepare"
  /\ UNCHANGED <<conf, durable, next, fetch, current, commitHash, pvtAhead,
                 goroutines, recovery, card, bounds>>

\* The rest of ValidateAndPrepare, the commit hash, and the start of the two
\* writers: goroutines, or calls one after the other.
Prepare ==
  /\ pc = "prepare"
  /\ HwValidates(next) => CardPresents(next)
  /\ cardNext' = IF HwValidates(next) THEN next + 1 ELSE cardNext
  /\ current' = next
  /\ commitHash' = NextHash(next, commitHash)
  /\ storeQueue' = storeQueue \union {[num |-> next, hash |-> commitHash']}
  /\ IF conf.parallel
     THEN stateQueue' = stateQueue \union {next} /\ pc' = "history"
     ELSE stateQueue' = stateQueue /\ pc' = "store"
  /\ UNCHANGED <<conf, durable, next, fetch, pvtAhead, storing, purgeQueue,
                 recovery, hwSent, bounds>>

\* The card reports the block invalid: ValidateAndPrepare resets the prepared
\* batch and the error reaches gossip, which panics.
HardwareRejects ==
  /\ pc = "prepare"
  /\ HwValidates(next)
  /\ CardPresents(next)
  /\ Fault
  /\ cardNext' = next + 1
  /\ ProcessDies
  /\ UNCHANGED <<conf, durable, hwSent, crashes>>

\* The history database, and the return to StoreBlock, which starts the purge
\* of the transient store unless it took the private data from the ledger.
PurgedBeforeCommit == {next, next + 1}
PurgeAfterCommit == IF fetch THEN {} ELSE {next}
CommitHistory ==
  /\ pc = "history"
  /\ historyHeight' = IF conf.history THEN next + 1 ELSE historyHeight
  /\ purgeQueue' = purgeQueue \union PurgeAfterCommit
  /\ pc' = "idle"
  /\ next' = next + 1
  /\ UNCHANGED <<conf, blockStore, pvtHeight, stateDb, transient, fetch, current,
                 commitHash, pvtAhead, storeQueue, storing, stateQueue, recovery,
                 card, bounds>>

\* RetrievedPvtdata.Purge.
Purge(n) ==
  /\ n \in purgeQueue
  /\ purgeQueue' = purgeQueue \ {n}
  /\ transient' = transient \ {n}
  /\ UNCHANGED <<conf, blockStore, pvtHeight, stateDb, historyHeight, mainThread,
                 current, commitHash, pvtAhead, storeQueue, storing, stateQueue,
                 recovery, card, bounds>>

-----------------------------------------------------------------------------
(* commitToPvtAndBlockStore.                                               *)

\* Leaves the loop with blockAPIsRWLock held, and writes the private data
\* unless its store is ahead.
CommitPvt(b) ==
  /\ b \in storeQueue
  /\ storing = {}
  /\ StoreTurn(b.num, pvtHeight)
  /\ storeQueue' = storeQueue \ {b}
  /\ storing' = {[num |-> b.num, hash |-> b.hash, height |-> pvtHeight]}
  /\ pvtHeight' = IF pvtAhead THEN pvtHeight ELSE b.num + 1
  /\ UNCHANGED <<conf, blockStore, stateDb, historyHeight, transient, mainThread,
                 current, commitHash, pvtAhead, stateQueue, purgeQueue, recovery,
                 card, bounds>>

\* An error of a write: returned, and fatal, in the sequential commit; only
\* logged by the goroutine of the parallel commit. But there err is a variable the
\* two goroutines share: the one that has just committed the block's state may find
\* the error in it, and panic.
WriterFails(b) ==
  \/ /\ conf.parallel
     /\ storeQueue' = storeQueue \ {b}
     /\ storing' = {}
     /\ UNCHANGED <<mainThread, current, commitHash, pvtAhead, stateQueue,
                    purgeQueue, recovery>>
  \/ /\ conf.parallel => b.num \notin stateQueue
     /\ ProcessDies

CommitPvtFails(b) ==
  /\ b \in storeQueue
  /\ storing = {}
  /\ StoreTurn(b.num, pvtHeight)
  /\ ~pvtAhead
  /\ Fault
  /\ WriterFails(b)
  /\ UNCHANGED <<conf, durable, card, crashes>>

\* blockStore.AddBlock takes only the block that follows its last one. The
\* flag falls if the private data store was ahead when the loop was left.
AddBlock(b) ==
  /\ b \in storing
  /\ b.num = Len(blockStore)
  /\ blockStore' = Append(blockStore, b.hash)
  /\ storing' = {}
  /\ pvtAhead' = IF b.height = b.num + 1 THEN FALSE ELSE pvtAhead
  /\ IF conf.parallel
     THEN UNCHANGED <<pc, stateQueue>>
     ELSE pc' = "state" /\ stateQueue' = stateQueue \union {b.num}
  /\ UNCHANGED <<conf, pvtHeight, stateDb, historyHeight, transient, next, fetch,
                 current, commitHash, storeQueue, purgeQueue, recovery, card,
                 bounds>>

AddBlockFails(b) ==
  /\ b \in storing
  /\ IF b.num = Len(blockStore) THEN Fault ELSE faults' = faults
  /\ WriterFails(b)
  /\ UNCHANGED <<conf, durable, card, crashes>>

-----------------------------------------------------------------------------
(* LockBasedTxMgr.Commit, called for block n. It takes no argument: what   *)
(* it commits is the batch it finds. oldBlockCommit is free unless the     *)
(* committing goroutine is in ValidateAndPrepare.                          *)

Batch(n) == IF WritesState(n) THEN Append(stateDb, n) ELSE stateDb

CommitState(n) ==
  /\ n \in stateQueue
  /\ pc # "prepare"
  /\ current # NoBlock
  /\ stateDb' = Batch(current)
  /\ current' = NoBlock
  /\ stateQueue' = stateQueue \ {n}
  /\ pc' = IF conf.parallel THEN pc ELSE "history"
  /\ UNCHANGED <<conf, blockStore, pvtHeight, historyHeight, transient, next,
                 fetch, commitHash, pvtAhead, storeQueue, storing, purgeQueue,
                 recovery, card, bounds>>

\* There is no prepared batch: the peer panics.
CommitStatePanics(n) ==
  /\ n \in stateQueue
  /\ pc # "prepare"
  /\ current = NoBlock
  /\ ProcessDies
  /\ UNCHANGED <<conf, durable, card, bounds>>

-----------------------------------------------------------------------------
(* Crash and recovery: newKVLedger.                                        *)

Crash ==
  /\ Running
  /\ crashes < MaxCrashes
  /\ crashes' = crashes + 1
  /\ ProcessDies
  /\ UNCHANGED <<conf, durable, card, faults>>

BelowSavepoint == Savepoint - 1
StateHeight == Savepoint + 1

NotBehindBlockStore(height) == height >= Len(blockStore)
AheadOfBlockStore(height) == height > Len(blockStore)

\* lastPersistedCommitHash.
NotReloaded == NoHash
LastPersistedCommitHash == blockStore[Len(blockStore)]

\* A reset card forgets the blocks it holds, not those still on their way to it.
CardAfterOpening ==
  IF conf.hw /\ conf.resetFpga THEN cardNext..hwSent ELSE {cardNext}

\* Opens the ledger: resets the card, reloads the commit hash and the flag, and
\* decides what must be recommitted, or refuses to open.
Restart ==
  /\ pc = "down"
  /\ pc' = IF \/ AheadOfBlockStore(StateHeight)
              \/ conf.history /\ AheadOfBlockStore(historyHeight)
           THEN "refused" ELSE "recover"
  /\ cardNext' \in CardAfterOpening
  /\ commitHash' = LastPersistedCommitHash
  /\ pvtAhead' = AheadOfBlockStore(pvtHeight)
  /\ recState' = StateHeight
  /\ recHistory' = IF conf.history THEN historyHeight ELSE Len(blockStore)
  /\ recFirst' = IF recHistory' < recState' THEN "history" ELSE "state"
  /\ UNCHANGED <<conf, durable, next, fetch, current, goroutines, hwSent, bounds>>

\* The database that recommits block n when the other one is to recommit m.
Recommits(db, n, m) ==
  /\ n < Len(blockStore)
  /\ \/ m >= Len(blockStore)
     \/ n < m
     \/ n = m /\ recFirst = db

\* CommitLostBlock of the transaction manager: ValidateAndPrepare and Commit.
RecommitState ==
  /\ pc = "recover"
  /\ Recommits("state", recState, recHistory)
  /\ PrepareTurn(recState)
  /\ HwValidates(recState) => CardPresents(recState)
  /\ cardNext' = IF HwValidates(recState) THEN recState + 1 ELSE cardNext
  /\ stateDb' = Batch(recState)
  /\ recState' = recState + 1
  /\ UNCHANGED <<conf, blockStore, pvtHeight, historyHeight, transient, mainThread,
                 current, commitHash, pvtAhead, goroutines, recHistory, recFirst,
                 hwSent, bounds>>

RecommitHistory ==
  /\ pc = "recover"
  /\ Recommits("history", recHistory, recState)
  /\ historyHeight' = recHistory + 1
  /\ recHistory' = recHistory + 1
  /\ UNCHANGED <<conf, blockStore, pvtHeight, stateDb, transient, mainThread,
                 current, commitHash, pvtAhead, goroutines, recState, recFirst,
                 card, bounds>>

\* The ledger is open: gossip asks for the block after the last stored one.
Recovered ==
  /\ pc = "recover"
  /\ recState >= Len(blockStore)
  /\ recHistory >= Len(blockStore)
  /\ pc' = "idle"
  /\ next' = Len(blockStore)
  /\ UNCHANGED <<conf, durable, fetch, current, commitHash, pvtAhead, goroutines,
                 recovery, card, bounds>>

-----------------------------------------------------------------------------
(* The orderer sends each block to the card once, whoever reads the block. *)

OrdererSends ==
  /\ conf.hw
  /\ hwSent <= MaxBlock
  /\ hwSent' = hwSent + 1
  /\ UNCHANGED <<conf, durable, mainThread, current, commitHash, pvtAhead,
                 goroutines, recovery, cardNext, bounds>>

-----------------------------------------------------------------------------
Init ==
  /\ conf \in Configurations
  /\ blockStore = <<NoHash>>
  /\ pvtHeight = 1
  /\ stateDb = <<0>>
  /\ historyHeight = IF conf.history THEN 1 ELSE 0
  /\ transient = 1..MaxBlock
  /\ pc = "idle"
  /\ next = 1
  /\ fetch = FALSE
  /\ current = NoBlock
  /\ commitHash = NoHash
  /\ pvtAhead = FALSE
  /\ storeQueue = {}
  /\ storing = {}
  /\ stateQueue = {}
  /\ purgeQueue = {}
  /\ recState = 0
  /\ recHistory = 0
  /\ recFirst = "state"
  /\ cardNext = conf.startingBlock
  /\ hwSent = conf.startingBlock
  /\ crashes = 0
  /\ faults = 0

CommitterStep == StoreBlock \/ EnterPrepare \/ Prepare \/ CommitHistory
WriterStep == \/ \E b \in storeQueue : CommitPvt(b)
              \/ \E b \in storing : AddBlock(b)
StateStep == \E n \in stateQueue : CommitState(n) \/ CommitStatePanics(n)
RecoveryStep == Restart \/ RecommitState \/ RecommitHistory \/ Recovered
FaultStep == \/ HardwareRejects
             \/ \E b \in storeQueue : CommitPvtFails(b)
             \/ \E b \in storing : AddBlockFails(b)
             \/ Crash

Next ==
  \/ CommitterStep
  \/ WriterStep
  \/ StateStep
  \/ \E n \in purgeQueue : Purge(n)
  \/ RecoveryStep
  \/ OrdererSends
  \/ FaultStep

Spec == Init /\ [][Next]_vars

(***************************************************************************)
(* The Go scheduler runs every runnable goroutine and sync.Mutex does not  *)
(* starve a waiter; the operator restarts a dead peer; blocks keep         *)
(* arriving and the orderer keeps sending. Failures need not happen.       *)
(***************************************************************************)
Fairness ==
  /\ WF_vars(CommitterStep)
  /\ WF_vars(WriterStep \/ \E b \in storing : AddBlockFails(b) /\ b.num # Len(blockStore))
  /\ WF_vars(StateStep)
  /\ WF_vars(RecoveryStep)
  /\ WF_vars(OrdererSends)

FairSpec == Spec /\ Fairness

-----------------------------------------------------------------------------
(* Properties.                                                             *)

Hashes == Seq(Nat)
StoreCall == [num : Nat, hash : Hashes]
LockedStoreCall == [num : Nat, hash : Hashes, height : Nat]

\* The state has the shape the code gives it.
TypeOK ==
  /\ conf \in Configurations
  /\ blockStore \in Seq(Hashes) /\ blockStore # <<>>
  /\ pvtHeight \in Nat
  /\ stateDb \in Seq(Nat) /\ stateDb # <<>>
  /\ historyHeight \in Nat
  /\ transient \subseteq Nat
  /\ pc \in Phases
  /\ next \in Nat
  /\ fetch \in BOOLEAN
  /\ current \in Nat \union {NoBlock}
  /\ commitHash \in Hashes
  /\ pvtAhead \in BOOLEAN
  /\ storeQueue \subseteq StoreCall
  /\ storing \subseteq LockedStoreCall
  /\ stateQueue \subseteq Nat
  /\ purgeQueue \subseteq Nat
  /\ recState \in Nat /\ recHistory \in Nat
  /\ recFirst \in {"state", "history"}
  /\ cardNext \in Nat /\ hwSent \in Nat
  /\ crashes \in Nat /\ faults \in Nat

\* The configurations in which ValidateAndPrepare waits for the state commit of
\* the previous block, or is called after it.
Synchronised == ~(conf.parallel /\ conf.hw /\ ~conf.swStateDb)

\* A txmgr.Commit that is still to run finds the batch of the very block it was
\* called for: the next block's ValidateAndPrepare has not replaced or reset it.
CommitsOwnBatch == Synchronised => \A n \in stateQueue : current = n

\* While software validates a block, the state database holds exactly its
\* predecessors ("Lock can only be acquired when previous block has been
\* committed to statedb", lockbased_txmgr.go:206).
PreparesOnCommittedState ==
  Synchronised /\ pc = "prepare" /\ ~HwValidates(next) => Savepoint = next - 1

\* Every batch is applied once and in block order, over crashes and recoveries.
AppliedInOrder == Synchronised => \A i \in 1..Len(stateDb) : stateDb[i] = i - 1

\* The hash stored with block n covers exactly the blocks 1..n: the in-memory
\* chain survives restarts, failed writes and queued blocks.
HashChain == \A i \in 1..Len(blockStore) : blockStore[i] = [j \in 1..i-1 |-> j]

\* The private data store is never behind the block store, and ahead of it by
\* one block at most. (A failed write of the parallel commit is only logged, and
\* the store of the next block's private data then widens the gap.)
PvtGap ==
  (~conf.parallel \/ faults = 0) => pvtHeight - Len(blockStore) \in {0, 1}

\* Private data the sequential commit has not stored is still in the transient
\* store, whatever crashed.
PvtDataSurvives == ~conf.parallel => pvtHeight..MaxBlock \subseteq transient

\* After sequential commits no crash leaves a database ahead of the block store,
\* so the ledger always opens again.
OpensAfterCrash == ~conf.parallel => pc # "refused"

StateShouldReach(height) ==
  IF conf.hw /\ ~conf.swStateDb /\ height > conf.startingBlock
  THEN conf.startingBlock ELSE height

\* Between blocks of the sequential commit all stores agree: CommitLegacy "commits
\* the block and the corresponding pvt data in an atomic operation".
StoresAgreeBetweenBlocks ==
  ~conf.parallel /\ pc = "idle" =>
    /\ Len(stateDb) = StateShouldReach(Len(blockStore))
    /\ conf.history => historyHeight = Len(blockStore)
    /\ pvtHeight = Len(blockStore) + (IF pvtAhead THEN 1 ELSE 0)
    /\ next = Len(blockStore)

Prepared == IF pc \in {"store", "state", "history"} THEN next ELSE next - 1

\* Every block that was prepared is in the block store or has a call on its way
\* there, unless a write failed or the private data store was ahead.
NoBlockForgotten ==
  (Running /\ pc # "recover" /\ faults = 0 /\ ~pvtAhead) =>
    {b.num : b \in storeQueue \union storing} = Len(blockStore)..Prepared

\* No ledger refuses to open: "This is possible when the %s database is not
\* dropped after a ledger reset/rollback", which never happens here.
NeverRefused == pc # "refused"

\* txmgr.Commit finds a prepared batch ("validateAndPrepare() method should have
\* been called before calling commit()").
BatchPresentAtCommit == stateQueue # {} => current # NoBlock

\* The private data store's lead is used up ("Only when the pvtdataStore was
\* ahead of blockStore during the ledger initialization time, we reach here").
LeadIsUsedUp == pvtAhead ~> ~pvtAhead

AllStored ==
  /\ Len(blockStore) = MaxBlock + 1
  /\ Len(stateDb) = StateShouldReach(MaxBlock + 1)
  /\ conf.history => historyHeight = MaxBlock + 1
  /\ pvtHeight = MaxBlock + 1

\* A crash after which the peer cannot go on: another store is ahead of the block
\* store, or the card has handed over blocks it will not present again.
UnluckyCrash ==
  /\ pc = "down"
  /\ \/ pvtHeight > Len(blockStore)
     \/ AheadOfBlockStore(StateHeight)
     \/ AheadOfBlockStore(historyHeight)
     \/ conf.hw /\ hwSent > conf.startingBlock

\* Every block reaches every store, in spite of crashes at any other moment. The
\* parallel commit drops a block whose write fails, and the unsynchronised one may
\* lose a batch.
EventuallyStored ==
  \/ <>[]AllStored
  \/ <>UnluckyCrash
  \/ <>(conf.parallel /\ faults > 0)
  \/ <>(~Synchronised)

\* The commit, with its crashes and recoveries, implements the ledger.
KeptByState ==
  IF conf.hw /\ ~conf.swStateDb THEN conf.startingBlock ELSE MaxBlock + 1
LedgerView == INSTANCE Ledger WITH
  synchronous <- ~conf.parallel, kept <- KeptByState,
  chain <- blockStore, applied <- Len(stateDb)

\* The chain and the state database change only as Ledger allows: in the
\* sequential commit no interleaving or crash lets the state overtake the chain
\* or lag by more than the block being committed.
ImplementsLedger == LedgerView!Spec
=============================================================================
