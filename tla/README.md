# Fabric Machine in TLA+

Models, checks and proofs for [Fabric Machine](../src/README.md): Hyperledger
Fabric with a peer whose block validation is done by an FPGA card. The models
follow the code for Fabric v2.2 (`src/v2.2`); paths below are relative to it. Where
the code for v1.4 (`src/v1.4`) does something else that matters, the model has both,
and, where a peer's data outlives it, the upgrade from one to the other.

## 1. The system

The repository holds the files of Fabric that Fabric Machine changes, and the
package `fabricmachine`. What it leaves to the rest of Fabric (the stores, the
update batch, gossip, the batch preparer) and to the hardware is modelled from
how these files use it, and marked external in `PROJECT.json`.

```
 orderer                                     peer
 +--------------------+      gRPC      +---------------------------------------+
 | deliverBlocks  ----|--------------->| gossip -> StoreBlock                  |
 |   |  (per stream)  |                |   txvalidator.Validate                |
 |   v                |                |   CommitLegacy                        |
 | SendToHardware     |                |     ValidateAndPrepare                |
 |   (hwPeer)         |                |       validateAndPrepareBatch         |
 +---|----------------+                |         |  software or card           |
     |  UDP, once                      |         v                             |
     v                                 |       GetBlockData (polls registers)  |
 +--------------------+     PCIe       |     private data, blocks, state,      |
 | card: validates,   |<---------------|     history: written one after the    |
 | shows one block    |                |     other, or by goroutines           |
 +--------------------+                +---------------------------------------+
```

| Component | State | Operations | Hard behaviour | What makes it correct |
|---|---|---|---|---|
| Block commit (`kv_ledger.go`, `lockbased_txmgr.go`, `coordinator.go`) | five durable stores; `txmgr.current`, `commitHash`, `isPvtstoreAheadOfBlkstore`; goroutines waiting for two locks | `StoreBlock`, `CommitLegacy`, `commitToPvtAndBlockStore`, `ValidateAndPrepare`, `Commit`, recovery in `newKVLedger` | goroutines of several blocks at a time; crashes between any two writes; writes that fail | each block once and in order in every store; hash chain; a ledger that opens again; no batch of another block |
| Feed of the card (`deliver.go`, `protocol.go`, `block_deliver.go`, `transport.go`) | `hwPeer`, a position per stream | `deliverBlocks`, `SendToHardware`, `InitConfig` | many streams, one sender; streams that break; UDP; restarts | each block sent once, in order, and before a peer gets it |
| Driver of the card (`api.go`, `regmap.go`, `pcieutil.go`) | the card's registers, and a copy | `NewFabricMachine`, `GetBlockData` | the card writes while the driver reads, register by register | no data of two blocks mixed; every block read once |
| State validation (`validation/validator.go`) | the block's batch of updates | `validateAndPrepareBatch` | conflicts within a block, phantoms, recommit from stored codes, card and software side by side | accepted transactions are serialisable in block order |
| Transaction validator (`txvalidator/v20/validator.go`, `msgvalidation.go`) | results of a block's workers, the channel's configuration | `Validate`, `validateTx`, `ValidateTransaction`, `markTXIdDuplicates`, v1.4's `invalidTXsForUpgradeCC` | concurrent workers; duplicates in the block and in a block store that lags; checks left to the card | the codes of a validator that takes one transaction after the other; every block gets its codes |
| Private data of old blocks (`kv_ledger.go`, `lockbased_txmgr.go`) | private data store, state database | `CommitPvtDataOfOldBlocks`, `RemoveStaleAndCommitPvtDataOfOldBlocks`, their recovery | races with commits and purges; several versions of a key; two stores written one after the other, in another order in v1.4 | a read gets the right value or is refused; what is stored reaches the state; what has expired stays gone; nothing stays missing |
| Ledger provider (`kv_ledger_provider.go`) | inventory of ledger ids and their status, one under-construction flag, the file lock | `NewProvider`, `Create`, `Open`, `List`, recovery, upgrade, pause and resume | crash or error at any step of a creation; an upgrade over an unfinished one | a half-made ledger is finished or removed; no ledger is lost or opened while paused |
| Certificate cache, packet format (`certificate.go`, `config.go`, `annotation.go`, `sproto.go`) | two tables of identities, the packets of a block | `loadIdentityTable`, `insertCertificate`, `updateRemoteCertificateCache`, `SendBlock` | positions in the encoded block that move with every certificate cut out; ids that collide | the block can be put together again, byte by byte; every annotation hits its field |
| Simulator of the card (`scripts/fabric/fm_simulator.py`) | engines, pending endorsements | `issue_ends`, `finish_tx`, ... | early abort, engines that become free | in-order commit of verified transactions |

The samples, deployment and statistics scripts and the interface files are listed in
`PROJECT.json` as not modelled, and so is the simulator (see 5).

## 2. The modules

| Module | What it is |
|---|---|
| `LedgerCommit` | the block commit: state machine and properties |
| `Ledger` | what the block commit promises: a chain and a state |
| `LedgerCommitInvariants` | the inductive invariant `IInv` of `LedgerCommit` |
| `LedgerCommitProofs` | proofs about `LedgerCommit`: types, phases, commit hashes; private data store; databases, the whole of `IInv`, and that it implements `Ledger` |
| `FabricMachine` | feed and driver of the card: state machine and properties |
| `BlockFeed` | what the feed promises: a queue that may lose blocks |
| `FabricMachineProofs` | proofs about `FabricMachine`: types, registers, streams, and that it implements `BlockFeed` |
| `ReadWriteSets` | states and read-write sets |
| `BlockValidation` | the judgement of a block: state machine and properties |
| `SerialLedger` | what validation promises: serial execution |
| `BlockValidationProofs` | proofs about `BlockValidation`: the loop over a block, the card's flags, and that it implements `SerialLedger` |
| `TxValidator` | the transaction validator of both releases: state machine, sequential definition and properties |
| `TxValidatorProofs` | proofs about `TxValidator`: errors and flags |
| `LedgerProvider` | creation, recovery, upgrade and status of ledgers: state machine and properties |
| `LedgerProviderProofs` | proofs about `LedgerProvider` |
| `OldPvtData` | missing private data and its reconciliation: state machine and properties |
| `OldPvtDataProofs` | proofs about `OldPvtData` |
| `CardPackets` | certificates and packets for the card: conversions and properties |
| `CardPacketsProofs` | proofs about its caches, its parsers and the packets of a block |
| `RecursiveFunctions` | induction over intervals, and the existence of a function defined by recursion |
| `MCLedgerCommit`, `MCFabricMachine`, `MCBlockValidation`, `MCTxValidator`, `MCLedgerProvider`, `MCOldPvtData`, `MCCardPackets` | instances for TLC |

The modules cut the system where its code does. `LedgerCommit` is about the order of
durable writes and has no contents of blocks; `BlockValidation` and `TxValidator` are
about the contents of a block and reduce the stores to when a block is in them;
`OldPvtData` and `LedgerProvider` reduce a commit to the writes that they can tell
apart; `FabricMachine` moves whole blocks whose packets are `CardPackets`.

### LedgerCommit

A block is its number, a commit hash the sequence of the numbers it covers, the
state database the sequence of the blocks it has applied. The committing
goroutine is gossip's: `pc` says where it is in `StoreBlock` and `CommitLegacy`.
The calls of `commitToPvtAndBlockStore` are `storeQueue` (waiting in the loop for
their turn) and `storing` (the one that has left it with `blockAPIsRWLock`), those
of `txmgr.Commit` are `stateQueue`. In the sequential commit the goroutine makes
these calls itself, one after the other; in the parallel commit it starts
goroutines and goes on, so calls of several blocks can wait at once. The lock
`oldBlockCommit` is held exactly while `pc = "prepare"`, and during one action of
`Commit`.

| Code | Actions |
|---|---|
| `StoreBlock` up to `CommitLegacy` | `StoreBlock` |
| `ValidateAndPrepare`: lock and loop; the rest, with the commit hash and the start of the writers | `EnterPrepare`; `Prepare`, `HardwareRejects` |
| `commitToPvtAndBlockStore`: loop and private data; block store | `CommitPvt`, `CommitPvtFails`; `AddBlock`, `AddBlockFails` |
| `txmgr.Commit` | `CommitState`, `CommitStatePanics` |
| history database, return, `go Purge()` | `CommitHistory`, `Purge` |
| death of the process | `Crash`, and `ProcessDies` in every panic and fatal error |
| `newKVLedger`: `NewLockBasedTxMgr`, `lastPersistedCommitHash`, `isPvtDataStoreAheadOfBlockStore`, `ShouldRecover` | `Restart` |
| `recommitLostBlocks` with `CommitLostBlock` of each database | `RecommitState`, `RecommitHistory`, `Recovered` |
| the orderer's `SendToHardware`, in short | `OrdererSends` |

A crash can fall between any two actions; each action makes one durable write.
The card is two numbers here: what it has handed over and what it was sent.
`FabricMachine` has the details, and is where a block that is asked for twice is
looked at.

### FabricMachine

Each deliver stream has a position in the chain and goes through reading the
block, `SendToHardware` (one action: it holds `hwPeer`'s lock), and the response.
Blocks travel in order but may be lost; the card turns them into results, which
wait until all registers have been read since the last were written. The driver
reads one register per action, so that the card can write between any two reads:
`GetBlockData`, `ReadRegister` (with the decisions of the polling loop in
`AfterPass`), and `Commit` for the rest of the peer.
`DataRegs` data registers stand for the ten of the code (of 13), and two for the
three that hold the block number, whose low part has `Base` values.

### BlockValidation

Transactions have reads, a range query, puts and deletes over a few ordered keys,
which have versions only. `SoftwareValidates` and `HardwareValidates` are one
round of the two loops of `validateAndPrepareBatch`; `AddBlock`, `CommitState`,
`Crash` and `RecommitLostBlock` (`doMVCCValidation` false) the block's way to the
databases, with the interleavings left to `LedgerCommit`.

### TxValidator

A transaction has a set of defects, each named for the one check that finds it, so
that the order of the checks, which decides the code, is the code's.
`FirstFailure` is the chain of early returns.

| Code | Actions |
|---|---|
| `Validate`: start, dispatching goroutine, results, end | `BeginValidate`, `StartWorker`, `ReceiveResult`, `EndValidate` |
| `validateTx`: envelope and `ValidateTransaction`; `checkTxIdDupsLedger`; dispatch; configuration | `ValidateForm`, `LookUpTxId`, `RunPlugin`, `ApplyConfig` |
| commit of the block, at once or, in the parallel commit, later | `StoreBlock` |
| death, panic of the state transfer over an error, restart | `Crash`, `StopAfterError`, `Restart` |

`InSequence` is the reference: the codes of one transaction after the other against
all the blocks before. The release of a worker's slot is merged with the receipt of its
result: in the code it follows, so that the model's slots are never fewer. v1.4 ranges
over a Go map of upgrades, for which `EndValidate` takes any order. Three results need
their exact statement:

* In the parallel commit of v2.2 a copy of a transaction of a block that is not yet
  stored passes for new, although the comment of `checkTxIdDupsLedger` says that nil
  means there is no duplicate. `OnlyCopiesPass` says that nothing else differs. (The
  plugins may read a state without the previous block as well; their answers are data
  of the model.)
* With a card the checks of signatures, endorsements and policies are missing here,
  while duplicates within the block are already decided. `OffloadSafe` says what that
  costs: nothing becomes valid that a software peer rejects, and a transaction loses its
  validity only to one with the same id, or an upgrade, that the card rejects later.
* Token transactions of v1.4, whose branch is commented out, end as `UNKNOWN_TX_TYPE`.

### LedgerProvider

Every write of the id store is one atomic LevelDB write and one action. The process
phases are the calls that are in progress; `Create` runs under one lock for all ledgers.
The recovery that panics has no step: `FlagIsSound` shows that it never would. The
commands that upgrade the id store, pause and resume take the file lock of a process
that is down. v1.4 writes private data and block through one store with its own
recovery: one action there, two in v2.2. What the model shows beside its properties: a
commit of the genesis block that fails leaves the flag until the next start or the next
creation; in v1.4 listing the ledgers then never returns (`ListV14Spins`); and in v2.2 a
creation repeated after a crash between private data and block waits for ever, as in the
finding of the run `pvt_ahead`. The recovery opens ledgers before the card's
configuration is read; the only block it can meet is the genesis block, which the card
does not process.

### OldPvtData

One private key, with its entry in the hashed and in the private state, each a version
and a value. Blocks write, delete and renew it, with any part of their private data
missing; `ConstructUniquePvtData` and `CheckIfPvtWriteIsStale` decide what old data
does to the state. Collections expire `BTL` blocks after the write; the purge is part
of `CommitStores` and `WriteState`, as in the code. The reconciler runs next to the
commit of blocks, under the lock `oldBlockCommit` for the one step `ApplyOldData`.

| Code | Actions |
|---|---|
| `CommitLegacy` in three steps | `ValidateAndPrepare`, `CommitStores`, `CommitState` |
| `GetMissingPvtDataInfoForMostRecentBlocks` and the answers of other peers | `FetchMissing` |
| `CommitPvtDataOfOldBlocks`, v2.2 and v1.4 | `CommitOldDataToState`, `CommitOldDataToStore`; `CommitOldDataToStoreV14`, `CommitOldDataToStateV14`, `ResetLastUpdatedOldBlocksList` |
| an error in any of these | `ReconciliationFails` |
| opening: recommit, old blocks of the list | `Open`, `RecommitLostBlock`, `SyncStateDBWithOldBlkPvtdata`, `Opened` |
| death, `peer node rollback`, upgrade of the peer | `Crash`, `Rollback`, `UpgradePeer` |

The exceptions in the properties are what the code really does, and each is needed: TLC
finds a counterexample without it.

* The missing data of a block can be asked for as soon as the private data store has it,
  before the state has the block (`GetMissingPvtDataInfo` checks only for a store that is
  ahead since the start). Data that arrives in between is stale for the state and found
  for the store: the state lacks it until it is rebuilt (`early` in `StateFollowsStore`).
* After an update of metadata the version of the private value may lag behind that of its
  hash; a read is then refused, not wrong.
* A v1.4 peer whose state could not be updated reconciles nothing more until its restart.

An upgrade with the private data store ahead is not modelled, because v2.2 would wait for
ever over the next block (finding `pvt_ahead`). The argument `unreconciled` (data that no
peer has, which v2.2 asks for less often) is left out.

### CardPackets

The one module whose data are bytes: what could go wrong in this code is a position, so
positions have to be the ones of a marshalled message. A block of `Blocks` has a number
that is not 0 and takes at most ten bytes, transactions with at least one endorser, and
fields that are not empty (`BlocksAssumption`). `Marshal` is protobuf's encoding,
`GetVarint`, `ProtoGetFieldLength`, `ProtoSearchFieldPos` and `ProtoGetFieldPos` are
`sproto.go`, and `BlockPackets` is `SendBlock` with everything it calls. Fields the code
never looks at are one byte. The certificates of the configuration file are
inserted one after the other (`InstallCertificateFile`), sent to the card
(`UpdateRemoteCertificateCache`), and then one block follows (`SendBlock`).

`RebuildsBlock` reads the packets as a card must: `Expand` puts the certificates back
where the locators are. `AnnotationsHit` reads the packets at the annotations. Their
premises are the limits of the code:

* Every transaction and the metadata have at most 65535 bytes (`Fits`): positions and
  lengths are cut to sixteen bits.
* The certificates are in the file (`Known`). For others the code removes the bytes all the
  same and sends the id -1 as 65535, so that nobody can put them back. Their length takes
  two bytes (`TwoBytes`, 128 to 16383), and that of the organisation's name one, since
  `SerializeCertificate` encodes them so, whatever they are.
* The file has at most 16 organisations, and ids of sixteen bits (`NoCollision`): ids of the
  17th organisation collide with those of the first one's second certificates.

A certificate with id 0 that is listed again keeps both ids; with more than eight endorsers
their number is written over the length of the read-write set. Observed, not checked: updates of the card's table carry
no id at all, since `generateCertificateUpdateAnnotation` walks the wrong list; a fifth
role panics; sequence numbers never grow and errors of UDP are ignored.

## 3. What the runs check

| Run | Instance | Shows |
|---|---|---|
| `ledger` | 3 blocks, 2 crashes, 1 failure, 20 configurations | `LedgerCommit`'s invariants, that it implements `Ledger`, and that every block is eventually stored everywhere |
| `pvt_ahead` | 1 crash, sequential | the private data store's lead is never used up |
| `parallel_crash` | 1 crash, parallel | the ledger refuses to open |
| `parallel_hw` | no crash, parallel, card without software state database | `txmgr.Commit` finds no batch |
| `feed` | 3 blocks, 2 streams, 2+2 registers, `Base` 2, 1 fault | `FabricMachine`'s invariants, that it implements `BlockFeed`, and that every block is taken |
| `reread` | 3 blocks, 1 stream, 1 fault, no reset | a block read twice corrupts the next one's data |
| `validation` | 2 keys, 3 transactions, blocks of up to 3, 1 crash | `BlockValidation` implements `SerialLedger`, and rejects nothing without reason |
| `hw_flags` | 2 transactions, one found invalid before | the card's flags shift |
| `txvalidator` | 6 kinds of peer, 2 or 3 blocks of 1 to 3 transactions with every defect, 2 workers, 1 crash, 2 errors | the codes are those of the sequential validator, the error is the first, what the card has to add, and every block is stored |
| `provider` | 2 ledgers, 2 blocks, v1.4 or v2.2 at first, 2 crashes, 2 errors | the inductive invariant and its parts, and that every creation is settled |
| `oldpvt` | 5 chains of 3 blocks, both releases, BTL 1, 1 crash, 1 error, 1 rollback | right reads, the state follows the store, nothing expired returns, nothing stays missing |
| `packets` | 6 files, 60 blocks of 1 or 2 transactions with 1, 2, 8 or 9 endorsers | the caches agree, blocks can be put together again, annotations hit |

The runs expected to fail each check one statement of a comment or a message of
the code; `PROJECT.json` quotes it under `findings`.

**Bounds.** `MaxBlock`, `MaxCrashes`, `MaxFaults`, `MaxTxs`, `BlockSize` are the
only bounds. Three blocks let two blocks' writers wait while a third is
prepared, and let a recovery recommit a block to both databases and another to
one. Two crashes give a crash during a recovery. `feed` also passes with two
faults (1.4 million states); three blocks make the low digit of the block number
wrap around once when `Base` is 2. Two keys and three transactions contain every conflict of two
writers and a reader, and of a scan with the deletion and the creation of a key
it covers; a block of three has a transaction with two predecessors.
In `txvalidator` two workers and three transactions make one wait for a slot, and the
chains hold each defect alone or with another that is found sooner or later, duplicates
in one block and in two, two upgrades of one chaincode with an invocation, one of them
rejected by the card, and configurations that apply, fail and exclude a creator. In
`provider` two ledgers are needed for one flag to be overwritten, and two crashes for one
during the recovery. In `oldpvt` three blocks hold a write, its successor and the expiry
of both; the chains have a value that comes back, a deletion with a write after it in the
same block, an update of metadata before and after, and invalid transactions. In
`packets` the certificates are 127, 128, 130, 255 and 256 bytes long, so that nested lengths
have one and two bytes, and the block numbers are 1 and 128; one file has 17
organisations.

**Configurations.** Software peers with and without parallel commit and history;
card peers with and without parallel commit, software state database and reset of
the card, with block 1 or block 2 as the first on the card.

**Fairness.** The Go scheduler runs every goroutine that can run, a waiter for a
`sync.Mutex` is not starved, an operator starts a dead peer again, and blocks
keep coming: weak fairness for the steps of the committing goroutine, the writers,
the recovery, the card and the driver. A deliver stream may break any number of
times but not at every attempt: strong fairness for its sends. Crashes, losses and
failures are never fair. In `TxValidator` the committing goroutine, the dispatcher and
the workers each go on (weak fairness) and an operator restarts a stopped peer; in
`LedgerProvider` a call that has begun goes on, a peer that is down is started and an old
store is upgraded; in `OldPvtData` blocks are delivered, the reconciler runs
periodically, and some peer has the data. `EventuallyStored` and `EveryBlockTaken` name the
situations in which the code gives up: a crash that leaves a store ahead or the
card without an answer, a failed write of the parallel commit, a lost or a
configuration block, a first client with an unknown name.

**Deadlock** is not checked: every model stops when its bounded supply of blocks
is used up, and the code has states in which it stops by itself (a refused
ledger, a lead that is not used up, a card that does not answer). The liveness
properties say when it must not stop. `CardPackets` is sequential and ends after a block.

Every property has a mutant, a plausible bug in a definition that models code
(the operators that no other definition uses, such as `NoTurn` before
`PrepareTurn`), with which TLC finds the property violated.

## 4. What is proved

Everything the run `ledger` checks of `LedgerCommit` but liveness is proved, for
every set of configurations, any number of blocks, crashes and failures:

| module | theorem | states |
|---|---|---|
| `LedgerCommitProofs` | `TypeCorrect` | `Spec => []TypeOK` |
| | `HashChainCorrect` | the hash stored with block *n* covers exactly the blocks 1..*n* |
| | `PvtGapCorrect` | the private data store is level with the block store or one ahead |
| | `PvtDataCorrect` | private data a crash may still need is never purged (sequential commit) |
| | `InductiveInvariant` | `Spec => []IInv` |
| | `AppliedInOrderCorrect` | every batch is applied once, in block order |
| | `OpensAfterCrashCorrect` | no database is ever ahead of the block store (sequential commit) |
| | `CommitsOwnBatchCorrect` | a waiting state commit finds the batch of its own block |
| | `PreparesOnCommittedStateCorrect` | software validates on the state of exactly the preceding blocks |
| | `StoresAgreeCorrect` | between blocks the stores agree (sequential commit) |
| | `NoBlockForgottenCorrect` | a prepared block is stored or has its one call on the way |
| | `CommitImplementsLedger` | `Spec => ImplementsLedger` |

None of these properties is inductive by itself, so the argument goes through
`IInv` (`LedgerCommitInvariants`), a conjunction of named parts with one lemma each
and in it one step for every action:

* `QuietInv`: a dead or opening ledger has no calls and no batch left in memory.
* `PhaseInv`: in the sequential commit the goroutine's phase tells which call is in
  progress and how high the block store is; `TurnInv`: in the parallel commit at
  most one state commit waits, that of the block after the savepoint, and none while
  a block is validated. (This is what the waiting loop of `ValidateAndPrepare` buys.)
* `HashInv`: the hash in memory, in each queued call and in each stored block is the
  chain up to that block. The in-memory hash is reloaded after a crash, so it needs
  the stored ones.
* `StateInv`, `HistoryInv`: how far each database is behind the block store in each
  phase, also after a crash there and between two recommits. With `AppliedInOrder`
  they give that a reopened ledger recommits from the right block, and that the
  recommit of blocks the card keeps to itself changes nothing.
* `PvtInv`, `PurgeInv`: the private data store leads by the block that is between the
  two stores, and the purges that wait are for blocks below its height.
* `OrderInv`: the savepoint is behind every block still to be written; it holds in
  the unsynchronised configurations as well, where `AppliedInOrder` does not, and is
  why the state there never applies more than it keeps.
* `CallsInv`: the calls to the stores are those of the prepared, unstored blocks.
* `BoundInv`: the model's bound on blocks is respected, which the refinement uses.

The refinement maps `blockStore` to `Ledger`'s chain and the length of `stateDb` to
what it has applied: adding a block is `Extend` (`AddBlockExtends`), a commit or
recommit that writes is `Apply` (`BatchApplies`), every other step stutters.

Everything the run `feed` checks of `FabricMachine` but liveness, for any number of
streams, data registers, blocks, losses and restarts, and any base of the block number:

| module | theorem | states |
|---|---|---|
| `FabricMachineProofs` | `TypeCorrect` | `Spec => []TypeOK` |
| | `NoTornBlockCorrect` | a block's data never mixes two results, unless a block is asked for again |
| | `CardComesFirstCorrect` | what a stream hands out was sent to the card before, until the orderer restarts |
| | `ImplementsBlockFeedCorrect` | `Spec => ImplementsBlockFeed` |

`ReadInv` is why the registers are not torn: register 0 is read last and only at the
end of a whole pass, so that all registers have been read only when their block was taken
(or after a reset); then the polling, which reads the number again and again, cannot take
it for the block asked for, which was not taken yet. Hence a pass over all registers starts
with register 0 unread, the card writes nothing until the pass has ended, and the low digit
is that of the number found. `DigitsOfBlockNum` is the arithmetic. `FeedInv` says of every
block a stream has passed to `SendToHardware` what `CardComesFirst` says of those it has
handed out, and that there is none before the first call has decided who sends.

The refinement maps `pending` to the result in the registers, unless they have all been
read, the card's queue and the network: a full pass is `Take` (`ReadTakes`), a reset drops
all but what is on the network, and a packet lost there is one of `pending` (`LosesOne`).

And the whole of `LedgerProvider`'s safety, for any set of channels, either
release to start from, and any number of blocks, crashes and errors:

| module | theorem | states |
|---|---|---|
| `LedgerProviderProofs` | `ProviderInvariant` | `Spec => []IInv` |
| | `RecoverableCorrect` | listed channels have their genesis block, others with a block are under the flag, recovery does not panic |
| | `StatusForEachCorrect` | both key ranges of the v2.2 id store name the same channels |
| | `OpenedAreActiveCorrect` | no open channel is paused |

`IInv` of `LedgerProvider` adds to these `PhaseKnows`: which channel the flag names
and how many blocks it has in each phase of a creation, that a running peer with the flag has
seen an error, and that an id store in the old format has no status. `MarkKeeps` is the
write of `createLedgerID`, which ends a creation and completes an interrupted one.

The safety of `BlockValidation`, for any keys, transactions, blocks, crashes and
recommits, of software and card:

| module | theorem | states |
|---|---|---|
| `BlockValidationProofs` | `ValidationInvariant` | `Spec => []IInv` |
| | `TypeCorrect` | `Spec => []TypeOK` |
| | `NoneRejectedForNothingCorrect` | what the software rejects has read something that is not current |
| | `FollowsCardCorrect` | the peer's own database is the card's after every block |
| | `ImplementsSerialLedgerCorrect` | `Spec => ImplementsSerialLedger` |

`IInv` is the invariant of the loop in `validateAndPrepareBatch` with what holds between
two blocks. `LoopInv`: the batch has exactly the keys written by the transactions accepted
so far, and laid over the database it is the state these leave one after the other.
`SoundInv` and `ReasonInv` are the two directions of a judgement: what is accepted has read
that state, what is rejected has not, or has read a key that is in the batch. `RecommitInv`
is the same for a block that is judged by its stored codes, and `CardInv` for the card's
flags. The state after so many transactions is a function defined by recursion, so each
round of the loop is one step of it. The last two theorems assume `CardSeesValid`: in the
modes with a card the transaction validator has found no transaction invalid before. Without
it they are false, and the run `hw_flags` shows how: the flags of the card shift.

The safety of `OldPvtData`, for any chain, number of blocks to live, crashes, errors and
rollbacks, both releases and the upgrade:

| module | theorem | states |
|---|---|---|
| `OldPvtDataProofs` | `OldDataInvariant` | `Spec => []IInv` |
| | `TypeCorrect` | `Spec => []TypeOK` |
| | `ReadsRightOrRefusesCorrect` | a private value is the one written as of its version, and not newer than the hash |
| | `StateFollowsStoreCorrect` | with nothing on the way, what the store has of a last write the state has |
| | `ExpiredStaysGoneCorrect` | no expired entry is in the state, however late its data comes |

`ExpiredStaysGone` is inductive as it stands: old data is either dropped, or gets the
version of a hash that has not expired. The others need `StateInv`: the hash has version
and value of the last valid write (`HashRight`), the private value is the last one as of
its own version (`PvtRight`), and a prepared batch is right for the block to come
(`BatchRight`), which is an induction over the block's transactions. `FollowInv` says of
every transaction that the store holds, or that v2.2 has written to the state and is about
to store (`Held`), and that is not still on its way there (`Pending`: v1.4's list, or the
reconciler's hands) that the state has its value, if it is the last write.

The safety of `TxValidator`, for any chain, workers, crashes and errors, both releases,
either commit, with a card or without:

| module | theorem | states |
|---|---|---|
| `TxValidatorProofs` | `ErrorOfFirstCorrect` | Validate returns the error of the first transaction that had one |
| | `FlagsInvariant` | `Spec => []IInv` |
| | `FlagsAsInSequenceCorrect` | without parallel commit the codes are those of the sequential validator |
| | `OnlyCopiesPassCorrect` | with it, only a copy of a transaction that is not yet stored passes besides |
| | `OffloadSafeCorrect` | what the card has to add is all that is missing |

`ErrorOfFirst` needs that Validate fails for no other reason than an error: every check has
a code of its own (`FormCode`, `AfterLookupCode`), so that a transaction without an error
is not left `NOT_VALIDATED`. For the flags, `WorkersInv` and `ResultsInv` say that a worker
has the result of the sequential validator (`ResultRight`) although it reads a
configuration and an index of ids that others change: a configuration is alone in its block
(`ConfigsAssumption`, what the orderer does), and the ids of the blocks before are there
unless the commit is parallel (`StoredBefore`). `UpgradesInAnyOrder` is v1.4's comparison
of upgrades, whose result is the same in every order in which Go may range over the map: an
induction over the turns of the loop. `CardMakesTheRest` compares the codes with and without
a card, check by check.

Of `CardPackets`, for any configuration file and any blocks:

| module | theorem | states |
|---|---|---|
| `CardPacketsProofs` | `CacheInvariant` | `Spec => []CacheInv` |
| | `CachesAgreeCorrect` | an id stands for one identity and an identity for one id, and none is left out with up to 16 organisations |
| | `GetVarintReads` | the parser reads any number that protobuf encoded, wherever it is |
| | `CertificatesRestored` | what was cut out of a part of a message can be put back |
| | `TransactionSent` | the packet of a transaction, with any number of endorsers |
| | `SentInvariant` | `Spec => [](CacheInv /\ SentInv)` |
| | `RebuildsBlockCorrect` | the card can put every block together that fits and whose certificates are known |
| | `AnnotationsHitCorrect` | in every block that fits the annotations are where their fields are |

`CacheInv` says that the caches hold what the table has up to where the installation is,
and that the id cache has an identity under the id the other cache has for it, but for id 0.
That nothing is left out rests on `TableIds`: the ids of a table are distinct, an induction
over the organisations of a file, since the fields of an id do not overlap (`IdsApart`) and
the certificates of one role are numbered upwards (`UserIds`).

For the packets `SentInv` keeps from `SendBlock` on that they are those of a block of
`Blocks`, with a cache in which the installation is over; the rest is about one block. The
argument follows the code:

1. `At(d, p, w)` says that message d has w at p. A varint that is there is read
   (`GetVarintReads`, an induction over the number), so a field is (`GetFieldReads`), and a
   search goes past the fields before the one it looks for (`SearchFirst`, `SearchSecond`,
   `PathAppend`). `GetFieldProgress` is why the loops end on whatever bytes.
2. `TransactionPaths` and `EndorsersPlaced` find the parts of an envelope, and
   `TxAnnotationsMade` the 17 annotations that come from them. In sixteen bits they are
   exact if the transaction fits (`AnnotationExact`).
3. After i annotations, `AdjustedTo` relates what has been copied to what has been removed.
   A field that no certificate overlaps is copied whole, and its corrected offset is where it
   is (`AnnotationHits`); `EndorsersOrdered` and `TxOrder` say that none does.
4. `Expand` undoes it: after i annotations it has the message up to the i-th cut and the
   payload from there on (`ExpandSteps`).
5. A known certificate is cached, under an id of sixteen bits and serialized as it is in
   the transaction (`KnownIsCached`, `CertificateSerialized`), and has been sent.
6. `Transactions` lists the transactions (`TransactionsListed`, an induction from the last
   one down), and header, transactions and metadata are the block (`BlockRebuilt`).

The assumptions used are those of the modules, about constants only
(`ConfigurationsAssumption`, `BoundsAssumption`, `LedgersAssumption`,
`VersionsAssumption`, `StreamsAssumption`, `CardAssumption`, `FeedBoundsAssumption`,
`ReleasesAssumption`, `BTLAssumption`, `ChainsAssumption`, `PeersAssumption`,
`WorkersAssumption`, `ConfigsAssumption`, `NumKeysAssumption`, `ValidationAssumption`,
`FilesAssumption`, `BlocksAssumption`), and `CardSeesValid`.

Every safety property that a run checks is proved, and so is every refinement of an
abstract specification. Only model-checked is what the prover cannot express, liveness under
fairness and `ENABLED`: `EveryBlockStored`, `EveryBlockTaken`, `EventuallyStored`,
`CreationSettles` and `MissingResolved`. Inductions over data are possible where a definition is a recursive
function: `RecursiveFunctions` states them with sets and functions for the predicates and
steps that a theorem with an operator as parameter would take.

## 5. What is not modelled

* The simulator (`scripts/fabric/fm_simulator.py`), a script that estimates throughput
  from latencies and that no part of a peer runs; deployment, samples, statistics; the
  interface files.
* Several channels, orderers or hardware peers: `hwPeer` and the card are one for
  the process, which these would share.
* The card itself, beyond what the driver and the packets need of it. Its table of
  certificates is not in the repository.
* Errors of reads. Contents of blocks, keys and values, except versions, and the one
  private key's two values.
* v1.4's block commit and feed, which are those of v2.2 without the parallel commit (its
  rule of when the state is written serves as a mutant). The dispatch to validation
  plugins, whose answer is one of the transaction's defects. The purge manager's
  bookkeeping, of which only the effect is modelled.
* `removeCertificateFromCache`, `getCertificateIdWithRuntimeUpdate` and
  `getCertificateById`, which nothing calls.

## 6. Plan

1. `FabricMachine`: several orderers and channels.
2. `TxValidator`: the state the plugins read in the parallel commit.
