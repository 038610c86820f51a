----------------------------- MODULE OldPvtData -----------------------------
(***************************************************************************)
(* The private data a peer was missing when it committed a block and that  *)
(* its reconciler brings later (CommitPvtDataOfOldBlocks), in v1.4 and     *)
(* v2.2, next to the commit of blocks, expiry, crashes, the rollback of a  *)
(* v1.4 ledger and the upgrade of the peer.                                *)
(*                                                                         *)
(* There is one private key. A block is a sequence of transactions         *)
(*   op     the value written, "delete", or "meta", an update of the key's *)
(*          metadata only, which renews the version of the key's hash      *)
(*   valid  its flag in the block                                          *)
(* and a transaction is named <<block, position>>, which is its version.   *)
(***************************************************************************)
EXTENDS Integers, Sequences, FiniteSets

CONSTANTS
  Releases,      \* the releases to start from: "v1.4" or "v2.2"
  Chains,        \* the chains the orderer may deliver: sequences of blocks
  BTL,           \* blocks to live of the collection
  MaxCrashes,    \* bound: how often the peer process may die
  MaxFaults,     \* bound: how often a step of the reconciliation fails
  MaxRollbacks   \* bound: peer node rollback

ASSUME ReleasesAssumption == Releases \subseteq {"v1.4", "v2.2"}
ASSUME BTLAssumption == BTL \in Nat
ASSUME ChainsAssumption ==
  Chains \subseteq Seq(Seq([op : {"a", "b", "delete", "meta"}, valid : BOOLEAN]))

VARIABLES
  release, chain,
  height,       \* blocks in the block store
  pvtHeight,    \* and in the private data store, which a rollback leaves alone
  stored,       \* transactions whose data is in the private data store
  missing,      \* transactions it has missing-data info of
  lastUpdated,  \* v1.4: its list of old blocks that the state may lack
  hash,         \* the key's entry in the hashed state
  pvt,          \* and in the private state
  savepoint,    \* last block of the state
  pc,           \* "idle", "prepared", "stored"; "sync", "reset" while opening; "down"
  batch,        \* txmgr.current: the updates and the data found for the block
  rec,          \* the reconciler: at = "idle", "fetched", "half", "reset"; its data
  early,        \* history: old data that met a state without its block
  crashes, faults, rollbacks

Absent == [ver |-> <<0, 0>>, val |-> "absent"]
Unchanged == [ver |-> <<0, 0>>, val |-> "unchanged"]
NoBatch == [hash |-> Absent, pvt |-> Unchanged, data |-> {}]
NoWork == [at |-> "idle", data |-> {}]

pvtStore == <<pvtHeight, stored, missing, lastUpdated>>
state    == <<hash, pvt, savepoint>>
bounds   == <<crashes, faults, rollbacks>>
vars == <<release, chain, height, pvtHeight, stored, missing, lastUpdated, hash, pvt,
          savepoint, pc, batch, rec, early, crashes, faults, rollbacks>>

Fault == faults < MaxFaults /\ faults' = faults + 1

Tx(v) == chain[v[1]][v[2]]
Versions(n) == {n} \X DOMAIN chain[n]
UpTo(n) == UNION {Versions(b) : b \in 1..n}
Later(v, w) == v[1] > w[1] \/ (v[1] = w[1] /\ v[2] > w[2])
Expired(v, n) == v[1] + BTL < n    \* once block n is committed

-----------------------------------------------------------------------------
(* The updates of block n.                                                 *)

\* The hashed state after one transaction: every peer has the hashes.
HashAfter(entry, v) ==
  CASE ~Tx(v).valid -> entry
    [] Tx(v).valid /\ Tx(v).op = "delete" -> Absent
    [] Tx(v).valid /\ Tx(v).op = "meta" ->
         IF entry = Absent THEN Absent ELSE [entry EXCEPT !.ver = v]
    [] OTHER -> [ver |-> v, val |-> Tx(v).op]

\* addPvtRWSetToPvtUpdateBatch, for the data there is.
AddPvtRWSet(entry, v, data) ==
  CASE ~Tx(v).valid \/ v \notin data \/ Tx(v).op = "meta" -> entry
    [] Tx(v).valid /\ v \in data /\ Tx(v).op = "delete" -> Absent
    [] OTHER -> [ver |-> v, val |-> Tx(v).op]

\* An update of the metadata renews the version of the private value as well, if
\* there is one and it is the one the hash is of.
IncrementPvtdataVersion(update, hashed) ==
  LET latest == IF update \in {Absent, Unchanged} THEN pvt ELSE update
  IN  IF latest # Absent /\ latest.val = hashed.val
      THEN [latest EXCEPT !.ver = hashed.ver] ELSE update

\* Block n adds up, transaction after transaction.
HashAfterBlock(n) ==
  LET after[i \in 0..Len(chain[n])] ==
        IF i = 0 THEN hash ELSE HashAfter(after[i - 1], <<n, i>>)
  IN  after[Len(chain[n])]
PvtUpdate(n, data) ==
  LET after[i \in 0..Len(chain[n])] ==
        IF i = 0 THEN Unchanged ELSE AddPvtRWSet(after[i - 1], <<n, i>>, data)
  IN  after[Len(chain[n])]

PrepareBatch(n, data) ==
  LET hashed  == HashAfterBlock(n)
      update  == PvtUpdate(n, data)
      metadata == \E v \in data \cap Versions(n) : Tx(v).valid /\ Tx(v).op = "meta"
  IN  [hash |-> hashed,
       pvt  |-> IF metadata /\ hashed # Absent /\ hashed.ver[1] = n
                THEN IncrementPvtdataVersion(update, hashed) ELSE update,
       data |-> data]

\* The purge manager adds the keys that expire with this block to the batch.
Unexpired(entry, n) ==
  IF entry # Absent /\ Expired(entry.ver, n) THEN Absent ELSE entry
SavepointTooHigh(b, n) ==
  hash' = b.hash /\ pvt' = b.pvt /\ savepoint' = n + 1
WriteState(b, n) ==
  /\ hash' = Unexpired(b.hash, n)
  /\ pvt' = Unexpired(IF b.pvt = Unchanged THEN pvt ELSE b.pvt, n)
  /\ savepoint' = n

-----------------------------------------------------------------------------
(* The commit of a block. A block the private data store has already, after *)
(* a rollback, is committed with the data found there.                     *)

ValidateAndPrepare ==
  /\ pc = "idle"
  /\ height < Len(chain)
  /\ \E data \in IF height < pvtHeight THEN {stored} ELSE SUBSET Versions(height + 1) :
       batch' = PrepareBatch(height + 1, data \cap Versions(height + 1))
  /\ pc' = "prepared"
  /\ UNCHANGED <<release, chain, height, pvtStore, state, rec, early, bounds>>

\* The private data store takes what was found and what is missing, and purges.
CommitStores ==
  /\ pc = "prepared"
  /\ height' = height + 1
  /\ IF height < pvtHeight THEN UNCHANGED <<pvtHeight, stored, missing>>
     ELSE /\ pvtHeight' = height'
          /\ stored' = {v \in stored \union batch.data : ~Expired(v, height')}
          /\ missing' = {v \in missing \union (Versions(height') \ batch.data) :
                           ~Expired(v, height')}
  /\ pc' = "stored"
  /\ UNCHANGED <<release, chain, lastUpdated, state, batch, rec, early, bounds>>

CommitState ==
  /\ pc = "stored"
  /\ WriteState(batch, height)
  /\ batch' = NoBatch
  /\ pc' = "idle"
  /\ UNCHANGED <<release, chain, height, pvtStore, rec, early, bounds>>

-----------------------------------------------------------------------------
(* The reconciler.                                                         *)

Running == pc \in {"idle", "prepared", "stored"}

\* While the private data store is ahead there is no missing-data info to be had.
\* What other peers send is checked against the hashes in the blocks.
GetMissingPvtDataInfo == IF height < pvtHeight THEN {} ELSE missing
FetchMissing ==
  /\ Running
  /\ rec = NoWork
  /\ \E data \in SUBSET GetMissingPvtDataInfo \ {{}} :
       rec' = [at |-> "fetched", data |-> data]
  /\ UNCHANGED <<release, chain, height, pvtStore, state, pc, batch, early, bounds>>

FilterPvtDataOfInvalidTx(data) == {v \in data : Tx(v).valid}

\* Of the writes of the key, the one with the highest version, if there is one.
ConstructUniquePvtData(data) ==
  LET writes == {v \in data : Tx(v).op # "meta"}
  IN  {v \in writes : \A w \in writes \ {v} : Later(v, w)}

GoneNotStale(v) == hash # Absent /\ hash.ver # v /\ hash.val # Tx(v).op
ValueIgnored(v) == hash = Absent /\ Tx(v).op # "delete"
CheckIfPvtWriteIsStale(v) ==
  IF hash = Absent THEN Tx(v).op # "delete"
  ELSE hash.ver # v /\ hash.val # Tx(v).op

\* RemoveStaleAndCommitPvtDataOfOldBlocks: under oldBlockCommit, hence one step.
ApplyOldData(data) ==
  LET fresh == {v \in ConstructUniquePvtData(FilterPvtDataOfInvalidTx(data)) :
                  ~CheckIfPvtWriteIsStale(v)}
  IN  /\ pvt' = IF fresh = {} THEN pvt
                ELSE LET v == CHOOSE w \in fresh : TRUE
                     IN  IF Tx(v).op = "delete" THEN Absent
                         ELSE [ver |-> IF hash = Absent THEN v ELSE hash.ver,
                               val |-> Tx(v).op]
      /\ early' = early \union {v \in data : v[1] > savepoint}
      /\ UNCHANGED <<hash, savepoint>>

\* v2.2 writes the state before the private data store, v1.4 after it.
StoreFirst == FALSE
StateFirst == release = "v2.2"

CommitOldDataToState ==
  /\ Running
  /\ rec.at = "fetched" /\ StateFirst
  /\ ApplyOldData(rec.data)
  /\ rec' = [rec EXCEPT !.at = "half"]
  /\ UNCHANGED <<release, chain, height, pvtStore, pc, batch, bounds>>

\* What has been stored, even of a transaction that has expired, is missing no more.
InfoKept(data) == UNCHANGED missing
Reconciled(data) == missing' = missing \ data
CommitOldDataToStore ==
  /\ Running
  /\ rec.at = IF StateFirst THEN "half" ELSE "fetched"
  /\ release = "v2.2"
  /\ stored' = stored \union {v \in rec.data : ~Expired(v, pvtHeight)}
  /\ Reconciled(rec.data)
  /\ rec' = IF StateFirst THEN NoWork ELSE [rec EXCEPT !.at = "half"]
  /\ UNCHANGED <<release, chain, height, pvtHeight, lastUpdated, state, pc, batch,
                 early, bounds>>

\* v1.4 notes the blocks with the data, and takes no more until they are cleared.
CommitOldDataToStoreV14 ==
  /\ Running
  /\ release = "v1.4" /\ rec.at = "fetched"
  /\ lastUpdated = {}
  /\ stored' = stored \union {v \in rec.data : ~Expired(v, pvtHeight)}
  /\ Reconciled(rec.data)
  /\ lastUpdated' = {v[1] : v \in rec.data}
  /\ rec' = [rec EXCEPT !.at = "half"]
  /\ UNCHANGED <<release, chain, height, pvtHeight, state, pc, batch, early, bounds>>

CommitOldDataToStateV14 ==
  /\ Running
  /\ rec.at = "half" /\ ~StateFirst
  /\ ApplyOldData(rec.data)
  /\ rec' = [rec EXCEPT !.at = "reset"]
  /\ UNCHANGED <<release, chain, height, pvtStore, pc, batch, bounds>>

ResetLastUpdatedOldBlocksList ==
  /\ Running
  /\ rec.at = "reset"
  /\ lastUpdated' = {}
  /\ rec' = NoWork
  /\ UNCHANGED <<release, chain, height, pvtHeight, stored, missing, state, pc, batch,
                 early, bounds>>

\* Any of these steps may return an error, and v1.4's store does while it has a list.
ReconciliationFails ==
  /\ Running
  /\ rec # NoWork
  /\ IF release = "v1.4" /\ rec.at = "fetched" /\ lastUpdated # {}
     THEN UNCHANGED faults ELSE Fault
  /\ rec' = NoWork
  /\ UNCHANGED <<release, chain, height, pvtStore, state, pc, batch, early, crashes,
                 rollbacks>>

-----------------------------------------------------------------------------
(* The peer stops, is upgraded or rolled back, and starts.                 *)

Crash ==
  /\ pc # "down"
  /\ crashes < MaxCrashes
  /\ crashes' = crashes + 1
  /\ pc' = "down"
  /\ batch' = NoBatch
  /\ rec' = NoWork
  /\ UNCHANGED <<release, chain, height, pvtStore, state, early, faults, rollbacks>>

UpgradePeer ==
  /\ pc = "down"
  /\ release = "v1.4"
  /\ height = pvtHeight
  /\ release' = "v2.2"
  /\ UNCHANGED <<chain, height, pvtStore, state, pc, batch, rec, early, bounds>>

\* The state is dropped with the blocks.
Rollback ==
  /\ pc = "down"
  /\ release = "v1.4"
  /\ rollbacks < MaxRollbacks
  /\ rollbacks' = rollbacks + 1
  /\ \E h \in 1..height-1 : height' = h
  /\ hash' = Absent /\ pvt' = Absent /\ savepoint' = 0
  /\ early' = {}
  /\ UNCHANGED <<release, chain, pvtStore, pc, batch, rec, crashes, faults>>

Open ==
  /\ pc = "down"
  /\ pc' = "sync"
  /\ UNCHANGED <<release, chain, height, pvtStore, state, batch, rec, early, bounds>>

\* The blocks the state lacks, with the data that is in the store by now.
RecommitLostBlock ==
  /\ pc = "sync"
  /\ savepoint < height
  /\ WriteState(PrepareBatch(savepoint + 1, stored \cap Versions(savepoint + 1)),
                savepoint + 1)
  /\ early' = early \ Versions(savepoint + 1)
  /\ UNCHANGED <<release, chain, height, pvtStore, pc, batch, rec, bounds>>

\* Then the old blocks of the list, all their data; blocks to come are left out.
FilterYetToCommitBlocks(blocks) == {b \in blocks : b <= height}
SyncStateDBWithOldBlkPvtdata ==
  /\ pc = "sync"
  /\ savepoint = height
  /\ ApplyOldData({v \in stored : v[1] \in FilterYetToCommitBlocks(lastUpdated)})
  /\ pc' = "reset"
  /\ UNCHANGED <<release, chain, height, pvtStore, batch, rec, bounds>>

Opened ==
  /\ pc = "reset"
  /\ lastUpdated' = {}
  /\ pc' = "idle"
  /\ UNCHANGED <<release, chain, height, pvtHeight, stored, missing, state, batch, rec,
                 early, bounds>>

-----------------------------------------------------------------------------
Init ==
  /\ release \in Releases
  /\ chain \in Chains
  /\ height = 0 /\ pvtHeight = 0 /\ savepoint = 0
  /\ stored = {} /\ missing = {} /\ lastUpdated = {}
  /\ hash = Absent /\ pvt = Absent
  /\ pc = "idle"
  /\ batch = NoBatch
  /\ rec = NoWork
  /\ early = {}
  /\ crashes = 0 /\ faults = 0 /\ rollbacks = 0

CommitStep == ValidateAndPrepare \/ CommitStores \/ CommitState
ReconcilerStep ==
  \/ FetchMissing
  \/ CommitOldDataToState \/ CommitOldDataToStore
  \/ CommitOldDataToStoreV14 \/ CommitOldDataToStateV14
  \/ ResetLastUpdatedOldBlocksList
OpenStep ==
  Open \/ RecommitLostBlock \/ SyncStateDBWithOldBlkPvtdata \/ Opened

Next ==
  \/ CommitStep
  \/ ReconcilerStep \/ ReconciliationFails
  \/ OpenStep
  \/ Crash \/ UpgradePeer \/ Rollback

Spec == Init /\ [][Next]_vars

(***************************************************************************)
(* Blocks keep coming until the chain's end, a peer that is down is        *)
(* started, and the reconciler runs periodically; some peer has the data.  *)
(***************************************************************************)
Fairness == WF_vars(CommitStep) /\ WF_vars(OpenStep) /\ WF_vars(ReconcilerStep)
FairSpec == Spec /\ Fairness

-----------------------------------------------------------------------------
(* Properties.                                                             *)

Entry == {Absent} \union [ver : UpTo(Len(chain)), val : {"a", "b"}]

\* The state has the shape the code gives it.
TypeOK ==
  /\ release \in {"v1.4", "v2.2"} /\ chain \in Chains
  /\ height \in 0..Len(chain) /\ pvtHeight \in height..Len(chain)
  /\ savepoint \in 0..height
  /\ stored \subseteq UpTo(pvtHeight) /\ missing \subseteq UpTo(pvtHeight)
  /\ lastUpdated \subseteq 1..pvtHeight
  /\ hash \in Entry /\ pvt \in Entry
  /\ pc \in {"idle", "prepared", "stored", "sync", "reset", "down"}
  /\ batch \in [hash : Entry, pvt : Entry \union {Unchanged}, data : SUBSET UpTo(Len(chain))]
  /\ rec \in [at : {"idle", "fetched", "half", "reset"}, data : SUBSET UpTo(pvtHeight)]
  /\ early \subseteq UpTo(pvtHeight)
  /\ crashes \in Nat /\ faults \in Nat /\ rollbacks \in Nat

\* The last valid write of the key up to a version: one transaction, or none.
LastWrite(v) ==
  LET writes == {w \in UpTo(v[1]) : Tx(w).valid /\ Tx(w).op # "meta" /\ ~Later(w, v)}
  IN  {w \in writes : \A u \in writes \ {w} : Later(w, u)}

\* A private value is the one that was written as of its version, by a transaction
\* that is valid, and it is never newer than the hash: a simulation, which compares
\* the versions of the two, reads the right value or is refused. (The state keeps a
\* value when its hash is gone, if the data of the deletion is missing.)
ReadsRightOrRefuses ==
  pvt # Absent =>
    /\ Tx(pvt.ver).valid
    /\ \A w \in LastWrite(pvt.ver) : Tx(w).op = pvt.val
    /\ hash # Absent => ~Later(pvt.ver, hash.ver)

\* When neither a block nor old data is on the way into the state, a key whose last
\* write is in the private data store has that write's value in the state, whatever
\* order the data, the blocks, crashes, a rollback and an upgrade came in. Its version
\* may lag behind if the hash has been renewed by an update of metadata. The exception
\* is data that the reconciler brought for a block that the state did not have yet.
Quiet ==
  height > 0 /\ pc = "idle" /\ rec.at \in {"idle", "fetched"} /\ lastUpdated = {}
StateFollowsStore ==
  Quiet =>
    \A w \in LastWrite(<<height, Len(chain[height])>>) :
      (w \in stored /\ w \notin early) =>
        IF Tx(w).op = "delete" THEN pvt = Absent
        ELSE /\ pvt.val = Tx(w).op
             /\ hash.ver = w => pvt.ver = w

\* What has expired does not come back, however late the reconciler brings it.
ExpiredStaysGone ==
  \A e \in {hash, pvt} \ {Absent} : ~Expired(e.ver, savepoint)

\* Every missing item is found, and is stored, in the end: no crash and no error of a
\* step makes the peer forget it, or ask for it for ever. But a v1.4 peer whose state
\* could not be updated reconciles nothing more until it is restarted.
MissingResolved ==
  <>[](height = Len(chain) /\ savepoint = height /\ (missing = {} \/ lastUpdated # {}))
=============================================================================
