-------------------------- MODULE BlockValidation --------------------------
(***************************************************************************)
(* How the state validator judges a block's transactions (v2.2 validation/ *)
(* validator.go): the MVCC loop of the software path with its batch of     *)
(* updates, the merge of the card's flags in the hardware path, and the    *)
(* validation without MVCC when a stored block is recommitted. A key has   *)
(* only its version; public reads and hashed private reads are checked     *)
(* alike, so a key stands for either. The update batch, the combined       *)
(* iterator, the filter that drops transactions found invalid before, and  *)
(* the card are not in the repository: they are modelled from how          *)
(* validator.go uses them.                                                 *)
(***************************************************************************)
EXTENDS ReadWriteSets, FiniteSets

CONSTANTS
  Modes,      \* hw: the card validates;  maxBad: bound on the transactions of a
              \* block that the transaction validator finds invalid
  Genesis,    \* the keys that have a value from block 0 on
  MaxTxs,     \* bound: transactions that are simulated
  BlockSize,  \* bound: transactions of a block
  MaxCrashes  \* bound: crashes of the peer

ASSUME ValidationAssumption ==
  /\ Modes \subseteq [hw : BOOLEAN, maxBad : Nat]
  /\ Genesis \subseteq Keys
  /\ MaxTxs \in Nat /\ BlockSize \in Nat \ {0} /\ MaxCrashes \in Nat

VARIABLES
  mode,
  \* durable
  db,         \* the committed version of each key in the state database
  height,     \* the number of the next block to commit to it
  last,       \* the last block in the block store, with its validation codes
  \* the peer
  phase,      \* see Phases
  doMVCC,     \* doMVCCValidation
  block,      \* the transactions of the block it processes
  txs,        \* blk.txs: the indices of those not found invalid before
  judged,     \* how many of them the loop has judged
  updates,    \* the batch: the new version of each key it touches
  valid,      \* whose validation code is VALID
  \* the other peers and the card
  simulated,  \* the transactions simulated and not in a block, in their order
  flags,      \* TxsVldFlags: the card's result for each transaction
  cardDb,     \* the versions in the card's database
  \* bounds
  simulations, crashes

durable == <<db, height, last>>
card == <<flags, cardDb>>
bounds == <<simulations, crashes>>
vars == <<mode, durable, phase, doMVCC, block, txs, judged, updates, valid,
          simulated, card, bounds>>

\* idle    waits for a block    validate  is in validateAndPrepareBatch
\* stored  the block is in the block store, its state not in the database
\* down    has died with a block stored
Phases == {"idle", "validate", "stored", "down"}

Stored == last.num = height

NoUpdates == <<>>

\* The state database with the batch on top, as the combined iterator shows it.
Combined == [key \in Keys |-> IF key \in DOMAIN updates THEN updates[key] ELSE db[key]]

\* The transaction validator's codes leave these indices to judge, in order.
ZeroBased(n, bad) ==
  LET left[j \in 0..n] == IF j = 0 THEN <<>> ELSE IF j \in bad THEN left[j - 1]
                          ELSE Append(left[j - 1], j - 1)
  IN left[n]
Without(n, bad) ==
  LET left[j \in 0..n] == IF j = 0 THEN <<>> ELSE IF j \in bad THEN left[j - 1]
                          ELSE Append(left[j - 1], j)
  IN left[n]

-----------------------------------------------------------------------------
(* Transactions are simulated by peers and ordered.                        *)

FullScan == [start |-> 1, end |-> NumKeys + 1, exhausted |-> TRUE]
NoScan == [start |-> 1, end |-> 1, exhausted |-> TRUE]
\* The caller stops at a key the query has found.
ScansTo(key) == [start |-> 1, end |-> key, exhausted |-> FALSE]
Scans == {NoScan, FullScan} \union {ScansTo(key) : key \in {x \in Keys : db[x] # NoVersion}}

\* A transaction reads one key, or scans, or does neither, and writes one key.
NoKeyOrOne == {{}} \union {{key} : key \in Keys}
Transactions ==
  {tx \in {[reads |-> [key \in r |-> db[key]], scan |-> q, results |-> Found(q, db),
            puts |-> p, deletes |-> d] :
              r \in NoKeyOrOne, q \in Scans, p \in NoKeyOrOne, d \in NoKeyOrOne} :
     /\ DOMAIN tx.reads = {} \/ tx.scan = NoScan
     /\ tx.puts = {} <=> tx.deletes # {}}

\* While a block is processed the state a transaction is simulated on is what it
\* was before: only what is simulated between blocks need be considered.
Simulate ==
  /\ phase = "idle"
  /\ simulations < MaxTxs
  /\ simulations' = simulations + 1
  /\ \E tx \in Transactions : simulated' = Append(simulated, tx)
  /\ UNCHANGED <<mode, durable, phase, doMVCC, block, txs, judged, updates, valid,
                 card, crashes>>

\* The card's validation of all the transactions of block n.
CardResult(n, b) ==
  LET run[j \in 0..Len(b)] ==
        IF j = 0 THEN [ok |-> <<>>, state |-> cardDb]
        ELSE LET good == ReadsCurrent(b[j], run[j - 1].state)
             IN [ok |-> Append(run[j - 1].ok, good),
                 state |-> IF good THEN Written(b[j], run[j - 1].state, <<n, j - 1>>)
                           ELSE run[j - 1].state]
  IN run[Len(b)]

\* A block of the first n transactions arrives; the transaction validator has found
\* some of them invalid, which the card knows nothing of.
BlockArrives(n) ==
  /\ phase = "idle"
  /\ block' = SubSeq(simulated, 1, n)
  /\ simulated' = SubSeq(simulated, n + 1, Len(simulated))
  /\ \E bad \in SUBSET (1..n) : Cardinality(bad) <= mode.maxBad /\ txs' = Without(n, bad)
  /\ phase' = "validate"
  /\ doMVCC' = TRUE
  /\ judged' = 0
  /\ updates' = NoUpdates
  /\ valid' = [j \in 1..n |-> FALSE]
  /\ IF mode.hw
     THEN LET result == CardResult(height, block')
          IN flags' = result.ok /\ cardDb' = result.state
     ELSE UNCHANGED card
  /\ UNCHANGED <<mode, durable, bounds>>

-----------------------------------------------------------------------------
(* validateAndPrepareBatch.                                                *)

\* No preceding transaction of the block has written the key, and its committed
\* version is the one that was read.
FirstInBlock(key, version) == updates = NoUpdates /\ db[key] = version
OnlyCommitted(key, version) == db[key] = version
ValidateKVRead(key, version) == key \notin DOMAIN updates /\ db[key] = version

\* The query still finds the same, the preceding transactions included.
ScanCommitted(tx) == Found(tx.scan, db) = tx.results
ValidateRangeQuery(tx) == Found(tx.scan, Combined) = tx.results

ValidateTx(tx) ==
  /\ \A key \in DOMAIN tx.reads : ValidateKVRead(key, tx.reads[key])
  /\ ValidateRangeQuery(tx)

ApplyWriteSet(tx, version) ==
  [key \in DOMAIN updates \union tx.puts \union tx.deletes |->
     IF key \in tx.puts THEN version
     ELSE IF key \in tx.deletes THEN NoVersion ELSE updates[key]]

\* The loops' common body: the code of the transaction with index n in the block.
Judge(n, code) ==
  /\ judged' = judged + 1
  /\ valid' = [valid EXCEPT ![n] = code]
  /\ updates' = IF code THEN ApplyWriteSet(block[n], <<height, n - 1>>) ELSE updates
  /\ UNCHANGED <<mode, durable, phase, doMVCC, block, txs, simulated, card, bounds>>

InLoop == phase = "validate" /\ judged < Len(txs)

SoftwareValidates ==
  /\ InLoop
  /\ ~mode.hw
  /\ LET n == txs[judged + 1] IN Judge(n, doMVCC => ValidateTx(block[n]))

\* The card's flag that the loop gives to the transaction at a position of txs.
OneBased(position) == flags[IF position < Len(flags) THEN position + 1 ELSE 1]
FlagAt(position) == flags[position]

HardwareValidates ==
  /\ InLoop
  /\ mode.hw
  /\ Judge(txs[judged + 1], FlagAt(judged + 1))

-----------------------------------------------------------------------------
(* The block store, the state database and recovery.                       *)

AddBlock ==
  /\ phase = "validate"
  /\ judged = Len(txs)
  /\ doMVCC
  /\ last' = [num |-> height, txs |-> block, valid |-> valid]
  /\ phase' = "stored"
  /\ UNCHANGED <<mode, db, height, doMVCC, block, txs, judged, updates, valid,
                 simulated, card, bounds>>

\* After the block store, or at once for a recommitted block.
CommitState ==
  /\ phase = "stored" \/ (phase = "validate" /\ judged = Len(txs) /\ ~doMVCC)
  /\ db' = Combined
  /\ height' = height + 1
  /\ phase' = "idle"
  /\ doMVCC' = TRUE
  /\ block' = <<>>
  /\ txs' = <<>>
  /\ judged' = 0
  /\ updates' = NoUpdates
  /\ valid' = <<>>
  /\ UNCHANGED <<mode, last, simulated, card, bounds>>

\* The software peer dies. A block that is not stored will be delivered again.
\* (The card does not show a block twice: FabricMachine.)
Crash ==
  /\ ~mode.hw
  /\ phase \in {"validate", "stored"}
  /\ crashes < MaxCrashes
  /\ crashes' = crashes + 1
  /\ updates' = NoUpdates
  /\ judged' = 0
  /\ phase' = IF Stored THEN "down" ELSE "validate"
  /\ valid' = [j \in 1..Len(block) |-> FALSE]
  /\ UNCHANGED <<mode, durable, doMVCC, block, txs, simulated, card, simulations>>

\* CommitLostBlock: the stored codes say which transactions are left.
AllIndices == 1..Len(last.txs)
StoredInvalid == {j \in 1..Len(last.txs) : ~last.valid[j]}
RecommitLostBlock ==
  /\ phase = "down"
  /\ phase' = "validate"
  /\ doMVCC' = FALSE
  /\ block' = last.txs
  /\ txs' = Without(Len(last.txs), StoredInvalid)
  /\ UNCHANGED <<mode, durable, judged, updates, valid, simulated, card, bounds>>

-----------------------------------------------------------------------------
Init ==
  /\ mode \in Modes
  /\ db = [key \in Keys |-> IF key \in Genesis THEN <<0, 0>> ELSE NoVersion]
  /\ height = 1
  /\ last = [num |-> 0, txs |-> <<>>, valid |-> <<>>]
  /\ phase = "idle"
  /\ doMVCC = TRUE
  /\ block = <<>>
  /\ txs = <<>>
  /\ judged = 0
  /\ updates = NoUpdates
  /\ valid = <<>>
  /\ simulated = <<>>
  /\ flags = <<>>
  /\ cardDb = db
  /\ simulations = 0
  /\ crashes = 0

Next ==
  \/ Simulate
  \/ \E n \in 1..BlockSize : n <= Len(simulated) /\ BlockArrives(n)
  \/ SoftwareValidates
  \/ HardwareValidates
  \/ AddBlock
  \/ CommitState
  \/ Crash
  \/ RecommitLostBlock

Spec == Init /\ [][Next]_vars

-----------------------------------------------------------------------------
(* Properties.                                                             *)

Version == {NoVersion} \union (Nat \X Nat)
State == [Keys -> Version]

\* The state has the shape the code gives it.
TypeOK ==
  /\ mode \in Modes
  /\ db \in State /\ cardDb \in State
  /\ height \in Nat /\ last.num \in {height - 1, height}
  /\ Len(last.txs) = Len(last.valid)
  /\ phase \in Phases
  /\ doMVCC \in BOOLEAN
  /\ Len(valid) = Len(block)
  /\ txs \in Seq(1..Len(block))
  /\ judged \in 0..Len(txs)
  /\ DOMAIN updates \subseteq Keys
  /\ \A key \in DOMAIN updates : updates[key] \in Version
  /\ Len(simulated) <= simulations /\ simulations \in Nat /\ crashes \in Nat

\* The accepted transactions of every block are serialisable in block order, and
\* the state database receives exactly their writes, also when the block is
\* recommitted after a crash with nothing but its stored codes.
StoredState ==
  IF Stored THEN StatesAfter(db, height, last.txs, last.valid)[Len(last.txs)] ELSE db
Serial == INSTANCE SerialLedger WITH
  state <- StoredState, height <- last.num + 1, block <- last.txs, valid <- last.valid
ImplementsSerialLedger == Serial!Spec

\* The software rejects no transaction without a reason: one whose reads are not
\* current, or one that read a key a valid predecessor in the block writes (even
\* if deleting and creating it in turn left it as it was).
WrittenBefore(n) ==
  UNION {block[j].puts \union block[j].deletes : j \in {m \in 1..n - 1 : valid[m]}}
NoneRejectedForNothing ==
  phase = "stored" /\ ~mode.hw =>
    \A j \in 1..Len(txs) :
      LET tx == block[txs[j]]
      IN \/ valid[txs[j]]
         \/ DOMAIN tx.reads \intersect WrittenBefore(txs[j]) # {}
         \/ ~ReadsCurrent(tx, StatesAfter(db, height, block, valid)[txs[j] - 1])

\* The state database that is kept beside the card follows the card's.
FollowsCard == mode.hw /\ phase = "idle" => db = cardDb

\* Every transaction left to judge gets the card's result for it ("Retrive entire
\* validation result (vscc + mvcc) from hardware, and merge into the block here",
\* validator.go:143-144).
MergesOwnFlags ==
  mode.hw /\ phase = "stored" => \A j \in 1..Len(txs) : valid[txs[j]] = flags[txs[j]]
=============================================================================
