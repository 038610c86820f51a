---------------------------- MODULE TxValidator ----------------------------
(***************************************************************************)
(* TxValidator.Validate of a peer, v1.4 and v2.2: the goroutine that       *)
(* starts a worker per transaction under a semaphore, the workers that run *)
(* validateTx, and the loop that reads their results as they come; before  *)
(* and after it as much of the commit as decides what the workers find in  *)
(* the block store and in the channel's configuration.                     *)
(*                                                                         *)
(* A transaction is a record: type, id, and                                *)
(*   bad     the defects it has, each named for the check that finds it    *)
(*   until   the last configuration its creator's organisation is part of  *)
(*   cc, up  the chaincode it invokes, and the one it upgrades, if any     *)
(***************************************************************************)
EXTENDS Integers, Sequences, Functions, FiniteSets

CONSTANTS
  Peers,       \* the peers to start from
  Chains,      \* the chains the orderer may deliver: sequences of blocks
  Workers,     \* size of the semaphore
  MaxCrashes,  \* bound: how often the peer process may die
  MaxFaults    \* bound: how often a store or a plugin fails

(***************************************************************************)
(* v14       the peer runs v1.4             hw  fmapi.IsEnabled            *)
(* parallel  the v2.2 parallel commit: a block may be stored after         *)
(*           StoreBlock has returned                                       *)
(* forbid    capability ForbidDuplicateTXIdInBlock, asked for by v1.4      *)
(***************************************************************************)
Peer == [v14 : BOOLEAN, hw : BOOLEAN, parallel : BOOLEAN, forbid : BOOLEAN]

ASSUME PeersAssumption == \A p \in Peers : p \in Peer /\ ~(p.v14 /\ p.parallel)
ASSUME WorkersAssumption == Workers \in Nat \ {0}

Transaction ==
  [type : STRING, id : STRING, bad : SUBSET STRING, until : Nat, cc : STRING, up : STRING]
ASSUME ChainsAssumption == Chains \subseteq Seq(Seq(Transaction))

(***************************************************************************)
(* The orderer puts a configuration in a block of its own, in an envelope  *)
(* that it signs as a member of the channel.                               *)
(***************************************************************************)
ConfigBlocksOf(c, n) ==
  {b \in 1..n : \E tx \in Range(c[b]) : tx.type = "config" /\ tx.bad = {}}
ConfigDefects == {"envelope", "payload", "header", "nonce", "creator", "epoch", "data", "config"}
ASSUME ConfigsAssumption ==
  \A c \in Chains : \A b \in DOMAIN c : \A tx \in Range(c[b]) :
    tx.type = "config" => /\ Len(c[b]) = 1
                          /\ tx.bad \subseteq ConfigDefects
                          /\ Cardinality(ConfigBlocksOf(c, b - 1)) <= tx.until

VARIABLES
  peer, chain,   \* fixed
  stored,        \* Seq: the flags of the blocks in the block store
  pending,       \* Seq: the flags of validated blocks that are not stored yet
  config,        \* number of the channel configuration in force
  pc,            \* "idle", "validate", "failed" (Validate returned an error), "down"
  started,       \* how many workers the dispatching goroutine has started
  stage,         \* where each worker is
  outcome,       \* the result a worker is about to send
  flags,         \* txsfltr
  valid,         \* transactions answered VALID: txidArray and the chaincode maps
  errPos,        \* the transaction whose error Validate will return, or 0
  crashes, faults

fixed   == <<peer, chain>>
ledger  == <<stored, pending>>
results == <<flags, valid, errPos>>
vars == <<peer, chain, stored, pending, config, pc, started, stage, outcome,
          flags, valid, errPos, crashes, faults>>

NoId == "no id"
NoCC == "no chaincode"

Number == Len(stored) + Len(pending) + 1
Block == chain[Number]

\* The code of the first check that fails.
FirstFailure(checks) ==
  LET failed == {i \in DOMAIN checks : ~checks[i].ok}
  IN  IF failed = {} THEN "VALID"
      ELSE checks[CHOOSE i \in failed : \A j \in failed : i <= j].code
Check(ok, code) == [ok |-> ok, code |-> code]

-----------------------------------------------------------------------------
(* Package validation: is the envelope properly formed?                    *)

ValidateSignatureHeader(tx) == {"nonce", "creator"} \cap tx.bad = {}
ValidateChannelHeader(tx) ==
  tx.type \in {"endorser", "config", "config_update"} /\ "epoch" \notin tx.bad
ValidateChannelHeaderV14(tx) ==
  ValidateChannelHeader(tx) \/ (tx.type = "token" /\ "epoch" \notin tx.bad)
ValidateCommonHeader(tx) ==
  /\ "header" \notin tx.bad
  /\ IF peer.v14 THEN ValidateChannelHeaderV14(tx) ELSE ValidateChannelHeader(tx)
  /\ ValidateSignatureHeader(tx)

\* The creator is part of the channel as it is configured now, and has signed.
CheckSignatureFromCreator(tx, cfg) == "signature" \notin tx.bad /\ cfg <= tx.until

ValidateConfigTransaction(tx) == "data" \notin tx.bad
ValidateEndorserTransaction(tx) ==
  {"data", "actions", "action header", "proposal hash"} \cap tx.bad = {}

\* With a card (hw) the signature and an endorser transaction are left to it.
Envelope(tx, cfg, hw) ==
  <<Check("payload" \notin tx.bad, "BAD_PAYLOAD"),
    Check(ValidateCommonHeader(tx), "BAD_COMMON_HEADER"),
    Check(hw \/ CheckSignatureFromCreator(tx, cfg), "BAD_CREATOR_SIGNATURE")>>
ValidateTransaction(tx, cfg, hw) == FirstFailure(Envelope(tx, cfg, hw) \o
  CASE tx.type = "endorser" ->
         <<Check(hw \/ "txid" \notin tx.bad, "BAD_PROPOSAL_TXID"),
           Check(hw \/ ValidateEndorserTransaction(tx), "INVALID_ENDORSER_TRANSACTION")>>
    [] tx.type = "config" ->
         <<Check(ValidateConfigTransaction(tx), "INVALID_CONFIG_TRANSACTION")>>
    [] OTHER -> <<Check(FALSE, "UNSUPPORTED_TX_PAYLOAD")>>)

\* v1.4 knows token transactions as well, and checks their ids itself.
ValidateTransactionV14(tx, cfg, hw) ==
  IF tx.type # "token" THEN ValidateTransaction(tx, cfg, hw)
  ELSE FirstFailure(Envelope(tx, cfg, hw)
                      \o <<Check("txid" \notin tx.bad, "BAD_PROPOSAL_TXID")>>)

Form(tx, cfg, hw) ==
  IF "envelope" \in tx.bad THEN "INVALID_OTHER_REASON"
  ELSE IF peer.v14 THEN ValidateTransactionV14(tx, cfg, hw)
  ELSE ValidateTransaction(tx, cfg, hw)

-----------------------------------------------------------------------------
(* validateTx, in the steps between which other goroutines may run.        *)

\* What follows the look-up of the id; a card takes the place of the plugins.
AfterLookupV22(tx, hw) ==
  <<Check(hw \/ "policy" \notin tx.bad, "ENDORSEMENT_POLICY_FAILURE"),
    Check(hw \/ "marshal" \notin tx.bad, "MARSHAL_TX_ERROR")>>

\* v1.4 looks for the chaincode, card or not.
AfterLookupV14(tx, hw) ==
  <<Check(hw \/ "policy" \notin tx.bad, "ENDORSEMENT_POLICY_FAILURE"),
    Check("extension" \notin tx.bad, "INVALID_OTHER_REASON"),
    Check(hw \/ "marshal" \notin tx.bad, "MARSHAL_TX_ERROR")>>
AfterLookup(tx, hw) ==
  FirstFailure(IF peer.v14 THEN AfterLookupV14(tx, hw) ELSE AfterLookupV22(tx, hw))

\* The ids the index of the block store finds, whatever the transactions' flags.
Indexed(b) ==
  {tx.id : tx \in {t \in Range(chain[b]) : {"envelope", "payload", "header"} \cap t.bad = {}}}
StoredIds == UNION {Indexed(b) : b \in 1..Len(stored)}
SkippedWithCard(tx, ids) == ~peer.hw /\ tx.id \in ids
CheckTxIdDupsLedger(tx, ids) == tx.id \in ids

Fault == faults < MaxFaults /\ faults' = faults + 1

\* Worker i is done but for sending its result.
Answer(i, code) ==
  /\ stage' = [stage EXCEPT ![i] = "answer"]
  /\ outcome' = [outcome EXCEPT ![i] = code]

Goto(i, to) == stage' = [stage EXCEPT ![i] = to] /\ UNCHANGED outcome

\* The dispatching goroutine acquires the semaphore, for one transaction after
\* the other; a worker releases it when its result is received.
Busy == {i \in DOMAIN stage : stage[i] \in {"form", "lookup", "plugin", "apply", "answer"}}
NeverReleased == Cardinality({i \in DOMAIN stage : stage[i] # "waiting"}) < Workers
Acquire == Cardinality(Busy) < Workers
StartWorker ==
  /\ pc = "validate"
  /\ started < Len(Block)
  /\ Acquire
  /\ started' = started + 1
  /\ stage' = [stage EXCEPT ![started'] = "form"]
  /\ UNCHANGED <<fixed, ledger, config, pc, outcome, results, crashes, faults>>

ValidateForm(i) ==
  /\ stage[i] = "form"
  /\ LET tx == Block[i]
         code == Form(tx, config, peer.hw)
     IN  CASE code # "VALID" -> Answer(i, code)
           [] code = "VALID" /\ tx.type = "endorser" -> Goto(i, "lookup")
           [] code = "VALID" /\ tx.type = "config" -> Goto(i, "apply")
           [] OTHER -> Answer(i, "UNKNOWN_TX_TYPE")
  /\ UNCHANGED <<fixed, ledger, config, pc, started, results, crashes, faults>>

LookUpTxId(i) ==
  /\ stage[i] = "lookup"
  /\ \/ /\ CheckTxIdDupsLedger(Block[i], StoredIds)
        /\ Answer(i, "DUPLICATE_TXID")
        /\ UNCHANGED faults
     \/ /\ ~CheckTxIdDupsLedger(Block[i], StoredIds)
        /\ Goto(i, "plugin")
        /\ UNCHANGED faults
     \/ Fault /\ Answer(i, "error")
  /\ UNCHANGED <<fixed, ledger, config, pc, started, results, crashes>>

\* Dispatch, or VSCCValidateTx; its execution may fail.
RunPlugin(i) ==
  /\ stage[i] = "plugin"
  /\ \/ Answer(i, AfterLookup(Block[i], peer.hw)) /\ UNCHANGED faults
     \/ ~peer.hw /\ Fault /\ Answer(i, "error")
  /\ UNCHANGED <<fixed, ledger, config, pc, started, results, crashes>>

\* The new configuration must be the successor of the one in force.
ApplyConfig(i) ==
  /\ stage[i] = "apply"
  /\ LET ok == "config" \notin Block[i].bad
     IN  /\ config' = IF ok THEN config + 1 ELSE config
         /\ Answer(i, IF ok THEN "VALID" ELSE "error")
  /\ UNCHANGED <<fixed, ledger, pc, started, results, crashes, faults>>

-----------------------------------------------------------------------------
(* Validate.                                                               *)

BeginValidate ==
  /\ pc = "idle"
  /\ Number <= Len(chain)
  /\ ~peer.parallel => pending = <<>>
  /\ pc' = "validate"
  /\ started' = 0
  /\ stage' = [i \in DOMAIN Block |-> "waiting"]
  /\ outcome' = [i \in DOMAIN Block |-> "NOT_VALIDATED"]
  /\ flags' = [i \in DOMAIN Block |-> "NOT_VALIDATED"]
  /\ valid' = {}
  /\ errPos' = 0
  /\ UNCHANGED <<fixed, ledger, config, crashes, faults>>

\* Of all errors, that of the first transaction is kept.
KeepFirstReceived(i) == IF errPos = 0 THEN i ELSE errPos
KeepError(i) == IF errPos = 0 \/ i < errPos THEN i ELSE errPos

ReceiveResult(i) ==
  /\ stage[i] = "answer"
  /\ stage' = [stage EXCEPT ![i] = "done"]
  /\ IF outcome[i] = "error"
     THEN errPos' = KeepError(i) /\ UNCHANGED <<flags, valid>>
     ELSE /\ flags' = [flags EXCEPT ![i] = outcome[i]]
          /\ valid' = IF outcome[i] = "VALID" THEN valid \union {i} ELSE valid
          /\ UNCHANGED errPos
  /\ UNCHANGED <<fixed, ledger, config, pc, started, outcome, crashes, faults>>

\* A transaction with the id of an earlier one of the same block.
MarkLastKept(fl) ==
  [i \in DOMAIN fl |->
     IF /\ i \in valid /\ Block[i].id # NoId
        /\ \E j \in valid : j > i /\ Block[j].id = Block[i].id
     THEN "DUPLICATE_TXID" ELSE fl[i]]
MarkTXIdDuplicates(fl) ==
  [i \in DOMAIN fl |->
     IF /\ i \in valid /\ Block[i].id # NoId
        /\ \E j \in valid : j < i /\ Block[j].id = Block[i].id
     THEN "DUPLICATE_TXID" ELSE fl[i]]

\* The upgrades of a block, and every order in which Go may range over their map.
Upgrades == {i \in valid : Block[i].up # NoCC}
Orders == Bijection(1..Cardinality(Upgrades), Upgrades)

FormerStaysValid(acc, i) ==
  IF acc.last[Block[i].up] < i THEN [acc EXCEPT !.last[Block[i].up] = i]
  ELSE [acc EXCEPT !.flags[i] = "CHAINCODE_VERSION_CONFLICT"]

\* One turn of that loop: acc.last is the last upgrade of each chaincode so far.
LaterUpgradeWins(acc, i) ==
  LET cc == Block[i].up
      last == acc.last[cc]
  IN  CASE last = 0 -> [acc EXCEPT !.last[cc] = i]
        [] last # 0 /\ last < i ->
             [acc EXCEPT !.flags[last] = "CHAINCODE_VERSION_CONFLICT", !.last[cc] = i]
        [] OTHER -> [acc EXCEPT !.flags[i] = "CHAINCODE_VERSION_CONFLICT"]

\* Former upgrades of a chaincode, and then what invokes an upgraded chaincode.
InvalidTXsForUpgradeCC(fl, order) ==
  LET upgraded == {Block[i].up : i \in Upgrades}
      turn[n \in 0..Cardinality(Upgrades)] ==
        IF n = 0 THEN [flags |-> fl, last |-> [c \in upgraded |-> 0]]
        ELSE LaterUpgradeWins(turn[n - 1], order[n])
      final == turn[Cardinality(Upgrades)].flags
  IN  [i \in DOMAIN fl |->
         IF i \in valid /\ Block[i].cc \in upgraded /\ final[i] = "VALID"
         THEN "CHAINCODE_VERSION_CONFLICT" ELSE final[i]]

FinalFlags == MarkTXIdDuplicates(flags)
FinalFlagsV14(order) == InvalidTXsForUpgradeCC(
  IF peer.forbid THEN MarkTXIdDuplicates(flags) ELSE flags, order)

AllReceived == \A i \in DOMAIN Block : stage[i] = "done"
AllValidated(fl) == \A i \in DOMAIN fl : fl[i] # "NOT_VALIDATED"

\* Validate returns: without an error, the block goes on to its commit.
EndValidate ==
  /\ pc = "validate"
  /\ AllReceived
  /\ \E fl \in IF peer.v14 THEN {FinalFlagsV14(o) : o \in Orders} ELSE {FinalFlags} :
       IF errPos = 0 /\ AllValidated(fl)
       THEN pending' = Append(pending, fl) /\ pc' = "idle"
       ELSE pending' = pending /\ pc' = "failed"
  /\ stage' = IF pc' = "idle" THEN <<>> ELSE stage
  /\ UNCHANGED <<fixed, stored, config, started, outcome, results, crashes, faults>>

\* The block store has the block: before StoreBlock returns, or, in the parallel
\* commit, when its goroutine gets that far.
StoreBlock ==
  /\ pc \in {"idle", "validate"}
  /\ pending # <<>>
  /\ stored' = Append(stored, Head(pending))
  /\ pending' = Tail(pending)
  /\ UNCHANGED <<fixed, config, pc, started, stage, outcome, results, crashes, faults>>

-----------------------------------------------------------------------------
(* The process dies, or a failed Validate has stopped the channel and the  *)
(* operator restarts it. The configuration is read from the ledger.        *)

Lost == pending' = <<>> /\ stage' = <<>> /\ pc' = "down"
Crash ==
  /\ pc # "down"
  /\ crashes < MaxCrashes
  /\ crashes' = crashes + 1
  /\ Lost
  /\ UNCHANGED <<fixed, stored, config, started, outcome, results, faults>>

StopAfterError ==
  /\ pc = "failed"
  /\ Lost
  /\ UNCHANGED <<fixed, stored, config, started, outcome, results, crashes, faults>>

ConfigBlocks(n) == ConfigBlocksOf(chain, n)
Restart ==
  /\ pc = "down"
  /\ pc' = "idle"
  /\ config' = Cardinality(ConfigBlocks(Len(stored)))
  /\ UNCHANGED <<fixed, ledger, started, stage, outcome, results, crashes, faults>>

-----------------------------------------------------------------------------
Init ==
  /\ peer \in Peers
  /\ chain \in Chains
  /\ stored = <<>> /\ pending = <<>>
  /\ config = 0
  /\ pc = "idle"
  /\ started = 0 /\ stage = <<>> /\ outcome = <<>>
  /\ flags = <<>> /\ valid = {} /\ errPos = 0
  /\ crashes = 0 /\ faults = 0

WorkerStep(i) ==
  ValidateForm(i) \/ LookUpTxId(i) \/ RunPlugin(i) \/ ApplyConfig(i)
CommitterStep ==
  \/ BeginValidate
  \/ \E i \in DOMAIN stage : ReceiveResult(i)
  \/ EndValidate

Next ==
  \/ CommitterStep
  \/ StartWorker
  \/ \E i \in DOMAIN stage : WorkerStep(i)
  \/ StoreBlock
  \/ StopAfterError \/ Restart \/ Crash

Spec == Init /\ [][Next]_vars

(***************************************************************************)
(* The Go scheduler runs every goroutine that can run; the operator        *)
(* restarts a peer that has stopped.                                       *)
(***************************************************************************)
Fairness ==
  /\ WF_vars(CommitterStep)
  /\ WF_vars(StartWorker)
  /\ WF_vars(\E i \in DOMAIN stage : WorkerStep(i))
  /\ WF_vars(StoreBlock)
  /\ WF_vars(StopAfterError \/ Restart)
FairSpec == Spec /\ Fairness

-----------------------------------------------------------------------------
(* Properties.                                                             *)

\* The validator the code is an optimisation of: one transaction after the other,
\* against the ids and the configuration of the blocks before.
Earlier(b) == 1..b-1
Alone(b, i, hw) ==
  LET tx == chain[b][i]
      form == Form(tx, Cardinality(ConfigBlocks(b - 1)), hw)
  IN  IF form # "VALID" \/ tx.type = "config" THEN form
      ELSE IF tx.type = "token" THEN "UNKNOWN_TX_TYPE"
      ELSE IF tx.id \in UNION {Indexed(c) : c \in Earlier(b)} THEN "DUPLICATE_TXID"
      ELSE AfterLookup(tx, hw)

RepeatsId(b, i, passes) ==
  /\ ~peer.v14 \/ peer.forbid
  /\ chain[b][i].id # NoId
  /\ \E j \in passes : j < i /\ chain[b][j].id = chain[b][i].id
Superseded(b, i, passes) ==
  /\ peer.v14
  /\ \E j \in passes :
       /\ chain[b][j].up # NoCC
       /\ \/ chain[b][i].cc = chain[b][j].up /\ ~RepeatsId(b, i, passes)
          \/ chain[b][i].up = chain[b][j].up /\ i < j
InSequence(b, hw) ==
  LET passes == {i \in DOMAIN chain[b] : Alone(b, i, hw) = "VALID"}
  IN  [i \in DOMAIN chain[b] |->
         IF i \notin passes THEN Alone(b, i, hw)
         ELSE IF Superseded(b, i, passes) THEN "CHAINCODE_VERSION_CONFLICT"
         ELSE IF RepeatsId(b, i, passes) THEN "DUPLICATE_TXID"
         ELSE "VALID"]

\* Neither the order in which workers run and answer, nor the order in which Go
\* ranges over a map, nor a crash or an error before, shows in the flags. (Not so
\* in the parallel commit, where a worker may not find the blocks before.)
FlagsAsInSequence ==
  ~peer.parallel =>
    \A b \in DOMAIN (stored \o pending) : (stored \o pending)[b] = InSequence(b, peer.hw)

\* In the parallel commit the one difference is a copy of a transaction of an
\* earlier block that passes for new, and what follows from it inside the block.
OnlyCopiesPass ==
  \A b \in DOMAIN stored : \A i \in DOMAIN stored[b] :
    stored[b][i] = "VALID" /\ InSequence(b, peer.hw)[i] # "VALID" =>
      /\ peer.parallel
      /\ \E c \in Earlier(b) : chain[b][i].id \in Indexed(c)

\* Validate returns "the error from the first tx in this block that returned an
\* error", whatever the order in which the workers answered.
ErrorOfFirst ==
  pc = "failed" => /\ outcome[errPos] = "error"
                   /\ \A i \in 1..errPos-1 : outcome[i] # "error"

Valid(b) == {i \in DOMAIN stored[b] : stored[b][i] = "VALID" /\ chain[b][i].type = "endorser"}

\* What is left to the card, which "is handled in hardware" and merged later.
CardAccepts(b, i) ==
  LET tx == chain[b][i]
  IN  /\ CheckSignatureFromCreator(tx, Cardinality(ConfigBlocks(b - 1)))
      /\ {"txid", "policy", "marshal"} \cap tx.bad = {}
      /\ ValidateEndorserTransaction(tx)

\* With a card that makes the checks the peer skips, no transaction becomes valid
\* that a software peer rejects, and the peers agree unless the card rejects a
\* transaction whose id, or upgrade, has by then cost another one its validity.
OffloadSafe ==
  peer.hw /\ ~peer.parallel =>
    \A b \in DOMAIN stored :
      LET merged == {i \in Valid(b) : CardAccepts(b, i)}
          software == {i \in DOMAIN chain[b] : InSequence(b, FALSE)[i] = "VALID"
                                               /\ chain[b][i].type = "endorser"}
      IN  /\ merged \subseteq software
          /\ \A i \in software \ merged :
               \E j \in DOMAIN chain[b] \ {i} :
                 /\ ~CardAccepts(b, j)
                 /\ \/ chain[b][j].id = chain[b][i].id
                    \/ chain[b][j].up # NoCC /\ chain[b][j].up \in {chain[b][i].cc, chain[b][i].up}

\* No worker waits for ever for the semaphore or for the reader of its result:
\* every block gets its flags and is stored, unless it can have none.
Unanswerable == \E b \in DOMAIN chain : \E tx \in Range(chain[b]) : "config" \in tx.bad
EveryBlockStored == Unanswerable \/ <>(Len(stored) = Len(chain))
=============================================================================
