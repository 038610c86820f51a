--------------------------- MODULE LedgerProvider ---------------------------
(***************************************************************************)
(* kvledger.Provider, v1.4 and v2.2: the id store of a peer's ledgers, the *)
(* creation of a ledger with its under-construction flag, the recovery of  *)
(* an interrupted creation when the peer starts, and the peer node         *)
(* commands that change the id store under the same file lock: the upgrade *)
(* of a v1.4 peer's store to the format of v2.2, pause and resume.         *)
(*                                                                         *)
(* A write to the id store is one LevelDB write, synchronous and atomic.   *)
(***************************************************************************)
EXTENDS Integers, FiniteSets

CONSTANTS
  Ledgers,     \* the channels the peer may be asked to join
  Versions,    \* the versions of the peer to start from
  MaxHeight,   \* bound: blocks of a ledger
  MaxCrashes,  \* bound: how often the peer process may die
  MaxFaults    \* bound: how often opening a ledger or writing a block fails

NoLedger == "no ledger"
ASSUME LedgersAssumption == NoLedger \notin Ledgers
ASSUME VersionsAssumption == Versions \subseteq {"v1.4", "v2.2"}
ASSUME BoundsAssumption ==
  MaxHeight \in Nat \ {0} /\ MaxCrashes \in Nat /\ MaxFaults \in Nat

VARIABLES
  version,   \* the installed peer
  format,    \* format key of the id store, "none" in a store of v1.4
  ids,       \* ledgers with a genesis block in the id store
  status,    \* the metadata of each ledger, or "none"
  flag,      \* the under-construction flag
  height,    \* blocks in each ledger's block store
  pvtHeight, \* and in its private data store
  pc,        \* where the peer process is: see Phases
  creating,  \* the ledger Create works on
  opened,    \* the ledgers the peer has opened
  crashes, faults

idStore == <<format, ids, status, flag>>
stores  == <<height, pvtHeight>>
process == <<pc, creating, opened>>
bounds  == <<crashes, faults>>
vars == <<version, format, ids, status, flag, height, pvtHeight, pc, creating,
          opened, crashes, faults>>

(***************************************************************************)
(* down     no process runs              starting  has lock and id store   *)
(* running  the provider is usable       open      Create opens the ledger *)
(* commit   the genesis block is next    block     its block store is next *)
(* create   createLedgerID is next       spinning  List does not return    *)
(***************************************************************************)
Phases == {"down", "starting", "running", "open", "commit", "block", "create",
           "spinning"}
Creating == {"open", "commit", "block", "create"}

Fault == faults < MaxFaults /\ faults' = faults + 1

-----------------------------------------------------------------------------
(* The id store.                                                           *)

IsEmpty == format = "none" /\ ids = {} /\ flag = NoLedger

\* The one command, or peer, that runs holds the file lock.
Unlocked == TRUE
FileLockFree == pc = "down"

SetUnderConstructionFlag(l) == flag' = l
UnsetForgotten == flag' = flag
UnsetUnderConstructionFlag == flag' = NoLedger

\* createLedgerID: the ledger and its status appear, the flag goes, at once.
StatusForgotten(l) ==
  /\ l \notin ids
  /\ ids' = ids \union {l}
  /\ status' = status
  /\ flag' = NoLedger
CreateLedgerID(l) ==
  /\ l \notin ids
  /\ ids' = ids \union {l}
  /\ status' = [status EXCEPT ![l] = "ACTIVE"]
  /\ flag' = NoLedger
FlagKeptV14(l) ==
  /\ l \notin ids
  /\ ids' = ids \union {l}
  /\ UNCHANGED <<status, flag>>
CreateLedgerIDV14(l) ==
  /\ l \notin ids
  /\ ids' = ids \union {l}
  /\ status' = status
  /\ flag' = NoLedger
MarkCreated(l) == IF version = "v1.4" THEN CreateLedgerIDV14(l) ELSE CreateLedgerID(l)

-----------------------------------------------------------------------------
(* The peer starts and stops.                                              *)

\* NewProvider: the file lock, and an id store in the current format or empty.
StartProvider ==
  /\ version = "v2.2" /\ pc = "down"
  /\ IsEmpty \/ format = "2.0"
  /\ format' = "2.0"
  /\ pc' = "starting"
  /\ UNCHANGED <<version, ids, status, flag, stores, creating, opened, bounds>>

StartProviderV14 ==
  /\ version = "v1.4" /\ pc = "down"
  /\ pc' = "starting"
  /\ UNCHANGED <<version, idStore, stores, creating, opened, bounds>>

\* recoverUnderConstructionLedger, with the block store as it finds it. Over a
\* chain that is longer, or a ledger that is in the id store, it panics: no step.
NotCommitted(l) == height[l] = 0
RecoverUnderConstructionLedger ==
  /\ pc = "starting"
  /\ \/ flag = NoLedger /\ UNCHANGED <<ids, status, flag>>
     \/ /\ flag # NoLedger /\ NotCommitted(flag)
        /\ UnsetUnderConstructionFlag
        /\ UNCHANGED <<ids, status>>
     \/ /\ flag # NoLedger /\ ~NotCommitted(flag) /\ height[flag] = 1
        /\ MarkCreated(flag)
  /\ pc' = "running"
  /\ UNCHANGED <<version, format, stores, creating, opened, bounds>>

\* Close, or the end of a NewProvider that fails after the recovery.
CloseProvider ==
  /\ pc = "running"
  /\ pc' = "down"
  /\ opened' = {}
  /\ UNCHANGED <<version, idStore, stores, creating, bounds>>

Crash ==
  /\ pc # "down"
  /\ crashes < MaxCrashes
  /\ crashes' = crashes + 1
  /\ pc' = "down"
  /\ creating' = NoLedger
  /\ opened' = {}
  /\ UNCHANGED <<version, idStore, stores, faults>>

-----------------------------------------------------------------------------
(* Create. Its callers take one lock for all ledgers.                      *)

CreateBegins(l) ==
  /\ pc = "running"
  /\ l \notin ids
  /\ SetUnderConstructionFlag(l)
  /\ creating' = l
  /\ pc' = "open"
  /\ UNCHANGED <<version, format, ids, status, stores, opened, bounds>>

MarkedBeforeCommit ==
  /\ pc = "open"
  /\ pc' = "create"
  /\ UNCHANGED <<version, idStore, stores, creating, opened, bounds>>
CreateOpens ==
  /\ pc = "open"
  /\ pc' = "commit"
  /\ UNCHANGED <<version, idStore, stores, creating, opened, bounds>>

\* The ledger cannot be opened: Create cleans up and returns the error.
CreateOpenFails ==
  /\ pc = "open"
  /\ Fault
  /\ UnsetUnderConstructionFlag
  /\ creating' = NoLedger
  /\ pc' = "running"
  /\ UNCHANGED <<version, format, ids, status, stores, opened, crashes>>

\* CommitLegacy of the genesis block, never in parallel: the private data store,
\* for which the commit waits until its height is the block's number, ...
CommitGenesisPvt ==
  /\ version = "v2.2" /\ pc = "commit"
  /\ pvtHeight[creating] = 0
  /\ pvtHeight' = [pvtHeight EXCEPT ![creating] = 1]
  /\ pc' = "block"
  /\ UNCHANGED <<version, idStore, height, creating, opened, bounds>>

\* ... and the block store.
CommitGenesisBlock ==
  /\ pc = "block"
  /\ height' = [height EXCEPT ![creating] = 1]
  /\ pc' = "create"
  /\ UNCHANGED <<version, idStore, pvtHeight, creating, opened, bounds>>

\* v1.4 hands both to one store, whose recovery makes them one write.
CommitGenesisV14 ==
  /\ version = "v1.4" /\ pc = "commit"
  /\ height' = [height EXCEPT ![creating] = 1]
  /\ pvtHeight' = [pvtHeight EXCEPT ![creating] = 1]
  /\ pc' = "create"
  /\ UNCHANGED <<version, idStore, creating, opened, bounds>>

\* The commit fails: the ledger is closed and the flag stays.
CommitGenesisFails ==
  /\ pc \in {"commit", "block"}
  /\ Fault
  /\ creating' = NoLedger
  /\ pc' = "running"
  /\ UNCHANGED <<version, idStore, stores, opened, crashes>>

CreateEnds ==
  /\ pc = "create"
  /\ MarkCreated(creating)
  /\ opened' = opened \union {creating}
  /\ creating' = NoLedger
  /\ pc' = "running"
  /\ UNCHANGED <<version, format, stores, bounds>>

-----------------------------------------------------------------------------
(* Open, List, and the blocks that follow.                                 *)

LedgerIDActive(l) == status[l] = "ACTIVE"
OpenLedger(l) ==
  /\ version = "v2.2" /\ pc = "running"
  /\ l \notin opened
  /\ LedgerIDActive(l)
  /\ opened' = opened \union {l}
  /\ UNCHANGED <<version, idStore, stores, pc, creating, bounds>>

OpenLedgerV14(l) ==
  /\ version = "v1.4" /\ pc = "running"
  /\ l \notin opened
  /\ l \in ids
  /\ opened' = opened \union {l}
  /\ UNCHANGED <<version, idStore, stores, pc, creating, bounds>>

\* What List returns. In v1.4 the loop over the keys does not move past the flag.
GetActiveLedgerIDs == {l \in Ledgers : LedgerIDActive(l)}
GetAllLedgerIdsReturns == flag = NoLedger
ListV14Spins ==
  /\ version = "v1.4" /\ pc = "running"
  /\ ~GetAllLedgerIdsReturns
  /\ pc' = "spinning"
  /\ UNCHANGED <<version, idStore, stores, creating, opened, bounds>>

CommitBlock(l) ==
  /\ pc \in Creating \union {"running"}
  /\ l \in opened
  /\ height[l] < MaxHeight
  /\ height' = [height EXCEPT ![l] = height[l] + 1]
  /\ pvtHeight' = [pvtHeight EXCEPT ![l] = height[l] + 1]
  /\ UNCHANGED <<version, idStore, process, bounds>>

-----------------------------------------------------------------------------
(* The peer node commands.                                                 *)

InstallV22 ==
  /\ version = "v1.4" /\ pc = "down"
  /\ version' = "v2.2"
  /\ UNCHANGED <<idStore, stores, process, bounds>>

\* upgradeFormat: every ledger of the old store becomes active.
CheckUpgradeEligibility == ~IsEmpty /\ format = "none"
UpgradeFormat ==
  /\ version = "v2.2" /\ FileLockFree
  /\ CheckUpgradeEligibility
  /\ format' = "2.0"
  /\ status' = [l \in Ledgers |-> IF l \in ids THEN "ACTIVE" ELSE status[l]]
  /\ UNCHANGED <<version, ids, flag, stores, process, bounds>>

\* updateLedgerStatus, for pause and resume, on a store in the current format.
UpdateLedgerStatus(l, new) ==
  /\ version = "v2.2" /\ FileLockFree
  /\ format = "2.0"
  /\ status[l] \notin {"none", new}
  /\ status' = [status EXCEPT ![l] = new]
  /\ UNCHANGED <<version, format, ids, flag, stores, process, bounds>>

-----------------------------------------------------------------------------
Init ==
  /\ version \in Versions
  /\ format = "none"
  /\ ids = {}
  /\ status = [l \in Ledgers |-> "none"]
  /\ flag = NoLedger
  /\ height = [l \in Ledgers |-> 0]
  /\ pvtHeight = [l \in Ledgers |-> 0]
  /\ pc = "down"
  /\ creating = NoLedger
  /\ opened = {}
  /\ crashes = 0 /\ faults = 0

Start == StartProvider \/ StartProviderV14
           \/ RecoverUnderConstructionLedger
CreateStep == CreateOpens \/ CommitGenesisPvt \/ CommitGenesisBlock
                \/ CommitGenesisV14 \/ CreateEnds

Next ==
  \/ Start
  \/ CloseProvider
  \/ Crash
  \/ CreateStep
  \/ CreateOpenFails \/ CommitGenesisFails
  \/ ListV14Spins
  \/ InstallV22
  \/ UpgradeFormat
  \/ \E l \in Ledgers :
       \/ CreateBegins(l)
       \/ OpenLedger(l) \/ OpenLedgerV14(l)
       \/ CommitBlock(l)
       \/ \E new \in {"ACTIVE", "INACTIVE"} : UpdateLedgerStatus(l, new)

Spec == Init /\ [][Next]_vars

(***************************************************************************)
(* A call that has begun goes on; the operator starts a peer that is down, *)
(* and upgrades a store the peer does not accept. Nobody need ask for a    *)
(* ledger, pause one or stop the peer.                                     *)
(***************************************************************************)
Fairness == WF_vars(CreateStep) /\ WF_vars(Start) /\ WF_vars(UpgradeFormat)
FairSpec == Spec /\ Fairness

-----------------------------------------------------------------------------
(* Properties.                                                             *)

\* The state has the shape the code gives it.
TypeOK ==
  /\ version \in {"v1.4", "v2.2"}
  /\ format \in {"none", "2.0"}
  /\ ids \subseteq Ledgers
  /\ status \in [Ledgers -> {"none", "ACTIVE", "INACTIVE"}]
  /\ flag \in Ledgers \union {NoLedger}
  /\ height \in [Ledgers -> Nat] /\ pvtHeight \in [Ledgers -> Nat]
  /\ pc \in Phases
  /\ creating \in Ledgers \union {NoLedger}
  /\ opened \subseteq Ledgers
  /\ crashes \in Nat /\ faults \in Nat

\* "upon a successful ledger creation with the committed genesis block": a ledger in
\* the id store has its genesis block. No ledger is orphaned: one with a block is in
\* the id store, or the flag leads the next start to it; one flag serves all ledgers,
\* and a creation that failed leaves it behind for the next one to overwrite. And the
\* recovery never meets the "data inconsistency" it panics over. All this whatever
\* crashed or failed on the way.
ListedHasGenesis == \A l \in ids : height[l] >= 1
NoOrphan == \A l \in Ledgers : height[l] >= 1 => l \in ids \/ flag = l
FlagIsSound == flag # NoLedger => height[flag] <= 1 /\ flag \notin ids
Recoverable == ListedHasGenesis /\ NoOrphan /\ FlagIsSound

\* In the format of v2.2 the two key ranges of the id store name the same ledgers:
\* what exists can be listed, opened or resumed, also after an upgrade from v1.4.
StatusForEach == format = "2.0" => \A l \in Ledgers : l \in ids <=> status[l] # "none"

\* A peer works on no ledger that is paused.
OpenedAreActive == version = "v2.2" => opened \subseteq GetActiveLedgerIDs

\* Listing the ledgers returns, also in v1.4, unless a creation has failed: no crash,
\* and no creation that succeeds, leaves a running peer with the flag.
ListReturns == pc = "spinning" => faults > 0

\* What the phases of the process know, and what an id store in the old format lacks.
PhaseKnows ==
  /\ pc \in Creating => creating = flag /\ flag # NoLedger
  /\ pc \in {"open", "commit", "block"} => height[flag] = 0
  /\ pc = "create" => height[flag] = 1
  /\ pc \in {"running", "spinning"} /\ flag # NoLedger => height[flag] = 0 /\ faults > 0
  /\ opened \subseteq ids
  /\ pc \in {"down", "starting"} => opened = {}
  /\ version = "v1.4" => format = "none"
  /\ version = "v2.2" /\ pc # "down" => format = "2.0"
  /\ format = "none" => \A l \in Ledgers : status[l] = "none"

\* The inductive invariant: the properties of the id store and what they rest on.
IInv == TypeOK /\ Recoverable /\ StatusForEach /\ OpenedAreActive /\ ListReturns
          /\ PhaseKnows

\* A creation that began is completed or undone, by Create or by the next start.
\* But v2.2 waits for ever for a private data store that is ahead already; and the
\* flag of a creation that failed is taken up by the next start only.
CreationSettles ==
  \A l \in Ledgers :
    (flag = l /\ pc \in Creating \union {"down"}) ~>
      \/ flag # l
      \/ version = "v2.2" /\ pc = "commit" /\ pvtHeight[l] > height[l]
      \/ pc = "running" /\ faults > 0
=============================================================================
