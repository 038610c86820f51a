------------------------ MODULE LedgerProviderProofs ------------------------
(***************************************************************************)
(* IInv is an inductive invariant of LedgerProvider, for any number of     *)
(* ledgers, blocks, crashes and failures. It holds because the flag and    *)
(* the entry of the id store change in one write, and because a creation   *)
(* that fails, fails before the genesis block is in the block store: so    *)
(* the flag that the next creation overwrites never stands for a chain.    *)
(***************************************************************************)
EXTENDS LedgerProvider, TLAPS

\* Init, with any subset of the two releases, satisfies the invariant.
LEMMA InitHolds == Init => IInv
<1> SUFFICES ASSUME Init PROVE IInv
  OBVIOUS
<1>1. TypeOK
  BY VersionsAssumption DEF Init, TypeOK, Phases
<1>2. Recoverable /\ StatusForEach
  BY DEF Init, Recoverable, ListedHasGenesis, NoOrphan, FlagIsSound, StatusForEach
<1>3. OpenedAreActive
  BY DEF Init, OpenedAreActive
<1>4. ListReturns /\ PhaseKnows
  BY DEF Init, ListReturns, PhaseKnows, Creating
<1> QED BY <1>1, <1>2, <1>3, <1>4 DEF IInv

-----------------------------------------------------------------------------
(* The one write of createLedgerID, which ends a creation and completes an *)
(* interrupted one.                                                        *)

\* When the genesis block of the flagged ledger is in the block store, marking it as
\* created preserves all that is said of the id store.
LEMMA MarkKeeps ==
  ASSUME IInv, NEW l \in Ledgers, flag = l, height[l] = 1, MarkCreated(l),
         version = "v2.2" => format = "2.0",
         UNCHANGED <<version, format, height>>
  PROVE  /\ ids' = ids \union {l} /\ flag' = NoLedger
         /\ ids' \subseteq Ledgers
         /\ status' \in [Ledgers -> {"none", "ACTIVE", "INACTIVE"}]
         /\ Recoverable' /\ StatusForEach'
         /\ version = "v2.2" => status' = [status EXCEPT ![l] = "ACTIVE"]
         /\ version = "v1.4" => status' = status
<1> USE DEF IInv, TypeOK
<1>1. CASE version = "v1.4"
  <2>1. ids' = ids \union {l} /\ status' = status /\ flag' = NoLedger
    BY <1>1 DEF MarkCreated, CreateLedgerIDV14
  <2>2. Recoverable'
    BY <2>1 DEF Recoverable, ListedHasGenesis, NoOrphan, FlagIsSound
  <2>3. StatusForEach'
    BY <1>1, <2>1 DEF PhaseKnows, StatusForEach
  <2> QED BY <1>1, <2>1, <2>2, <2>3
<1>2. CASE version = "v2.2"
  <2>1. /\ ids' = ids \union {l} /\ flag' = NoLedger
        /\ status' = [status EXCEPT ![l] = "ACTIVE"]
    BY <1>2 DEF MarkCreated, CreateLedgerID
  <2>2. Recoverable'
    BY <2>1 DEF Recoverable, ListedHasGenesis, NoOrphan, FlagIsSound
  <2>3. StatusForEach'
    BY <1>2, <2>1 DEF StatusForEach
  <2> QED BY <1>2, <2>1, <2>2, <2>3
<1> QED BY <1>1, <1>2

-----------------------------------------------------------------------------
(* The steps of the peer process.                                          *)

\* Starting the provider, with the recovery of a creation that was interrupted.
LEMMA StartKeeps == IInv /\ Start => IInv'
<1> SUFFICES ASSUME IInv, Start PROVE IInv'
  OBVIOUS
<1> USE DEF IInv, TypeOK, Recoverable, ListedHasGenesis, NoOrphan, FlagIsSound,
            StatusForEach, OpenedAreActive, ListReturns, PhaseKnows,
            GetActiveLedgerIDs, LedgerIDActive, Phases, Creating
<1>1. CASE StartProvider
  BY <1>1 DEF StartProvider, IsEmpty, stores, bounds
<1>2. CASE StartProviderV14
  BY <1>2 DEF StartProviderV14, idStore, stores, bounds
<1>3. CASE RecoverUnderConstructionLedger
  <2> USE <1>3 DEF RecoverUnderConstructionLedger, stores, bounds
  <2>1. CASE flag = NoLedger
    BY <2>1
  <2>2. CASE flag # NoLedger /\ NotCommitted(flag)
    BY <2>2 DEF NotCommitted, UnsetUnderConstructionFlag
  <2>3. CASE flag # NoLedger /\ ~NotCommitted(flag)
    BY <2>3, MarkKeeps
  <2> QED BY <2>1, <2>2, <2>3
<1> QED BY <1>1, <1>2, <1>3 DEF Start

\* The steps of Create after the flag is set.
LEMMA CreateKeeps == IInv /\ CreateStep => IInv'
<1> SUFFICES ASSUME IInv, CreateStep PROVE IInv'
  OBVIOUS
<1> USE DEF IInv, TypeOK, Recoverable, ListedHasGenesis, NoOrphan, FlagIsSound,
            StatusForEach, OpenedAreActive, ListReturns, PhaseKnows,
            GetActiveLedgerIDs, LedgerIDActive, Phases, Creating, idStore, stores, bounds
<1>1. CASE CreateOpens
  BY <1>1 DEF CreateOpens
<1>2. CASE CommitGenesisPvt
  BY <1>2 DEF CommitGenesisPvt
<1>3. CASE CommitGenesisBlock
  BY <1>3 DEF CommitGenesisBlock
<1>4. CASE CommitGenesisV14
  BY <1>4 DEF CommitGenesisV14
<1>5. CASE CreateEnds
  <2> USE <1>5 DEF CreateEnds
  <2>1. creating \in Ledgers /\ flag = creating /\ height[creating] = 1
    OBVIOUS
  <2>2. /\ ids' = ids \union {creating} /\ flag' = NoLedger /\ pc' = "running"
        /\ ids' \subseteq Ledgers
        /\ status' \in [Ledgers -> {"none", "ACTIVE", "INACTIVE"}]
        /\ Recoverable' /\ StatusForEach'
    BY <2>1, MarkKeeps
  <2>3. OpenedAreActive'
    BY <2>1, MarkKeeps
  <2>4. TypeOK'
    BY <2>1, <2>2
  <2>5. PhaseKnows' /\ ListReturns'
    BY <2>1, <2>2, MarkKeeps
  <2> QED BY <2>2, <2>3, <2>4, <2>5
<1> QED BY <1>1, <1>2, <1>3, <1>4, <1>5 DEF CreateStep

\* The steps that are about one ledger.
LEMMA LedgerStepKeeps ==
  ASSUME IInv, NEW l \in Ledgers,
         \/ CreateBegins(l)
         \/ OpenLedger(l) \/ OpenLedgerV14(l)
         \/ CommitBlock(l)
         \/ \E new \in {"ACTIVE", "INACTIVE"} : UpdateLedgerStatus(l, new)
  PROVE  IInv'
<1> USE DEF IInv, TypeOK, Recoverable, ListedHasGenesis, NoOrphan, FlagIsSound,
            StatusForEach, OpenedAreActive, ListReturns, PhaseKnows,
            GetActiveLedgerIDs, LedgerIDActive, Phases, Creating, idStore, stores, bounds
<1>1. CASE CreateBegins(l)
  BY <1>1, LedgersAssumption DEF CreateBegins, SetUnderConstructionFlag
<1>2. CASE OpenLedger(l)
  BY <1>2 DEF OpenLedger
<1>3. CASE OpenLedgerV14(l)
  BY <1>3 DEF OpenLedgerV14
<1>4. CASE CommitBlock(l)
  BY <1>4 DEF CommitBlock, process
<1>5. ASSUME NEW new \in {"ACTIVE", "INACTIVE"}, UpdateLedgerStatus(l, new) PROVE IInv'
  BY <1>5 DEF UpdateLedgerStatus, FileLockFree, process
<1> QED BY <1>1, <1>2, <1>3, <1>4, <1>5

\* Every step preserves the invariant.
LEMMA StepKeeps == IInv /\ [Next]_vars => IInv'
<1> SUFFICES ASSUME IInv, [Next]_vars PROVE IInv'
  OBVIOUS
<1> USE DEF IInv, TypeOK, Recoverable, ListedHasGenesis, NoOrphan, FlagIsSound,
            StatusForEach, OpenedAreActive, ListReturns, PhaseKnows,
            GetActiveLedgerIDs, LedgerIDActive, Phases, Creating, idStore, stores,
            process, bounds
<1>1. CASE Start
  BY <1>1, StartKeeps
<1>2. CASE CreateStep
  BY <1>2, CreateKeeps
<1>3. ASSUME NEW l \in Ledgers,
             \/ CreateBegins(l)
             \/ OpenLedger(l) \/ OpenLedgerV14(l)
             \/ CommitBlock(l)
             \/ \E new \in {"ACTIVE", "INACTIVE"} : UpdateLedgerStatus(l, new)
      PROVE IInv'
  BY <1>3, LedgerStepKeeps
<1>4. CASE CloseProvider
  BY <1>4 DEF CloseProvider
<1>5. CASE Crash
  BY <1>5 DEF Crash
<1>6. CASE CreateOpenFails
  BY <1>6 DEF CreateOpenFails, Fault, UnsetUnderConstructionFlag
<1>7. CASE CommitGenesisFails
  BY <1>7 DEF CommitGenesisFails, Fault
<1>8. CASE ListV14Spins
  BY <1>8 DEF ListV14Spins, GetAllLedgerIdsReturns
<1>9. CASE InstallV22
  BY <1>9 DEF InstallV22
<1>10. CASE UpgradeFormat
  BY <1>10 DEF UpgradeFormat, CheckUpgradeEligibility, FileLockFree
<1>11. CASE UNCHANGED vars
  BY <1>11 DEF vars
<1> QED BY <1>1, <1>2, <1>3, <1>4, <1>5, <1>6, <1>7, <1>8, <1>9, <1>10, <1>11 DEF Next

-----------------------------------------------------------------------------
(* Theorems.                                                               *)

\* IInv holds in every reachable state.
THEOREM ProviderInvariant == Spec => []IInv
BY InitHolds, StepKeeps, PTL DEF Spec

\* After any history of creations, failures and crashes a listed ledger has its
\* genesis block, none is orphaned, and the recovery does not panic.
THEOREM RecoverableCorrect == Spec => []Recoverable
<1>1. IInv => Recoverable
  BY DEF IInv
<1> QED BY <1>1, ProviderInvariant, PTL

\* Every ledger of an id store in the format of v2.2 has a status, and only those.
THEOREM StatusForEachCorrect == Spec => []StatusForEach
<1>1. IInv => StatusForEach
  BY DEF IInv
<1> QED BY <1>1, ProviderInvariant, PTL

\* No ledger that is open is paused.
THEOREM OpenedAreActiveCorrect == Spec => []OpenedAreActive
<1>1. IInv => OpenedAreActive
  BY DEF IInv
<1> QED BY <1>1, ProviderInvariant, PTL
=============================================================================
