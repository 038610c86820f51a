----------------------- MODULE LedgerCommitInvariants -----------------------
(***************************************************************************)
(* The inductive invariant of LedgerCommit: what its safety properties     *)
(* leave implicit about the phases of the committing goroutine, the queued *)
(* writers and the recovery. TLC checks it, LedgerCommitProofs proves it.  *)
(***************************************************************************)
EXTENDS LedgerCommit

NotOpen == pc \in {"down", "refused", "recover"}
BeforePrepare == pc \in {"idle", "turn", "prepare"}
AfterPrepare == pc \in {"store", "state", "history"}
Height == Len(blockStore)
WriterCalls == storeQueue \union storing

\* Nothing survives a dead process: a ledger that is not open has no goroutine.
QuietInv ==
  NotOpen => /\ storeQueue = {} /\ storing = {} /\ stateQueue = {}
             /\ purgeQueue = {} /\ current = NoBlock

\* Every hash, stored, queued or in memory, is the chain up to its block.
Chain(n) == [j \in 1..n |-> j]
HashInv ==
  /\ \A i \in 1..Height : blockStore[i] = Chain(i - 1)
  /\ \A b \in WriterCalls : b.num >= 1 /\ b.hash = Chain(b.num)
  /\ Running /\ pc # "recover" => next >= 1
  /\ BeforePrepare => commitHash = Chain(next - 1)
  /\ AfterPrepare => commitHash = Chain(next)
  /\ pc = "recover" => commitHash = Chain(Height - 1)

\* In the sequential commit the goroutine's phase says which call is in progress.
PhaseInv ==
  ~conf.parallel =>
    /\ BeforePrepare =>
         Height = next /\ WriterCalls = {} /\ stateQueue = {}
    /\ pc = "store" =>
         /\ Height = next /\ stateQueue = {} /\ current = next
         /\ \A b \in WriterCalls : b.num = next
         /\ \A b, c \in storeQueue : b = c
         /\ storing # {} => storeQueue = {}
    /\ pc = "state" =>
         /\ Height = next + 1 /\ WriterCalls = {}
         /\ stateQueue = {next} /\ current = next
    /\ pc = "history" =>
         Height = next + 1 /\ WriterCalls = {} /\ stateQueue = {}

\* How much of a block store of height h the state database of the sequential
\* commit keeps, and how far it has come in each phase.
StateInv ==
  ~conf.parallel =>
    /\ BeforePrepare \/ pc \in {"store", "history"} =>
         Len(stateDb) = StateShouldReach(Height)
    /\ pc = "state" => Len(stateDb) = StateShouldReach(Height - 1)
    /\ NotOpen => \/ Len(stateDb) = StateShouldReach(Height)
                  \/ /\ Height > 1
                     /\ Len(stateDb) = StateShouldReach(Height - 1)
    /\ pc = "recover" =>
         /\ Len(stateDb) <= recState /\ recState <= Height
         /\ recState > Len(stateDb) =>
              conf.hw /\ ~conf.swStateDb /\ Len(stateDb) = conf.startingBlock

\* The same for the history database.
HistoryInv ==
  ~conf.parallel /\ conf.history =>
    /\ BeforePrepare \/ pc = "store" => historyHeight = Height
    /\ pc \in {"state", "history"} => historyHeight = Height - 1
    /\ NotOpen => historyHeight \in {Height - 1, Height}
    /\ pc = "recover" => recHistory = historyHeight

\* The parallel commit: the state is written by at most one waiting call, that of
\* the block after the savepoint, and validation starts when there is none.
TurnInv ==
  conf.parallel /\ Synchronised =>
    /\ \A m \in stateQueue :
         /\ m = Len(stateDb) /\ current = m
         /\ m < next \/ (m = next /\ pc = "history")
    /\ pc = "prepare" => stateQueue = {} /\ next = Len(stateDb)

\* The private data store leads only while a block is between the two stores, or
\* after a crash there.
PvtInv ==
  ~conf.parallel \/ faults = 0 =>
    /\ pvtHeight \in {Height, Height + 1}
    /\ \A b \in storing : b.num = b.height
    /\ \A b, c \in storing : b = c
    /\ pvtAhead => pvtHeight = Height + 1 /\ \A b \in storing : b.num = Height + 1
    /\ ~pvtAhead /\ Running /\ pc # "recover" =>
         /\ storing = {} => pvtHeight = Height
         /\ \A b \in storing : b.num = Height /\ pvtHeight = Height + 1
    /\ pc = "recover" => (pvtAhead <=> pvtHeight > Height)

\* The sequential commit purges only what the private data store holds.
PurgeInv == ~conf.parallel => \A n \in purgeQueue : n < pvtHeight

\* The savepoint is behind every block that may still be written to the state
\* database, in the unsynchronised configurations too.
OrderInv ==
  /\ Len(stateDb) <= Savepoint + 1
  /\ current # NoBlock => Savepoint < current
  /\ BeforePrepare => Savepoint < next /\ current < next
  /\ AfterPrepare => Savepoint <= next /\ current <= next
  /\ pc = "recover" => Savepoint < recState /\ Savepoint < Height

\* Nobody works on a block beyond the bound.
BoundInv ==
  /\ Height <= MaxBlock + 1
  /\ \A b \in WriterCalls : b.num <= MaxBlock
  /\ current <= MaxBlock
  /\ pc \in {"turn", "prepare"} \/ AfterPrepare => next <= MaxBlock

\* Each prepared block that is not stored has one call on its way there, unless a
\* write failed or the private data store was ahead when the ledger was opened.
CallsInv ==
  Running /\ pc # "recover" /\ faults = 0 /\ ~pvtAhead =>
    /\ Height <= Prepared + 1
    /\ \A b \in WriterCalls : b.num \in Height..Prepared
    /\ \A n \in Height..Prepared : \E b \in WriterCalls : b.num = n
    /\ \A b \in storeQueue, c \in storing : b.num # c.num

IInv ==
  /\ TypeOK
  /\ QuietInv
  /\ HashInv
  /\ AppliedInOrder
  /\ PhaseInv
  /\ StateInv
  /\ HistoryInv
  /\ TurnInv
  /\ PvtInv
  /\ PurgeInv
  /\ OrderInv
  /\ BoundInv
  /\ CallsInv
  /\ PvtDataSurvives
  /\ OpensAfterCrash
=============================================================================
