--------------------------- MODULE FabricMachine ---------------------------
(***************************************************************************)
(* How a block reaches the card and how its result reaches the peer        *)
(* (v2.2): the deliver streams of the orderer call SendToHardware, which   *)
(* sends each block over UDP; the card validates it and shows the result   *)
(* in its registers; GetBlockData polls and reads them one by one over     *)
(* PCIe. The network and the card are external: the card is modelled from  *)
(* what regmap.go says of its registers.                                   *)
(*                                                                         *)
(* A block is its number. Registers 0..DataRegs-1 hold a block's flags and *)
(* latency, the two above them its number: Top the high digit, Top - 1 the *)
(* low digit, to base Base (2^15 in the code, whose two high registers are *)
(* one here). The registers are written together, so they always show one  *)
(* block: 0 after a reset.                                                 *)
(***************************************************************************)
EXTENDS Integers, Sequences, FiniteSets

CONSTANTS
  Streams,        \* the deliver streams of the orderer
  StartAt,        \* the first block each stream asks for
  Named,          \* streams whose :authority is a configured orderer
  StartingBlock,  \* fmapi.GetStartingBlock
  ResetFpga,      \* the values of fmapi.ResetFpgaCard
  ConfigBlocks,   \* the sets of configuration blocks the channel may have
  DataRegs,       \* number of registers below those of the block number
  Base,           \* number of values of the low digit of a block number
  MaxBlock,       \* bound: the last block of the channel
  MaxFaults       \* bound: lost blocks, restarts of the peer or the orderer

ASSUME StreamsAssumption ==
  /\ StartAt \in [Streams -> Nat]
  /\ Named \subseteq Streams
ASSUME CardAssumption ==
  /\ StartingBlock \in Nat \ {0}
  /\ ResetFpga \subseteq BOOLEAN
  /\ DataRegs \in Nat \ {0}
  /\ Base \in Nat \ {0, 1}
ASSUME FeedBoundsAssumption ==
  /\ MaxBlock \in Nat /\ MaxFaults \in Nat
  /\ ConfigBlocks \subseteq SUBSET Nat

Top == DataRegs + 1
Registers == 0..Top

VARIABLES
  resetFpga,     \* opening the card resets it
  \* the orderer
  configBlocks,  \* the channel's configuration blocks
  ordered,       \* height of the channel
  cursor,        \* next block of each stream
  at,            \* what each stream does with it
  initDone, isOrderer, blockToSend,  \* hwPeer
  \* the network and the card
  network,       \* blocks in flight
  results,       \* validated blocks whose result is not in the registers
  shown,         \* the block whose result the registers show
  marks,         \* registers read since they were written
  \* the peer
  received,      \* blocks the peer has got from the streams
  wanted,        \* the next block the peer validates
  reading,       \* what GetBlockData does: see Readings
  k,             \* number of registers it has read in this pass
  resRegs,       \* the block each register showed when it was last read
  taken,         \* blocks GetBlockData has read whole since the card's reset
  reread,        \* it was asked for one of them again
  \* bounds
  ordererRestarts, faults

conf == <<resetFpga, configBlocks>>
hwPeer == <<initDone, isOrderer, blockToSend>>
orderer == <<ordered, cursor, at, hwPeer>>
card == <<results, shown, marks>>
driver == <<reading, k, resRegs, taken, reread>>
peer == <<received, wanted, driver>>
bounds == <<ordererRestarts, faults>>
vars == <<conf, orderer, network, card, peer, bounds>>

\* idle  before the block is read      send   it goes to the hardware next
\* reply it goes to the client next
StreamSteps == {"idle", "send", "reply"}

\* idle  no call    poll  reads the number    full  reads all registers
\* done  returned: the block is being committed
Readings == {"idle", "poll", "full", "done"}

Fault == faults < MaxFaults /\ faults' = faults + 1

-----------------------------------------------------------------------------
(* The orderer's deliver streams: deliverBlocks and SendToHardware.        *)

OrderBlock ==
  /\ ordered <= MaxBlock
  /\ ordered' = ordered + 1
  /\ UNCHANGED <<conf, cursor, at, hwPeer, network, card, peer, bounds>>

\* cursor.Next.
NextBlock(s) ==
  /\ at[s] = "idle"
  /\ cursor[s] < ordered
  /\ at' = [at EXCEPT ![s] = "send"]
  /\ UNCHANGED <<conf, ordered, cursor, hwPeer, network, card, peer, bounds>>

CheckMessageData(n) == n # 0 /\ n \notin configBlocks

\* Only the block that is due is sent.
AnyBlock(n) == TRUE
BlockAfterDue(n) == n = blockToSend + 1
IsDue(n) == n = blockToSend

\* The first call decides, for good, whether this node sends.
SendToHardware(s) ==
  /\ at[s] = "send"
  /\ at' = [at EXCEPT ![s] = "reply"]
  /\ initDone' = TRUE
  /\ isOrderer' = IF initDone THEN isOrderer ELSE s \in Named
  /\ IF isOrderer' /\ IsDue(cursor[s]) /\ CheckMessageData(cursor[s])
     THEN /\ network' = Append(network, cursor[s])
          /\ blockToSend' = blockToSend + 1
     ELSE UNCHANGED <<network, blockToSend>>
  /\ UNCHANGED <<conf, ordered, cursor, card, peer, bounds>>

SendBlockResponse(s) ==
  /\ at[s] = "reply"
  /\ at' = [at EXCEPT ![s] = "idle"]
  /\ cursor' = [cursor EXCEPT ![s] = cursor[s] + 1]
  /\ received' = received \union {cursor[s]}
  /\ UNCHANGED <<conf, ordered, hwPeer, network, card, wanted, driver, bounds>>

\* The response fails, the client is revoked or goes away: it asks again for the
\* block it has not got.
StreamBreaks(s) ==
  /\ at[s] # "idle"
  /\ at' = [at EXCEPT ![s] = "idle"]
  /\ UNCHANGED <<conf, ordered, cursor, hwPeer, network, card, peer, bounds>>

\* The orderer's process restarts: InitConfig sets hwPeer up anew, the clients
\* come back.
OrdererRestart ==
  /\ Fault
  /\ at' = [s \in Streams |-> "idle"]
  /\ initDone' = FALSE
  /\ isOrderer' = FALSE
  /\ blockToSend' = StartingBlock
  /\ ordererRestarts' = ordererRestarts + 1
  /\ UNCHANGED <<conf, ordered, cursor, network, card, peer>>

-----------------------------------------------------------------------------
(* The network and the card.                                               *)

\* The packets of the first block in flight arrive and the card validates it.
Arrive ==
  /\ network # <<>>
  /\ results' = Append(results, Head(network))
  /\ network' = Tail(network)
  /\ UNCHANGED <<conf, orderer, shown, marks, peer, bounds>>

\* UDP loses a packet: its block never gets a result.
Lose(i) ==
  /\ i \in DOMAIN network
  /\ Fault
  /\ network' = SubSeq(network, 1, i - 1) \o SubSeq(network, i + 1, Len(network))
  /\ UNCHANGED <<conf, orderer, card, peer, ordererRestarts>>

\* The card writes new values only when all the registers have been read.
WriteRegisters ==
  /\ marks = Registers
  /\ results # <<>>
  /\ shown' = Head(results)
  /\ results' = Tail(results)
  /\ marks' = {}
  /\ UNCHANGED <<conf, orderer, network, peer, bounds>>

-----------------------------------------------------------------------------
(* The peer's driver: GetBlockData and readResRegs.                        *)

TakenBlocks == {taken[i] : i \in DOMAIN taken}

\* ValidateAndPrepare asks for the data of a block it has got.
GetBlockData ==
  /\ reading = "idle"
  /\ wanted \in received
  /\ reading' = "poll"
  /\ reread' = (reread \/ wanted \in TakenBlocks)
  /\ UNCHANGED <<conf, orderer, network, card, received, wanted, k, resRegs, taken,
                 bounds>>

\* How many registers a pass of readResRegs reads, and which it reads after j.
OneTooMany(phase) == IF phase = "poll" THEN 2 ELSE Top + 2
NumberRead(phase) == IF phase = "poll" THEN 2 ELSE Top + 1
Ascending(phase, j) == IF phase = "poll" THEN DataRegs + j ELSE j
RegisterToRead(phase, j) == Top - j

\* getBlockNum: the high digit of one register, the low digit of the next.
LowDigit(regs) == regs[Top - 1] % Base
GetBlockNum(regs) == ((regs[Top] \div Base) * Base) + (regs[Top - 1] % Base)

\* What the driver does once the pass has filled regs: the block is polled again
\* until its number is there, then all is read.
AfterPass(phase, regs) ==
  IF phase = "full" THEN "done"
  ELSE IF GetBlockNum(regs) = wanted THEN "full" ELSE "poll"

ReadRegister ==
  /\ reading \in {"poll", "full"}
  /\ LET r == RegisterToRead(reading, k)
     IN resRegs' = [resRegs EXCEPT ![r] = shown] /\ marks' = marks \union {r}
  /\ IF k + 1 < NumberRead(reading)
     THEN k' = k + 1 /\ UNCHANGED <<reading, taken>>
     ELSE /\ k' = 0
          /\ reading' = AfterPass(reading, resRegs')
          /\ taken' = IF reading = "full" THEN Append(taken, resRegs'[0]) ELSE taken
  /\ UNCHANGED <<conf, orderer, network, results, shown, received, wanted, reread,
                 bounds>>

\* The rest of StoreBlock.
Commit ==
  /\ reading = "done"
  /\ reading' = "idle"
  /\ wanted' = wanted + 1
  /\ UNCHANGED <<conf, orderer, network, card, received, k, resRegs, taken, reread,
                 bounds>>

\* The peer dies and comes back: NewFabricMachine resets the card if it is to.
PeerRestart ==
  /\ Fault
  /\ reading' = "idle"
  /\ k' = 0
  /\ resRegs' = [r \in Registers |-> 0]
  /\ IF resetFpga
     THEN results' = <<>> /\ shown' = 0 /\ marks' = Registers /\ taken' = <<>>
     ELSE UNCHANGED <<card, taken>>
  /\ UNCHANGED <<conf, orderer, network, received, wanted, reread, ordererRestarts>>

-----------------------------------------------------------------------------
Init ==
  /\ resetFpga \in ResetFpga
  /\ configBlocks \in ConfigBlocks
  /\ ordered = 1
  /\ cursor = StartAt
  /\ at = [s \in Streams |-> "idle"]
  /\ initDone = FALSE
  /\ isOrderer = FALSE
  /\ blockToSend = StartingBlock
  /\ network = <<>>
  /\ results = <<>>
  /\ shown = 0
  /\ marks = Registers
  /\ received = {}
  /\ wanted = StartingBlock
  /\ reading = "idle"
  /\ k = 0
  /\ resRegs = [r \in Registers |-> 0]
  /\ taken = <<>>
  /\ reread = FALSE
  /\ ordererRestarts = 0
  /\ faults = 0

CardStep == Arrive \/ WriteRegisters
DriverStep == GetBlockData \/ ReadRegister \/ Commit
FaultStep == OrdererRestart \/ (\E i \in DOMAIN network : Lose(i)) \/ PeerRestart

Next ==
  \/ OrderBlock
  \/ \E s \in Streams :
       NextBlock(s) \/ SendToHardware(s) \/ SendBlockResponse(s) \/ StreamBreaks(s)
  \/ CardStep
  \/ DriverStep
  \/ FaultStep

Spec == Init /\ [][Next]_vars

(***************************************************************************)
(* Every goroutine and the card run on; blocks keep coming. A stream may   *)
(* break any number of times, but not every time: hence strong fairness.   *)
(***************************************************************************)
Fairness ==
  /\ WF_vars(OrderBlock)
  /\ \A s \in Streams : /\ WF_vars(NextBlock(s))
                        /\ SF_vars(SendToHardware(s))
                        /\ SF_vars(SendBlockResponse(s))
  /\ WF_vars(CardStep)
  /\ WF_vars(DriverStep)

FairSpec == Spec /\ Fairness

-----------------------------------------------------------------------------
(* Properties.                                                             *)

\* The state has the shape the code gives it.
TypeOK ==
  /\ resetFpga \in BOOLEAN
  /\ configBlocks \subseteq Nat
  /\ ordered \in Nat
  /\ cursor \in [Streams -> Nat]
  /\ at \in [Streams -> StreamSteps]
  /\ initDone \in BOOLEAN /\ isOrderer \in BOOLEAN
  /\ blockToSend \in Nat
  /\ network \in Seq(Nat) /\ results \in Seq(Nat)
  /\ shown \in Nat
  /\ marks \subseteq Registers
  /\ received \subseteq Nat /\ wanted \in Nat
  /\ reading \in Readings
  /\ k \in Registers /\ k < NumberRead(reading)
  /\ resRegs \in [Registers -> Nat]
  /\ taken \in Seq(Nat)
  /\ reread \in BOOLEAN
  /\ ordererRestarts \in Nat /\ faults \in Nat

\* The data of a block never mixes the registers of two blocks: they all show one
\* block, the one asked for or, if its two number registers were read on either
\* side of a new result, one a multiple of Base away ("always read from the most
\* significant register to the least significant one to avoid reading partial old
\* and new data", regmap.go:73-75), as long as no block is asked for again.
NoTornBlock ==
  reading = "done" /\ ~reread =>
    \A r \in Registers :
      resRegs[r] = resRegs[0] /\ resRegs[r] % Base = wanted % Base

\* The same without the condition under which it holds.
DataIsWhole == reading = "done" => \A r \in Registers : resRegs[r] = resRegs[0]

\* The card gets a block before any peer that follows the channel from its start:
\* every block such a stream has handed out was sent, unless a configuration block
\* stopped the sending, or the orderer was restarted.
CardComesFirst ==
  isOrderer /\ ordererRestarts = 0 =>
    \A s \in Streams : StartAt[s] <= StartingBlock =>
      \A n \in StartingBlock..cursor[s] - 1 :
        n < blockToSend \/ \E c \in configBlocks : c \in StartingBlock..n

\* From the orderer to the driver, over streams that break and registers that are
\* read one by one, blocks are sent once each and taken once each, in order.
Unread == IF marks = Registers THEN <<>> ELSE <<shown>>
Feed == INSTANCE BlockFeed WITH
  first <- StartingBlock, sent <- blockToSend,
  pending <- Unread \o results \o network, taken <- taken, inSync <- ~reread
ImplementsBlockFeed == Feed!Spec

\* Every block's result reaches the peer, though it polls while the card writes,
\* when nothing is lost or restarted, no configuration block stops the sending,
\* and the first client addressed the orderer by a configured name.
EveryBlockTaken ==
  \/ <>(wanted > MaxBlock)
  \/ <>(faults > 0)
  \/ <>(configBlocks # {})
  \/ <>(initDone /\ ~isOrderer)
=============================================================================
