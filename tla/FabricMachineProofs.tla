------------------------ MODULE FabricMachineProofs ------------------------
(***************************************************************************)
(* FabricMachine, for any number of streams, registers and blocks: its     *)
(* types, that a block's data is never torn, and that the card comes first.*)
(***************************************************************************)
EXTENDS FabricMachine, SequenceTheorems, TLAPS

\* The shape of the state, with the bounds that the arithmetic needs.
TypeInv ==
  /\ TypeOK
  /\ reading \in {"idle", "done"} => k = 0
  /\ wanted # 0
  /\ blockToSend >= StartingBlock

\* The initial state has the shape.
LEMMA InitTypes == Init => TypeInv
<1> SUFFICES ASSUME Init PROVE TypeInv
  OBVIOUS
<1> USE StreamsAssumption, CardAssumption
<1>1. resetFpga \in BOOLEAN /\ configBlocks \subseteq Nat
  BY FeedBoundsAssumption DEF Init
<1>2. at \in [Streams -> StreamSteps] /\ cursor \in [Streams -> Nat] /\ ordered \in Nat
  BY DEF Init, StreamSteps
<1>3. initDone = FALSE /\ isOrderer = FALSE /\ reread = FALSE
  BY DEF Init
<1>4. network \in Seq(Nat) /\ results \in Seq(Nat) /\ taken \in Seq(Nat)
  BY DEF Init
<1>5. /\ k \in Registers /\ k < NumberRead(reading) /\ reading \in Readings /\ k = 0
      /\ resRegs \in [Registers -> Nat] /\ marks \subseteq Registers /\ shown \in Nat
  BY DEF Init, Registers, Top, NumberRead, Readings
<1>6. /\ blockToSend \in Nat /\ blockToSend >= StartingBlock /\ wanted \in Nat \ {0}
      /\ received \subseteq Nat /\ ordererRestarts \in Nat /\ faults \in Nat
  BY DEF Init
<1>7. initDone \in BOOLEAN /\ isOrderer \in BOOLEAN /\ reread \in BOOLEAN
  BY <1>3
<1> QED BY <1>1, <1>2, <1>4, <1>5, <1>6, <1>7 DEF TypeInv, TypeOK

\* A register that is read goes from the card to the driver.
LEMMA ReadRegisterTypes ==
  ASSUME TypeInv, ReadRegister
  PROVE  TypeInv'
<1> USE CardAssumption DEF Registers, Top
<1> DEFINE r == RegisterToRead(reading, k)
<1>1. r \in Registers /\ k \in Registers /\ k < NumberRead(reading)
  BY DEF TypeInv, TypeOK, RegisterToRead
<1>2. resRegs' = [resRegs EXCEPT ![r] = shown] /\ marks' = marks \union {r}
  BY DEF ReadRegister
<1>3. resRegs' \in [Registers -> Nat] /\ marks' \subseteq Registers
  BY <1>1, <1>2 DEF TypeInv, TypeOK
<1>4. /\ k' \in Registers /\ k' < NumberRead(reading') /\ reading' \in Readings
      /\ reading' \in {"idle", "done"} => k' = 0
      /\ taken' \in Seq(Nat)
  <2>1. CASE k + 1 < NumberRead(reading)
    <3>1. k' = k + 1 /\ reading' = reading /\ taken' = taken
      BY <2>1 DEF ReadRegister
    <3> QED BY <1>1, <2>1, <3>1 DEF TypeInv, TypeOK, NumberRead, ReadRegister
  <2>2. CASE ~(k + 1 < NumberRead(reading))
    <3>1. /\ k' = 0
          /\ reading' = AfterPass(reading, resRegs')
          /\ taken' = IF reading = "full" THEN Append(taken, resRegs'[0]) ELSE taken
      BY <2>2 DEF ReadRegister
    <3>2. reading' \in {"poll", "full", "done"}
      BY <3>1 DEF AfterPass
    <3>3. taken' \in Seq(Nat)
      BY <1>3, <3>1 DEF TypeInv, TypeOK
    <3> QED BY <3>1, <3>2, <3>3 DEF NumberRead, Readings
  <2> QED BY <2>1, <2>2
<1> QED BY <1>3, <1>4 DEF ReadRegister, TypeInv, TypeOK, conf, orderer, hwPeer, bounds

\* A sequence that loses an element is a sequence.
LEMMA RemoveTypes ==
  ASSUME NEW q \in Seq(Nat), NEW i \in DOMAIN q
  PROVE  SubSeq(q, 1, i - 1) \o SubSeq(q, i + 1, Len(q)) \in Seq(Nat)
<1> DEFINE before == SubSeq(q, 1, i - 1)
           after == SubSeq(q, i + 1, Len(q))
<1>1. /\ Len(q) \in Nat /\ i \in 1..Len(q)
      /\ \A j \in 1..Len(q) : q[j] \in Nat
  BY LenProperties
<1>2. before \in Seq(Nat)
  BY <1>1, SubSeqProperties
<1>3. after \in Seq(Nat)
  BY <1>1, SubSeqProperties
<1> HIDE DEF before, after
<1>4. before \o after \in Seq(Nat)
  BY <1>2, <1>3, ConcatProperties
<1> QED BY <1>4 DEF before, after

\* Every step keeps the shape.
LEMMA StepTypes ==
  ASSUME TypeInv, [Next]_vars
  PROVE  TypeInv'
<1> USE CardAssumption DEF TypeInv, TypeOK, conf, orderer, hwPeer, card, driver, peer, bounds
<1>1. CASE OrderBlock
  BY <1>1 DEF OrderBlock
<1>2. ASSUME NEW s \in Streams, NextBlock(s) PROVE TypeInv'
  BY <1>2 DEF NextBlock, StreamSteps
<1>3. ASSUME NEW s \in Streams, SendToHardware(s) PROVE TypeInv'
  <2> DEFINE sends == isOrderer' /\ IsDue(cursor[s]) /\ CheckMessageData(cursor[s])
  <2>1. network' \in Seq(Nat) /\ blockToSend' \in Nat /\ blockToSend' >= StartingBlock
    <3>1. CASE sends
      <4>1. network' = Append(network, cursor[s]) /\ blockToSend' = blockToSend + 1
        BY <1>3, <3>1 DEF SendToHardware
      <4> QED BY <4>1
    <3>2. CASE ~sends
      <4>1. network' = network /\ blockToSend' = blockToSend
        BY <1>3, <3>2 DEF SendToHardware
      <4> QED BY <4>1
    <3> QED BY <3>1, <3>2
  <2>2. at' \in [Streams -> StreamSteps] /\ initDone' \in BOOLEAN
    BY <1>3 DEF SendToHardware, StreamSteps
  <2>3. isOrderer' \in BOOLEAN
    <3>1. isOrderer' = IF initDone THEN isOrderer ELSE s \in Named
      BY <1>3 DEF SendToHardware
    <3>2. CASE initDone
      BY <3>1, <3>2
    <3>3. CASE ~initDone
      <4>1. isOrderer' = (s \in Named)
        BY <3>1, <3>3
      <4>2. CASE s \in Named
        BY <4>1, <4>2
      <4>3. CASE s \notin Named
        BY <4>1, <4>3
      <4> QED BY <4>2, <4>3
    <3> QED BY <3>2, <3>3
  <2>4. UNCHANGED <<conf, ordered, cursor, card, peer, bounds>>
    BY <1>3 DEF SendToHardware
  <2>5. at' \in [Streams -> StreamSteps]
    BY <2>2
  <2> QED BY <2>1, <2>2, <2>3, <2>4, <2>5
<1>4. ASSUME NEW s \in Streams, SendBlockResponse(s) PROVE TypeInv'
  <2>1. cursor' \in [Streams -> Nat] /\ at' \in [Streams -> StreamSteps]
    BY <1>4 DEF SendBlockResponse, StreamSteps
  <2>2. received' \subseteq Nat
    BY <1>4 DEF SendBlockResponse
  <2>3. UNCHANGED <<conf, ordered, hwPeer, network, card, wanted, driver, bounds>>
    BY <1>4 DEF SendBlockResponse
  <2> QED BY <2>1, <2>2, <2>3
<1>5. ASSUME NEW s \in Streams, StreamBreaks(s) PROVE TypeInv'
  BY <1>5 DEF StreamBreaks, StreamSteps
<1>6. CASE Arrive
  BY <1>6 DEF Arrive
<1>7. CASE WriteRegisters
  BY <1>7 DEF WriteRegisters
<1>8. CASE GetBlockData
  BY <1>8 DEF GetBlockData, Readings, NumberRead, Registers, Top
<1>9. CASE ReadRegister
  BY <1>9, ReadRegisterTypes
<1>10. CASE Commit
  BY <1>10 DEF Commit, Readings, NumberRead, Registers, Top
<1>11. CASE OrdererRestart
  <2>1. at' \in [Streams -> StreamSteps]
    BY <1>11 DEF OrdererRestart, StreamSteps
  <2>2. /\ blockToSend' \in Nat /\ blockToSend' >= StartingBlock
        /\ ordererRestarts' \in Nat /\ faults' \in Nat
    BY <1>11 DEF OrdererRestart, Fault
  <2>3. initDone' = FALSE /\ isOrderer' = FALSE
    BY <1>11 DEF OrdererRestart
  <2>4. initDone' \in BOOLEAN /\ isOrderer' \in BOOLEAN
    BY <2>3
  <2>5. UNCHANGED <<conf, ordered, cursor, network, card, peer>>
    BY <1>11 DEF OrdererRestart
  <2> QED BY <2>1, <2>2, <2>4, <2>5
<1>12. ASSUME NEW i \in DOMAIN network, Lose(i) PROVE TypeInv'
  <2>1. network' \in Seq(Nat)
    BY <1>12, RemoveTypes DEF Lose
  <2>2. faults' \in Nat
    BY <1>12 DEF Lose, Fault
  <2>3. UNCHANGED <<conf, orderer, card, peer, ordererRestarts>>
    BY <1>12 DEF Lose
  <2> QED BY <2>1, <2>2, <2>3
<1>13. CASE PeerRestart
  <2>1. /\ results' \in Seq(Nat) /\ shown' \in Nat /\ marks' \subseteq Registers
        /\ taken' \in Seq(Nat)
    <3>1. CASE resetFpga
      BY <1>13, <3>1 DEF PeerRestart
    <3>2. CASE ~resetFpga
      BY <1>13, <3>2 DEF PeerRestart
    <3> QED BY <3>1, <3>2
  <2>2. k' = 0 /\ reading' = "idle" /\ resRegs' \in [Registers -> Nat] /\ faults' \in Nat
    BY <1>13 DEF PeerRestart, Fault
  <2>3. /\ k' \in Registers /\ k' < NumberRead(reading') /\ reading' \in Readings
    BY <2>2 DEF Readings, NumberRead, Registers, Top
  <2>4. UNCHANGED <<conf, orderer, network, received, wanted, reread, ordererRestarts>>
    BY <1>13 DEF PeerRestart
  <2> QED BY <2>1, <2>2, <2>3, <2>4
<1>14. CASE UNCHANGED vars
  BY <1>14 DEF vars
<1> QED BY <1>1, <1>2, <1>3, <1>4, <1>5, <1>6, <1>7, <1>8, <1>9, <1>10, <1>11, <1>12,
           <1>13, <1>14 DEF Next, CardStep, DriverStep, FaultStep

\* The state always has the shape the code gives it.
THEOREM TypeCorrect == Spec => []TypeOK
<1>1. TypeInv => TypeOK
  BY DEF TypeInv
<1> QED BY <1>1, InitTypes, StepTypes, PTL DEF Spec

-----------------------------------------------------------------------------
(* A block is not torn.                                                    *)

\* While no block is asked for again: a pass over all registers ends with
\* register 0, so the registers have all been read only when their block was
\* taken, and the polling takes no such block for the one it waits for.
ReadInv ==
  ~reread =>
    /\ 0 \in marks => marks = Registers
    /\ marks = Registers => shown \in TakenBlocks \union {0}
    /\ reading \in {"poll", "full"} => wanted \notin TakenBlocks
    /\ reading = "poll" /\ k = 1 /\ marks = Registers => resRegs[Top] = shown
    /\ reading = "full" =>
         /\ 0 \notin marks
         /\ shown % Base = wanted % Base
         /\ \A r \in Registers : r > Top - k => r \in marks /\ resRegs[r] = shown
    /\ reading = "done" =>
         \A r \in Registers : resRegs[r] = resRegs[0] /\ resRegs[r] % Base = wanted % Base

\* A block's number has the low digit of the register it was put together from.
LEMMA DigitsOfBlockNum ==
  ASSUME NEW regs \in [Registers -> Nat]
  PROVE  /\ GetBlockNum(regs) % Base = regs[Top - 1] % Base
         /\ regs[Top] = regs[Top - 1] => GetBlockNum(regs) = regs[Top]
<1> USE CardAssumption
<1>1. regs[Top] \in Nat /\ regs[Top - 1] \in Nat
  BY DEF Registers, Top
<1>2. \A n \in Nat : /\ ((n \div Base) * Base) + (n % Base) = n
                     /\ n % Base \in 0..Base - 1 /\ n \div Base \in Nat
  BY Z3
<1>3. \A q \in Nat, d \in 0..Base - 1 : ((q * Base) + d) % Base = d
  BY Z3
<1>4. regs[Top] = regs[Top - 1] => GetBlockNum(regs) = regs[Top]
  BY <1>1, <1>2 DEF GetBlockNum
<1>5. GetBlockNum(regs) % Base = regs[Top - 1] % Base
  BY <1>1, <1>2, <1>3 DEF GetBlockNum
<1> QED BY <1>4, <1>5

\* At first all registers are read and show no block.
LEMMA InitRead == Init => ReadInv
  BY CardAssumption DEF Init, ReadInv, Registers, Top

\* Steps that leave the driver and the card alone, or only queue results.
LEMMA OthersRead ==
  ASSUME ReadInv, UNCHANGED <<shown, marks, wanted, driver>>
  PROVE  ReadInv'
  BY DEF ReadInv, driver, TakenBlocks, Registers, Top

\* The card writes its registers: they have all been read, so no block is.
LEMMA WriteRead ==
  ASSUME TypeInv, ReadInv, WriteRegisters
  PROVE  ReadInv'
<1> SUFFICES ASSUME ~reread' PROVE ReadInv'
  BY DEF ReadInv
<1>1. ~reread /\ UNCHANGED <<wanted, reading, k, resRegs, taken>>
  BY DEF WriteRegisters, peer, driver
<1>2. marks = Registers /\ marks' = {} /\ 0 \in Registers
  BY CardAssumption DEF WriteRegisters, Registers, Top
<1>3. reading # "full"
  BY <1>1, <1>2 DEF ReadInv
<1> QED BY <1>1, <1>2, <1>3 DEF ReadInv, TakenBlocks, Registers, Top

\* A pass of the polling that finds the block asked for has found a new result.
LEMMA PollRead ==
  ASSUME TypeInv, ReadInv, ReadRegister, reading = "poll", ~reread
  PROVE  ReadInv'
<1> USE CardAssumption
<1> DEFINE r == RegisterToRead(reading, k)
<1>1. /\ r = Top - k /\ r \in Registers \ {0} /\ k \in {0, 1} /\ 0 \in Registers
      /\ Top \in Registers /\ Top - 1 \in Registers /\ Top \in Nat
  BY DEF RegisterToRead, TypeInv, TypeOK, NumberRead, Registers, Top
<1>2. /\ resRegs' = [resRegs EXCEPT ![r] = shown] /\ marks' = marks \union {r}
      /\ resRegs \in [Registers -> Nat] /\ resRegs' \in [Registers -> Nat]
      /\ marks \subseteq Registers /\ shown \in Nat
      /\ UNCHANGED <<shown, wanted, reread, taken>> /\ TakenBlocks' = TakenBlocks
  <2>1. resRegs \in [Registers -> Nat] /\ marks \subseteq Registers /\ shown \in Nat
    BY DEF TypeInv, TypeOK
  <2>2. resRegs' = [resRegs EXCEPT ![r] = shown] /\ marks' = marks \union {r}
    BY DEF ReadRegister
  <2>3. UNCHANGED <<shown, wanted, reread, taken>>
    BY DEF ReadRegister
  <2>4. TakenBlocks' = TakenBlocks
    BY <2>3 DEF TakenBlocks
  <2>5. resRegs' \in [Registers -> Nat]
    BY <1>1, <2>1, <2>2
  <2> QED BY <2>1, <2>2, <2>3, <2>4, <2>5
<1>3. resRegs'[r] = shown
  BY <1>1, <1>2
<1>4. 0 \in marks' => marks = Registers /\ marks' = Registers
  BY <1>1, <1>2 DEF ReadInv
<1>5. marks' = Registers => marks = Registers /\ shown \in TakenBlocks \union {0}
  BY <1>1, <1>2, <1>4 DEF ReadInv
<1>6. wanted \notin TakenBlocks /\ wanted \in Nat \ {0}
  BY DEF ReadInv, TypeInv, TypeOK
<1>7. CASE k = 0
  <2>1. reading' = "poll" /\ k' = 1
    BY <1>7 DEF ReadRegister, NumberRead
  <2>2. resRegs'[Top] = shown
    BY <1>1, <1>3, <1>7
  <2>3. Registers' = Registers /\ Top' = Top
    BY DEF Registers, Top
  <2> QED BY <1>2, <1>4, <1>5, <1>6, <2>1, <2>2, <2>3 DEF ReadInv
<1>8. CASE k = 1
  <2>1. k' = 0 /\ reading' = IF GetBlockNum(resRegs') = wanted THEN "full" ELSE "poll"
    BY <1>8 DEF ReadRegister, NumberRead, AfterPass
  <2>2. resRegs'[Top - 1] = shown /\ resRegs'[Top] = resRegs[Top]
    BY <1>1, <1>2, <1>3, <1>8
  <2>3. CASE GetBlockNum(resRegs') = wanted
    <3>1. shown % Base = wanted % Base
      BY <1>2, <2>2, <2>3, DigitsOfBlockNum
    <3>2. marks # Registers
      <4> SUFFICES ASSUME marks = Registers PROVE FALSE
        OBVIOUS
      <4>1. resRegs[Top] = shown /\ shown \in TakenBlocks \union {0}
        BY <1>8 DEF ReadInv
      <4>2. GetBlockNum(resRegs') = shown
        BY <1>2, <2>2, <4>1, DigitsOfBlockNum
      <4> QED BY <1>6, <2>3, <4>1, <4>2
    <3>3. 0 \notin marks' /\ marks' # Registers
      BY <1>4, <1>5, <3>2
    <3>4. reading' = "full"
      BY <2>1, <2>3
    <3>5. \A q \in Registers : ~(q > Top - k')
      BY <1>1, <2>1 DEF Registers
    <3>6. Registers' = Registers /\ Top' = Top
      BY DEF Registers, Top
    <3> QED BY <1>2, <1>6, <3>1, <3>3, <3>4, <3>5, <3>6 DEF ReadInv
  <2>4. CASE GetBlockNum(resRegs') # wanted
    <3>1. reading' = "poll"
      BY <2>1, <2>4
    <3>2. Registers' = Registers /\ Top' = Top
      BY DEF Registers, Top
    <3> QED BY <1>2, <1>4, <1>5, <1>6, <2>1, <3>1, <3>2 DEF ReadInv
  <2> QED BY <2>3, <2>4
<1> QED BY <1>1, <1>7, <1>8

\* A pass over all registers reads one result, and takes it with register 0.
LEMMA FullRead ==
  ASSUME TypeInv, ReadInv, ReadRegister, reading = "full", ~reread
  PROVE  ReadInv'
<1> USE CardAssumption
<1> DEFINE r == Top - k
<1>1. /\ r \in Registers /\ k \in 0..Top /\ 0 \in Registers /\ Top \in Nat
      /\ Registers = 0..Top /\ Registers' = Registers /\ Top' = Top
  BY DEF TypeInv, TypeOK, Registers, Top
<1>2. resRegs \in [Registers -> Nat] /\ marks \subseteq Registers /\ taken \in Seq(Nat)
  BY DEF TypeInv, TypeOK
<1>3. /\ resRegs' = [resRegs EXCEPT ![r] = shown] /\ marks' = marks \union {r}
      /\ UNCHANGED <<shown, wanted, reread>>
  BY DEF ReadRegister, RegisterToRead
<1>4. /\ 0 \notin marks /\ shown % Base = wanted % Base /\ wanted \notin TakenBlocks
      /\ \A q \in Registers : q > Top - k => q \in marks /\ resRegs[q] = shown
  BY DEF ReadInv
<1>5. \A q \in Registers : q >= Top - k => q \in marks' /\ resRegs'[q] = shown
  BY <1>1, <1>2, <1>3, <1>4
<1>6. CASE k < Top
  <2>1. k' = k + 1 /\ reading' = "full" /\ taken' = taken
    BY <1>1, <1>6 DEF ReadRegister, NumberRead
  <2>2. TakenBlocks' = TakenBlocks
    BY <2>1 DEF TakenBlocks
  <2>3. 0 \notin marks'
    BY <1>1, <1>3, <1>4, <1>6
  <2>4. \A q \in Registers : q > Top - k' => q \in marks' /\ resRegs'[q] = shown
    BY <1>1, <1>5, <2>1
  <2> QED BY <1>1, <1>3, <1>4, <2>1, <2>2, <2>3, <2>4 DEF ReadInv
<1>7. CASE k = Top
  <2>1. k' = 0 /\ reading' = "done" /\ taken' = Append(taken, resRegs'[0])
    BY <1>1, <1>7 DEF ReadRegister, NumberRead, AfterPass
  <2>2. \A q \in Registers : q \in marks' /\ resRegs'[q] = shown
    BY <1>1, <1>5, <1>7
  <2>3. marks' = Registers
    BY <1>1, <1>2, <1>3, <2>2
  <2>4. shown \in TakenBlocks'
    <3>1. resRegs'[0] = shown /\ shown \in Nat
      BY <1>1, <2>2 DEF TypeInv, TypeOK
    <3>2. taken'[Len(taken) + 1] = shown /\ Len(taken) + 1 \in DOMAIN taken'
      BY <1>2, <2>1, <3>1, AppendProperties
    <3> QED BY <3>2 DEF TakenBlocks
  <2> QED BY <1>1, <1>3, <1>4, <2>1, <2>2, <2>3, <2>4 DEF ReadInv
<1> QED BY <1>1, <1>6, <1>7

\* Every step keeps what is known of the registers.
LEMMA StepRead ==
  ASSUME TypeInv, ReadInv, [Next]_vars
  PROVE  ReadInv'
<1> USE DEF conf, orderer, hwPeer, card, driver, peer, bounds
<1>1. CASE OrderBlock
  BY <1>1, OthersRead DEF OrderBlock
<1>2. ASSUME NEW s \in Streams, NextBlock(s) PROVE ReadInv'
  BY <1>2, OthersRead DEF NextBlock
<1>3. ASSUME NEW s \in Streams, SendToHardware(s) PROVE ReadInv'
  BY <1>3, OthersRead DEF SendToHardware
<1>4. ASSUME NEW s \in Streams, SendBlockResponse(s) PROVE ReadInv'
  BY <1>4, OthersRead DEF SendBlockResponse
<1>5. ASSUME NEW s \in Streams, StreamBreaks(s) PROVE ReadInv'
  BY <1>5, OthersRead DEF StreamBreaks
<1>6. CASE Arrive
  BY <1>6, OthersRead DEF Arrive
<1>7. CASE WriteRegisters
  BY <1>7, WriteRead
\* A block that was taken before is asked for again, or it was not taken.
<1>8. CASE GetBlockData
  <2>1. k = 0 /\ UNCHANGED <<shown, marks, wanted, k, resRegs, taken>>
    BY <1>8 DEF GetBlockData, TypeInv
  <2>2. reading' = "poll" /\ reread' = (reread \/ wanted \in TakenBlocks)
    BY <1>8 DEF GetBlockData
  <2>3. TakenBlocks' = TakenBlocks
    BY <2>1 DEF TakenBlocks
  <2> SUFFICES ASSUME ~reread' PROVE ReadInv'
    BY DEF ReadInv
  <2>4. ~reread /\ wanted \notin TakenBlocks
    BY <2>2
  <2> QED BY <2>1, <2>2, <2>3, <2>4 DEF ReadInv, Registers, Top
<1>9. CASE ReadRegister
  <2>1. CASE reread
    BY <1>9, <2>1 DEF ReadRegister, ReadInv
  <2>2. CASE ~reread
    BY <1>9, <2>2, PollRead, FullRead DEF ReadRegister
  <2> QED BY <2>1, <2>2
<1>10. CASE Commit
  BY <1>10 DEF Commit, ReadInv, TakenBlocks, Registers, Top
<1>11. CASE OrdererRestart
  BY <1>11, OthersRead DEF OrdererRestart
<1>12. ASSUME NEW i \in DOMAIN network, Lose(i) PROVE ReadInv'
  BY <1>12, OthersRead DEF Lose
<1>13. CASE PeerRestart
  <2>1. reading' = "idle" /\ reread' = reread
    BY <1>13 DEF PeerRestart
  <2>2. CASE resetFpga
    <3>1. shown' = 0 /\ marks' = Registers
      BY <1>13, <2>2 DEF PeerRestart
    <3> QED BY <2>1, <3>1 DEF ReadInv, Registers, Top
  <2>3. CASE ~resetFpga
    <3>1. UNCHANGED <<shown, marks, taken>>
      BY <1>13, <2>3 DEF PeerRestart
    <3>2. TakenBlocks' = TakenBlocks
      BY <3>1 DEF TakenBlocks
    <3> QED BY <2>1, <3>1, <3>2 DEF ReadInv, Registers, Top
  <2> QED BY <2>2, <2>3
<1>14. CASE UNCHANGED vars
  BY <1>14, OthersRead DEF vars
<1> QED BY <1>1, <1>2, <1>3, <1>4, <1>5, <1>6, <1>7, <1>8, <1>9, <1>10, <1>11, <1>12,
           <1>13, <1>14 DEF Next, CardStep, DriverStep, FaultStep

\* No block's data is put together from two results, unless a block is asked for
\* again: for every number of registers, and every split of the block number.
THEOREM NoTornBlockCorrect == Spec => []NoTornBlock
<1>1. ReadInv => NoTornBlock
  BY DEF ReadInv, NoTornBlock
<1> QED BY <1>1, InitTypes, StepTypes, InitRead, StepRead, PTL DEF Spec

-----------------------------------------------------------------------------
(* The card comes first.                                                   *)

\* The last block stream s has passed to SendToHardware.
Passed(s) == IF at[s] = "reply" THEN cursor[s] ELSE cursor[s] - 1

\* Block n was sent to the card, or a configuration block stopped the sending.
SentOrStopped(n) ==
  n < blockToSend \/ \E c \in configBlocks : c \in StartingBlock..n

\* Until the orderer is restarted, every block a stream has passed on from the
\* start of the channel was sent; no stream has passed any before the first call.
FeedInv ==
  ordererRestarts = 0 =>
    /\ ~initDone => \A s \in Streams : cursor[s] = StartAt[s] /\ at[s] # "reply"
    /\ isOrderer =>
         \A s \in Streams : StartAt[s] <= StartingBlock =>
           \A n \in StartingBlock..Passed(s) : SentOrStopped(n)

\* At first no stream has passed on any block.
LEMMA InitFeed == Init => FeedInv
  BY DEF Init, FeedInv

\* Steps of the card, the network and the driver.
LEMMA OthersFeed ==
  ASSUME FeedInv, UNCHANGED <<configBlocks, cursor, at, hwPeer, ordererRestarts>>
  PROVE  FeedInv'
  BY DEF FeedInv, Passed, SentOrStopped, hwPeer

\* A stream that has passed no further leaves what was sent as it was.
LEMMA NoFurther ==
  ASSUME TypeInv, FeedInv, UNCHANGED <<configBlocks, hwPeer, ordererRestarts>>,
         \A s \in Streams : Passed(s)' <= Passed(s),
         ~initDone => \A s \in Streams : cursor'[s] = cursor[s] /\ at'[s] # "reply",
         cursor' \in [Streams -> Nat]
  PROVE  FeedInv'
<1> USE StreamsAssumption, CardAssumption
<1>1. \A s \in Streams : Passed(s) \in Int /\ Passed(s)' \in Int
  BY DEF Passed, TypeInv, TypeOK
<1>2. \A n : SentOrStopped(n)' <=> SentOrStopped(n)
  BY DEF SentOrStopped, hwPeer
<1>3. \A s \in Streams : StartingBlock..Passed(s)' \subseteq StartingBlock..Passed(s)
  BY <1>1
<1> QED BY <1>2, <1>3 DEF FeedInv, hwPeer

\* A block that is not sent is behind the one that is due, or the sending has
\* stopped.
LEMMA SendFeed ==
  ASSUME TypeInv, FeedInv, NEW s \in Streams, SendToHardware(s)
  PROVE  FeedInv'
<1> USE StreamsAssumption, CardAssumption
<1> SUFFICES ASSUME ordererRestarts = 0, isOrderer',
                    NEW q \in Streams, StartAt[q] <= StartingBlock,
                    NEW n \in StartingBlock..Passed(q)'
             PROVE  SentOrStopped(n)'
  BY DEF FeedInv, SendToHardware, bounds
<1>1. /\ n \in Nat \ {0} /\ n >= StartingBlock /\ n <= Passed(q)'
      /\ cursor[q] \in Nat /\ blockToSend \in Nat /\ blockToSend >= StartingBlock
      /\ StartAt[q] \in Nat /\ configBlocks \subseteq Nat
  <2>1. cursor[q] \in Nat /\ blockToSend \in Nat /\ configBlocks \subseteq Nat
    BY DEF TypeInv, TypeOK
  <2>2. Passed(q)' \in Int
    BY <2>1 DEF Passed, SendToHardware
  <2> QED BY <2>1, <2>2 DEF TypeInv
<1>2. /\ UNCHANGED <<configBlocks, cursor>> /\ at' = [at EXCEPT ![s] = "reply"]
      /\ at \in [Streams -> StreamSteps]
  BY DEF SendToHardware, conf, TypeInv, TypeOK
<1>3. blockToSend' >= blockToSend /\ blockToSend' \in Nat
  BY <1>1 DEF SendToHardware
<1>4. SentOrStopped(n) => SentOrStopped(n)'
  BY <1>1, <1>2, <1>3 DEF SentOrStopped
<1>5. \A m \in StartingBlock..Passed(q) : SentOrStopped(m)
  <2>1. CASE initDone
    BY <2>1 DEF FeedInv, SendToHardware
  <2>2. CASE ~initDone
    BY <1>1, <2>2 DEF FeedInv, Passed
  <2> QED BY <2>1, <2>2
<1>6. CASE n <= Passed(q)
  BY <1>1, <1>4, <1>5, <1>6 DEF Passed
<1>7. CASE n > Passed(q)
  <2>1. /\ q = s /\ at[s] # "reply" /\ n = cursor[s]
        /\ Passed(s) = n - 1
    BY <1>1, <1>2, <1>7 DEF Passed, SendToHardware
  <2>2. CASE IsDue(n) /\ CheckMessageData(n)
    <3>1. blockToSend' = blockToSend + 1 /\ n = blockToSend
      BY <2>1, <2>2 DEF SendToHardware, IsDue
    <3> QED BY <1>1, <3>1 DEF SentOrStopped
  <2>3. CASE ~CheckMessageData(n)
    BY <1>1, <1>2, <2>3 DEF CheckMessageData, SentOrStopped
  <2>4. CASE n < blockToSend
    BY <1>1, <1>4, <2>4 DEF SentOrStopped
  <2>5. CASE n > blockToSend
    <3>1. n - 1 \in StartingBlock..Passed(q) /\ ~(n - 1 < blockToSend)
      BY <1>1, <2>1, <2>5
    <3>2. PICK c \in configBlocks : c \in StartingBlock..n - 1
      BY <1>5, <3>1 DEF SentOrStopped
    <3> QED BY <1>1, <1>2, <3>2 DEF SentOrStopped
  <2> QED BY <1>1, <2>2, <2>3, <2>4, <2>5 DEF IsDue
<1> QED BY <1>1, <1>6, <1>7 DEF Passed

\* Every step keeps what is known of the blocks passed on.
LEMMA StepFeed ==
  ASSUME TypeInv, FeedInv, [Next]_vars
  PROVE  FeedInv'
<1> USE DEF conf, orderer, card, driver, peer, bounds
<1>1. CASE OrderBlock
  BY <1>1, OthersFeed DEF OrderBlock
<1>2. ASSUME NEW s \in Streams, NextBlock(s) PROVE FeedInv'
  <2>1. /\ at[s] = "idle" /\ at' = [at EXCEPT ![s] = "send"] /\ at \in [Streams -> StreamSteps]
        /\ cursor' = cursor /\ cursor \in [Streams -> Nat]
    BY <1>2 DEF NextBlock, TypeInv, TypeOK
  <2>2. \A q \in Streams : Passed(q)' <= Passed(q)
    BY <2>1 DEF Passed
  <2>3. ordererRestarts # 0 \/ (~initDone => \A q \in Streams : at'[q] # "reply")
    BY <2>1 DEF FeedInv
  <2>4. CASE ordererRestarts # 0
    BY <1>2, <2>4 DEF NextBlock, FeedInv
  <2> QED BY <1>2, <2>1, <2>2, <2>3, <2>4, NoFurther DEF NextBlock
<1>3. ASSUME NEW s \in Streams, SendToHardware(s) PROVE FeedInv'
  BY <1>3, SendFeed
<1>4. ASSUME NEW s \in Streams, SendBlockResponse(s) PROVE FeedInv'
  <2>1. /\ at[s] = "reply" /\ at' = [at EXCEPT ![s] = "idle"] /\ at \in [Streams -> StreamSteps]
        /\ cursor' = [cursor EXCEPT ![s] = cursor[s] + 1] /\ cursor \in [Streams -> Nat]
    BY <1>4 DEF SendBlockResponse, TypeInv, TypeOK
  <2>2. \A q \in Streams : Passed(q)' <= Passed(q)
    BY <2>1 DEF Passed
  <2>3. ordererRestarts # 0 \/ initDone
    BY <2>1 DEF FeedInv
  <2>4. CASE ordererRestarts # 0
    BY <1>4, <2>4 DEF SendBlockResponse, FeedInv
  <2>5. cursor' \in [Streams -> Nat]
    BY <2>1
  <2> QED BY <1>4, <2>2, <2>3, <2>4, <2>5, NoFurther DEF SendBlockResponse
<1>5. ASSUME NEW s \in Streams, StreamBreaks(s) PROVE FeedInv'
  <2>1. /\ at' = [at EXCEPT ![s] = "idle"] /\ at \in [Streams -> StreamSteps]
        /\ cursor' = cursor /\ cursor \in [Streams -> Nat]
    BY <1>5 DEF StreamBreaks, TypeInv, TypeOK
  <2>2. \A q \in Streams : Passed(q)' <= Passed(q)
    BY <2>1 DEF Passed
  <2>3. ordererRestarts # 0 \/ (~initDone => \A q \in Streams : at'[q] # "reply")
    BY <2>1 DEF FeedInv
  <2>4. CASE ordererRestarts # 0
    BY <1>5, <2>4 DEF StreamBreaks, FeedInv
  <2> QED BY <1>5, <2>1, <2>2, <2>3, <2>4, NoFurther DEF StreamBreaks
<1>6. CASE Arrive
  BY <1>6, OthersFeed DEF Arrive
<1>7. CASE WriteRegisters
  BY <1>7, OthersFeed DEF WriteRegisters
<1>8. CASE GetBlockData
  BY <1>8, OthersFeed DEF GetBlockData
<1>9. CASE ReadRegister
  BY <1>9, OthersFeed DEF ReadRegister
<1>10. CASE Commit
  BY <1>10, OthersFeed DEF Commit
<1>11. CASE OrdererRestart
  BY <1>11 DEF OrdererRestart, FeedInv, TypeInv, TypeOK
<1>12. ASSUME NEW i \in DOMAIN network, Lose(i) PROVE FeedInv'
  BY <1>12, OthersFeed DEF Lose
<1>13. CASE PeerRestart
  BY <1>13, OthersFeed DEF PeerRestart
<1>14. CASE UNCHANGED vars
  BY <1>14, OthersFeed DEF vars
<1> QED BY <1>1, <1>2, <1>3, <1>4, <1>5, <1>6, <1>7, <1>8, <1>9, <1>10, <1>11, <1>12,
           <1>13, <1>14 DEF Next, CardStep, DriverStep, FaultStep

\* Until the orderer restarts, a block is on its way to the card before any stream
\* that follows the channel from its start hands it to a peer: for every number of
\* streams, and every set of configuration blocks.
THEOREM CardComesFirstCorrect == Spec => []CardComesFirst
<1>1. ASSUME TypeInv, FeedInv PROVE CardComesFirst
  <2>1. \A s \in Streams : cursor[s] \in Nat /\ cursor[s] - 1 <= Passed(s) /\ Passed(s) \in Int
    BY <1>1 DEF TypeInv, TypeOK, Passed
  <2>2. \A s \in Streams : StartingBlock..cursor[s] - 1 \subseteq StartingBlock..Passed(s)
    BY <2>1, CardAssumption
  <2> QED BY <1>1, <2>2 DEF FeedInv, SentOrStopped, CardComesFirst
<1> QED BY <1>1, InitTypes, StepTypes, InitFeed, StepFeed, PTL DEF Spec

-----------------------------------------------------------------------------
(* FabricMachine implements BlockFeed: from the orderer to the driver, over *)
(* the network, the queue of the card and its registers, blocks are taken   *)
(* once each and in the order they were sent.                               *)

(* Sequences put together from others.                                     *)

\* Sequences with the same elements are the same.
LEMMA SameSequence ==
  ASSUME NEW s \in Seq(Nat), NEW t \in Seq(Nat), Len(s) = Len(t),
         \A i \in 1..Len(s) : s[i] = t[i]
  PROVE  s = t
<1>1. s \in [1..Len(s) -> Nat] /\ t \in [1..Len(s) -> Nat]
  BY LenProperties
<1> QED BY <1>1

\* Concatenation is associative.
LEMMA Associative ==
  \A s, t, u \in Seq(Nat) : (s \o t) \o u = s \o (t \o u)
BY ConcatAssociative

\* Appending to the second part appends to the whole.
LEMMA ConcatAppend ==
  ASSUME NEW s \in Seq(Nat), NEW t \in Seq(Nat), NEW e \in Nat
  PROVE  s \o Append(t, e) = Append(s \o t, e)
<1>1. <<e>> \in Seq(Nat) /\ s \o t \in Seq(Nat)
  BY ConcatProperties
<1>2. Append(t, e) = t \o <<e>> /\ Append(s \o t, e) = (s \o t) \o <<e>>
  BY <1>1, AppendIsConcat
<1> QED BY <1>1, <1>2, ConcatAssociative

\* A sequence is its head and its tail.
LEMMA HeadAndTail ==
  ASSUME NEW t \in Seq(Nat), t # <<>>
  PROVE  /\ Head(t) \in Nat /\ <<Head(t)>> \in Seq(Nat) /\ Tail(t) \in Seq(Nat)
         /\ <<Head(t)>> \o Tail(t) = t
<1>1. Head(t) \in Nat /\ Tail(t) \in Seq(Nat) /\ Len(t) \in Nat /\ Len(t) >= 1
  BY HeadTailProperties, LenProperties
<1>2. Tail(t) = SubSeq(t, 2, Len(t)) /\ Head(t) = t[1]
  BY TailIsSubSeq
<1>3. SubSeq(t, 1, Len(t)) = <<t[1]>> \o SubSeq(t, 2, Len(t))
  BY <1>1, SubSeqRecursiveFirst
<1> QED BY <1>1, <1>2, <1>3, SubSeqFull

\* What is put before a sequence is its head.
LEMMA FirstOfConcat ==
  ASSUME NEW x \in Nat, NEW t \in Seq(Nat)
  PROVE  /\ <<x>> \o t # <<>> /\ Head(<<x>> \o t) = x /\ Tail(<<x>> \o t) = t
<1> DEFINE u == <<x>> \o t
<1>1. /\ u \in Seq(Nat) /\ Len(u) = Len(t) + 1 /\ u[1] = x /\ Len(t) \in Nat
      /\ \A i \in 1..Len(t) : u[i + 1] = t[i]
  BY ConcatProperties, LenProperties
<1> HIDE DEF u
<1>2. u # <<>>
  BY <1>1
<1>3. /\ Tail(u) \in Seq(Nat) /\ Len(Tail(u)) = Len(t)
      /\ \A i \in 1..Len(t) : Tail(u)[i] = t[i]
  BY <1>1, <1>2, HeadTailProperties
<1>4. Tail(u) = t
  BY <1>3, SameSequence
<1> QED BY <1>1, <1>2, <1>4 DEF u

\* The first block of t goes to the end of r.
LEMMA MovesUp ==
  ASSUME NEW s \in Seq(Nat), NEW r \in Seq(Nat), NEW t \in Seq(Nat), t # <<>>
  PROVE  s \o Append(r, Head(t)) \o Tail(t) = s \o r \o t
<1> DEFINE h == <<Head(t)>>
<1>1. /\ Head(t) \in Nat /\ h \in Seq(Nat) /\ Tail(t) \in Seq(Nat) /\ h \o Tail(t) = t
      /\ s \o r \in Seq(Nat)
  BY HeadAndTail, ConcatProperties
<1>2. s \o Append(r, Head(t)) = (s \o r) \o h
  BY <1>1, ConcatAppend, AppendIsConcat
<1> HIDE DEF h
<1>3. ((s \o r) \o h) \o Tail(t) = (s \o r) \o (h \o Tail(t))
  BY <1>1, Associative, Zenon
<1> QED BY <1>1, <1>2, <1>3

\* What is left when the first blocks are dropped, and the first blocks themselves.
LEMMA SuffixOfConcat ==
  ASSUME NEW s \in Seq(Nat), NEW t \in Seq(Nat), NEW n \in 0..Len(t)
  PROVE  SubSeq(s \o t, Len(s) + n + 1, Len(s) + Len(t)) = SubSeq(t, n + 1, Len(t))
<1>1. Len(s) \in Nat /\ Len(t) \in Nat /\ n \in Nat
  BY LenProperties
<1>2. CASE n = Len(t)
  <2>1. SubSeq(s \o t, Len(s) + n + 1, Len(s) + Len(t)) = <<>>
    BY <1>1, <1>2, SubSeqEmpty
  <2>2. SubSeq(t, n + 1, Len(t)) = <<>>
    BY <1>1, <1>2, SubSeqEmpty
  <2> QED BY <2>1, <2>2
<1>3. CASE n < Len(t)
  <2>1. /\ Len(s) + n + 1 \in Len(s) + 1..Len(s) + Len(t)
        /\ Len(s) + Len(t) \in Len(s) + 1..Len(s) + Len(t)
        /\ Len(s) + n + 1 - Len(s) = n + 1 /\ Len(s) + Len(t) - Len(s) = Len(t)
    BY <1>1, <1>3
  <2>2. \A a, b \in Len(s) + 1..Len(s) + Len(t) :
          SubSeq(s \o t, a, b) = SubSeq(t, a - Len(s), b - Len(s))
    BY SubSeqOfConcat2
  <2> QED BY <2>1, <2>2
<1> QED BY <1>1, <1>2, <1>3

\* The first elements of a concatenation: the first part and some of the second.
LEMMA PrefixOfConcat ==
  ASSUME NEW s \in Seq(Nat), NEW t \in Seq(Nat), NEW n \in 0..Len(t)
  PROVE  SubSeq(s \o t, 1, Len(s) + n) = s \o SubSeq(t, 1, n)
<1> DEFINE u == s \o t
           p == SubSeq(t, 1, n)
           v == SubSeq(u, 1, Len(s) + n)
           w == s \o p
<1>1. Len(s) \in Nat /\ Len(t) \in Nat /\ n \in Nat /\ n <= Len(t)
  BY LenProperties
<1>2. /\ u \in Seq(Nat) /\ Len(u) = Len(s) + Len(t)
      /\ \A m \in 1..Len(s) + Len(t) : u[m] = IF m <= Len(s) THEN s[m] ELSE t[m - Len(s)]
  BY ConcatProperties
<1>3. \A m \in 1..Len(t) : t[m] \in Nat
  BY LenProperties
<1>4. p \in Seq(Nat) /\ Len(p) = n /\ \A m \in 1..n : p[m] = t[m]
  BY <1>1, <1>3, SubSeqProperties
<1> HIDE DEF u, p
<1>5. \A m \in 1..Len(u) : u[m] \in Nat
  BY <1>2, LenProperties
<1>6. v \in Seq(Nat) /\ Len(v) = Len(s) + n /\ \A m \in 1..Len(s) + n : v[m] = u[m]
  BY <1>1, <1>2, <1>5, SubSeqProperties
<1>7. /\ w \in Seq(Nat) /\ Len(w) = Len(s) + n
      /\ \A m \in 1..Len(s) + n : w[m] = IF m <= Len(s) THEN s[m] ELSE p[m - Len(s)]
  BY <1>4, ConcatProperties
<1> HIDE DEF v, w
<1>8. ASSUME NEW m \in 1..Len(s) + n PROVE v[m] = w[m]
  <2>1. m \in 1..Len(s) + Len(t) /\ v[m] = u[m]
    BY <1>1, <1>6
  <2>2. CASE m <= Len(s)
    <3>1. u[m] = s[m]
      BY <1>2, <2>1, <2>2
    <3>2. w[m] = s[m]
      BY <1>7, <2>2
    <3> QED BY <2>1, <3>1, <3>2
  <2>3. CASE ~(m <= Len(s))
    <3>1. u[m] = t[m - Len(s)]
      BY <1>2, <2>1, <2>3
    <3>2. w[m] = p[m - Len(s)]
      BY <1>7, <2>3
    <3>3. m - Len(s) \in 1..n
      BY <1>1, <2>3
    <3>4. p[m - Len(s)] = t[m - Len(s)]
      BY <1>4, <3>3
    <3> QED BY <2>1, <3>1, <3>2, <3>4
  <2> QED BY <2>2, <2>3
<1>9. v = w
  BY <1>6, <1>7, <1>8, SameSequence
<1> QED BY <1>9 DEF v, w, u, p

\* A block of t that is lost is lost from the whole.
LEMMA LosesOne ==
  ASSUME NEW s \in Seq(Nat), NEW t \in Seq(Nat), NEW i \in DOMAIN t
  PROVE  \E j \in 1..Len(s \o t) :
           s \o (SubSeq(t, 1, i - 1) \o SubSeq(t, i + 1, Len(t))) =
             SubSeq(s \o t, 1, j - 1) \o SubSeq(s \o t, j + 1, Len(s \o t))
<1> DEFINE u == s \o t
           before == SubSeq(t, 1, i - 1)
           after == SubSeq(t, i + 1, Len(t))
<1>1. /\ Len(s) \in Nat /\ Len(t) \in Nat /\ i \in 1..Len(t)
      /\ i - 1 \in 0..Len(t) /\ i \in 0..Len(t) /\ Len(u) = Len(s) + Len(t)
      /\ \A m \in 1..Len(t) : t[m] \in Nat
  BY LenProperties, ConcatProperties
<1>2. before \in Seq(Nat) /\ after \in Seq(Nat)
  BY <1>1, SubSeqProperties
<1>3. SubSeq(u, 1, Len(s) + (i - 1)) = s \o before
  BY <1>1, PrefixOfConcat
<1>4. SubSeq(u, Len(s) + i + 1, Len(u)) = after
  BY <1>1, SuffixOfConcat
<1> HIDE DEF before, after, u
<1>5. s \o (before \o after) = (s \o before) \o after
  BY <1>2, Associative, Zenon
<1>6. Len(s) + i \in 1..Len(u) /\ Len(s) + (i - 1) = (Len(s) + i) - 1
  BY <1>1
<1>7. s \o (before \o after) =
        SubSeq(u, 1, (Len(s) + i) - 1) \o SubSeq(u, (Len(s) + i) + 1, Len(u))
  BY <1>3, <1>4, <1>5, <1>6
<1> QED BY <1>6, <1>7 DEF u, before, after

-----------------------------------------------------------------------------
(* The refinement. Pending is what the refinement maps BlockFeed's pending *)
(* to: a result nobody has read whole, the card's queue, the network.      *)

Pending == Unread \o results \o network

\* What is mapped to pending is a sequence of blocks.
LEMMA PendingTypes ==
  ASSUME TypeInv
  PROVE  /\ Unread \in Seq(Nat) /\ results \in Seq(Nat) /\ network \in Seq(Nat)
         /\ Unread \o results \in Seq(Nat) /\ Pending \in Seq(Nat)
         /\ shown \in Nat /\ taken \in Seq(Nat)
<1>1. Unread \in Seq(Nat) /\ results \in Seq(Nat) /\ network \in Seq(Nat)
  BY DEF TypeInv, TypeOK, Unread
<1>2. Unread \o results \in Seq(Nat)
  BY <1>1, ConcatProperties
<1>3. Pending \in Seq(Nat)
  BY <1>1, <1>2, ConcatProperties DEF Pending
<1> QED BY <1>1, <1>2, <1>3 DEF TypeInv, TypeOK

\* Reading the registers takes their block at the end of a whole pass, and nothing
\* before.
LEMMA ReadTakes ==
  ASSUME TypeInv, ReadInv, ReadRegister, ~reread
  PROVE  \/ Unread' = Unread /\ taken' = taken
         \/ Unread = <<shown>> /\ Unread' = <<>> /\ taken' = Append(taken, shown)
<1> USE CardAssumption
<1>1. /\ k \in Registers /\ 0 \in Registers /\ Top \in Nat \ {0, 1} /\ Registers = 0..Top
      /\ Registers' = Registers /\ marks \subseteq Registers
      /\ resRegs \in [Registers -> Nat] /\ UNCHANGED shown /\ UNCHANGED reread
  BY DEF TypeInv, TypeOK, Registers, Top, ReadRegister
<1>2. CASE reading = "poll"
  <2>1. taken' = taken /\ marks' = marks \union {Top - k} /\ k \in {0, 1}
    BY <1>1, <1>2 DEF ReadRegister, RegisterToRead, NumberRead, TypeInv, TypeOK
  <2>2. Top - k # 0
    BY <1>1, <2>1
  <2>3. 0 \in marks => marks = Registers
    BY DEF ReadInv
  <2>4. marks' = Registers <=> marks = Registers
    BY <1>1, <2>1, <2>2, <2>3
  <2> QED BY <1>1, <2>1, <2>4 DEF Unread
<1>3. CASE reading = "full"
  <2>1. /\ 0 \notin marks
        /\ \A r \in Registers : r > Top - k => r \in marks /\ resRegs[r] = shown
    BY <1>3 DEF ReadInv
  <2>2. /\ marks' = marks \union {Top - k}
        /\ resRegs' = [resRegs EXCEPT ![Top - k] = shown]
    BY <1>1 DEF ReadRegister, RegisterToRead
  <2>3. marks # Registers
    BY <1>1, <2>1
  <2>4. CASE k < Top
    <3>1. taken' = taken
      BY <1>1, <1>3, <2>4 DEF ReadRegister, NumberRead
    <3>2. marks' # Registers
      BY <1>1, <2>1, <2>2, <2>4
    <3> QED BY <1>1, <2>3, <3>1, <3>2 DEF Unread
  <2>5. CASE k = Top
    <3>1. taken' = Append(taken, resRegs'[0])
      BY <1>1, <1>3, <2>5 DEF ReadRegister, NumberRead
    <3>2. resRegs'[0] = shown
      BY <1>1, <2>2, <2>5
    <3>3. marks' = Registers
      <4>1. marks' = marks \union {0}
        BY <1>1, <2>2, <2>5
      <4>2. \A r \in Registers : r = 0 \/ r \in marks
        BY <1>1, <2>1, <2>5
      <4> QED BY <1>1, <4>1, <4>2
    <3> QED BY <1>1, <2>3, <3>1, <3>2, <3>3 DEF Unread
  <2> QED BY <1>1, <2>4, <2>5
<1> QED BY <1>2, <1>3 DEF ReadRegister

\* The initial state maps to BlockFeed's.
LEMMA InitFeeds == Init => Feed!Init
<1> SUFFICES ASSUME Init PROVE Feed!Init
  OBVIOUS
<1>1. Unread = <<>> /\ results = <<>> /\ network = <<>>
  BY DEF Init, Unread
<1>2. Unread \o results \o network = <<>>
  BY <1>1, ConcatEmptySeq, EmptySeq
<1> QED BY <1>2, CardAssumption DEF Init, Feed!Init

\* A step that moves no block does nothing, for BlockFeed.
LEMMA MovesNothing ==
  ASSUME Pending' = Pending, UNCHANGED <<blockToSend, taken>>, ~reread, ~reread'
  PROVE  [Feed!Next]_Feed!feedVars
BY DEF Pending, Feed!feedVars

\* Every step is one of BlockFeed's, or moves no block.
LEMMA StepFeeds ==
  ASSUME TypeInv, TypeInv', ReadInv, [Next]_vars
  PROVE  [Feed!Next]_Feed!feedVars
<1> USE DEF conf, orderer, hwPeer, card, driver, peer, bounds
<1> SUFFICES ASSUME ~reread, ~reread' PROVE [Feed!Next]_Feed!feedVars
  <2>1. reread' \/ reread => reread'
    BY DEF Next, vars, OrderBlock, NextBlock, SendToHardware, SendBlockResponse,
           StreamBreaks, CardStep, Arrive, WriteRegisters, DriverStep, GetBlockData,
           ReadRegister, Commit, FaultStep, OrdererRestart, Lose, PeerRestart
  <2> QED BY <2>1 DEF Feed!Next
<1>0. \/ OrderBlock
      \/ \E s \in Streams :
           NextBlock(s) \/ SendToHardware(s) \/ SendBlockResponse(s) \/ StreamBreaks(s)
      \/ Arrive \/ WriteRegisters \/ GetBlockData \/ ReadRegister \/ Commit
      \/ OrdererRestart \/ (\E i \in DOMAIN network : Lose(i)) \/ PeerRestart
      \/ UNCHANGED vars
  BY DEF Next, CardStep, DriverStep, FaultStep
<1>1. ASSUME UNCHANGED <<results, network, shown, marks, blockToSend, taken>>
      PROVE  [Feed!Next]_Feed!feedVars
  <2>1. Pending' = Pending
    BY <1>1 DEF Pending, Unread, Registers, Top
  <2> QED BY <1>1, <2>1, MovesNothing
<1>2. CASE OrderBlock
  BY <1>1, <1>2 DEF OrderBlock
<1>3. ASSUME NEW s \in Streams, NextBlock(s) \/ SendBlockResponse(s) \/ StreamBreaks(s)
      PROVE  [Feed!Next]_Feed!feedVars
  BY <1>1, <1>3 DEF NextBlock, SendBlockResponse, StreamBreaks
<1>4. ASSUME NEW s \in Streams, SendToHardware(s)
      PROVE  [Feed!Next]_Feed!feedVars
  <2>1. UNCHANGED <<results, shown, marks, taken>>
    BY <1>4 DEF SendToHardware
  <2>2. CASE UNCHANGED <<network, blockToSend>>
    BY <1>1, <2>1, <2>2
  <2>3. CASE network' = Append(network, blockToSend) /\ blockToSend' = blockToSend + 1
    <3>1. Unread' = Unread
      BY <2>1 DEF Unread, Registers, Top
    <3>2. (Unread \o results \o network)' = Append(Unread \o results \o network, blockToSend)
      <4>1. Unread \o results \in Seq(Nat) /\ network \in Seq(Nat) /\ blockToSend \in Nat
        BY PendingTypes DEF TypeInv, TypeOK
      <4>2. (Unread \o results) \o Append(network, blockToSend) =
              Append((Unread \o results) \o network, blockToSend)
        BY <4>1, ConcatAppend
      <4> QED BY <2>1, <2>3, <3>1, <4>2
    <3> QED BY <2>1, <2>3, <3>2 DEF Feed!Next, Feed!Send
  <2> QED BY <1>4, <2>2, <2>3 DEF SendToHardware, IsDue
<1>5. CASE Arrive
  <2>1. /\ network # <<>> /\ results' = Append(results, Head(network))
        /\ network' = Tail(network) /\ UNCHANGED <<shown, marks, blockToSend, taken>>
    BY <1>5 DEF Arrive
  <2>2. Unread' = Unread
    BY <2>1 DEF Unread, Registers, Top
  <2>3. Unread \o Append(results, Head(network)) \o Tail(network) =
          Unread \o results \o network
    BY <2>1, PendingTypes, MovesUp
  <2>4. Pending' = Pending
    BY <2>1, <2>2, <2>3 DEF Pending
  <2> QED BY <2>1, <2>4, MovesNothing
<1>6. CASE WriteRegisters
  <2>1. /\ marks = Registers /\ results # <<>> /\ shown' = Head(results)
        /\ results' = Tail(results) /\ marks' = {}
        /\ UNCHANGED <<network, blockToSend, taken>>
    BY <1>6 DEF WriteRegisters
  <2>2. Unread = <<>> /\ Unread' = <<Head(results)>>
    BY <2>1, CardAssumption DEF Unread, Registers, Top
  <2>3. <<Head(results)>> \o Tail(results) = results /\ <<>> \o results = results
    BY <2>1, PendingTypes, HeadAndTail, ConcatEmptySeq
  <2>4. Pending' = Pending
    BY <2>1, <2>2, <2>3 DEF Pending
  <2> QED BY <2>1, <2>4, MovesNothing
<1>7. CASE GetBlockData
  BY <1>1, <1>7 DEF GetBlockData
\* The whole block that was read was the first of those pending.
<1>8. CASE ReadRegister
  <2>1. UNCHANGED <<results, network, blockToSend>>
    BY <1>8 DEF ReadRegister
  <2>2. CASE Unread' = Unread /\ taken' = taken
    <3>1. Pending' = Pending
      BY <2>1, <2>2 DEF Pending
    <3> QED BY <2>1, <2>2, <3>1, MovesNothing
  <2>3. CASE Unread = <<shown>> /\ Unread' = <<>> /\ taken' = Append(taken, shown)
    <3> DEFINE rest == results \o network
    <3>1. results \in Seq(Nat) /\ network \in Seq(Nat) /\ shown \in Nat /\ <<shown>> \in Seq(Nat)
      BY PendingTypes
    <3>2. rest \in Seq(Nat)
      BY <3>1, ConcatProperties
    <3>3. Unread \o results \o network = <<shown>> \o rest
      BY <2>3, <3>1, Associative
    <3>4. (Unread \o results \o network)' = rest
      BY <2>1, <2>3, <3>1, ConcatEmptySeq
    <3> HIDE DEF rest
    <3>5. /\ <<shown>> \o rest # <<>> /\ Head(<<shown>> \o rest) = shown
          /\ Tail(<<shown>> \o rest) = rest
      BY <3>1, <3>2, FirstOfConcat
    <3> QED BY <2>1, <2>3, <3>3, <3>4, <3>5 DEF Feed!Next, Feed!Take
  <2> QED BY <1>8, <2>2, <2>3, ReadTakes
<1>9. CASE Commit
  BY <1>1, <1>9 DEF Commit
<1>10. CASE OrdererRestart
  <2>1. UNCHANGED <<results, network, shown, marks, taken>> /\ blockToSend' = StartingBlock
    BY <1>10 DEF OrdererRestart
  <2>2. (Unread \o results \o network)' = Unread \o results \o network
    BY <2>1 DEF Unread, Registers, Top
  <2> QED BY <2>1, <2>2 DEF Feed!Next, Feed!StartOver
<1>11. ASSUME NEW i \in DOMAIN network, Lose(i)
       PROVE  [Feed!Next]_Feed!feedVars
  <2>1. /\ UNCHANGED <<results, shown, marks, taken, blockToSend>>
        /\ network' = SubSeq(network, 1, i - 1) \o SubSeq(network, i + 1, Len(network))
    BY <1>11 DEF Lose
  <2>2. (Unread \o results)' = Unread \o results
    BY <2>1 DEF Unread, Registers, Top
  <2>3. \E j \in 1..Len(Unread \o results \o network) :
          (Unread \o results \o network)' =
            SubSeq(Unread \o results \o network, 1, j - 1) \o
            SubSeq(Unread \o results \o network, j + 1, Len(Unread \o results \o network))
    <3> DEFINE held == Unread \o results
               left == SubSeq(network, 1, i - 1) \o SubSeq(network, i + 1, Len(network))
    <3>1. held \in Seq(Nat) /\ network \in Seq(Nat)
      BY PendingTypes
    <3>2. (Unread \o results \o network)' = held \o left
      BY <2>1, <2>2
    <3> HIDE DEF held
    <3>3. \E j \in 1..Len(held \o network) :
            held \o left = SubSeq(held \o network, 1, j - 1) \o
                             SubSeq(held \o network, j + 1, Len(held \o network))
      BY <3>1, LosesOne
    <3> QED BY <3>2, <3>3 DEF held
  <2> QED BY <2>1, <2>3 DEF Feed!Next, Feed!Lose
<1>12. CASE PeerRestart
  <2>1. UNCHANGED <<network, blockToSend>>
    BY <1>12 DEF PeerRestart
  <2>2. CASE ~resetFpga
    BY <1>1, <1>12, <2>1, <2>2 DEF PeerRestart
\* The card forgets what it holds, and keeps what is still on the network.
  <2>3. CASE resetFpga
    <3> DEFINE held == Unread \o results
    <3>1. results' = <<>> /\ Unread' = <<>> /\ taken' = <<>>
      BY <1>12, <2>3 DEF PeerRestart, Unread, Registers, Top
    <3>2. held \in Seq(Nat) /\ network \in Seq(Nat) /\ Len(held) \in Nat /\ Len(network) \in Nat
      BY PendingTypes, LenProperties
    <3>3. (Unread \o results \o network)' = network
      BY <2>1, <3>1, <3>2, ConcatEmptySeq, EmptySeq
    <3> HIDE DEF held
    <3>4. Len(held \o network) = Len(held) + Len(network)
      BY <3>2, ConcatProperties
    <3>5. SubSeq(held \o network, Len(held) + 1, Len(held \o network)) = network
      <4>1. Len(held) + 0 + 1 = Len(held) + 1 /\ 0 \in 0..Len(network)
        BY <3>2
      <4>2. SubSeq(held \o network, Len(held) + 0 + 1, Len(held) + Len(network)) =
              SubSeq(network, 1, Len(network))
        BY <3>2, <4>1, SuffixOfConcat
      <4> QED BY <3>2, <3>4, <4>1, <4>2, SubSeqFull
    <3>6. Len(held) + 1 \in 1..Len(held \o network) + 1
      BY <3>2, <3>4
    <3> QED BY <2>1, <3>1, <3>3, <3>5, <3>6 DEF held, Feed!Next, Feed!Reset
  <2> QED BY <2>2, <2>3
<1>13. CASE UNCHANGED vars
  BY <1>1, <1>13 DEF vars
<1> QED BY <1>0, <1>2, <1>3, <1>4, <1>5, <1>6, <1>7, <1>8, <1>9, <1>10, <1>11, <1>12, <1>13

\* The streams, the network, the card's queue and registers and the driver that
\* reads them one by one do what BlockFeed says, for every number of streams, every
\* layout of the registers, and any number of losses and restarts.
THEOREM ImplementsBlockFeedCorrect == Spec => ImplementsBlockFeed
<1> USE DEF ImplementsBlockFeed
<1> QED BY InitTypes, StepTypes, InitRead, StepRead, InitFeeds, StepFeeds, PTL
        DEF Spec, Feed!Spec
=============================================================================
