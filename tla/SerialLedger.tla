---------------------------- MODULE SerialLedger ----------------------------
(***************************************************************************)
(* What validation promises, with no word on update batches, flags of a    *)
(* card or recovery: a block's transactions are judged one after the       *)
(* other, and one is accepted only if all it read when it was simulated    *)
(* still has the same version in the state its accepted predecessors left. *)
(***************************************************************************)
EXTENDS ReadWriteSets

VARIABLES
  state,   \* the state all blocks leave
  height,  \* the number of the next block
  block,   \* the last block's transactions
  valid    \* which of them are accepted

serialVars == <<state, height, block, valid>>

Init ==
  /\ state \in [Keys -> {NoVersion, <<0, 0>>}]
  /\ height = 1
  /\ block = <<>>
  /\ valid = <<>>

AddBlock ==
  LET after == StatesAfter(state, height, block', valid')
  IN /\ \A i \in 1..Len(block') : valid'[i] => ReadsCurrent(block'[i], after[i - 1])
     /\ state' = after[Len(block')]
     /\ height' = height + 1

Spec == Init /\ [][AddBlock]_serialVars
=============================================================================
