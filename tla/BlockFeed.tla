----------------------------- MODULE BlockFeed -----------------------------
(***************************************************************************)
(* What the path from the orderer to the peer's driver of the card         *)
(* promises, with no word on streams, packets or registers: blocks are     *)
(* sent one by one, each once, and taken in the order they were sent, each *)
(* once. Blocks may be lost on the way, a reset of the card forgets those  *)
(* it holds, a restarted sender starts over: nothing else changes the      *)
(* order. The promise ends when the reader breaks its part of the contract *)
(* by asking for a block it took.                                          *)
(***************************************************************************)
EXTENDS Naturals, Sequences

VARIABLES
  first,    \* the first block the sender sends
  sent,     \* the next block to send
  pending,  \* the blocks sent, neither taken nor dropped
  taken,    \* the blocks taken since the card was reset
  inSync    \* the reader has kept its part

feedVars == <<first, sent, pending, taken, inSync>>

Init ==
  /\ first \in Nat
  /\ sent = first
  /\ pending = <<>>
  /\ taken = <<>>
  /\ inSync = TRUE

Send ==
  /\ pending' = Append(pending, sent)
  /\ sent' = sent + 1
  /\ UNCHANGED <<first, taken>>

Take ==
  /\ pending # <<>>
  /\ taken' = Append(taken, Head(pending))
  /\ pending' = Tail(pending)
  /\ UNCHANGED <<first, sent>>

Lose ==
  /\ \E i \in 1..Len(pending) :
       pending' = SubSeq(pending, 1, i - 1) \o SubSeq(pending, i + 1, Len(pending))
  /\ UNCHANGED <<first, sent, taken>>

Reset ==
  /\ \E i \in 1..Len(pending) + 1 : pending' = SubSeq(pending, i, Len(pending))
  /\ taken' = <<>>
  /\ UNCHANGED <<first, sent>>

StartOver ==
  /\ sent' = first
  /\ UNCHANGED <<first, pending, taken>>

Next ==
  \/ inSync /\ inSync' /\ (Send \/ Take \/ Lose \/ Reset \/ StartOver)
  \/ ~inSync'

Spec == Init /\ [][Next]_feedVars
=============================================================================
