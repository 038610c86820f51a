------------------------------- MODULE Ledger -------------------------------
(***************************************************************************)
(* What a channel's ledger promises, with no word on goroutines, stores    *)
(* that are written one after the other, crashes or recovery: blocks are   *)
(* chained one at a time, each with a hash over all its predecessors, and  *)
(* the state database applies one block after the other and never one it   *)
(* does not keep. A synchronous ledger chains a block only when the state  *)
(* has caught up with the chain, and applies only what is on the chain.    *)
(***************************************************************************)
EXTENDS Integers, Sequences

VARIABLES
  synchronous,  \* the ledger commits its blocks one after the other
  kept,         \* number of first blocks whose updates the state database keeps
  chain,        \* the commit hashes of the chained blocks
  applied       \* number of blocks the state database has applied

ledgerVars == <<synchronous, kept, chain, applied>>

CaughtUp == applied = IF Len(chain) < kept THEN Len(chain) ELSE kept

Init ==
  /\ synchronous \in BOOLEAN
  /\ kept \in Nat
  /\ chain = << <<>> >>
  /\ applied = 1

Extend ==
  /\ synchronous => CaughtUp
  /\ chain' = Append(chain, [j \in 1..Len(chain) |-> j])
  /\ UNCHANGED <<synchronous, kept, applied>>

Apply ==
  /\ applied < kept
  /\ synchronous => applied < Len(chain)
  /\ applied' = applied + 1
  /\ UNCHANGED <<synchronous, kept, chain>>

Next == Extend \/ Apply

Spec == Init /\ [][Next]_ledgerVars
=============================================================================
