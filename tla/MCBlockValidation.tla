------------------------- MODULE MCBlockValidation -------------------------
(***************************************************************************)
(* Instances of BlockValidation for TLC.                                   *)
(***************************************************************************)
EXTENDS BlockValidation

\* Software, with an invalid transaction here and there; and the card, which gets
\* only transactions that software finds nothing wrong with.
SoftwareAndHardware == {[hw |-> FALSE, maxBad |-> 1], [hw |-> TRUE, maxBad |-> 0]}

\* The card gets a transaction the transaction validator has found invalid.
HardwareWithBad == {[hw |-> TRUE, maxBad |-> 1]}
=============================================================================
