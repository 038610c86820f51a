--------------------------- MODULE MCLedgerCommit ---------------------------
(***************************************************************************)
(* Instances of LedgerCommit for TLC.                                      *)
(***************************************************************************)
EXTENDS LedgerCommitInvariants

\* The software peer, with and without the parallel commit.
Software ==
  [hw : {FALSE}, startingBlock : {1}, swStateDb : {FALSE}, resetFpga : {FALSE},
   parallel : BOOLEAN, history : BOOLEAN]

\* The card validates from block 1, as configured by default, or from block 2, so
\* that blocks the software validates come before those the card validates.
Hardware ==
  [hw : {TRUE}, startingBlock : {1, 2}, swStateDb : BOOLEAN, resetFpga : BOOLEAN,
   parallel : BOOLEAN, history : {TRUE}]

AllConfigurations == Software \union Hardware

\* One configuration each.
SequentialSoftware ==
  {c \in Software : ~c.parallel /\ c.history}
ParallelSoftware ==
  {c \in Software : c.parallel /\ c.history}

\* The shipped hardware configuration with the parallel commit switched on.
ParallelHardware ==
  {c \in Hardware : c.parallel /\ ~c.swStateDb /\ c.startingBlock = 1 /\ c.resetFpga}
=============================================================================
