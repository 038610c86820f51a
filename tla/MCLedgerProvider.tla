-------------------------- MODULE MCLedgerProvider --------------------------
(***************************************************************************)
(* Two channels, from a v1.4 peer that is upgraded on the way or from a    *)
(* v2.2 peer.                                                              *)
(***************************************************************************)
EXTENDS LedgerProvider

TwoLedgers == {"ch1", "ch2"}
BothVersions == {"v1.4", "v2.2"}
=============================================================================
