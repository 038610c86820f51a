---------------------------- MODULE MCOldPvtData ----------------------------
(***************************************************************************)
(* Chains of three and four blocks that write, overwrite, delete and       *)
(* renew the key, with transactions that are invalid among them.           *)
(***************************************************************************)
EXTENDS OldPvtData

BothReleases == {"v1.4", "v2.2"}

T(op) == [op |-> op, valid |-> TRUE]
F(op) == [op |-> op, valid |-> FALSE]

SomeChains ==
  {<<<<T("a")>>, <<T("b")>>, <<T("a")>>>>,
   <<<<T("a")>>, <<T("meta")>>, <<T("b"), F("a")>>>>,
   <<<<T("a")>>, <<T("delete")>>, <<T("b")>>>>,
   <<<<T("b")>>, <<T("a"), F("b")>>, <<T("meta")>>>>,
   <<<<T("a"), T("delete")>>, <<T("a")>>, <<T("meta"), T("delete")>>>>}
=============================================================================
