-------------------------- MODULE MCFabricMachine --------------------------
(***************************************************************************)
(* Instances of FabricMachine for TLC: a peer's stream that follows the    *)
(* channel from its start, and a client that comes in at block 2 and       *)
(* addresses the orderer by another name.                                  *)
(***************************************************************************)
EXTENDS FabricMachine

Peer == "peer"
Client == "client"

TwoStreams == {Peer, Client}
Starts == [s \in TwoStreams |-> IF s = Peer THEN 1 ELSE 2]
OnlyPeerNamed == {Peer}

OneStream == {Peer}
PeerStart == [s \in OneStream |-> 1]

\* No configuration block, or one in the middle.
SomeConfigBlock == {{}, {2}}
NoConfigBlock == {{}}
=============================================================================
