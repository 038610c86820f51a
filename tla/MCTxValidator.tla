--------------------------- MODULE MCTxValidator ---------------------------
(***************************************************************************)
(* Instances of TxValidator for TLC.                                       *)
(***************************************************************************)
EXTENDS TxValidator

\* The peers: v2.2 with each commit, v1.4 with and without the capability, and
\* peers with a card.
SomePeers ==
  {p \in Peer : /\ p.parallel => ~p.v14
                /\ ~p.v14 => p.forbid
                /\ p.hw /\ p.v14 => p.forbid}

Tx(type, id, bad) ==
  [type |-> type, id |-> id, bad |-> bad, until |-> 1, cc |-> "cc1", up |-> NoCC]

One == Tx("endorser", "t1", {})
Two == [Tx("endorser", "t2", {}) EXCEPT !.cc = "cc2"]
Former == [One EXCEPT !.until = 0]
UpgradeOne(id) == [Tx("endorser", id, {}) EXCEPT !.cc = "lscc", !.up = "cc1"]
Config(bad) == Tx("config", NoId, bad)

\* Every defect, some together with another that is found earlier or later.
Defects == {{"envelope"}, {"payload"}, {"header", "policy"}, {"nonce"}, {"epoch"},
            {"signature", "policy"}, {"txid"}, {"proposal hash", "txid"},
            {"policy"}, {"extension"}}
Flawed == {Tx("endorser", "t1", d) : d \in Defects}
          \union {Tx(t, "t1", {}) : t \in {"config_update", "token", "unknown"}}

Pairs == {<<One, One>>, <<One, Two>>, <<Former, Two>>} \union {<<t, One>> : t \in Flawed}
Triples == {<<One, Two, One>>, <<UpgradeOne("t3"), One, [UpgradeOne("t4") EXCEPT !.bad = {"signature"}]>>,
            <<UpgradeOne("t3"), UpgradeOne("t4"), UpgradeOne("t3")>>}
ConfigBlock(bad) == <<Config(bad)>>

SomeChains ==
  {<<p, q>> : p \in Pairs, q \in {<<One, Two>>, <<Former>>}}
  \union {<<t, <<Two, One>>>> : t \in Triples}
  \union {<<ConfigBlock({}), p>> : p \in {<<Former, Two>>, <<One, Former>>}}
  \union {<<<<Two>>, ConfigBlock(b), <<Former>>>> : b \in {{}, {"config"}, {"data"}}}
=============================================================================
