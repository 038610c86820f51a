--------------------------- MODULE MCCardPackets ---------------------------
(***************************************************************************)
(* Files with two organisations, with certificates that are listed twice,  *)
(* cannot be read or are too short, and with seventeen organisations; and  *)
(* blocks of up to two transactions with one, two, eight and nine          *)
(* endorsers, with certificates on both sides of the sizes at which the    *)
(* length of a length changes.                                             *)
(***************************************************************************)
EXTENDS CardPackets

PEM(byte, n) == [i \in 1..n |-> byte]
Cert(name, byte, n) == [name |-> name, ca |-> PEM(byte, n)]

A1 == Cert(<<65>>, 1, 128)
A2 == Cert(<<65>>, 2, 130)
B1 == Cert(<<66, 66>>, 3, 255)
B2 == Cert(<<66, 66>>, 4, 256)
Short == Cert(<<66, 66>>, 5, 127)

Listed(role, c) == [role |-> role, ca |-> c.ca]
Org(name, certs) == [name |-> name, certs |-> certs]
OrgA(certs) == Org(<<65>>, certs)
OrgB(certs) == Org(<<66, 66>>, certs)
Plain == <<OrgA(<<Listed(0, A1), Listed(1, A2)>>), OrgB(<<Listed(1, B1), Listed(1, B2)>>)>>

SomeFiles ==
  {<<>>, Plain,
   <<OrgA(<<Listed(0, A1), Listed(0, A2), Listed(2, A1)>>), OrgB(<<Listed(3, B1), Listed(3, B2)>>)>>,
   <<OrgA(<<Listed(1, A1), Listed(1, A1), Listed(1, A2)>>), OrgB(<<Listed(0, B2), Listed(0, B1)>>)>>,
   <<OrgB(<<Listed(0, Short), Listed(0, [ca |-> <<>>]), Listed(0, B1), Listed(0, B2)>>),
     OrgA(<<Listed(0, A2), Listed(0, A1)>>)>>,
   [o \in 1..17 |-> Org(<<o>>, <<Listed(0, Cert(<<o>>, o, 128)), Listed(0, Cert(<<o>>, 20 + o, 128))>>)]}

Tx(creator, endorsers, n) ==
  [creator |-> creator, endorsers |-> endorsers, chaincode |-> <<99, 99>>,
   results |-> PEM(50, n), signature |-> <<60, 61>>]
Times(n) == [i \in 1..n |-> IF i % 2 = 0 THEN A1 ELSE B2]
SomeTxs ==
  {Tx(A1, <<B1>>, 3), Tx(B2, <<A2, B2>>, 130), Tx(A2, Times(8), 9), Tx(B1, Times(9), 10),
   Tx(Short, <<A1, Short>>, 12)}
SomeBlocks ==
  {[number |-> n, txs |-> txs, orderer |-> o, signature |-> <<70>>] :
     n \in {1, 128}, o \in {B1},
     txs \in {<<t>> : t \in SomeTxs} \union {<<t, u>> : t, u \in SomeTxs}}
=============================================================================
