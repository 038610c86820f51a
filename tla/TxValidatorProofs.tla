------------------------- MODULE TxValidatorProofs -------------------------
(***************************************************************************)
(* TxValidator, for any chain, any number of workers and transactions, and *)
(* peers of both releases, with a card and without, and of either commit.  *)
(*                                                                         *)
(* The error that Validate returns: the reader of the results has seen the *)
(* first error of those it has received. That it is the first of all when  *)
(* Validate fails rests on two things: it reads all results before it      *)
(* looks, and no transaction is left without a code, so that Validate      *)
(* fails for no other reason.                                              *)
(*                                                                         *)
(* The flags: a worker's result is that of a sequential validator, from    *)
(* what it reads at the moment it reads it; the comparison inside the      *)
(* block comes out the same in whatever order Go ranges over its map of    *)
(* upgrades, which is an induction over the turns of that loop.            *)
(***************************************************************************)
EXTENDS TxValidator, RecursiveFunctions, SequenceTheorems, FiniteSetTheorems, TLAPS

-----------------------------------------------------------------------------
(* The code of a list of checks.                                           *)

\* A list of checks each of which, if it fails, gives a code.
Coded(checks) ==
  \E S : checks \in Seq(S) /\ \A c \in S : c.code \notin {"NOT_VALIDATED", "VALID"}
AllPass(checks) == \A i \in DOMAIN checks : checks[i].ok

\* Two such lists make one.
LEMMA CodedConcat ==
  ASSUME NEW c, NEW d, Coded(c), Coded(d)
  PROVE  Coded(c \o d) /\ (AllPass(c \o d) <=> AllPass(c) /\ AllPass(d))
<1>1. PICK S : c \in Seq(S) /\ \A x \in S : x.code \notin {"NOT_VALIDATED", "VALID"}
  BY DEF Coded
<1>2. PICK T : d \in Seq(T) /\ \A x \in T : x.code \notin {"NOT_VALIDATED", "VALID"}
  BY DEF Coded
<1>3. c \in Seq(S \union T) /\ d \in Seq(S \union T)
  BY <1>1, <1>2
<1>4. /\ c \o d \in Seq(S \union T) /\ Len(c \o d) = Len(c) + Len(d)
      /\ \A i \in 1..Len(c) + Len(d) :
           (c \o d)[i] = IF i <= Len(c) THEN c[i] ELSE d[i - Len(c)]
  BY <1>3, ConcatProperties
<1>5. Coded(c \o d)
  BY <1>1, <1>2, <1>4 DEF Coded
<1>6. /\ DOMAIN c = 1..Len(c) /\ DOMAIN d = 1..Len(d) /\ DOMAIN (c \o d) = 1..Len(c) + Len(d)
      /\ Len(c) \in Nat /\ Len(d) \in Nat
  BY <1>3, <1>4, LenProperties
<1>7. /\ \A i \in DOMAIN c : i \in DOMAIN (c \o d) /\ (c \o d)[i] = c[i]
      /\ \A i \in DOMAIN d : /\ Len(c) + i \in DOMAIN (c \o d)
                             /\ (c \o d)[Len(c) + i] = d[i]
      /\ \A i \in DOMAIN (c \o d) : \/ i \in DOMAIN c
                                    \/ i - Len(c) \in DOMAIN d /\ Len(c) + (i - Len(c)) = i
  BY <1>4, <1>6
<1>8. AllPass(c \o d) => AllPass(c) /\ AllPass(d)
  BY <1>7 DEF AllPass
<1>9. AllPass(c) /\ AllPass(d) => AllPass(c \o d)
  <2> SUFFICES ASSUME AllPass(c), AllPass(d), NEW i \in DOMAIN (c \o d)
               PROVE  (c \o d)[i].ok
    BY DEF AllPass
  <2>1. CASE i \in DOMAIN c
    BY <1>7, <2>1 DEF AllPass
  <2>2. CASE i - Len(c) \in DOMAIN d /\ Len(c) + (i - Len(c)) = i
    <3>1. (c \o d)[i] = d[i - Len(c)]
      BY <1>7, <2>2
    <3> QED BY <2>2, <3>1 DEF AllPass
  <2> QED BY <1>7, <2>1, <2>2
<1> QED BY <1>5, <1>8, <1>9

\* The first check that fails, or that none does, gives a code.
LEMMA FirstFailureCode ==
  ASSUME NEW checks, Coded(checks)
  PROVE  /\ FirstFailure(checks) # "NOT_VALIDATED"
         /\ FirstFailure(checks) = "VALID" <=> AllPass(checks)
<1> DEFINE failed == {i \in DOMAIN checks : ~checks[i].ok}
<1>1. PICK S : checks \in Seq(S) /\ \A c \in S : c.code \notin {"NOT_VALIDATED", "VALID"}
  BY DEF Coded
<1>2. DOMAIN checks = 1..Len(checks) /\ \A i \in DOMAIN checks : checks[i] \in S
  BY <1>1, LenProperties
<1>3. failed = {} <=> AllPass(checks)
  BY DEF AllPass
<1>4. CASE failed = {}
  BY <1>3, <1>4 DEF FirstFailure
<1>5. CASE failed # {}
  <2> DEFINE first == CHOOSE i \in failed : \A j \in failed : i <= j
  <2>1. failed \subseteq Nat
    BY <1>1, <1>2, LenProperties
  <2>2. \E i \in failed : \A j \in failed : i <= j
    BY <1>5, <2>1, LeastNatural
  <2>3. first \in failed
    BY <2>2
  <2>4. checks[first].code \notin {"NOT_VALIDATED", "VALID"}
    BY <1>1, <1>2, <2>3
  <2>5. FirstFailure(checks) = checks[first].code
    BY <1>5 DEF FirstFailure
  <2> QED BY <1>3, <1>5, <2>4, <2>5
<1> QED BY <1>4, <1>5

\* A list of one check.
LEMMA CodedOne ==
  ASSUME NEW a, a \notin {"NOT_VALIDATED", "VALID"}, NEW x \in BOOLEAN
  PROVE  Coded(<<Check(x, a)>>) /\ (AllPass(<<Check(x, a)>>) <=> x)
<1> DEFINE S == {Check(x, a)}
<1>1. \A s \in S : s.code \notin {"NOT_VALIDATED", "VALID"}
  BY DEF Check
<1>2. <<Check(x, a)>> \in Seq(S)
  OBVIOUS
<1>3. AllPass(<<Check(x, a)>>) <=> x
  BY DEF AllPass, Check
<1> HIDE DEF S
<1> QED BY <1>1, <1>2, <1>3 DEF Coded

\* A list of two checks.
LEMMA CodedTwo ==
  ASSUME NEW a, NEW b, a \notin {"NOT_VALIDATED", "VALID"}, b \notin {"NOT_VALIDATED", "VALID"},
         NEW x \in BOOLEAN, NEW y \in BOOLEAN
  PROVE  /\ Coded(<<Check(x, a), Check(y, b)>>)
         /\ AllPass(<<Check(x, a), Check(y, b)>>) <=> x /\ y
<1> DEFINE S == {Check(x, a), Check(y, b)}
<1>1. \A s \in S : s.code \notin {"NOT_VALIDATED", "VALID"}
  BY DEF Check
<1>2. <<Check(x, a), Check(y, b)>> \in Seq(S)
  OBVIOUS
<1>3. AllPass(<<Check(x, a), Check(y, b)>>) <=> x /\ y
  BY DEF AllPass, Check
<1> HIDE DEF S
<1> QED BY <1>1, <1>2, <1>3 DEF Coded

\* A list of three checks.
LEMMA CodedThree ==
  ASSUME NEW a, NEW b, NEW c, \A s \in {a, b, c} : s \notin {"NOT_VALIDATED", "VALID"},
         NEW x \in BOOLEAN, NEW y \in BOOLEAN, NEW z \in BOOLEAN
  PROVE  /\ Coded(<<Check(x, a), Check(y, b), Check(z, c)>>)
         /\ AllPass(<<Check(x, a), Check(y, b), Check(z, c)>>) <=> x /\ y /\ z
<1> DEFINE S == {Check(x, a), Check(y, b), Check(z, c)}
<1>1. \A s \in S : s.code \notin {"NOT_VALIDATED", "VALID"}
  BY DEF Check
<1>2. <<Check(x, a), Check(y, b), Check(z, c)>> \in Seq(S)
  OBVIOUS
<1>3. AllPass(<<Check(x, a), Check(y, b), Check(z, c)>>) <=> x /\ y /\ z
  BY DEF AllPass, Check
<1> HIDE DEF S
<1> QED BY <1>1, <1>2, <1>3 DEF Coded

\* What a transaction of each type must satisfy, besides its envelope.
WellFormed(tx, hw) ==
  \/ tx.type = "endorser" /\ (hw \/ ("txid" \notin tx.bad /\ ValidateEndorserTransaction(tx)))
  \/ tx.type = "config" /\ ValidateConfigTransaction(tx)
  \/ peer.v14 /\ tx.type = "token" /\ "txid" \notin tx.bad

\* The checks of a transaction's form give a code, VALID if all are passed.
LEMMA FormCode ==
  ASSUME NEW tx, NEW cfg, NEW hw \in BOOLEAN, peer.v14 \in BOOLEAN
  PROVE  /\ Form(tx, cfg, hw) # "NOT_VALIDATED"
         /\ Form(tx, cfg, hw) = "VALID" <=>
              /\ {"envelope", "payload"} \cap tx.bad = {}
              /\ ValidateCommonHeader(tx)
              /\ hw \/ CheckSignatureFromCreator(tx, cfg)
              /\ WellFormed(tx, hw)
<1> DEFINE common == /\ "payload" \notin tx.bad
                     /\ ValidateCommonHeader(tx)
                     /\ hw \/ CheckSignatureFromCreator(tx, cfg)
<1>1. Coded(Envelope(tx, cfg, hw)) /\ (AllPass(Envelope(tx, cfg, hw)) <=> common)
  <2>1. /\ ("payload" \notin tx.bad) \in BOOLEAN
        /\ ValidateCommonHeader(tx) \in BOOLEAN
        /\ (hw \/ CheckSignatureFromCreator(tx, cfg)) \in BOOLEAN
    BY DEF ValidateCommonHeader, CheckSignatureFromCreator
  <2> DEFINE x == "payload" \notin tx.bad
             y == ValidateCommonHeader(tx)
             z == hw \/ CheckSignatureFromCreator(tx, cfg)
             list == <<Check(x, "BAD_PAYLOAD"), Check(y, "BAD_COMMON_HEADER"),
                       Check(z, "BAD_CREATOR_SIGNATURE")>>
  <2>2. Envelope(tx, cfg, hw) = list
    BY DEF Envelope
  <2>3. x \in BOOLEAN /\ y \in BOOLEAN /\ z \in BOOLEAN
    BY <2>1
  <2> HIDE DEF x, y, z
  <2>4. Coded(list) /\ (AllPass(list) <=> x /\ y /\ z)
    BY <2>3, CodedThree
  <2> HIDE DEF list
  <2>5. x /\ y /\ z <=> common
    BY DEF x, y, z
  <2> QED BY <2>2, <2>4, <2>5
<1> HIDE DEF common
<1>2. ASSUME NEW rest, NEW z, Coded(rest), AllPass(rest) <=> z
      PROVE  /\ FirstFailure(Envelope(tx, cfg, hw) \o rest) # "NOT_VALIDATED"
             /\ FirstFailure(Envelope(tx, cfg, hw) \o rest) = "VALID" <=> common /\ z
  BY <1>1, <1>2, CodedConcat, FirstFailureCode
<1>3. ASSUME tx.type = "endorser"
      PROVE  /\ ValidateTransaction(tx, cfg, hw) # "NOT_VALIDATED"
             /\ ValidateTransaction(tx, cfg, hw) = "VALID" <=> common /\ WellFormed(tx, hw)
  <2> DEFINE x == hw \/ "txid" \notin tx.bad
             y == hw \/ ValidateEndorserTransaction(tx)
             rest == <<Check(x, "BAD_PROPOSAL_TXID"), Check(y, "INVALID_ENDORSER_TRANSACTION")>>
  <2>1. ValidateTransaction(tx, cfg, hw) = FirstFailure(Envelope(tx, cfg, hw) \o rest)
    BY <1>3 DEF ValidateTransaction
  <2>2. x \in BOOLEAN /\ y \in BOOLEAN
    BY DEF ValidateEndorserTransaction
  <2>3. WellFormed(tx, hw) <=> x /\ y
    BY <1>3 DEF WellFormed
  <2> HIDE DEF x, y
  <2>4. Coded(rest) /\ (AllPass(rest) <=> x /\ y)
    BY <2>2, CodedTwo
  <2> HIDE DEF rest
  <2> QED BY <1>2, <2>1, <2>3, <2>4
<1>4. ASSUME tx.type = "config"
      PROVE  /\ ValidateTransaction(tx, cfg, hw) # "NOT_VALIDATED"
             /\ ValidateTransaction(tx, cfg, hw) = "VALID" <=> common /\ WellFormed(tx, hw)
  <2> DEFINE x == ValidateConfigTransaction(tx)
             rest == <<Check(x, "INVALID_CONFIG_TRANSACTION")>>
  <2>1. ValidateTransaction(tx, cfg, hw) = FirstFailure(Envelope(tx, cfg, hw) \o rest)
    BY <1>4 DEF ValidateTransaction
  <2>2. x \in BOOLEAN
    BY DEF ValidateConfigTransaction
  <2>3. WellFormed(tx, hw) <=> x
    BY <1>4 DEF WellFormed
  <2> HIDE DEF x
  <2>4. Coded(rest) /\ (AllPass(rest) <=> x)
    BY <2>2, CodedOne
  <2> HIDE DEF rest
  <2> QED BY <1>2, <2>1, <2>3, <2>4
<1>5. ASSUME tx.type \notin {"endorser", "config"}
      PROVE  /\ ValidateTransaction(tx, cfg, hw) # "NOT_VALIDATED"
             /\ ValidateTransaction(tx, cfg, hw) # "VALID"
  <2> DEFINE rest == <<Check(FALSE, "UNSUPPORTED_TX_PAYLOAD")>>
  <2>1. ValidateTransaction(tx, cfg, hw) = FirstFailure(Envelope(tx, cfg, hw) \o rest)
    BY <1>5 DEF ValidateTransaction
  <2>2. Coded(rest) /\ (AllPass(rest) <=> FALSE)
    BY CodedOne
  <2> HIDE DEF rest
  <2> QED BY <1>2, <2>1, <2>2
<1>6. ASSUME tx.type = "token"
      PROVE  /\ ValidateTransactionV14(tx, cfg, hw) # "NOT_VALIDATED"
             /\ ValidateTransactionV14(tx, cfg, hw) = "VALID" <=> common /\ "txid" \notin tx.bad
  <2> DEFINE x == "txid" \notin tx.bad
             rest == <<Check(x, "BAD_PROPOSAL_TXID")>>
  <2>1. ValidateTransactionV14(tx, cfg, hw) = FirstFailure(Envelope(tx, cfg, hw) \o rest)
    BY <1>6 DEF ValidateTransactionV14
  <2>2. x \in BOOLEAN
    OBVIOUS
  <2> HIDE DEF x
  <2>3. Coded(rest) /\ (AllPass(rest) <=> x)
    BY <2>2, CodedOne
  <2> HIDE DEF rest
  <2>4. ValidateTransactionV14(tx, cfg, hw) # "NOT_VALIDATED"
        /\ (ValidateTransactionV14(tx, cfg, hw) = "VALID" <=> common /\ x)
    BY <1>2, <2>1, <2>3
  <2> QED BY <2>4 DEF x
<1>7. tx.type # "token" => ValidateTransactionV14(tx, cfg, hw) = ValidateTransaction(tx, cfg, hw)
  BY DEF ValidateTransactionV14
<1>8. /\ Form(tx, cfg, hw) # "NOT_VALIDATED"
      /\ Form(tx, cfg, hw) = "VALID" <=>
           "envelope" \notin tx.bad /\ common /\ WellFormed(tx, hw)
  <2>1. tx.type = "token" => (WellFormed(tx, hw) <=> peer.v14 /\ "txid" \notin tx.bad)
    BY DEF WellFormed
  <2>2. tx.type \notin {"endorser", "config", "token"} => ~WellFormed(tx, hw)
    BY DEF WellFormed
  <2>3. CASE "envelope" \in tx.bad
    BY <2>3 DEF Form
  <2>4. CASE "envelope" \notin tx.bad /\ peer.v14
    BY <1>3, <1>4, <1>5, <1>6, <1>7, <2>1, <2>2, <2>4 DEF Form
  <2>5. CASE "envelope" \notin tx.bad /\ ~peer.v14
    BY <1>3, <1>4, <1>5, <2>1, <2>2, <2>5 DEF Form
  <2> QED BY <2>3, <2>4, <2>5
<1>9. "envelope" \notin tx.bad /\ common <=>
        /\ {"envelope", "payload"} \cap tx.bad = {}
        /\ ValidateCommonHeader(tx)
        /\ hw \/ CheckSignatureFromCreator(tx, cfg)
  BY DEF common
<1> QED BY <1>8, <1>9

\* The checks after the look-up of the id give a code, VALID if all are passed.
LEMMA AfterLookupCode ==
  ASSUME NEW tx, NEW hw \in BOOLEAN
  PROVE  /\ AfterLookup(tx, hw) # "NOT_VALIDATED"
         /\ AfterLookup(tx, hw) = "VALID" <=>
              /\ hw \/ "policy" \notin tx.bad
              /\ peer.v14 => "extension" \notin tx.bad
              /\ hw \/ "marshal" \notin tx.bad
<1> DEFINE x == hw \/ "policy" \notin tx.bad
           y == "extension" \notin tx.bad
           z == hw \/ "marshal" \notin tx.bad
           list14 == <<Check(x, "ENDORSEMENT_POLICY_FAILURE"), Check(y, "INVALID_OTHER_REASON"),
                       Check(z, "MARSHAL_TX_ERROR")>>
           list22 == <<Check(x, "ENDORSEMENT_POLICY_FAILURE"), Check(z, "MARSHAL_TX_ERROR")>>
<1>1. AfterLookupV14(tx, hw) = list14 /\ AfterLookupV22(tx, hw) = list22
  BY DEF AfterLookupV14, AfterLookupV22
<1>2. x \in BOOLEAN /\ y \in BOOLEAN /\ z \in BOOLEAN
  OBVIOUS
<1>3. /\ AfterLookup(tx, hw) # "NOT_VALIDATED"
      /\ AfterLookup(tx, hw) = "VALID" <=> x /\ (peer.v14 => y) /\ z
  <2> HIDE DEF x, y, z
  <2>1. Coded(list14) /\ (AllPass(list14) <=> x /\ y /\ z)
    BY <1>2, CodedThree
  <2>2. Coded(list22) /\ (AllPass(list22) <=> x /\ z)
    BY <1>2, CodedTwo
  <2> HIDE DEF list14, list22
  <2>3. CASE peer.v14
    BY <1>1, <2>1, <2>3, FirstFailureCode DEF AfterLookup
  <2>4. CASE ~peer.v14
    BY <1>1, <2>2, <2>4, FirstFailureCode DEF AfterLookup
  <2> QED BY <2>3, <2>4
<1> QED BY <1>3

-----------------------------------------------------------------------------
(* What v1.4 makes of the upgrades, in whatever order it meets them.       *)

Upgraded == {Block[j].up : j \in Upgrades}
Outdated(i) == i \in Upgrades /\ \E j \in Upgrades : Block[j].up = Block[i].up /\ i < j
Conflict == "CHAINCODE_VERSION_CONFLICT"

\* After some turns of the loop: the last upgrade of each chaincode it has met, met,
\* and a conflict for those it has met that are not the last.
Turned(acc, fl, met) ==
  /\ DOMAIN acc.flags = DOMAIN fl
  /\ \A c \in Upgraded :
       /\ acc.last[c] = 0 => \A j \in met : Block[j].up # c
       /\ acc.last[c] # 0 => acc.last[c] \in met /\ Block[acc.last[c]].up = c
       /\ \A j \in met : Block[j].up = c => j <= acc.last[c]
  /\ \A i \in DOMAIN fl :
       acc.flags[i] = IF i \in met /\ i < acc.last[Block[i].up] THEN Conflict ELSE fl[i]

\* The loop's variables.
Loop(fl) == [flags : [DOMAIN fl -> {fl[i] : i \in DOMAIN fl} \union {Conflict}],
             last : [Upgraded -> {0} \union Upgrades]]

\* One turn of the loop.
LEMMA TurnOnce ==
  ASSUME NEW n \in Nat, Upgrades \subseteq 1..n, NEW fl, DOMAIN fl = 1..n,
         NEW met \in SUBSET Upgrades, NEW i \in Upgrades, i \notin met,
         NEW acc \in Loop(fl)
  PROVE  /\ LaterUpgradeWins(acc, i) \in Loop(fl)
         /\ Turned(acc, fl, met) => Turned(LaterUpgradeWins(acc, i), fl, met \union {i})
<1> DEFINE cc == Block[i].up
           next == LaterUpgradeWins(acc, i)
           codes == {fl[j] : j \in DOMAIN fl} \union {Conflict}
<1>1. /\ acc.flags \in [1..n -> codes] /\ acc.last \in [Upgraded -> {0} \union Upgrades]
      /\ acc = [flags |-> acc.flags, last |-> acc.last]
  BY DEF Loop
<1>2. cc \in Upgraded /\ i \in 1..n
  BY DEF Upgraded
<1>3. acc.last[cc] \in {0} \union Upgrades
  BY <1>1, <1>2
<1>4. CASE acc.last[cc] = 0
  <2>1. next = [flags |-> acc.flags, last |-> [acc.last EXCEPT ![cc] = i]]
    BY <1>1, <1>4 DEF LaterUpgradeWins
  <2>2. next \in Loop(fl)
    BY <1>1, <1>2, <2>1 DEF Loop
  <2>3. /\ next.flags = acc.flags
        /\ next.last[cc] = i /\ \A c \in Upgraded \ {cc} : next.last[c] = acc.last[c]
    BY <1>1, <1>2, <2>1
  <2> HIDE DEF next
  <2>4. ASSUME Turned(acc, fl, met) PROVE Turned(next, fl, met \union {i})
    <3>1. \A j \in met : Block[j].up # cc /\ Block[j].up \in Upgraded
      BY <1>2, <1>4, <2>4 DEF Turned, Upgraded
    <3>2. ASSUME NEW c \in Upgraded
          PROVE  /\ next.last[c] = 0 => \A j \in met \union {i} : Block[j].up # c
                 /\ next.last[c] # 0 => next.last[c] \in met \union {i} /\ Block[next.last[c]].up = c
                 /\ \A j \in met \union {i} : Block[j].up = c => j <= next.last[c]
      BY <1>2, <2>3, <2>4, <3>1 DEF Turned
    <3>3. ASSUME NEW j \in DOMAIN fl
          PROVE  next.flags[j] =
                   IF j \in met \union {i} /\ j < next.last[Block[j].up] THEN Conflict ELSE fl[j]
      <4>1. acc.flags[j] = IF j \in met /\ j < acc.last[Block[j].up] THEN Conflict ELSE fl[j]
        BY <2>4 DEF Turned
      <4>2. j \in met => next.last[Block[j].up] = acc.last[Block[j].up]
        BY <2>3, <3>1
      <4>3. j = i => next.last[Block[j].up] = j /\ j \in Nat
        BY <1>2, <2>3
      <4> QED BY <2>3, <4>1, <4>2, <4>3
    <3>4. DOMAIN next.flags = DOMAIN fl
      BY <2>3, <2>4 DEF Turned
    <3> QED BY <3>2, <3>3, <3>4 DEF Turned
  <2> QED BY <2>2, <2>4 DEF next
<1>5. CASE acc.last[cc] # 0 /\ acc.last[cc] < i
  <2> DEFINE former == acc.last[cc]
  <2>7. former \in Upgrades /\ former < i
    BY <1>3, <1>5
  <2>0. former \in Upgrades /\ former \in 1..n /\ former # i
    <3> HIDE DEF former
    <3> QED BY <1>2, <2>7
  <2>1. next = [flags |-> [acc.flags EXCEPT ![former] = Conflict],
                last |-> [acc.last EXCEPT ![cc] = i]]
    BY <1>1, <1>5 DEF LaterUpgradeWins, Conflict
  <2>2. next \in Loop(fl)
    BY <1>1, <1>2, <2>0, <2>1 DEF Loop
  <2>3. /\ next.flags[former] = Conflict
        /\ \A j \in 1..n \ {former} : next.flags[j] = acc.flags[j]
        /\ DOMAIN next.flags = 1..n
        /\ next.last[cc] = i /\ \A c \in Upgraded \ {cc} : next.last[c] = acc.last[c]
    BY <1>1, <1>2, <2>0, <2>1
  <2> HIDE DEF next
  <2>4. ASSUME Turned(acc, fl, met) PROVE Turned(next, fl, met \union {i})
    <3>1. /\ former \in met /\ Block[former].up = cc
          /\ \A j \in met : Block[j].up = cc => j <= former
          /\ \A j \in met : Block[j].up \in Upgraded /\ j \in 1..n
      BY <1>2, <1>5, <2>4 DEF Turned, Upgraded
    <3> HIDE DEF former
    <3>2. ASSUME NEW c \in Upgraded
          PROVE  /\ next.last[c] = 0 => \A j \in met \union {i} : Block[j].up # c
                 /\ next.last[c] # 0 => next.last[c] \in met \union {i} /\ Block[next.last[c]].up = c
                 /\ \A j \in met \union {i} : Block[j].up = c => j <= next.last[c]
      <4>1. CASE c = cc
        <5>1. \A j \in met : Block[j].up = c => j <= i
          BY <1>2, <1>5, <2>0, <3>1, <4>1 DEF former
        <5> QED BY <1>2, <2>3, <4>1, <5>1
      <4>2. CASE c # cc
        BY <2>3, <2>4, <4>2 DEF Turned
      <4> QED BY <4>1, <4>2
    <3>3. ASSUME NEW j \in DOMAIN fl
          PROVE  next.flags[j] =
                   IF j \in met \union {i} /\ j < next.last[Block[j].up] THEN Conflict ELSE fl[j]
      <4>1. acc.flags[j] = IF j \in met /\ j < acc.last[Block[j].up] THEN Conflict ELSE fl[j]
        BY <2>4 DEF Turned
      <4>2. CASE j = former
        BY <1>5, <2>3, <3>1, <4>2 DEF former
      <4>3. CASE j = i
        BY <1>2, <2>0, <2>3, <4>1, <4>3
      <4>4. CASE j \in met /\ j # former
        <5>1. CASE Block[j].up = cc
          <6>1. j < former /\ j < i
            BY <1>2, <1>5, <2>0, <3>1, <4>4, <5>1 DEF former
          <6> QED BY <2>3, <4>1, <4>4, <5>1, <6>1 DEF former
        <5>2. CASE Block[j].up # cc
          BY <2>3, <3>1, <4>1, <4>4, <5>2
        <5> QED BY <5>1, <5>2
      <4>5. CASE j \notin met \union {i}
        BY <2>3, <3>1, <4>1, <4>5
      <4> QED BY <4>2, <4>3, <4>4, <4>5
    <3> QED BY <2>3, <3>2, <3>3 DEF Turned
  <2> QED BY <2>2, <2>4 DEF next
<1>6. CASE acc.last[cc] # 0 /\ ~(acc.last[cc] < i)
  <2> DEFINE later == acc.last[cc]
  <2>7. later \in Upgrades
    BY <1>3, <1>6
  <2>0. later \in Upgrades /\ later \in 1..n
    BY <2>7
  <2>1. next = [flags |-> [acc.flags EXCEPT ![i] = Conflict], last |-> acc.last]
    BY <1>1, <1>6 DEF LaterUpgradeWins, Conflict
  <2>2. next \in Loop(fl)
    BY <1>1, <1>2, <2>1 DEF Loop
  <2>3. /\ next.flags[i] = Conflict
        /\ \A j \in 1..n \ {i} : next.flags[j] = acc.flags[j]
        /\ DOMAIN next.flags = 1..n /\ next.last = acc.last
    BY <1>1, <1>2, <2>1
  <2> HIDE DEF next
  <2>4. ASSUME Turned(acc, fl, met) PROVE Turned(next, fl, met \union {i})
    <3>1. later \in met /\ Block[later].up = cc /\ i < later
      <4>1. later \in met /\ Block[later].up = cc
        BY <1>2, <1>6, <2>4 DEF Turned
      <4>2. later # i
        BY <4>1
      <4> QED BY <1>2, <1>6, <2>0, <4>1, <4>2
    <3>2. ASSUME NEW c \in Upgraded
          PROVE  /\ next.last[c] = 0 => \A j \in met \union {i} : Block[j].up # c
                 /\ next.last[c] # 0 => next.last[c] \in met \union {i} /\ Block[next.last[c]].up = c
                 /\ \A j \in met \union {i} : Block[j].up = c => j <= next.last[c]
      <4>1. CASE c = cc
        <5>1. \A j \in met : Block[j].up = c => j <= later
          BY <2>4 , <4>1, <1>2 DEF Turned
        <5> QED BY <1>2, <1>6, <2>0, <2>3, <3>1, <4>1, <5>1
      <4>2. CASE c # cc
        BY <2>3, <2>4, <4>2 DEF Turned
      <4> QED BY <4>1, <4>2
    <3>3. ASSUME NEW j \in DOMAIN fl
          PROVE  next.flags[j] =
                   IF j \in met \union {i} /\ j < next.last[Block[j].up] THEN Conflict ELSE fl[j]
      <4>1. acc.flags[j] = IF j \in met /\ j < acc.last[Block[j].up] THEN Conflict ELSE fl[j]
        BY <2>4 DEF Turned
      <4>2. CASE j = i
        BY <2>3, <3>1, <4>2
      <4>3. CASE j # i
        BY <2>3, <4>1, <4>3
      <4> QED BY <4>2, <4>3
    <3> QED BY <2>3, <3>2, <3>3 DEF Turned
  <2> QED BY <2>2, <2>4 DEF next
<1> QED BY <1>4, <1>5, <1>6

\* The loop over the map of upgrades makes Cardinality(Upgrades) turns.
LEMMA TurnSteps ==
  ASSUME NEW n \in Nat, Upgrades \subseteq 1..n, NEW fl, fl = [i \in 1..n |-> fl[i]],
         NEW order \in Orders
  PROVE  \E turn :
           /\ turn[0] = [flags |-> fl, last |-> [c \in Upgraded |-> 0]]
           /\ \A k \in 0..Cardinality(Upgrades) : turn[k] \in Loop(fl)
           /\ \A k \in 1..Cardinality(Upgrades) : turn[k] = LaterUpgradeWins(turn[k - 1], order[k])
           /\ InvalidTXsForUpgradeCC(fl, order) =
                [i \in DOMAIN fl |->
                   IF /\ i \in valid /\ Block[i].cc \in Upgraded
                      /\ turn[Cardinality(Upgrades)].flags[i] = "VALID"
                   THEN Conflict ELSE turn[Cardinality(Upgrades)].flags[i]]
<1> DEFINE K == Cardinality(Upgrades)
           first == [flags |-> fl, last |-> [c \in Upgraded |-> 0]]
           G == [k \in 1..K |-> [acc \in Loop(fl) |-> LaterUpgradeWins(acc, order[k])]]
           Unfolds(f) == f = [k \in 0..K |-> IF k = 0 THEN first
                                             ELSE LaterUpgradeWins(f[k - 1], order[k])]
<1>0. DOMAIN fl = 1..n
  OBVIOUS
<1>1. K \in Nat
  <2>1. IsFiniteSet(Upgrades)
    <3>1. IsFiniteSet(1..n)
      BY FS_Interval
    <3> QED BY <3>1, FS_Subset
  <2> QED BY <2>1, FS_CardinalityType
<1>2. \A k \in 1..K : order[k] \in Upgrades
  BY DEF Orders, Bijection, Injection
<1>3. first \in Loop(fl)
  <2>1. \A i \in 1..n : fl[i] \in {fl[j] : j \in 1..n} \union {Conflict}
    OBVIOUS
  <2>2. fl \in [DOMAIN fl -> {fl[j] : j \in DOMAIN fl} \union {Conflict}]
    BY <1>0, <2>1, Zenon
  <2> QED BY <2>2 DEF Loop
<1>4. G \in Steps(K, Loop(fl))
  <2>1. \A k \in 1..K : \A acc \in Loop(fl) : LaterUpgradeWins(acc, order[k]) \in Loop(fl)
    <3> TAKE k \in 1..K
    <3> TAKE acc \in Loop(fl)
    <3> DEFINE none == {j \in Upgrades : FALSE}
    <3>1. none \in SUBSET Upgrades /\ order[k] \notin none /\ order[k] \in Upgrades
      BY <1>2
    <3> HIDE DEF none
    <3> QED BY <1>0, <3>1, TurnOnce
  <2> QED BY <2>1 DEF Steps
<1> HIDE DEF K, first, G
<1>5. PICK f : Recursion(f, K, Loop(fl), first, G)
  BY <1>1, <1>3, <1>4, RecursionExists
<1>6. /\ f \in [0..K -> Loop(fl)] /\ f[0] = first
      /\ \A k \in 1..K : k - 1 \in 0..K /\ f[k] = LaterUpgradeWins(f[k - 1], order[k])
  <2>1. \A k \in 1..K : k - 1 \in 0..K
    BY <1>1
  <2> QED BY <1>5, <2>1 DEF Recursion, G
<1>7. Unfolds(f)
  <2>1. \A k \in 0..K : f[k] = IF k = 0 THEN first ELSE LaterUpgradeWins(f[k - 1], order[k])
    BY <1>1, <1>6
  <2> QED BY <1>6, <2>1
<1>8. Unfolds(CHOOSE g : Unfolds(g))
  <2> HIDE DEF Unfolds
  <2> QED BY <1>7
<1>9. PICK turn : /\ Unfolds(turn)
                  /\ InvalidTXsForUpgradeCC(fl, order) =
                       [i \in DOMAIN fl |->
                          IF i \in valid /\ Block[i].cc \in Upgraded /\ turn[K].flags[i] = "VALID"
                          THEN Conflict ELSE turn[K].flags[i]]
  <2> DEFINE turn == CHOOSE g : Unfolds(g)
  <2>1. InvalidTXsForUpgradeCC(fl, order) =
          [i \in DOMAIN fl |->
             IF i \in valid /\ Block[i].cc \in Upgraded /\ turn[K].flags[i] = "VALID"
             THEN Conflict ELSE turn[K].flags[i]]
    BY DEF InvalidTXsForUpgradeCC, Upgraded, Conflict, first, K
  <2> HIDE DEF turn, Unfolds
  <2>2. Unfolds(turn)
    BY <1>8 DEF turn
  <2> QED BY <2>1, <2>2
<1>10. /\ turn[0] = first
       /\ \A k \in 1..K : k - 1 \in 0..K /\ turn[k] = LaterUpgradeWins(turn[k - 1], order[k])
  BY <1>1, <1>9
<1>11. \A k \in 0..K : turn[k] \in Loop(fl)
  <2> DEFINE T == {k \in 0..K : turn[k] = f[k]}
  <2>1. 0 \in T
    BY <1>1, <1>6, <1>10
  <2>2. \A k \in 1..K : k - 1 \in T => k \in T
    BY <1>1, <1>6, <1>10
  <2> HIDE DEF T
  <2>3. \A k \in 0..K : k \in T
    BY <1>1, <2>1, <2>2, IntervalInduction
  <2> QED BY <1>6, <2>3 DEF T
<1> QED BY <1>9, <1>10, <1>11 DEF K, first

\* Whatever the order, the loop leaves every upgrade a conflict but the last of
\* each chaincode, and then every transaction that invokes an upgraded chaincode.
LEMMA UpgradesInAnyOrder ==
  ASSUME NEW n \in Nat, Upgrades \subseteq 1..n, NEW fl, fl = [i \in 1..n |-> fl[i]],
         NEW order \in Orders
  PROVE  InvalidTXsForUpgradeCC(fl, order) =
           [i \in DOMAIN fl |->
              IF Outdated(i) THEN Conflict
              ELSE IF i \in valid /\ Block[i].cc \in Upgraded /\ fl[i] = "VALID" THEN Conflict
              ELSE fl[i]]
<1> DEFINE K == Cardinality(Upgrades)
           met(k) == {order[j] : j \in 1..k}
<1>0. DOMAIN fl = 1..n
  OBVIOUS
<1>1. K \in Nat
  <2>1. IsFiniteSet(Upgrades)
    <3>1. IsFiniteSet(1..n)
      BY FS_Interval
    <3> QED BY <3>1, FS_Subset
  <2> QED BY <2>1, FS_CardinalityType
<1>2. /\ order \in [1..K -> Upgrades]
      /\ \A j, k \in 1..K : order[j] = order[k] => j = k
      /\ \A i \in Upgrades : \E k \in 1..K : order[k] = i
  BY DEF Orders, Bijection, Injection, Surjection, IsInjective
<1>3. PICK turn :
        /\ turn[0] = [flags |-> fl, last |-> [c \in Upgraded |-> 0]]
        /\ \A k \in 0..K : turn[k] \in Loop(fl)
        /\ \A k \in 1..K : turn[k] = LaterUpgradeWins(turn[k - 1], order[k])
        /\ InvalidTXsForUpgradeCC(fl, order) =
             [i \in DOMAIN fl |->
                IF i \in valid /\ Block[i].cc \in Upgraded /\ turn[K].flags[i] = "VALID"
                THEN Conflict ELSE turn[K].flags[i]]
  BY TurnSteps, ZenonT(60)
<1> DEFINE T == {k \in 0..K : Turned(turn[k], fl, met(k))}
<1>4. 0 \in T
  <2>1. met(0) = {}
    OBVIOUS
  <2>2. Turned([flags |-> fl, last |-> [c \in Upgraded |-> 0]], fl, {})
    BY DEF Turned
  <2>3. 0 \in 0..K
    BY <1>1
  <2> HIDE DEF met
  <2> QED BY <1>3, <2>1, <2>2, <2>3
<1>5. ASSUME NEW k \in 1..K, k - 1 \in T PROVE k \in T
  <2>1. k - 1 \in 0..K /\ k \in 0..K /\ k - 1 \in Nat /\ k - 1 \notin 1..k - 2
    BY <1>1, <1>5
  <2>2. met(k) = met(k - 1) \union {order[k]}
    <3>1. 1..k = (1..k - 1) \union {k}
      BY <1>1
    <3> QED BY <3>1
  <2>3. met(k - 1) \in SUBSET Upgrades /\ order[k] \in Upgrades
    BY <1>1, <1>2
  <2>4. order[k] \notin met(k - 1)
    BY <1>1, <1>2
  <2>5. turn[k] = LaterUpgradeWins(turn[k - 1], order[k]) /\ turn[k - 1] \in Loop(fl)
    BY <1>3, <2>1
  <2>6. Turned(turn[k - 1], fl, met(k - 1))
    BY <1>5
  <2> HIDE DEF met
  <2>7. Turned(turn[k], fl, met(k - 1) \union {order[k]})
    BY <1>0, <2>3, <2>4, <2>5, <2>6, TurnOnce
  <2> QED BY <2>1, <2>2, <2>7
<1>6. Turned(turn[K], fl, Upgrades)
  <2>1. K \in T
    <3> HIDE DEF T
    <3> QED BY <1>1, <1>4, <1>5, IntervalInduction
  <2>2. met(K) = Upgrades
    <3> HIDE DEF K
    <3> QED BY <1>2
  <2> QED BY <2>1, <2>2
<1>7. ASSUME NEW i \in DOMAIN fl
      PROVE  turn[K].flags[i] = IF Outdated(i) THEN Conflict ELSE fl[i]
  <2> DEFINE last == turn[K].last
  <2>1. turn[K].flags[i] =
          IF i \in Upgrades /\ i < last[Block[i].up] THEN Conflict ELSE fl[i]
    BY <1>6 DEF Turned
  <2>2. i \in Upgrades =>
          /\ last[Block[i].up] # 0 => /\ last[Block[i].up] \in Upgrades
                                      /\ Block[last[Block[i].up]].up = Block[i].up
          /\ last[Block[i].up] # 0
          /\ \A j \in Upgrades : Block[j].up = Block[i].up => j <= last[Block[i].up]
    BY <1>6 DEF Turned, Upgraded
  <2> HIDE DEF last
  <2>3. i \in Upgrades => (i < last[Block[i].up] <=> Outdated(i))
    <3>1. \A j \in Upgrades : j \in Nat
      OBVIOUS
    <3>2. ASSUME i \in Upgrades, i < last[Block[i].up] PROVE Outdated(i)
      BY <2>2, <3>2 DEF Outdated
    <3>3. ASSUME i \in Upgrades, NEW j \in Upgrades, Block[j].up = Block[i].up, i < j
          PROVE  i < last[Block[i].up]
      BY <2>2, <3>1, <3>3
    <3> QED BY <3>2, <3>3 DEF Outdated
  <2>4. Outdated(i) => i \in Upgrades
    BY DEF Outdated
  <2> QED BY <2>1, <2>3, <2>4
<1>8. Conflict # "VALID"
  BY DEF Conflict
<1> HIDE DEF K
<1> QED BY <1>3, <1>7, <1>8

-----------------------------------------------------------------------------
(* The invariant.                                                          *)

Shape ==
  /\ peer \in Peers /\ chain \in Chains
  /\ \E S : stored \in Seq(S) /\ pending \in Seq(S)
  /\ pc \in {"idle", "validate", "failed", "down"}
  /\ pc \in {"idle", "down"} => stage = <<>>
  /\ pc \in {"validate", "failed"} =>
       /\ Number \in 1..Len(chain) /\ started \in Nat
       /\ DOMAIN stage = DOMAIN Block
       /\ DOMAIN outcome = DOMAIN Block /\ valid \subseteq DOMAIN Block
       /\ flags = [i \in DOMAIN Block |-> flags[i]]

\* The reader keeps the first error of the results it has received, and each
\* result without one gives its transaction a code.
Received ==
  pc \in {"validate", "failed"} =>
    /\ \A i \in DOMAIN stage :
         /\ i > started => stage[i] = "waiting"
         /\ stage[i] \in {"answer", "done"} => outcome[i] # "NOT_VALIDATED"
         /\ stage[i] = "done" /\ outcome[i] # "error" => flags[i] # "NOT_VALIDATED"
         /\ stage[i] = "done" /\ outcome[i] = "error" => errPos # 0 /\ errPos <= i
    /\ errPos # 0 =>
         errPos \in DOMAIN stage /\ stage[errPos] = "done" /\ outcome[errPos] = "error"

FailedOnError == pc = "failed" => errPos # 0 /\ \A i \in DOMAIN stage : stage[i] = "done"

ErrorInv == Shape /\ Received /\ FailedOnError

\* At first nothing has been received.
LEMMA InitError == Init => ErrorInv
<1> SUFFICES ASSUME Init PROVE ErrorInv
  OBVIOUS
<1>1. chain \in Chains /\ peer \in Peers /\ pc = "idle" /\ stage = <<>>
  BY DEF Init
<1>2. \E S : stored \in Seq(S) /\ pending \in Seq(S)
  <2>1. stored \in Seq({}) /\ pending \in Seq({})
    BY DEF Init
  <2> QED BY <2>1
<1> QED BY <1>1, <1>2 DEF ErrorInv, Shape, Received, FailedOnError

\* What the parameters are.
LEMMA PeerType ==
  ASSUME peer \in Peers
  PROVE  /\ peer.v14 \in BOOLEAN /\ peer.hw \in BOOLEAN /\ peer.parallel \in BOOLEAN
         /\ peer.forbid \in BOOLEAN /\ ~(peer.v14 /\ peer.parallel)
<1>1. peer \in Peer /\ ~(peer.v14 /\ peer.parallel)
  BY PeersAssumption
<1> QED BY <1>1 DEF Peer

\* The transactions of a block are numbered from 1.
LEMMA ChainType ==
  ASSUME chain \in Chains
  PROVE  /\ Len(chain) \in Nat /\ DOMAIN chain = 1..Len(chain)
         /\ \A b \in 1..Len(chain) :
              /\ chain[b] \in Seq(Transaction)
              /\ Len(chain[b]) \in Nat /\ DOMAIN chain[b] = 1..Len(chain[b])
              /\ \A i \in DOMAIN chain[b] : chain[b][i] \in Transaction
<1>1. chain \in Seq(Seq(Transaction))
  BY ChainsAssumption
<1>2. Len(chain) \in Nat /\ DOMAIN chain = 1..Len(chain)
  BY <1>1, LenProperties
<1>3. ASSUME NEW b \in 1..Len(chain)
      PROVE  /\ chain[b] \in Seq(Transaction)
             /\ Len(chain[b]) \in Nat /\ DOMAIN chain[b] = 1..Len(chain[b])
             /\ \A i \in DOMAIN chain[b] : chain[b][i] \in Transaction
  <2>1. chain[b] \in Seq(Transaction)
    BY <1>1, ElementOfSeq
  <2>2. Len(chain[b]) \in Nat /\ DOMAIN chain[b] = 1..Len(chain[b])
    BY <2>1, LenProperties
  <2>3. \A i \in 1..Len(chain[b]) : chain[b][i] \in Transaction
    BY <2>1, ElementOfSeq
  <2> QED BY <2>1, <2>2, <2>3
<1> QED BY <1>2, <1>3

\* So are those of the block that is validated.
LEMMA Positions ==
  ASSUME Shape, pc \in {"validate", "failed"}
  PROVE  DOMAIN Block = 1..Len(Block) /\ Len(Block) \in Nat
BY ChainType DEF Shape, Block

\* A step of a worker that has neither ended nor is yet to start.
LEMMA WorkerGoes ==
  ASSUME ErrorInv, NEW i \in DOMAIN stage, stage[i] \notin {"waiting", "answer", "done"},
         \/ \E code : code # "NOT_VALIDATED" /\ Answer(i, code)
         \/ \E to \in {"lookup", "plugin", "apply"} : Goto(i, to),
         UNCHANGED <<fixed, ledger, pc, started, results>>
  PROVE  ErrorInv'
<1> USE DEF fixed, ledger, results
<1>1. pc = "validate"
  BY DEF ErrorInv, Shape, FailedOnError
<1>2. DOMAIN Block = 1..Len(Block) /\ Len(Block) \in Nat
  BY <1>1, Positions DEF ErrorInv
<1>3. Number' = Number /\ Block' = Block
  BY DEF Number, Block
<1>4. DOMAIN stage' = DOMAIN stage /\ DOMAIN outcome' = DOMAIN outcome
  BY DEF Answer, Goto
<1>5. Shape'
  BY <1>1, <1>3, <1>4 DEF ErrorInv, Shape
<1>6. ~(i > started)
  BY <1>1 DEF ErrorInv, Received
<1>7. \A j \in DOMAIN stage \ {i} : stage'[j] = stage[j] /\ outcome'[j] = outcome[j]
  BY <1>1 DEF Answer, Goto, ErrorInv, Shape
<1>8. /\ stage'[i] \notin {"waiting", "done"}
      /\ stage'[i] = "answer" => outcome'[i] # "NOT_VALIDATED"
  BY <1>1 DEF Answer, Goto, ErrorInv, Shape
<1>9. Received'
  <2>1. ASSUME NEW j \in DOMAIN stage
        PROVE  /\ j > started => stage'[j] = "waiting"
               /\ stage'[j] \in {"answer", "done"} => outcome'[j] # "NOT_VALIDATED"
               /\ stage'[j] = "done" /\ outcome'[j] # "error" => flags[j] # "NOT_VALIDATED"
               /\ stage'[j] = "done" /\ outcome'[j] = "error" => errPos # 0 /\ errPos <= j
    <3>1. CASE j = i
      BY <1>6, <1>8, <3>1
    <3>2. CASE j # i
      BY <1>1, <1>7, <3>2 DEF ErrorInv, Received
    <3> QED BY <3>1, <3>2
  <2>2. errPos # 0 =>
          errPos \in DOMAIN stage /\ stage'[errPos] = "done" /\ outcome'[errPos] = "error"
    BY <1>1, <1>7 DEF ErrorInv, Received
  <2> QED BY <1>4, <2>1, <2>2 DEF Received
<1> QED BY <1>1, <1>5, <1>9 DEF ErrorInv, FailedOnError

\* The four steps of a worker.
LEMMA WorkerError ==
  ASSUME ErrorInv, NEW i \in DOMAIN stage, WorkerStep(i)
  PROVE  ErrorInv'
<1>0. peer.v14 \in BOOLEAN /\ peer.hw \in BOOLEAN
  BY PeerType DEF ErrorInv, Shape
<1>1. CASE ValidateForm(i)
  <2> DEFINE code == Form(Block[i], config, peer.hw)
  <2>1. code # "NOT_VALIDATED"
    BY <1>0, FormCode
  <2> HIDE DEF code
  <2>2. \/ Answer(i, code) \/ Answer(i, "UNKNOWN_TX_TYPE")
        \/ Goto(i, "lookup") \/ Goto(i, "apply")
    BY <1>1 DEF ValidateForm, code
  <2>3. stage[i] = "form" /\ UNCHANGED <<fixed, ledger, pc, started, results>>
    BY <1>1 DEF ValidateForm
  <2> QED BY <2>1, <2>2, <2>3, WorkerGoes
<1>2. CASE LookUpTxId(i)
  BY <1>2, WorkerGoes DEF LookUpTxId
<1>3. CASE RunPlugin(i)
  <2>1. AfterLookup(Block[i], peer.hw) # "NOT_VALIDATED"
    BY <1>0, AfterLookupCode
  <2> QED BY <1>3, <2>1, WorkerGoes DEF RunPlugin
<1>4. CASE ApplyConfig(i)
  <2>1. Answer(i, "VALID") \/ Answer(i, "error")
    BY <1>4 DEF ApplyConfig
  <2> QED BY <1>4, <2>1, WorkerGoes DEF ApplyConfig
<1> QED BY <1>1, <1>2, <1>3, <1>4 DEF WorkerStep

\* The loop of Validate takes a result.
LEMMA ReceiveError ==
  ASSUME ErrorInv, NEW i \in DOMAIN stage, ReceiveResult(i)
  PROVE  ErrorInv'
<1> USE DEF fixed, ledger, results
<1>1. pc = "validate" /\ stage[i] = "answer"
  BY DEF ErrorInv, Shape, FailedOnError, ReceiveResult
<1>2. DOMAIN Block = 1..Len(Block) /\ Len(Block) \in Nat
  BY <1>1, Positions DEF ErrorInv
<1>3. /\ UNCHANGED <<fixed, ledger, pc, started, outcome>>
      /\ Number' = Number /\ Block' = Block
  BY DEF ReceiveResult, Number, Block
<1>4. /\ DOMAIN stage' = DOMAIN stage /\ stage'[i] = "done"
      /\ \A j \in DOMAIN stage \ {i} : stage'[j] = stage[j]
  BY DEF ReceiveResult
<1>5. /\ DOMAIN stage = DOMAIN Block /\ DOMAIN flags = DOMAIN Block
      /\ flags = [j \in DOMAIN Block |-> flags[j]] /\ valid' \subseteq DOMAIN Block
      /\ outcome[i] # "NOT_VALIDATED" /\ i \in Nat \ {0}
      /\ errPos # 0 => errPos \in DOMAIN stage /\ errPos \in Nat /\ errPos # i
  BY <1>1, <1>2 DEF ErrorInv, Shape, Received, ReceiveResult
<1>6. CASE outcome[i] = "error"
  <2>1. errPos' = KeepError(i) /\ flags' = flags
    BY <1>6 DEF ReceiveResult
  <2>2. /\ errPos' # 0 /\ errPos' <= i /\ errPos' \in {i, errPos}
        /\ errPos # 0 => errPos' <= errPos
    BY <1>5, <2>1 DEF KeepError
  <2>3. Shape'
    BY <1>1, <1>3, <1>4, <1>5, <2>1 DEF ErrorInv, Shape
  <2>4. ASSUME NEW j \in DOMAIN stage
        PROVE  /\ j > started => stage'[j] = "waiting"
               /\ stage'[j] \in {"answer", "done"} => outcome[j] # "NOT_VALIDATED"
               /\ stage'[j] = "done" /\ outcome[j] # "error" => flags[j] # "NOT_VALIDATED"
               /\ stage'[j] = "done" /\ outcome[j] = "error" => errPos' # 0 /\ errPos' <= j
    <3>1. CASE j = i
      BY <1>1, <1>4, <1>5, <1>6, <2>2, <3>1 DEF ErrorInv, Received
    <3>2. CASE j # i
      <4>1. stage'[j] = stage[j] /\ j \in Nat
        BY <1>2, <1>4, <1>5, <3>2
      <4>2. stage[j] = "done" /\ outcome[j] = "error" => errPos # 0 /\ errPos <= j
        BY <1>1 DEF ErrorInv, Received
      <4> QED BY <1>1, <1>5, <2>2, <4>1, <4>2 DEF ErrorInv, Received
    <3> QED BY <3>1, <3>2
  <2>5. errPos' \in DOMAIN stage /\ stage'[errPos'] = "done" /\ outcome[errPos'] = "error"
    <3>1. CASE errPos' = i
      BY <1>4, <1>6, <3>1
    <3>2. CASE errPos' # i
      BY <1>1, <1>4, <2>2, <3>2 DEF ErrorInv, Received
    <3> QED BY <3>1, <3>2
  <2>6. Received'
    BY <1>3, <1>4, <2>1, <2>4, <2>5 DEF Received
  <2> QED BY <1>1, <1>3, <2>3, <2>6 DEF ErrorInv, FailedOnError
<1>7. CASE outcome[i] # "error"
  <2>1. errPos' = errPos /\ flags' = [flags EXCEPT ![i] = outcome[i]]
    BY <1>7 DEF ReceiveResult
  <2>2. /\ flags' = [j \in DOMAIN Block |-> flags'[j]] /\ flags'[i] = outcome[i]
        /\ \A j \in DOMAIN stage \ {i} : flags'[j] = flags[j]
    BY <1>5, <2>1
  <2>3. Shape'
    BY <1>1, <1>3, <1>4, <1>5, <2>2 DEF ErrorInv, Shape
  <2>4. ASSUME NEW j \in DOMAIN stage
        PROVE  /\ j > started => stage'[j] = "waiting"
               /\ stage'[j] \in {"answer", "done"} => outcome[j] # "NOT_VALIDATED"
               /\ stage'[j] = "done" /\ outcome[j] # "error" => flags'[j] # "NOT_VALIDATED"
               /\ stage'[j] = "done" /\ outcome[j] = "error" => errPos # 0 /\ errPos <= j
    <3>1. CASE j = i
      BY <1>1, <1>4, <1>5, <1>7, <2>2, <3>1 DEF ErrorInv, Received
    <3>2. CASE j # i
      BY <1>1, <1>4, <2>2, <3>2 DEF ErrorInv, Received
    <3> QED BY <3>1, <3>2
  <2>5. errPos # 0 =>
          errPos \in DOMAIN stage /\ stage'[errPos] = "done" /\ outcome[errPos] = "error"
    BY <1>1, <1>4, <1>5 DEF ErrorInv, Received
  <2>6. Received'
    BY <1>3, <1>4, <2>1, <2>4, <2>5 DEF Received
  <2> QED BY <1>1, <1>3, <2>3, <2>6 DEF ErrorInv, FailedOnError
<1> QED BY <1>6, <1>7

\* Validate starts with no results.
LEMMA BeginError ==
  ASSUME ErrorInv, BeginValidate
  PROVE  ErrorInv'
<1> USE DEF fixed, ledger
<1>1. Number' = Number /\ Block' = Block /\ UNCHANGED <<fixed, ledger>>
  BY DEF BeginValidate, Number, Block
<1>2. Number \in 1..Len(chain)
  <2>1. PICK S : stored \in Seq(S) /\ pending \in Seq(S)
    BY DEF ErrorInv, Shape
  <2>2. Len(stored) \in Nat /\ Len(pending) \in Nat /\ Len(chain) \in Nat
    BY <2>1, LenProperties, ChainType DEF ErrorInv, Shape
  <2> QED BY <2>2 DEF BeginValidate, Number
<1>3. /\ pc' = "validate" /\ started' = 0 /\ errPos' = 0
      /\ DOMAIN stage' = DOMAIN Block /\ DOMAIN outcome' = DOMAIN Block
      /\ flags' = [i \in DOMAIN Block |-> flags'[i]] /\ valid' = {}
      /\ \A i \in DOMAIN Block : stage'[i] = "waiting"
  BY DEF BeginValidate
<1>4. Shape'
  BY <1>1, <1>2, <1>3 DEF ErrorInv, Shape
<1>5. Received'
  BY <1>3 DEF Received
<1> QED BY <1>3, <1>4, <1>5 DEF ErrorInv, FailedOnError

\* A worker is started for the next transaction, which still waits for it.
LEMMA StartError ==
  ASSUME ErrorInv, StartWorker
  PROVE  ErrorInv'
<1> USE DEF fixed, ledger, results
<1>1. pc = "validate" /\ started' = started + 1 /\ stage' = [stage EXCEPT ![started'] = "form"]
  BY DEF StartWorker
<1>2. DOMAIN Block = 1..Len(Block) /\ Len(Block) \in Nat
  BY <1>1, Positions DEF ErrorInv
<1>3. UNCHANGED <<fixed, ledger, pc, outcome, results>> /\ Number' = Number /\ Block' = Block
  BY DEF StartWorker, Number, Block
<1>4. started \in Nat /\ DOMAIN stage = DOMAIN Block /\ DOMAIN stage' = DOMAIN stage
  BY <1>1 DEF ErrorInv, Shape
<1>5. Shape'
  BY <1>1, <1>3, <1>4 DEF ErrorInv, Shape
<1>6. ASSUME NEW i \in DOMAIN stage
      PROVE  /\ i > started' => stage'[i] = "waiting"
             /\ stage'[i] \in {"answer", "done"} => stage'[i] = stage[i]
  BY <1>1, <1>2, <1>4 DEF ErrorInv, Received
<1>7. errPos # 0 =>
        errPos \in DOMAIN stage /\ stage'[errPos] = "done" /\ outcome[errPos] = "error"
  <2> SUFFICES ASSUME errPos # 0
               PROVE  errPos \in DOMAIN stage /\ stage'[errPos] = "done" /\ outcome[errPos] = "error"
    OBVIOUS
  <2>1. errPos \in DOMAIN stage /\ stage[errPos] = "done" /\ outcome[errPos] = "error"
    BY <1>1 DEF ErrorInv, Received
  <2>2. ~(errPos > started)
    BY <1>1, <2>1 DEF ErrorInv, Received
  <2> QED BY <1>1, <1>2, <1>4, <2>1, <2>2
<1>8. Received'
  <2> SUFFICES ASSUME NEW i \in DOMAIN stage
               PROVE  /\ i > started' => stage'[i] = "waiting"
                      /\ stage'[i] \in {"answer", "done"} => outcome[i] # "NOT_VALIDATED"
                      /\ stage'[i] = "done" /\ outcome[i] # "error" => flags[i] # "NOT_VALIDATED"
                      /\ stage'[i] = "done" /\ outcome[i] = "error" => errPos # 0 /\ errPos <= i
    BY <1>3, <1>4, <1>7 DEF Received
  <2>1. stage'[i] \in {"answer", "done"} => stage'[i] = stage[i]
    BY <1>6
  <2> QED BY <1>1, <1>6, <2>1 DEF ErrorInv, Received
<1> QED BY <1>1, <1>3, <1>5, <1>8 DEF ErrorInv, FailedOnError

\* A block all of whose results came without an error has all its codes.
LEMMA EndError ==
  ASSUME ErrorInv, EndValidate
  PROVE  ErrorInv'
<1> USE DEF fixed, results
<1>1. pc = "validate" /\ AllReceived
  BY DEF EndValidate
<1>2. peer \in Peers /\ DOMAIN Block = 1..Len(Block) /\ Len(Block) \in Nat
  BY <1>1, Positions DEF ErrorInv, Shape
<1>3. /\ DOMAIN stage = DOMAIN Block /\ DOMAIN flags = DOMAIN Block
      /\ valid \subseteq DOMAIN Block
      /\ \A i \in DOMAIN stage : stage[i] = "done"
  BY <1>1 DEF ErrorInv, Shape, AllReceived
<1>4. ASSUME errPos = 0, NEW fl \in IF peer.v14 THEN {FinalFlagsV14(o) : o \in Orders} ELSE {FinalFlags}
      PROVE  AllValidated(fl)
  <2>1. \A i \in DOMAIN flags : flags[i] # "NOT_VALIDATED"
    BY <1>1, <1>3, <1>4 DEF ErrorInv, Received
  <2> DEFINE marked == MarkTXIdDuplicates(flags)
  <2>2. /\ marked = [i \in DOMAIN Block |-> marked[i]]
        /\ \A i \in DOMAIN Block : marked[i] # "NOT_VALIDATED"
    BY <1>3, <2>1 DEF MarkTXIdDuplicates
  <2> HIDE DEF marked
  <2>3. CASE ~peer.v14
    BY <1>4, <2>2, <2>3 DEF FinalFlags, AllValidated, marked
  <2>4. CASE peer.v14
    <3>1. PICK order \in Orders : fl = FinalFlagsV14(order)
      BY <1>4, <2>4
    <3> DEFINE former == IF peer.forbid THEN marked ELSE flags
    <3>2. /\ former = [i \in 1..Len(Block) |-> former[i]]
          /\ \A i \in DOMAIN Block : former[i] # "NOT_VALIDATED"
      BY <1>1, <1>2, <1>3, <2>1, <2>2 DEF ErrorInv, Shape
    <3>3. fl = InvalidTXsForUpgradeCC(former, order)
      BY <3>1 DEF FinalFlagsV14, marked
    <3> HIDE DEF former
    <3>4. Upgrades \subseteq 1..Len(Block)
      BY <1>2, <1>3 DEF Upgrades
    <3>5. fl = [i \in DOMAIN former |->
                 IF Outdated(i) THEN Conflict
                 ELSE IF i \in valid /\ Block[i].cc \in Upgraded /\ former[i] = "VALID" THEN Conflict
                 ELSE former[i]]
      BY <1>2, <3>2, <3>3, <3>4, UpgradesInAnyOrder
    <3>6. DOMAIN former = DOMAIN Block
      BY <1>2, <3>2
    <3> QED BY <3>2, <3>5, <3>6 DEF AllValidated, Conflict
  <2> QED BY <1>2, <2>3, <2>4, PeerType
<1>5. /\ UNCHANGED <<fixed, stored, started, outcome, results>>
      /\ \/ /\ \E fl : pending' = Append(pending, fl)
            /\ pc' = "idle" /\ stage' = <<>>
         \/ errPos # 0 /\ pending' = pending /\ pc' = "failed" /\ stage' = stage
  BY <1>4 DEF EndValidate
<1>6. ASSUME NEW fl, pending' = Append(pending, fl), pc' = "idle", stage' = <<>>
      PROVE  ErrorInv'
  <2>1. PICK S : stored \in Seq(S) /\ pending \in Seq(S)
    BY DEF ErrorInv, Shape
  <2> DEFINE T == S \union {fl}
  <2>2. stored' \in Seq(T) /\ pending' \in Seq(T)
    BY <1>5, <1>6, <2>1
  <2> HIDE DEF T
  <2>3. \E U : stored' \in Seq(U) /\ pending' \in Seq(U)
    BY <2>2
  <2>4. Shape'
    BY <1>5, <1>6, <2>3 DEF ErrorInv, Shape
  <2> QED BY <1>6, <2>4 DEF ErrorInv, Received, FailedOnError
<1>7. CASE errPos # 0 /\ pending' = pending /\ pc' = "failed" /\ stage' = stage
  <2>1. Number' = Number /\ Block' = Block
    BY <1>5, <1>7 DEF Number, Block
  <2>2. Shape'
    BY <1>1, <1>5, <1>7, <2>1 DEF ErrorInv, Shape
  <2>3. Received'
    BY <1>1, <1>5, <1>7 DEF ErrorInv, Received
  <2> QED BY <1>3, <1>5, <1>7, <2>2, <2>3 DEF ErrorInv, FailedOnError
<1> QED BY <1>5, <1>6, <1>7

\* A block that is stored later leaves the number of the one that is validated.
LEMMA StoreError ==
  ASSUME ErrorInv, StoreBlock
  PROVE  ErrorInv'
<1> USE DEF fixed, results
<1>1. /\ UNCHANGED <<fixed, pc, started, stage, outcome, results>> /\ pending # <<>>
      /\ stored' = Append(stored, Head(pending)) /\ pending' = Tail(pending)
  BY DEF StoreBlock
<1>2. PICK S : stored \in Seq(S) /\ pending \in Seq(S)
  BY DEF ErrorInv, Shape
<1>3. Head(pending) \in S /\ Tail(pending) \in Seq(S) /\ Len(Tail(pending)) = Len(pending) - 1
  BY <1>1, <1>2, HeadTailProperties
<1>4. stored' \in Seq(S) /\ Len(stored') = Len(stored) + 1
  BY <1>1, <1>2, <1>3, AppendProperties
<1>5. \E U : stored' \in Seq(U) /\ pending' \in Seq(U)
  BY <1>1, <1>3, <1>4
<1>6. Number' = Number /\ Block' = Block
  <2>1. Len(stored) \in Nat /\ Len(pending) \in Nat
    BY <1>2, LenProperties
  <2> QED BY <1>1, <1>3, <1>4, <2>1 DEF Number, Block
<1>7. Shape'
  BY <1>1, <1>5, <1>6 DEF ErrorInv, Shape
<1> QED BY <1>1, <1>7 DEF ErrorInv, Received, FailedOnError

\* Every step keeps what is known of the errors.
LEMMA StepError ==
  ASSUME ErrorInv, [Next]_vars
  PROVE  ErrorInv'
<1>1. CASE BeginValidate
  BY <1>1, BeginError
<1>2. ASSUME NEW i \in DOMAIN stage, ReceiveResult(i) PROVE ErrorInv'
  BY <1>2, ReceiveError
<1>3. CASE EndValidate
  BY <1>3, EndError
<1>4. CASE StartWorker
  BY <1>4, StartError
<1>5. ASSUME NEW i \in DOMAIN stage, WorkerStep(i) PROVE ErrorInv'
  BY <1>5, WorkerError
<1>6. CASE StoreBlock
  BY <1>6, StoreError
<1>7. CASE StopAfterError \/ Crash
  <2>1. pending' = <<>> /\ stage' = <<>> /\ pc' = "down" /\ UNCHANGED <<fixed, stored>>
    BY <1>7 DEF StopAfterError, Crash, Lost
  <2>2. \E S : stored' \in Seq(S) /\ pending' \in Seq(S)
    BY <2>1 DEF ErrorInv, Shape
  <2>3. Shape'
    BY <2>1, <2>2 DEF ErrorInv, Shape, fixed
  <2> QED BY <2>1, <2>3 DEF ErrorInv, Received, FailedOnError
<1>8. CASE Restart
  <2>1. pc = "down" /\ pc' = "idle" /\ UNCHANGED <<fixed, ledger, stage>>
    BY <1>8 DEF Restart
  <2>2. Shape'
    BY <2>1 DEF ErrorInv, Shape, fixed, ledger
  <2> QED BY <2>1, <2>2 DEF ErrorInv, Received, FailedOnError
<1>9. CASE UNCHANGED vars
  <2>1. Number' = Number /\ Block' = Block
    BY <1>9 DEF vars, fixed, Number, Block
  <2>2. Shape'
    BY <1>9, <2>1 DEF vars, fixed, ErrorInv, Shape
  <2> QED BY <1>9, <2>2 DEF vars, ErrorInv, Received, FailedOnError
<1> QED BY <1>1, <1>2, <1>3, <1>4, <1>5, <1>6, <1>7, <1>8, <1>9 DEF Next, CommitterStep

\* Of the errors its workers send, in whatever order, a peer of either release returns
\* the one of the first transaction: for every block, and any number of workers.
THEOREM ErrorOfFirstCorrect == Spec => []ErrorOfFirst
<1>1. ErrorInv => ErrorOfFirst
  <2> SUFFICES ASSUME ErrorInv, pc = "failed"
               PROVE  /\ outcome[errPos] = "error"
                      /\ \A i \in 1..errPos - 1 : outcome[i] # "error"
    BY DEF ErrorOfFirst
  <2>1. /\ errPos \in DOMAIN stage /\ outcome[errPos] = "error"
        /\ DOMAIN stage = 1..Len(Block) /\ Len(Block) \in Nat
    BY Positions DEF ErrorInv, Shape, Received, FailedOnError
  <2>2. \A i \in DOMAIN stage : outcome[i] = "error" => errPos <= i
    BY DEF ErrorInv, Received, FailedOnError
  <2> QED BY <2>1, <2>2
<1>2. Init => ErrorInv
  BY InitError
<1>3. ErrorInv /\ [Next]_vars => ErrorInv'
  BY StepError
<1> QED BY <1>1, <1>2, <1>3, PTL DEF Spec

-----------------------------------------------------------------------------
(* The flags: the invariant. The peer does for each transaction what a     *)
(* sequential validator would, because what its workers read stays what it *)
(* was when Validate began: the configuration, since a transaction that    *)
(* changes it is alone in its block, and, but for the parallel commit, the *)
(* ids of the blocks before, since these are stored by then.               *)

Configures(tx) == tx.type = "config" /\ tx.bad = {}
ConfigBefore(b) == Cardinality(ConfigBlocks(b - 1))
IdsBefore(b) == UNION {Indexed(c) : c \in Earlier(b)}

\* The configuration in force: that of the blocks before, unless the worker of this
\* block's configuration transaction has applied it.
Applied == \E i \in DOMAIN stage : Configures(Block[i]) /\ stage[i] \in {"answer", "done"}
ConfigInv ==
  pc \in {"idle", "validate"} =>
    config = ConfigBefore(Number) + IF Applied THEN 1 ELSE 0

\* The blocks before are stored when one is validated, but for the parallel commit;
\* what was not stored is lost with the process.
StoredBefore ==
  /\ pc = "validate" /\ ~peer.parallel => pending = <<>>
  /\ pc = "down" => pending = <<>>

\* A result is that of the sequential validator, or a worker has not found the id of
\* its transaction in a block that was not stored yet.
ResultRight(i, code) ==
  \/ code = Alone(Number, i, peer.hw)
  \/ /\ peer.parallel
     /\ Alone(Number, i, peer.hw) = "DUPLICATE_TXID"
     /\ Block[i].id \in IdsBefore(Number)
WorkerRight(i) ==
  LET form == Form(Block[i], ConfigBefore(Number), peer.hw)
  IN  /\ stage[i] \in {"lookup", "plugin"} => form = "VALID" /\ Block[i].type = "endorser"
      /\ stage[i] = "plugin" /\ ~peer.parallel => Block[i].id \notin IdsBefore(Number)
      /\ stage[i] = "apply" => form = "VALID" /\ Block[i].type = "config"
      /\ stage[i] \in {"answer", "done"} /\ outcome[i] # "error" => ResultRight(i, outcome[i])
WorkersInv == pc = "validate" => \A i \in DOMAIN stage : WorkerRight(i)

\* What the loop of Validate has received.
ResultsInv ==
  pc = "validate" =>
    /\ valid = {i \in DOMAIN stage : stage[i] = "done" /\ outcome[i] = "VALID"}
    /\ \A i \in DOMAIN stage :
         stage[i] = "done" /\ outcome[i] # "error" => flags[i] = outcome[i]

\* The flags of a validated block.
FlagsRight(b, fl) ==
  /\ DOMAIN fl = DOMAIN chain[b]
  /\ ~peer.parallel => fl = InSequence(b, peer.hw)
  /\ \A i \in DOMAIN fl :
       fl[i] = "VALID" /\ InSequence(b, peer.hw)[i] # "VALID" =>
         peer.parallel /\ chain[b][i].id \in IdsBefore(b)
Validated == stored \o pending
BlocksInv ==
  \A b \in 1..Number - 1 : b \in DOMAIN chain /\ FlagsRight(b, Validated[b])

IInv ==
  ErrorInv /\ ConfigInv /\ StoredBefore /\ WorkersInv /\ ResultsInv /\ BlocksInv

\* Nothing that is defined from the peer and the chain alone changes.
LEMMA SameChain ==
  ASSUME UNCHANGED fixed
  PROVE  /\ \A tx, cfg, hw : Form(tx, cfg, hw)' = Form(tx, cfg, hw)
         /\ \A b : ConfigBefore(b)' = ConfigBefore(b) /\ IdsBefore(b)' = IdsBefore(b)
         /\ \A b, i, hw : Alone(b, i, hw)' = Alone(b, i, hw)
         /\ \A b, hw : InSequence(b, hw)' = InSequence(b, hw)
         /\ \A b, fl : FlagsRight(b, fl)' <=> FlagsRight(b, fl)
<1>1. peer' = peer /\ chain' = chain
  BY DEF fixed
<1>2. \A tx, cfg, hw : Form(tx, cfg, hw)' = Form(tx, cfg, hw)
  BY <1>1 DEF Form, ValidateTransactionV14, ValidateTransaction, Envelope, ValidateCommonHeader
<1>3. \A b : Indexed(b)' = Indexed(b)
  BY <1>1 DEF Indexed
<1>4. \A b : ConfigBefore(b)' = ConfigBefore(b) /\ IdsBefore(b)' = IdsBefore(b)
  BY <1>1, <1>3 DEF ConfigBefore, ConfigBlocks, IdsBefore
<1>5. \A b, i, hw : Alone(b, i, hw)' = Alone(b, i, hw)
  BY <1>1, <1>2, <1>3 DEF Alone, ConfigBlocks, AfterLookup
<1>6. \A b, i, passes : RepeatsId(b, i, passes)' <=> RepeatsId(b, i, passes)
  BY <1>1 DEF RepeatsId
<1>7. \A b, i, passes : Superseded(b, i, passes)' <=> Superseded(b, i, passes)
  BY <1>1, <1>6 DEF Superseded
<1>8. \A b, hw : InSequence(b, hw)' = InSequence(b, hw)
  BY <1>1, <1>5, <1>6, <1>7 DEF InSequence
<1>9. \A b, fl : FlagsRight(b, fl)' <=> FlagsRight(b, fl)
  BY <1>1, <1>4, <1>8 DEF FlagsRight
<1> QED BY <1>2, <1>4, <1>5, <1>8, <1>9

\* A configuration is alone in its block, and in order unless it is not the successor
\* of the one before.
LEMMA ConfigForm ==
  ASSUME peer \in Peers, chain \in Chains, NEW b \in 1..Len(chain), NEW i \in DOMAIN chain[b],
         chain[b][i].type = "config"
  PROVE  /\ DOMAIN chain[b] = {i}
         /\ LET form == Form(chain[b][i], ConfigBefore(b), peer.hw)
            IN  /\ Configures(chain[b][i]) => form = "VALID"
                /\ form = "VALID" /\ "config" \notin chain[b][i].bad => Configures(chain[b][i])
<1> DEFINE tx == chain[b][i]
           form == Form(tx, ConfigBefore(b), peer.hw)
<1>1. b \in DOMAIN chain /\ tx \in Range(chain[b]) /\ DOMAIN chain[b] = 1..Len(chain[b])
  BY ChainType DEF Range
<1>2. Len(chain[b]) = 1 /\ tx.bad \subseteq ConfigDefects /\ ConfigBefore(b) <= tx.until
  BY <1>1, ConfigsAssumption DEF ConfigBefore, ConfigBlocks
<1>3. form = "VALID" <=>
        /\ {"envelope", "payload"} \cap tx.bad = {}
        /\ ValidateCommonHeader(tx)
        /\ peer.hw \/ CheckSignatureFromCreator(tx, ConfigBefore(b))
        /\ WellFormed(tx, peer.hw)
  <2>1. peer.v14 \in BOOLEAN /\ peer.hw \in BOOLEAN
    BY PeerType
  <2> HIDE DEF tx
  <2> QED BY <2>1, FormCode
<1> HIDE DEF tx
<1>4. WellFormed(tx, peer.hw) <=> "data" \notin tx.bad
  BY DEF WellFormed, ValidateConfigTransaction, tx
<1>5. ValidateCommonHeader(tx) <=> {"header", "epoch", "nonce", "creator"} \cap tx.bad = {}
  BY DEF ValidateCommonHeader, ValidateChannelHeader, ValidateChannelHeaderV14,
         ValidateSignatureHeader, tx
<1>6. CheckSignatureFromCreator(tx, ConfigBefore(b))
  BY <1>2 DEF CheckSignatureFromCreator, ConfigDefects
<1>7. Configures(tx) => form = "VALID"
  BY <1>3, <1>4, <1>5, <1>6 DEF Configures
<1>8. ASSUME form = "VALID", "config" \notin tx.bad PROVE Configures(tx)
  <2>1. ConfigDefects \cap tx.bad = {}
    BY <1>3, <1>4, <1>5, <1>8 DEF ConfigDefects
  <2> QED BY <1>2, <2>1 DEF Configures, tx
<1>9. DOMAIN chain[b] = {i}
  BY <1>1, <1>2
<1> QED BY <1>7, <1>8, <1>9 DEF tx

\* Configurations are counted.
LEMMA ConfigNat ==
  ASSUME NEW b \in Nat \ {0}
  PROVE  ConfigBefore(b) \in Nat
<1>1. ConfigBlocks(b - 1) \subseteq 1..b - 1
  BY DEF ConfigBlocks, ConfigBlocksOf
<1>2. IsFiniteSet(1..b - 1)
  BY FS_Interval
<1> QED BY <1>1, <1>2, FS_Subset, FS_CardinalityType DEF ConfigBefore

\* A block with a configuration makes one more of them.
LEMMA NextConfig ==
  ASSUME NEW b \in Nat \ {0}, Len(chain) \in Nat
  PROVE  ConfigBefore(b + 1) =
           ConfigBefore(b) + IF \E i \in DOMAIN chain[b] : Configures(chain[b][i]) THEN 1 ELSE 0
<1> DEFINE S == ConfigBlocks(b - 1)
           T == ConfigBlocks(b)
           has == \E i \in DOMAIN chain[b] : Configures(chain[b][i])
<1>1. T = IF has THEN S \union {b} ELSE S
  <2>1. 1..b = (1..b - 1) \union {b}
    OBVIOUS
  <2> DEFINE P(c) == \E tx \in Range(chain[c]) : tx.type = "config" /\ tx.bad = {}
  <2>2. S = {c \in 1..b - 1 : P(c)} /\ T = {c \in 1..b : P(c)}
    BY DEF ConfigBlocks, ConfigBlocksOf
  <2>3. P(b) <=> has
    BY DEF Range, Configures
  <2> HIDE DEF S, T, P, has
  <2> QED BY <2>1, <2>2, <2>3
<1>2. IsFiniteSet(S) /\ b \notin S
  <2>1. IsFiniteSet(1..b - 1) /\ b \notin 1..b - 1
    BY FS_Interval
  <2>2. S \subseteq 1..b - 1
    BY DEF ConfigBlocks, ConfigBlocksOf
  <2> QED BY <2>1, <2>2, FS_Subset
<1>3. Cardinality(S) \in Nat /\ Cardinality(S \union {b}) = Cardinality(S) + 1
  BY <1>2, FS_AddElement, FS_CardinalityType
<1>4. ConfigBefore(b) = Cardinality(S) /\ ConfigBefore(b + 1) = Cardinality(T)
  <2>1. b + 1 - 1 = b
    OBVIOUS
  <2> QED BY <2>1 DEF ConfigBefore
<1> HIDE DEF S, T
<1> QED BY <1>1, <1>3, <1>4

\* At first no block is validated.
LEMMA InitIInv == Init => IInv
<1> SUFFICES ASSUME Init PROVE IInv
  OBVIOUS
<1>1. ErrorInv
  BY InitError
<1>2. /\ pc = "idle" /\ stage = <<>> /\ config = 0
      /\ stored = <<>> /\ pending = <<>>
  BY DEF Init
<1>3. Number = 1 /\ ~Applied
  BY <1>2 DEF Number, Applied
<1>4. ConfigBefore(1) = 0
  <2>1. ConfigBlocks(0) = {}
    BY DEF ConfigBlocks, ConfigBlocksOf
  <2> QED BY <2>1, FS_EmptySet DEF ConfigBefore
<1>5. BlocksInv
  BY <1>3 DEF BlocksInv
<1> QED BY <1>1, <1>2, <1>3, <1>4, <1>5 DEF IInv, ConfigInv, StoredBefore, WorkersInv, ResultsInv

\* The block that is validated, its transactions, and the workers' places in it.
LEMMA InBlock ==
  ASSUME ErrorInv, pc = "validate"
  PROVE  /\ peer \in Peers /\ chain \in Chains
         /\ Number \in 1..Len(chain) /\ Block = chain[Number]
         /\ DOMAIN stage = DOMAIN Block /\ DOMAIN outcome = DOMAIN Block
         /\ peer.v14 \in BOOLEAN /\ peer.hw \in BOOLEAN
BY PeerType DEF ErrorInv, Shape, Block

\* A step of a worker touches what is known of that worker only.
LEMMA WorkerKeeps ==
  ASSUME IInv, ErrorInv', NEW i \in DOMAIN stage, stage[i] \notin {"waiting", "answer", "done"},
         \/ \E code : Answer(i, code)
         \/ \E to \in {"lookup", "plugin", "apply"} : Goto(i, to),
         UNCHANGED <<fixed, ledger, pc, started, results>>,
         ConfigInv', WorkerRight(i)'
  PROVE  IInv'
<1> USE DEF fixed, ledger, results
<1>1. pc = "validate" /\ ErrorInv
  BY DEF IInv, ErrorInv, Shape, FailedOnError
<1>2. Number' = Number /\ Block' = Block /\ peer' = peer
  BY DEF Number, Block
<1>3. DOMAIN stage' = DOMAIN stage
  BY DEF Answer, Goto
<1>4. \A j \in DOMAIN stage \ {i} : stage'[j] = stage[j] /\ outcome'[j] = outcome[j]
  BY <1>1, InBlock DEF Answer, Goto
<1>5. stage'[i] # "done"
  BY DEF Answer, Goto
<1>6. WorkersInv'
  <2> SUFFICES ASSUME NEW j \in DOMAIN stage PROVE WorkerRight(j)'
    BY <1>3 DEF WorkersInv
  <2>1. CASE j = i
    BY <2>1
  <2>2. CASE j # i
    <3>1. WorkerRight(j) /\ stage'[j] = stage[j] /\ outcome'[j] = outcome[j]
      BY <1>1, <1>4, <2>2 DEF IInv, WorkersInv
    <3>2. ResultRight(j, outcome[j]) => ResultRight(j, outcome[j])'
      BY <1>2, <3>1, SameChain DEF ResultRight
    <3> QED BY <1>2, <3>1, <3>2, SameChain DEF WorkerRight
  <2> QED BY <2>1, <2>2
<1>7. ResultsInv'
  <2>1. \A j \in DOMAIN stage : stage'[j] = "done" <=> stage[j] = "done"
    BY <1>4, <1>5
  <2>2. \A j \in DOMAIN stage : stage'[j] = "done" => outcome'[j] = outcome[j]
    BY <1>4, <1>5
  <2> QED BY <1>1, <1>3, <2>1, <2>2 DEF IInv, ResultsInv
<1>8. BlocksInv'
  BY <1>2, SameChain DEF IInv, BlocksInv, Validated
<1>9. StoredBefore'
  BY DEF IInv, StoredBefore
<1> QED BY <1>6, <1>7, <1>8, <1>9 DEF IInv

\* A configuration that is applied is one whose worker has an answer.
LEMMA ConfigKept ==
  ASSUME IInv, pc = "validate", NEW i \in DOMAIN stage, stage[i] \notin {"answer", "done"},
         \/ \E code : Answer(i, code) /\ ~Configures(Block[i])
         \/ \E to \in {"lookup", "plugin", "apply"} : Goto(i, to),
         UNCHANGED <<fixed, ledger, pc, config>>
  PROVE  ConfigInv'
<1>1. Number' = Number /\ Block' = Block
  BY DEF fixed, ledger, Number, Block
<1>2. DOMAIN stage' = DOMAIN stage /\ \A j \in DOMAIN stage \ {i} : stage'[j] = stage[j]
  BY DEF Answer, Goto
<1>3. stage'[i] \in {"answer", "done"} => ~Configures(Block[i])
  BY DEF Answer, Goto
<1>4. Applied' <=> Applied
  BY <1>1, <1>2, <1>3 DEF Applied, Configures
<1> QED BY <1>1, <1>4, SameChain DEF IInv, ConfigInv

\* The ids that the index finds are of blocks before, and are all of them when these
\* are stored.
LEMMA IdsOfStored ==
  ASSUME ErrorInv
  PROVE  /\ StoredIds \subseteq IdsBefore(Number)
         /\ pending = <<>> => StoredIds = IdsBefore(Number)
<1>1. PICK S : stored \in Seq(S) /\ pending \in Seq(S)
  BY DEF ErrorInv, Shape
<1>2. Len(stored) \in Nat /\ Len(pending) \in Nat
  BY <1>1, LenProperties
<1>3. 1..Len(stored) \subseteq Earlier(Number)
  BY <1>2 DEF Earlier, Number
<1>4. pending = <<>> => 1..Len(stored) = Earlier(Number)
  <2>1. pending = <<>> => Len(pending) = 0
    OBVIOUS
  <2> QED BY <1>2, <2>1 DEF Earlier, Number
<1> QED BY <1>3, <1>4 DEF StoredIds, IdsBefore

\* Before a worker is through with a transaction of any type, no configuration of its
\* block is applied.
LEMMA NotYetApplied ==
  ASSUME IInv, pc = "validate", NEW i \in DOMAIN stage, stage[i] \notin {"answer", "done"},
         Block[i].type = "config" \/ stage[i] = "form"
  PROVE  config = ConfigBefore(Number) /\ ~Applied
<1>1. ASSUME NEW j \in DOMAIN stage, Configures(Block[j]), stage[j] \in {"answer", "done"}
      PROVE  FALSE
  <2>1. ErrorInv /\ Block[j].type = "config"
    BY <1>1 DEF IInv, Configures
  <2>2. DOMAIN Block = {j}
    BY <2>1, <1>1, InBlock, ConfigForm
  <2>3. i = j
    BY <2>1, <2>2, InBlock
  <2> QED BY <1>1, <2>3
<1>2. ~Applied
  BY <1>1 DEF Applied
<1>3. ConfigBefore(Number) \in Nat
  <2>1. Number \in Nat \ {0}
    BY InBlock, ChainType DEF IInv
  <2> QED BY <2>1, ConfigNat
<1> QED BY <1>2, <1>3 DEF IInv, ConfigInv

\* Validation of the form.
LEMMA FormStep ==
  ASSUME IInv, ErrorInv', NEW i \in DOMAIN stage, ValidateForm(i)
  PROVE  IInv'
<1> USE DEF fixed, ledger, results
<1> DEFINE tx == Block[i]
           form == Form(tx, ConfigBefore(Number), peer.hw)
<1>1. /\ pc = "validate" /\ ErrorInv /\ stage[i] = "form"
      /\ UNCHANGED <<fixed, ledger, config, pc, started, results>>
  BY DEF IInv, ErrorInv, Shape, FailedOnError, ValidateForm
<1>2. /\ peer \in Peers /\ chain \in Chains
      /\ Number \in 1..Len(chain) /\ Block = chain[Number] /\ i \in DOMAIN Block
      /\ peer.v14 \in BOOLEAN /\ peer.hw \in BOOLEAN /\ i \in DOMAIN outcome
  BY <1>1, InBlock
<1>3. config = ConfigBefore(Number)
  BY <1>1, NotYetApplied
<1>4. /\ tx.type = "config" /\ Configures(tx) => form = "VALID"
  BY <1>2, ConfigForm
<1>5. Configures(tx) => tx.type = "config"
  BY DEF Configures
<1>6. /\ Number' = Number /\ Block' = Block
      /\ form' = form /\ Alone(Number, i, peer.hw)' = Alone(Number, i, peer.hw)
  BY <1>1, SameChain DEF Number, Block
<1>7. \/ Answer(i, form) /\ form # "VALID"
      \/ form = "VALID" /\ tx.type = "endorser" /\ Goto(i, "lookup")
      \/ form = "VALID" /\ tx.type = "config" /\ Goto(i, "apply")
      \/ form = "VALID" /\ tx.type \notin {"endorser", "config"} /\ Answer(i, "UNKNOWN_TX_TYPE")
  BY <1>3 DEF ValidateForm
<1>8. form = "VALID" => tx.type \in {"endorser", "config", "token"}
  <2> HIDE DEF tx
  <2> QED BY <1>2, FormCode DEF WellFormed
<1>9. Alone(Number, i, peer.hw) =
        IF form # "VALID" \/ tx.type = "config" THEN form
        ELSE IF tx.type = "token" THEN "UNKNOWN_TX_TYPE"
        ELSE IF tx.id \in IdsBefore(Number) THEN "DUPLICATE_TXID"
        ELSE AfterLookup(tx, peer.hw)
  BY <1>2 DEF Alone, ConfigBefore, IdsBefore
<1> HIDE DEF form
<1>10. CASE Answer(i, form) /\ form # "VALID"
  <2>1. ~Configures(tx)
    BY <1>4, <1>5, <1>10
  <2>2. ConfigInv'
    BY <1>1, <1>10, <2>1, ConfigKept
  <2>3. stage'[i] = "answer" /\ outcome'[i] = form
    BY <1>2, <1>10 DEF Answer
  <2>4. WorkerRight(i)'
    BY <1>6, <1>9, <1>10, <2>3 DEF WorkerRight, ResultRight
  <2> QED BY <1>1, <1>10, <2>2, <2>4, WorkerKeeps
<1>11. CASE form = "VALID" /\ tx.type = "endorser" /\ Goto(i, "lookup")
  <2>1. ConfigInv'
    BY <1>1, <1>11, ConfigKept
  <2>2. stage'[i] = "lookup"
    BY <1>11 DEF Goto
  <2>3. WorkerRight(i)'
    BY <1>6, <1>11, <2>2 DEF WorkerRight, form
  <2> QED BY <1>1, <1>11, <2>1, <2>3, WorkerKeeps
<1>12. CASE form = "VALID" /\ tx.type = "config" /\ Goto(i, "apply")
  <2>1. ConfigInv'
    BY <1>1, <1>12, ConfigKept
  <2>2. stage'[i] = "apply"
    BY <1>12 DEF Goto
  <2>3. WorkerRight(i)'
    BY <1>6, <1>12, <2>2 DEF WorkerRight, form
  <2> QED BY <1>1, <1>12, <2>1, <2>3, WorkerKeeps
<1>13. CASE /\ form = "VALID" /\ tx.type \notin {"endorser", "config"}
            /\ Answer(i, "UNKNOWN_TX_TYPE")
  <2>1. ConfigInv'
    BY <1>1, <1>5, <1>13, ConfigKept
  <2>2. stage'[i] = "answer" /\ outcome'[i] = "UNKNOWN_TX_TYPE"
    BY <1>2, <1>13 DEF Answer
  <2>3. Alone(Number, i, peer.hw) = "UNKNOWN_TX_TYPE"
    BY <1>8, <1>9, <1>13
  <2>4. WorkerRight(i)'
    BY <1>6, <2>2, <2>3 DEF WorkerRight, ResultRight
  <2> QED BY <1>1, <1>13, <2>1, <2>4, WorkerKeeps
<1> QED BY <1>7, <1>10, <1>11, <1>12, <1>13

\* The look-up of the id, the plugins, and what Alone makes of a transaction then.
LEMMA LookUpStep ==
  ASSUME IInv, ErrorInv', NEW i \in DOMAIN stage, LookUpTxId(i) \/ RunPlugin(i)
  PROVE  IInv'
<1> USE DEF fixed, ledger, results
<1> DEFINE tx == Block[i]
           form == Form(tx, ConfigBefore(Number), peer.hw)
<1>1. /\ pc = "validate" /\ ErrorInv /\ stage[i] \in {"lookup", "plugin"}
      /\ UNCHANGED <<fixed, ledger, config, pc, started, results>>
  BY DEF IInv, ErrorInv, Shape, FailedOnError, LookUpTxId, RunPlugin
<1>2. /\ Block = chain[Number] /\ i \in DOMAIN Block /\ i \in DOMAIN outcome
  BY <1>1, InBlock
<1>3. /\ form = "VALID" /\ tx.type = "endorser"
      /\ stage[i] = "plugin" /\ ~peer.parallel => tx.id \notin IdsBefore(Number)
  BY <1>1 DEF IInv, WorkersInv, WorkerRight
<1>4. ~Configures(tx)
  BY <1>3 DEF Configures
<1>5. /\ Number' = Number /\ Block' = Block /\ IdsBefore(Number)' = IdsBefore(Number)
      /\ form' = form /\ Alone(Number, i, peer.hw)' = Alone(Number, i, peer.hw)
  BY <1>1, SameChain DEF Number, Block
<1>6. Alone(Number, i, peer.hw) =
        IF tx.id \in IdsBefore(Number) THEN "DUPLICATE_TXID" ELSE AfterLookup(tx, peer.hw)
  BY <1>2, <1>3 DEF Alone, ConfigBefore, IdsBefore
<1> HIDE DEF form
<1>7. ASSUME NEW code, Answer(i, code), code # "error" => ResultRight(i, code)
      PROVE  IInv'
  <2>1. ConfigInv'
    BY <1>1, <1>4, <1>7, ConfigKept
  <2>2. stage'[i] = "answer" /\ outcome'[i] = code
    BY <1>2, <1>7 DEF Answer
  <2>3. WorkerRight(i)'
    BY <1>1, <1>5, <1>7, <2>2 DEF WorkerRight, ResultRight
  <2> QED BY <1>1, <1>7, <2>1, <2>3, WorkerKeeps
<1>8. CASE LookUpTxId(i)
  <2>1. CASE CheckTxIdDupsLedger(tx, StoredIds) /\ Answer(i, "DUPLICATE_TXID")
    <3>1. tx.id \in IdsBefore(Number)
      BY <1>1, <2>1, IdsOfStored DEF CheckTxIdDupsLedger
    <3> QED BY <1>6, <1>7, <2>1, <3>1 DEF ResultRight
  <2>2. CASE ~CheckTxIdDupsLedger(tx, StoredIds) /\ Goto(i, "plugin")
    <3>1. ~peer.parallel => tx.id \notin IdsBefore(Number)
      BY <1>1, <2>2, IdsOfStored DEF CheckTxIdDupsLedger, IInv, StoredBefore
    <3>2. ConfigInv'
      BY <1>1, <2>2, ConfigKept
    <3>3. stage'[i] = "plugin"
      BY <2>2 DEF Goto
    <3>4. WorkerRight(i)'
      BY <1>1, <1>3, <1>5, <3>1, <3>3 DEF WorkerRight, form
    <3> QED BY <1>1, <2>2, <3>2, <3>4, WorkerKeeps
  <2>3. CASE Answer(i, "error")
    BY <1>7, <2>3
  <2> QED BY <1>8, <2>1, <2>2, <2>3 DEF LookUpTxId
<1>9. CASE RunPlugin(i)
  <2>1. Answer(i, AfterLookup(tx, peer.hw)) \/ Answer(i, "error")
    BY <1>9 DEF RunPlugin
  <2>2. ResultRight(i, AfterLookup(tx, peer.hw))
    <3>1. stage[i] = "plugin"
      BY <1>9 DEF RunPlugin
    <3> QED BY <1>3, <1>6, <3>1 DEF ResultRight
  <2> QED BY <1>7, <2>1, <2>2
<1> QED BY <1>8, <1>9

\* A configuration is applied: it is alone in its block.
LEMMA ApplyStep ==
  ASSUME IInv, ErrorInv', NEW i \in DOMAIN stage, ApplyConfig(i)
  PROVE  IInv'
<1> USE DEF fixed, ledger, results
<1> DEFINE tx == Block[i]
           form == Form(tx, ConfigBefore(Number), peer.hw)
<1>1. /\ pc = "validate" /\ ErrorInv /\ stage[i] = "apply"
      /\ UNCHANGED <<fixed, ledger, pc, started, results>>
  BY DEF IInv, ErrorInv, Shape, FailedOnError, ApplyConfig
<1>2. /\ peer \in Peers /\ chain \in Chains
      /\ Number \in 1..Len(chain) /\ Block = chain[Number] /\ i \in DOMAIN Block
      /\ i \in DOMAIN outcome
  BY <1>1, InBlock
<1>3. form = "VALID" /\ tx.type = "config"
  BY <1>1 DEF IInv, WorkersInv, WorkerRight
<1>4. Configures(tx) <=> "config" \notin tx.bad
  <2>1. "config" \notin tx.bad => Configures(tx)
    BY <1>2, <1>3, ConfigForm
  <2> QED BY <2>1 DEF Configures
<1>5. config = ConfigBefore(Number) /\ ~Applied
  BY <1>1, <1>3, NotYetApplied
<1>6. /\ Number' = Number /\ Block' = Block
      /\ ConfigBefore(Number)' = ConfigBefore(Number)
      /\ Alone(Number, i, peer.hw)' = Alone(Number, i, peer.hw)
  BY <1>1, SameChain DEF Number, Block
<1>7. Alone(Number, i, peer.hw) = "VALID"
  BY <1>2, <1>3 DEF Alone, ConfigBefore
<1> HIDE DEF form
<1>8. CASE "config" \notin tx.bad
  <2>1. config' = config + 1 /\ Answer(i, "VALID")
    BY <1>8 DEF ApplyConfig
  <2>2. DOMAIN stage' = DOMAIN stage /\ stage'[i] = "answer" /\ outcome'[i] = "VALID"
    BY <1>2, <2>1 DEF Answer
  <2>3. Applied'
    BY <1>4, <1>6, <1>8, <2>2 DEF Applied, Configures
  <2>4. ConfigInv'
    BY <1>5, <1>6, <2>1, <2>3 DEF ConfigInv
  <2>5. WorkerRight(i)'
    BY <1>6, <1>7, <2>2 DEF WorkerRight, ResultRight
  <2> QED BY <1>1, <2>1, <2>4, <2>5, WorkerKeeps
<1>9. CASE "config" \in tx.bad
  <2>1. config' = config /\ Answer(i, "error")
    BY <1>9 DEF ApplyConfig
  <2>2. stage'[i] = "answer" /\ outcome'[i] = "error"
    BY <1>2, <2>1 DEF Answer
  <2>3. ConfigInv'
    BY <1>1, <1>4, <1>9, <2>1, ConfigKept
  <2>4. WorkerRight(i)'
    BY <2>2 DEF WorkerRight
  <2> QED BY <1>1, <2>1, <2>3, <2>4, WorkerKeeps
<1> QED BY <1>8, <1>9

\* A worker is started.
LEMMA StartStep ==
  ASSUME IInv, ErrorInv', StartWorker
  PROVE  IInv'
<1> USE DEF fixed, ledger, results
<1> DEFINE i == started + 1
<1>1. /\ pc = "validate" /\ ErrorInv /\ started \in Nat
      /\ stage' = [stage EXCEPT ![i] = "form"]
      /\ UNCHANGED <<fixed, ledger, config, pc, outcome, results>>
  BY DEF IInv, ErrorInv, Shape, StartWorker
<1>2. /\ DOMAIN stage = 1..Len(Block) /\ Len(Block) \in Nat
  BY <1>1, InBlock, Positions DEF ErrorInv
<1>3. i \in DOMAIN stage => stage[i] = "waiting"
  BY <1>1, <1>2 DEF ErrorInv, Received
<1> HIDE DEF i
<1>4. /\ Number' = Number /\ Block' = Block /\ peer' = peer
      /\ DOMAIN stage' = DOMAIN stage
      /\ \A j \in DOMAIN stage \ {i} : stage'[j] = stage[j]
      /\ i \in DOMAIN stage => stage'[i] = "form"
  BY <1>1 DEF Number, Block
<1>5. ConfigInv'
  <2>1. Applied' <=> Applied
    BY <1>3, <1>4 DEF Applied, Configures
  <2> QED BY <1>1, <1>4, <2>1, SameChain DEF IInv, ConfigInv
<1>6. WorkersInv'
  <2> SUFFICES ASSUME NEW j \in DOMAIN stage PROVE WorkerRight(j)'
    BY <1>4 DEF WorkersInv
  <2>1. CASE j = i
    BY <1>4, <2>1 DEF WorkerRight
  <2>2. CASE j # i
    <3>1. WorkerRight(j) /\ stage'[j] = stage[j] /\ outcome' = outcome
      BY <1>1, <1>4, <2>2 DEF IInv, WorkersInv
    <3>2. ResultRight(j, outcome[j]) => ResultRight(j, outcome[j])'
      BY <1>1, <1>4, SameChain DEF ResultRight
    <3> QED BY <1>1, <1>4, <3>1, <3>2, SameChain DEF WorkerRight
  <2> QED BY <2>1, <2>2
<1>7. ResultsInv'
  <2>1. \A j \in DOMAIN stage : stage'[j] = "done" <=> stage[j] = "done"
    BY <1>3, <1>4
  <2> QED BY <1>1, <1>4, <2>1 DEF IInv, ResultsInv
<1>8. BlocksInv' /\ StoredBefore'
  BY <1>1, <1>4, SameChain DEF IInv, BlocksInv, Validated, StoredBefore
<1> QED BY <1>5, <1>6, <1>7, <1>8 DEF IInv

\* Validate begins.
LEMMA BeginStep ==
  ASSUME IInv, ErrorInv', BeginValidate
  PROVE  IInv'
<1> USE DEF fixed, ledger
<1>1. /\ pc = "idle" /\ pc' = "validate" /\ UNCHANGED <<fixed, ledger, config>>
      /\ ~peer.parallel => pending = <<>>
      /\ valid' = {} /\ DOMAIN stage' = DOMAIN Block /\ \A i \in DOMAIN Block : stage'[i] = "waiting"
  BY DEF BeginValidate
<1>2. Number' = Number /\ Block' = Block
  BY <1>1 DEF Number, Block
<1>3. ConfigInv'
  <2>1. ~Applied'
    BY <1>1, <1>2 DEF Applied
  <2>2. ~Applied
    BY <1>1 DEF Applied, IInv, ErrorInv, Shape
  <2> QED BY <1>1, <1>2, <2>1, <2>2, SameChain DEF IInv, ConfigInv
<1>4. WorkersInv' /\ ResultsInv'
  BY <1>1 DEF WorkersInv, WorkerRight, ResultsInv
<1>5. BlocksInv' /\ StoredBefore'
  BY <1>1, <1>2, SameChain DEF IInv, BlocksInv, Validated, StoredBefore
<1> QED BY <1>3, <1>4, <1>5 DEF IInv

\* A result is received.
LEMMA ReceiveStep ==
  ASSUME IInv, ErrorInv', NEW i \in DOMAIN stage, ReceiveResult(i)
  PROVE  IInv'
<1> USE DEF fixed, ledger
<1>1. /\ pc = "validate" /\ ErrorInv /\ stage[i] = "answer"
      /\ stage' = [stage EXCEPT ![i] = "done"]
      /\ UNCHANGED <<fixed, ledger, config, pc, started, outcome>>
  BY DEF IInv, ErrorInv, Shape, FailedOnError, ReceiveResult
<1>2. /\ Number' = Number /\ Block' = Block /\ peer' = peer
      /\ DOMAIN stage' = DOMAIN stage /\ stage'[i] = "done"
      /\ \A j \in DOMAIN stage \ {i} : stage'[j] = stage[j]
  BY <1>1 DEF Number, Block
<1>3. ConfigInv'
  <2>1. Applied' <=> Applied
    BY <1>1, <1>2 DEF Applied, Configures
  <2> QED BY <1>1, <1>2, <2>1, SameChain DEF IInv, ConfigInv
<1>4. WorkersInv'
  <2> SUFFICES ASSUME NEW j \in DOMAIN stage PROVE WorkerRight(j)'
    BY <1>2 DEF WorkersInv
  <2>1. WorkerRight(j)
    BY <1>1 DEF IInv, WorkersInv
  <2>2. ResultRight(j, outcome[j]) => ResultRight(j, outcome[j])'
    BY <1>1, <1>2, SameChain DEF ResultRight
  <2>3. stage'[j] = stage[j] \/ (stage[j] = "answer" /\ stage'[j] = "done")
    BY <1>1, <1>2
  <2> QED BY <1>1, <1>2, <2>1, <2>2, <2>3, SameChain DEF WorkerRight
<1>5. ResultsInv'
  <2>1. /\ DOMAIN flags = DOMAIN stage
        /\ valid = {j \in DOMAIN stage : stage[j] = "done" /\ outcome[j] = "VALID"}
        /\ \A j \in DOMAIN stage :
             stage[j] = "done" /\ outcome[j] # "error" => flags[j] = outcome[j]
    BY <1>1 DEF IInv, ErrorInv, Shape, ResultsInv
  <2>2. CASE outcome[i] = "error"
    <3>1. flags' = flags /\ valid' = valid
      BY <2>2 DEF ReceiveResult
    <3> QED BY <1>1, <1>2, <2>1, <2>2, <3>1 DEF ResultsInv
  <2>3. CASE outcome[i] # "error"
    <3>1. /\ flags' = [flags EXCEPT ![i] = outcome[i]]
          /\ valid' = IF outcome[i] = "VALID" THEN valid \union {i} ELSE valid
      BY <2>3 DEF ReceiveResult
    <3>2. flags'[i] = outcome[i] /\ \A j \in DOMAIN stage \ {i} : flags'[j] = flags[j]
      BY <2>1, <3>1
    <3>3. valid' = {j \in DOMAIN stage : stage'[j] = "done" /\ outcome[j] = "VALID"}
      BY <1>1, <1>2, <2>1, <3>1
    <3>4. \A j \in DOMAIN stage :
            stage'[j] = "done" /\ outcome[j] # "error" => flags'[j] = outcome[j]
      BY <1>2, <2>1, <3>2
    <3> QED BY <1>1, <1>2, <3>3, <3>4 DEF ResultsInv
  <2> QED BY <2>2, <2>3
<1>6. BlocksInv' /\ StoredBefore'
  BY <1>1, <1>2, SameChain DEF IInv, BlocksInv, Validated, StoredBefore
<1> QED BY <1>3, <1>4, <1>5, <1>6 DEF IInv

\* The results of a block without an error: the right ones, so that what its flags
\* lack of the sequential validator's is the comparison inside the block.
LEMMA AllReceivedRight ==
  ASSUME IInv, pc = "validate", AllReceived, errPos = 0
  PROVE  /\ flags = [i \in DOMAIN Block |-> flags[i]]
         /\ \A i \in DOMAIN Block : ResultRight(i, flags[i])
         /\ valid = {i \in DOMAIN Block : flags[i] = "VALID"}
<1>1. /\ ErrorInv /\ DOMAIN stage = DOMAIN Block
      /\ flags = [i \in DOMAIN Block |-> flags[i]]
      /\ \A i \in DOMAIN stage : stage[i] = "done"
  BY DEF IInv, ErrorInv, Shape, AllReceived
<1>2. \A i \in DOMAIN stage : outcome[i] # "error"
  BY <1>1 DEF ErrorInv, Received
<1>3. \A i \in DOMAIN stage : flags[i] = outcome[i]
  BY <1>1, <1>2 DEF IInv, ResultsInv
<1>4. \A i \in DOMAIN stage : ResultRight(i, outcome[i])
  BY <1>1, <1>2 DEF IInv, WorkersInv, WorkerRight
<1>5. valid = {i \in DOMAIN stage : outcome[i] = "VALID"}
  BY <1>1 DEF IInv, ResultsInv
<1> QED BY <1>1, <1>3, <1>4, <1>5

\* The comparison inside the block, of v2.2.
LEMMA FinalFlagsRight ==
  ASSUME IInv, pc = "validate", AllReceived, errPos = 0, ~peer.v14
  PROVE  FlagsRight(Number, FinalFlags)
<1> DEFINE alone(i) == Alone(Number, i, peer.hw)
           passes == {i \in DOMAIN chain[Number] : alone(i) = "VALID"}
<1>1. /\ Block = chain[Number]
      /\ flags = [i \in DOMAIN Block |-> flags[i]]
      /\ \A i \in DOMAIN Block : ResultRight(i, flags[i])
      /\ valid = {i \in DOMAIN Block : flags[i] = "VALID"}
  BY InBlock, AllReceivedRight DEF IInv
<1>2. InSequence(Number, peer.hw) =
        [i \in DOMAIN Block |->
           IF i \notin passes THEN alone(i)
           ELSE IF RepeatsId(Number, i, passes) THEN "DUPLICATE_TXID"
           ELSE "VALID"]
  BY <1>1 DEF InSequence, Superseded
<1>3. FinalFlags =
        [i \in DOMAIN Block |->
           IF i \in valid /\ RepeatsId(Number, i, valid) THEN "DUPLICATE_TXID" ELSE flags[i]]
  BY <1>1 DEF FinalFlags, MarkTXIdDuplicates, RepeatsId
<1>4. \A i \in DOMAIN Block :
        flags[i] = alone(i) \/ (peer.parallel /\ alone(i) = "DUPLICATE_TXID"
                                              /\ Block[i].id \in IdsBefore(Number))
  BY <1>1 DEF ResultRight
<1> HIDE DEF alone
<1>5. passes \subseteq valid
  BY <1>1, <1>4
<1>6. \A i : RepeatsId(Number, i, passes) => RepeatsId(Number, i, valid)
  BY <1>5 DEF RepeatsId
<1>7. ~peer.parallel => FinalFlags = InSequence(Number, peer.hw)
  <2> SUFFICES ASSUME ~peer.parallel PROVE FinalFlags = InSequence(Number, peer.hw)
    OBVIOUS
  <2>1. valid = passes /\ \A i \in DOMAIN Block : flags[i] = alone(i)
    BY <1>1, <1>4
  <2>2. \A i \in DOMAIN Block : i \in passes <=> alone(i) = "VALID"
    BY <1>1
  <2> HIDE DEF passes
  <2> QED BY <1>2, <1>3, <2>1, <2>2
<1>8. ASSUME NEW i \in DOMAIN Block, FinalFlags[i] = "VALID", InSequence(Number, peer.hw)[i] # "VALID"
      PROVE  peer.parallel /\ Block[i].id \in IdsBefore(Number)
  <2>1. flags[i] = "VALID" /\ ~RepeatsId(Number, i, valid)
    <3>1. flags[i] = "VALID"
      BY <1>3, <1>8
    <3> QED BY <1>1, <1>3, <1>8, <3>1
  <2>2. i \notin passes
    BY <1>2, <1>6, <1>8, <2>1
  <2>3. alone(i) # "VALID"
    BY <1>1, <2>2
  <2> QED BY <1>4, <2>1, <2>3
<1>9. DOMAIN FinalFlags = DOMAIN Block
  BY <1>3
<1> QED BY <1>1, <1>7, <1>8, <1>9 DEF FlagsRight

\* The comparison inside the block, of v1.4, in whatever order it meets the upgrades.
LEMMA FinalFlagsV14Right ==
  ASSUME IInv, pc = "validate", AllReceived, errPos = 0, peer.v14, NEW order \in Orders
  PROVE  FlagsRight(Number, FinalFlagsV14(order))
<1> DEFINE alone(i) == Alone(Number, i, peer.hw)
           passes == {i \in DOMAIN chain[Number] : alone(i) = "VALID"}
           marked == IF peer.forbid THEN MarkTXIdDuplicates(flags) ELSE flags
           fl == FinalFlagsV14(order)
<1>1. /\ Block = chain[Number] /\ ~peer.parallel /\ peer.forbid \in BOOLEAN
      /\ DOMAIN Block = 1..Len(Block) /\ Len(Block) \in Nat
      /\ flags = [i \in DOMAIN Block |-> flags[i]]
      /\ \A i \in DOMAIN Block : ResultRight(i, flags[i])
      /\ valid = {i \in DOMAIN Block : flags[i] = "VALID"}
  BY InBlock, AllReceivedRight, Positions, PeerType DEF IInv, ErrorInv
<1>2. \A i \in DOMAIN Block : flags[i] = alone(i)
  BY <1>1 DEF ResultRight
<1>3. valid = passes /\ \A i \in DOMAIN Block : i \in passes <=> alone(i) = "VALID"
  BY <1>1, <1>2
<1> HIDE DEF alone, passes
<1>4. marked =
        [i \in DOMAIN Block |->
           IF i \in valid /\ RepeatsId(Number, i, valid) THEN "DUPLICATE_TXID" ELSE flags[i]]
  <2>1. CASE peer.forbid
    BY <1>1, <2>1 DEF MarkTXIdDuplicates, RepeatsId
  <2>2. CASE ~peer.forbid
    <3>1. \A i : ~RepeatsId(Number, i, valid)
      BY <2>2 DEF RepeatsId
    <3> QED BY <1>1, <2>2, <3>1
  <2> QED BY <2>1, <2>2
<1>5. fl = InvalidTXsForUpgradeCC(marked, order)
  BY DEF FinalFlagsV14
<1> HIDE DEF marked, fl
<1>6. fl = [i \in DOMAIN Block |->
              IF Outdated(i) THEN Conflict
              ELSE IF i \in valid /\ Block[i].cc \in Upgraded /\ marked[i] = "VALID" THEN Conflict
              ELSE marked[i]]
  <2>1. marked = [i \in 1..Len(Block) |-> marked[i]] /\ DOMAIN marked = DOMAIN Block
    BY <1>1, <1>4
  <2>2. Upgrades \subseteq 1..Len(Block)
    BY <1>1 DEF Upgrades
  <2>3. fl = [i \in DOMAIN marked |->
               IF Outdated(i) THEN Conflict
               ELSE IF i \in valid /\ Block[i].cc \in Upgraded /\ marked[i] = "VALID" THEN Conflict
               ELSE marked[i]]
    BY <1>1, <1>5, <2>1, <2>2, UpgradesInAnyOrder
  <2> QED BY <2>1, <2>3
<1>7. ASSUME NEW i \in DOMAIN Block
      PROVE  fl[i] = IF i \notin passes THEN alone(i)
                     ELSE IF Superseded(Number, i, passes) THEN Conflict
                     ELSE IF RepeatsId(Number, i, passes) THEN "DUPLICATE_TXID"
                     ELSE "VALID"
  <2>1. CASE i \notin passes
    <3>1. ~Outdated(i) /\ i \notin valid
      BY <1>3, <2>1 DEF Outdated, Upgrades
    <3> QED BY <1>2, <1>4, <1>6, <2>1, <3>1
  <2>2. CASE i \in passes
    <3>1. marked[i] = IF RepeatsId(Number, i, passes) THEN "DUPLICATE_TXID" ELSE "VALID"
      BY <1>2, <1>3, <1>4, <2>2
    <3>2. Outdated(i) <=> \E j \in passes : /\ Block[j].up # NoCC
                                            /\ Block[i].up = Block[j].up /\ i < j
      BY <1>3, <2>2 DEF Outdated, Upgrades
    <3>3. Block[i].cc \in Upgraded <=> \E j \in passes : Block[j].up # NoCC /\ Block[i].cc = Block[j].up
      BY <1>3 DEF Upgraded, Upgrades
    <3>4. Superseded(Number, i, passes) <=>
            Outdated(i) \/ (Block[i].cc \in Upgraded /\ ~RepeatsId(Number, i, passes))
      BY <1>1, <3>2, <3>3 DEF Superseded
    <3>5. fl[i] = IF Outdated(i) THEN Conflict
                  ELSE IF Block[i].cc \in Upgraded /\ marked[i] = "VALID" THEN Conflict
                  ELSE marked[i]
      BY <1>3, <1>6, <2>2
    <3> QED BY <2>2, <3>1, <3>4, <3>5
  <2> QED BY <2>1, <2>2
<1>8. InSequence(Number, peer.hw) =
        [i \in DOMAIN Block |->
           IF i \notin passes THEN alone(i)
           ELSE IF Superseded(Number, i, passes) THEN Conflict
           ELSE IF RepeatsId(Number, i, passes) THEN "DUPLICATE_TXID"
           ELSE "VALID"]
  BY <1>1 DEF InSequence, Conflict, alone, passes
<1>9. fl = [i \in DOMAIN Block |-> fl[i]]
  BY <1>6
<1>10. fl = InSequence(Number, peer.hw)
  BY <1>7, <1>8, <1>9
<1> QED BY <1>1, <1>9, <1>10 DEF FlagsRight, fl

\* The blocks that are validated, when one is appended and when one is stored.
LEMMA ValidatedBlocks ==
  ASSUME ErrorInv
  PROVE  /\ Number - 1 \in Nat /\ Number \in Nat \ {0}
         /\ \A fl : \A b \in 1..Number :
              (stored \o Append(pending, fl))[b] = IF b = Number THEN fl ELSE Validated[b]
         /\ \A fl : Len(Append(pending, fl)) = Len(pending) + 1
         /\ pending # <<>> =>
              /\ \A b \in 1..Number - 1 :
                   (Append(stored, Head(pending)) \o Tail(pending))[b] = Validated[b]
              /\ Len(Append(stored, Head(pending))) + Len(Tail(pending)) + 1 = Number
         /\ \A b \in 1..Len(stored) : b \in 1..Number - 1 /\ stored[b] = Validated[b]
         /\ DOMAIN stored = 1..Len(stored) /\ DOMAIN Validated = 1..Number - 1
         /\ Len(stored) \in Nat
<1>1. PICK S : stored \in Seq(S) /\ pending \in Seq(S)
  BY DEF ErrorInv, Shape
<1>2. /\ Len(stored) \in Nat /\ Len(pending) \in Nat /\ Number = Len(stored) + Len(pending) + 1
      /\ DOMAIN stored = 1..Len(stored)
  BY <1>1, LenProperties DEF Number
<1>3. /\ Validated \in Seq(S) /\ Len(Validated) = Number - 1
      /\ \A b \in 1..Number - 1 :
           Validated[b] = IF b <= Len(stored) THEN stored[b] ELSE pending[b - Len(stored)]
  BY <1>1, <1>2, ConcatProperties DEF Validated
<1>4. ASSUME NEW fl
      PROVE  /\ Len(Append(pending, fl)) = Len(pending) + 1
             /\ \A b \in 1..Number :
                  (stored \o Append(pending, fl))[b] = IF b = Number THEN fl ELSE Validated[b]
  <2> DEFINE T == S \union {fl}
             more == Append(pending, fl)
  <2>1. stored \in Seq(T) /\ pending \in Seq(T) /\ fl \in T
    BY <1>1
  <2>2. /\ more \in Seq(T) /\ Len(more) = Len(pending) + 1
        /\ \A b \in 1..Len(pending) : more[b] = pending[b]
        /\ more[Len(pending) + 1] = fl
    BY <2>1, AppendProperties
  <2> HIDE DEF T, more
  <2>3. \A b \in 1..Number :
          (stored \o more)[b] = IF b <= Len(stored) THEN stored[b] ELSE more[b - Len(stored)]
    BY <1>2, <2>1, <2>2, ConcatProperties
  <2>4. ASSUME NEW b \in 1..Number PROVE (stored \o more)[b] = IF b = Number THEN fl ELSE Validated[b]
    <3>1. CASE b = Number
      <4>1. ~(b <= Len(stored)) /\ b - Len(stored) = Len(pending) + 1
        BY <1>2, <3>1
      <4> QED BY <2>2, <2>3, <3>1, <4>1
    <3>2. CASE b # Number /\ b <= Len(stored)
      BY <1>2, <1>3, <2>3, <3>2
    <3>3. CASE b # Number /\ ~(b <= Len(stored))
      <4>1. b \in 1..Number - 1 /\ b - Len(stored) \in 1..Len(pending)
        BY <1>2, <3>3
      <4> QED BY <1>3, <2>2, <2>3, <3>3, <4>1
    <3> QED BY <3>1, <3>2, <3>3
  <2> QED BY <2>2, <2>4 DEF more
<1>5. ASSUME pending # <<>>
      PROVE  /\ \A b \in 1..Number - 1 :
                   (Append(stored, Head(pending)) \o Tail(pending))[b] = Validated[b]
             /\ Len(Append(stored, Head(pending))) + Len(Tail(pending)) + 1 = Number
  <2> DEFINE first == Append(stored, Head(pending))
             rest == Tail(pending)
  <2>1. /\ Head(pending) = pending[1] /\ pending[1] \in S
        /\ rest \in Seq(S) /\ Len(rest) = Len(pending) - 1
        /\ \A b \in 1..Len(rest) : rest[b] = pending[b + 1]
        /\ Len(pending) # 0
    BY <1>1, <1>2, <1>5, HeadTailProperties, EmptySeq, ElementOfSeq
  <2>2. /\ first \in Seq(S) /\ Len(first) = Len(stored) + 1
        /\ \A b \in 1..Len(stored) : first[b] = stored[b]
        /\ first[Len(stored) + 1] = pending[1]
    BY <1>1, <2>1, AppendProperties
  <2> HIDE DEF first, rest
  <2>3. \A b \in 1..Number - 1 :
          (first \o rest)[b] = IF b <= Len(first) THEN first[b] ELSE rest[b - Len(first)]
    BY <1>2, <2>1, <2>2, ConcatProperties
  <2>4. ASSUME NEW b \in 1..Number - 1 PROVE (first \o rest)[b] = Validated[b]
    <3>1. CASE b <= Len(stored)
      BY <1>2, <1>3, <2>2, <2>3, <3>1
    <3>2. CASE b = Len(stored) + 1
      <4>1. ~(b <= Len(stored)) /\ b - Len(stored) = 1 /\ b <= Len(first)
        BY <1>2, <2>2, <3>2
      <4> QED BY <1>3, <2>2, <2>3, <3>2, <4>1
    <3>3. CASE b > Len(stored) + 1
      <4>1. /\ ~(b <= Len(stored)) /\ ~(b <= Len(first))
            /\ b - Len(first) \in 1..Len(rest) /\ (b - Len(first)) + 1 = b - Len(stored)
        BY <1>2, <2>1, <2>2, <3>3
      <4> QED BY <1>3, <2>1, <2>3, <4>1
    <3>4. b <= Len(stored) \/ b = Len(stored) + 1 \/ b > Len(stored) + 1
      BY <1>2
    <3> QED BY <3>1, <3>2, <3>3, <3>4, Zenon
  <2>5. Len(first) + Len(rest) + 1 = Number
    BY <1>2, <2>1, <2>2
  <2> QED BY <2>4, <2>5 DEF first, rest
<1>6. DOMAIN Validated = 1..Number - 1
  BY <1>3, LenProperties
<1>7. \A b \in 1..Len(stored) : b \in 1..Number - 1 /\ stored[b] = Validated[b]
  BY <1>2, <1>3
<1>8. Number - 1 \in Nat /\ Number \in Nat \ {0}
  BY <1>2
<1> QED BY <1>2, <1>4, <1>5, <1>6, <1>7, <1>8

\* Validate ends.
LEMMA EndStep ==
  ASSUME IInv, ErrorInv', EndValidate
  PROVE  IInv'
<1> USE DEF fixed, results
<1>1. /\ pc = "validate" /\ AllReceived /\ ErrorInv
      /\ UNCHANGED <<fixed, stored, config, started, outcome, results>>
  BY DEF EndValidate, IInv
<1>2. /\ peer \in Peers /\ chain \in Chains
      /\ Number \in 1..Len(chain) /\ Block = chain[Number] /\ DOMAIN stage = DOMAIN Block
      /\ Len(chain) \in Nat /\ DOMAIN chain = 1..Len(chain) /\ peer.v14 \in BOOLEAN
  BY <1>1, InBlock, ChainType
<1>3. CASE pending' = pending /\ pc' = "failed"
  <2>1. Number' = Number
    BY <1>1, <1>3 DEF Number
  <2>2. BlocksInv'
    BY <1>1, <1>3, <2>1, SameChain DEF IInv, BlocksInv, Validated
  <2> QED BY <1>3, <2>2 DEF IInv, ConfigInv, StoredBefore, WorkersInv, ResultsInv
<1>4. ASSUME NEW fl, errPos = 0, pending' = Append(pending, fl), pc' = "idle", stage' = <<>>,
             FlagsRight(Number, fl)
      PROVE  IInv'
  <2> DEFINE n == Number
  <2>1. Number' = n + 1 /\ n \in Nat \ {0} /\ n - 1 \in Nat
    <3>1. Len(stored) \in Nat /\ Len(pending') = Len(pending) + 1 /\ n \in Nat \ {0}
      BY <1>1, <1>4, ValidatedBlocks
    <3>2. \E S : pending \in Seq(S)
      BY <1>1 DEF ErrorInv, Shape
    <3>3. Len(pending) \in Nat
      BY <3>2, LenProperties
    <3> QED BY <1>1, <3>1, <3>3 DEF Number
  <2>2. ConfigBefore(n + 1) = config
    <3>1. Applied <=> \E i \in DOMAIN Block : Configures(Block[i])
      BY <1>1, <1>2 DEF Applied, AllReceived
    <3>2. config = ConfigBefore(n) + IF Applied THEN 1 ELSE 0
      BY <1>1 DEF IInv, ConfigInv
    <3> QED BY <1>2, <2>1, <3>1, <3>2, NextConfig
  <2>3. ConfigInv'
    <3>1. ~Applied'
      BY <1>4 DEF Applied
    <3>2. config = ConfigBefore(Number)'
      BY <1>1, <2>1, <2>2, SameChain
    <3>3. config = ConfigBefore(Number)' + 0
      <4>1. config \in Nat
        BY <2>1, <2>2, ConfigNat
      <4> QED BY <3>2, <4>1
    <3> QED BY <1>1, <3>1, <3>3 DEF ConfigInv
  <2>4. BlocksInv'
    <3>1. \A b \in 1..Number :
            Validated'[b] = IF b = Number THEN fl ELSE Validated[b]
      BY <1>1, <1>4, ValidatedBlocks DEF Validated
    <3>2. ASSUME NEW b \in 1..Number PROVE b \in DOMAIN chain /\ FlagsRight(b, Validated'[b])
      <4>1. CASE b = Number
        BY <1>2, <1>4, <3>1, <4>1
      <4>2. CASE b # Number
        <5>1. b \in 1..Number - 1
          BY <2>1, <4>2
        <5>2. b \in DOMAIN chain /\ FlagsRight(b, Validated[b])
          BY <5>1 DEF IInv, BlocksInv
        <5> QED BY <3>1, <4>2, <5>2
      <4> QED BY <4>1, <4>2
    <3>3. Number' - 1 = Number
      BY <2>1
    <3>4. \A b \in 1..Number : FlagsRight(b, Validated[b])'
      BY <1>1, <3>2, SameChain
    <3> QED BY <1>1, <3>2, <3>3, <3>4 DEF BlocksInv
  <2> QED BY <1>1, <1>4, <2>3, <2>4 DEF IInv, StoredBefore, WorkersInv, ResultsInv
<1>5. PICK fl \in IF peer.v14 THEN {FinalFlagsV14(o) : o \in Orders} ELSE {FinalFlags} :
        IF errPos = 0 /\ AllValidated(fl)
        THEN pending' = Append(pending, fl) /\ pc' = "idle"
        ELSE pending' = pending /\ pc' = "failed"
  BY DEF EndValidate
<1>6. CASE errPos = 0 /\ AllValidated(fl)
  <2>1. stage' = <<>> /\ pending' = Append(pending, fl) /\ pc' = "idle"
    BY <1>5, <1>6 DEF EndValidate
  <2>2. FlagsRight(Number, fl)
    <3>1. CASE peer.v14
      BY <1>1, <1>5, <1>6, <3>1, FinalFlagsV14Right
    <3>2. CASE ~peer.v14
      BY <1>1, <1>5, <1>6, <3>2, FinalFlagsRight
    <3> QED BY <3>1, <3>2
  <2> QED BY <1>4, <1>6, <2>1, <2>2
<1>7. CASE ~(errPos = 0 /\ AllValidated(fl))
  BY <1>3, <1>5, <1>7
<1> QED BY <1>6, <1>7

\* A block is stored, before StoreBlock returns or during the validation of the next.
LEMMA StoreStep ==
  ASSUME IInv, ErrorInv', StoreBlock
  PROVE  IInv'
<1> USE DEF fixed, results
<1>1. /\ UNCHANGED <<fixed, config, pc, started, stage, outcome, results>> /\ pending # <<>>
      /\ stored' = Append(stored, Head(pending)) /\ pending' = Tail(pending) /\ ErrorInv
  BY DEF StoreBlock, IInv
<1>2. /\ Number' = Number /\ Block' = Block /\ peer' = peer
      /\ \A b \in 1..Number - 1 : Validated'[b] = Validated[b]
  BY <1>1, ValidatedBlocks DEF Number, Block, Validated
<1>3. ConfigInv'
  <2>1. Applied' <=> Applied
    BY <1>1, <1>2 DEF Applied, Configures
  <2> QED BY <1>1, <1>2, <2>1, SameChain DEF IInv, ConfigInv
<1>4. WorkersInv'
  <2> SUFFICES ASSUME pc = "validate", NEW j \in DOMAIN stage PROVE WorkerRight(j)'
    BY <1>1 DEF WorkersInv
  <2>1. WorkerRight(j)
    BY DEF IInv, WorkersInv
  <2>2. ResultRight(j, outcome[j]) => ResultRight(j, outcome[j])'
    BY <1>1, <1>2, SameChain DEF ResultRight
  <2> QED BY <1>1, <1>2, <2>1, <2>2, SameChain DEF WorkerRight
<1>5. ResultsInv'
  BY <1>1 DEF IInv, ResultsInv
<1>6. StoredBefore'
  BY <1>1, <1>2 DEF IInv, StoredBefore
<1>7. BlocksInv'
  <2>1. \A b \in 1..Number - 1 : b \in DOMAIN chain /\ FlagsRight(b, Validated'[b])
    BY <1>2 DEF IInv, BlocksInv
  <2>2. \A b \in 1..Number - 1 : FlagsRight(b, Validated[b])'
    BY <1>1, <2>1, SameChain
  <2> QED BY <1>1, <1>2, <2>1, <2>2 DEF BlocksInv
<1> QED BY <1>3, <1>4, <1>5, <1>6, <1>7 DEF IInv

\* The process is gone, and the blocks with it that were not stored.
LEMMA LostStep ==
  ASSUME IInv, ErrorInv', Crash \/ StopAfterError
  PROVE  IInv'
<1>1. pending' = <<>> /\ pc' = "down" /\ UNCHANGED <<fixed, stored>> /\ ErrorInv
  BY DEF Crash, StopAfterError, Lost, IInv
<1>2. /\ DOMAIN Validated' = 1..Number' - 1 /\ Number' - 1 = Len(stored)
      /\ Validated' = stored
  <2>1. PICK S : stored \in Seq(S)
    BY <1>1 DEF ErrorInv, Shape
  <2>2. stored \o <<>> = stored /\ Len(stored) \in Nat
    BY <2>1, LenProperties
  <2>3. Number' = Len(stored) + 1
    BY <1>1, <2>2 DEF Number
  <2> QED BY <1>1, <2>1, <2>2, <2>3, LenProperties DEF Validated
<1>3. BlocksInv'
  <2>1. \A b \in 1..Len(stored) : b \in DOMAIN chain /\ FlagsRight(b, stored[b])
    BY <1>1, ValidatedBlocks DEF IInv, BlocksInv
  <2>2. \A b \in 1..Len(stored) : FlagsRight(b, Validated'[b])
    BY <1>2, <2>1
  <2>3. \A b \in 1..Len(stored) : FlagsRight(b, Validated[b])'
    BY <1>1, <2>2, SameChain
  <2> QED BY <1>1, <1>2, <2>1, <2>3 DEF BlocksInv, fixed
<1> QED BY <1>1, <1>3 DEF IInv, ConfigInv, StoredBefore, WorkersInv, ResultsInv

\* The configuration is read from the ledger.
LEMMA RestartStep ==
  ASSUME IInv, ErrorInv', Restart
  PROVE  IInv'
<1> USE DEF fixed, ledger
<1>1. /\ pc = "down" /\ pc' = "idle" /\ UNCHANGED <<fixed, ledger, stage>>
      /\ config' = Cardinality(ConfigBlocks(Len(stored))) /\ ErrorInv
  BY DEF Restart, IInv
<1>2. Number' = Number /\ stage' = <<>>
  BY <1>1 DEF Number, ErrorInv, Shape
<1>3. ConfigInv'
  <2>1. pending = <<>>
    BY <1>1 DEF IInv, StoredBefore
  <2>2. \E S : stored \in Seq(S)
    BY <1>1 DEF ErrorInv, Shape
  <2>3. Len(stored) \in Nat /\ Number = Len(stored) + 1
    BY <2>1, <2>2, LenProperties DEF Number
  <2>4. config' = ConfigBefore(Number) /\ Number \in Nat \ {0}
    BY <1>1, <2>3 DEF ConfigBefore
  <2>5. config' = ConfigBefore(Number) + 0
    BY <2>4, ConfigNat
  <2>6. ~Applied'
    BY <1>2 DEF Applied
  <2> QED BY <1>1, <1>2, <2>5, <2>6, SameChain DEF ConfigInv
<1>4. BlocksInv'
  BY <1>1, <1>2, SameChain DEF IInv, BlocksInv, Validated
<1> QED BY <1>1, <1>3, <1>4 DEF IInv, StoredBefore, WorkersInv, ResultsInv

\* Every step keeps the invariant.
LEMMA StepIInv ==
  ASSUME IInv, [Next]_vars
  PROVE  IInv'
<1>0. ErrorInv'
  BY StepError DEF IInv
<1>1. CASE BeginValidate
  BY <1>0, <1>1, BeginStep
<1>2. ASSUME NEW i \in DOMAIN stage, ReceiveResult(i) PROVE IInv'
  BY <1>0, <1>2, ReceiveStep
<1>3. CASE EndValidate
  BY <1>0, <1>3, EndStep
<1>4. CASE StartWorker
  BY <1>0, <1>4, StartStep
<1>5. ASSUME NEW i \in DOMAIN stage, WorkerStep(i) PROVE IInv'
  BY <1>0, <1>5, FormStep, LookUpStep, ApplyStep DEF WorkerStep
<1>6. CASE StoreBlock
  BY <1>0, <1>6, StoreStep
<1>7. CASE StopAfterError \/ Crash
  BY <1>0, <1>7, LostStep
<1>8. CASE Restart
  BY <1>0, <1>8, RestartStep
<1>9. CASE UNCHANGED vars
  <2> USE DEF fixed, ledger, results
  <2>1. Number' = Number /\ Block' = Block /\ UNCHANGED <<fixed, ledger, results>>
    BY <1>9 DEF vars, Number, Block
  <2>2. Applied' <=> Applied
    BY <1>9, <2>1 DEF vars, Applied, Configures
  <2>3. ConfigInv'
    BY <1>9, <2>1, <2>2, SameChain DEF vars, IInv, ConfigInv
  <2>4. ASSUME NEW j \in DOMAIN stage, WorkerRight(j) PROVE WorkerRight(j)'
    <3>1. ResultRight(j, outcome[j]) => ResultRight(j, outcome[j])'
      BY <1>9, <2>1, SameChain DEF vars, ResultRight
    <3> QED BY <1>9, <2>1, <2>4, <3>1, SameChain DEF vars, WorkerRight
  <2>5. WorkersInv' /\ ResultsInv' /\ StoredBefore'
    BY <1>9, <2>4 DEF vars, IInv, WorkersInv, ResultsInv, StoredBefore
  <2>6. BlocksInv'
    BY <2>1, SameChain DEF IInv, BlocksInv, Validated
  <2> QED BY <1>0, <2>3, <2>5, <2>6 DEF IInv
<1> QED BY <1>1, <1>2, <1>3, <1>4, <1>5, <1>6, <1>7, <1>8, <1>9 DEF Next, CommitterStep

\* The invariant of a peer of either release, with and without a card, for any number
\* of workers and transactions, whatever fails and however often it is restarted.
THEOREM FlagsInvariant == Spec => []IInv
<1>1. Init => IInv
  BY InitIInv
<1>2. IInv /\ [Next]_vars => IInv'
  BY StepIInv
<1> QED BY <1>1, <1>2, PTL DEF Spec

\* The flags of every block, validated or stored, are those of a validator that takes
\* one transaction after the other, but for the parallel commit.
THEOREM FlagsAsInSequenceCorrect == Spec => []FlagsAsInSequence
<1>1. IInv => FlagsAsInSequence
  <2> SUFFICES ASSUME IInv, ~peer.parallel, NEW b \in DOMAIN (stored \o pending)
               PROVE  (stored \o pending)[b] = InSequence(b, peer.hw)
    BY DEF FlagsAsInSequence
  <2>1. b \in 1..Number - 1
    BY ValidatedBlocks DEF IInv, Validated
  <2>2. FlagsRight(b, Validated[b])
    BY <2>1 DEF IInv, BlocksInv
  <2> QED BY <2>2 DEF FlagsRight, Validated
<1> QED BY <1>1, FlagsInvariant, PTL

\* What passes for valid and is not, in the parallel commit, is a copy of a transaction
\* of an earlier block.
THEOREM OnlyCopiesPassCorrect == Spec => []OnlyCopiesPass
<1>1. IInv => OnlyCopiesPass
  <2> SUFFICES ASSUME IInv, NEW b \in DOMAIN stored, NEW i \in DOMAIN stored[b],
                      stored[b][i] = "VALID", InSequence(b, peer.hw)[i] # "VALID"
               PROVE  peer.parallel /\ \E c \in Earlier(b) : chain[b][i].id \in Indexed(c)
    BY DEF OnlyCopiesPass
  <2>1. b \in 1..Number - 1 /\ stored[b] = Validated[b]
    BY ValidatedBlocks DEF IInv
  <2>2. FlagsRight(b, stored[b])
    BY <2>1 DEF IInv, BlocksInv
  <2>3. peer.parallel /\ chain[b][i].id \in IdsBefore(b)
    BY <2>2 DEF FlagsRight
  <2> QED BY <2>3 DEF IdsBefore
<1> QED BY <1>1, FlagsInvariant, PTL

-----------------------------------------------------------------------------
(* What a card leaves of the flags.                                        *)

Passes(b, hw) == {i \in DOMAIN chain[b] : Alone(b, i, hw) = "VALID"}

\* A software peer accepts of a block with endorsements what a peer with a card accepts
\* and the card, which makes the checks that are left to it, does not reject.
LEMMA CardMakesTheRest ==
  ASSUME peer \in Peers, chain \in Chains, NEW b \in 1..Len(chain),
         NEW i \in DOMAIN chain[b], chain[b][i].type = "endorser"
  PROVE  Passes(b, FALSE) = {j \in Passes(b, TRUE) : CardAccepts(b, j)}
<1> DEFINE tx(j) == chain[b][j]
           form(j, hw) == Form(tx(j), ConfigBefore(b), hw)
<1>1. peer.v14 \in BOOLEAN /\ peer.hw \in BOOLEAN
  BY PeerType
<1>2. \A j \in DOMAIN chain[b] : tx(j).type # "config"
  <2> SUFFICES ASSUME NEW j \in DOMAIN chain[b], tx(j).type = "config" PROVE FALSE
    OBVIOUS
  <2>1. DOMAIN chain[b] = {j}
    BY ConfigForm
  <2>2. i = j
    BY <2>1
  <2> QED BY <2>2
<1>3. ASSUME NEW j \in DOMAIN chain[b], NEW hw \in BOOLEAN
      PROVE  Alone(b, j, hw) = "VALID" <=>
               /\ form(j, hw) = "VALID" /\ tx(j).type = "endorser"
               /\ tx(j).id \notin IdsBefore(b)
               /\ AfterLookup(tx(j), hw) = "VALID"
  <2>1. Alone(b, j, hw) =
          IF form(j, hw) # "VALID" THEN form(j, hw)
          ELSE IF tx(j).type = "token" THEN "UNKNOWN_TX_TYPE"
          ELSE IF tx(j).id \in IdsBefore(b) THEN "DUPLICATE_TXID"
          ELSE AfterLookup(tx(j), hw)
    BY <1>2 DEF Alone, ConfigBefore, IdsBefore
  <2>2. form(j, hw) = "VALID" => tx(j).type \in {"endorser", "token"}
    <3>1. tx(j).type # "config"
      BY <1>2
    <3>2. PICK t : t = tx(j)
      OBVIOUS
    <3>3. Form(t, ConfigBefore(b), hw) = "VALID" => WellFormed(t, hw)
      BY <1>1, FormCode
    <3> QED BY <3>1, <3>2, <3>3 DEF WellFormed
  <2> QED BY <2>1, <2>2
<1>4. ASSUME NEW j \in DOMAIN chain[b], tx(j).type = "endorser"
      PROVE  form(j, FALSE) = "VALID" /\ AfterLookup(tx(j), FALSE) = "VALID" <=>
               form(j, TRUE) = "VALID" /\ AfterLookup(tx(j), TRUE) = "VALID" /\ CardAccepts(b, j)
  <2>1. PICK t : t = tx(j)
    OBVIOUS
  <2>2. CardAccepts(b, j) <=>
          /\ CheckSignatureFromCreator(t, ConfigBefore(b))
          /\ {"txid", "policy", "marshal"} \cap t.bad = {}
          /\ ValidateEndorserTransaction(t)
    BY <2>1 DEF CardAccepts, ConfigBefore
  <2>3. \A hw \in BOOLEAN :
          Form(t, ConfigBefore(b), hw) = "VALID" <=>
            /\ {"envelope", "payload"} \cap t.bad = {}
            /\ ValidateCommonHeader(t)
            /\ hw \/ CheckSignatureFromCreator(t, ConfigBefore(b))
            /\ hw \/ ("txid" \notin t.bad /\ ValidateEndorserTransaction(t))
    <3> SUFFICES ASSUME NEW hw \in BOOLEAN
                 PROVE  Form(t, ConfigBefore(b), hw) = "VALID" <=>
                          /\ {"envelope", "payload"} \cap t.bad = {}
                          /\ ValidateCommonHeader(t)
                          /\ hw \/ CheckSignatureFromCreator(t, ConfigBefore(b))
                          /\ hw \/ ("txid" \notin t.bad /\ ValidateEndorserTransaction(t))
      OBVIOUS
    <3>1. WellFormed(t, hw) <=> hw \/ ("txid" \notin t.bad /\ ValidateEndorserTransaction(t))
      BY <1>4, <2>1 DEF WellFormed
    <3> QED BY <1>1, <3>1, FormCode
  <2>4. \A hw \in BOOLEAN :
          AfterLookup(t, hw) = "VALID" <=>
            /\ hw \/ "policy" \notin t.bad
            /\ peer.v14 => "extension" \notin t.bad
            /\ hw \/ "marshal" \notin t.bad
    BY AfterLookupCode
  <2> QED BY <2>1, <2>2, <2>3, <2>4
<1> HIDE DEF form, tx
<1>5. ASSUME NEW j \in DOMAIN chain[b]
      PROVE  Alone(b, j, FALSE) = "VALID" <=> Alone(b, j, TRUE) = "VALID" /\ CardAccepts(b, j)
  BY <1>3, <1>4
<1> QED BY <1>5 DEF Passes

\* What is accepted stays valid unless another one that is accepted has its id, or
\* upgrades its chaincode.
LEMMA ValidInSequence ==
  ASSUME NEW b, NEW hw, NEW i \in DOMAIN chain[b]
  PROVE  InSequence(b, hw)[i] = "VALID" <=>
           /\ i \in Passes(b, hw)
           /\ ~Superseded(b, i, Passes(b, hw)) /\ ~RepeatsId(b, i, Passes(b, hw))
<1>1. InSequence(b, hw)[i] =
        IF i \notin Passes(b, hw) THEN Alone(b, i, hw)
        ELSE IF Superseded(b, i, Passes(b, hw)) THEN "CHAINCODE_VERSION_CONFLICT"
        ELSE IF RepeatsId(b, i, Passes(b, hw)) THEN "DUPLICATE_TXID"
        ELSE "VALID"
  BY DEF InSequence, Passes
<1>2. i \in Passes(b, hw) <=> Alone(b, i, hw) = "VALID"
  BY DEF Passes
<1> QED BY <1>1, <1>2

\* With a card that makes the checks the peer leaves to it, no transaction becomes valid
\* that a software peer rejects, and what a software peer has besides lost its validity
\* to a transaction the card rejects: for every block, of either release.
THEOREM OffloadSafeCorrect == Spec => []OffloadSafe
<1>1. IInv => OffloadSafe
  <2> SUFFICES ASSUME IInv, peer.hw, ~peer.parallel, NEW b \in DOMAIN stored
               PROVE  LET merged == {i \in Valid(b) : CardAccepts(b, i)}
                          software == {i \in DOMAIN chain[b] : InSequence(b, FALSE)[i] = "VALID"
                                                               /\ chain[b][i].type = "endorser"}
                      IN  /\ merged \subseteq software
                          /\ \A i \in software \ merged :
                               \E j \in DOMAIN chain[b] \ {i} :
                                 /\ ~CardAccepts(b, j)
                                 /\ \/ chain[b][j].id = chain[b][i].id
                                    \/ /\ chain[b][j].up # NoCC
                                       /\ chain[b][j].up \in {chain[b][i].cc, chain[b][i].up}
    BY DEF OffloadSafe
  <2> DEFINE merged == {i \in Valid(b) : CardAccepts(b, i)}
             software == {i \in DOMAIN chain[b] : InSequence(b, FALSE)[i] = "VALID"
                                                  /\ chain[b][i].type = "endorser"}
             soft == Passes(b, FALSE)
             hard == Passes(b, TRUE)
  <2>1. peer \in Peers /\ chain \in Chains /\ peer.hw = TRUE /\ b \in 1..Len(chain)
    <3>1. ErrorInv /\ b \in 1..Number - 1
      BY ValidatedBlocks DEF IInv
    <3>2. peer \in Peers /\ chain \in Chains /\ b \in DOMAIN chain
      BY <3>1 DEF IInv, ErrorInv, Shape, BlocksInv
    <3> QED BY <3>2, ChainType, PeerType
  <2>2. stored[b] = InSequence(b, TRUE)
    <3>1. b \in 1..Number - 1 /\ stored[b] = Validated[b]
      BY ValidatedBlocks DEF IInv
    <3>2. FlagsRight(b, stored[b])
      BY <3>1 DEF IInv, BlocksInv
    <3> QED BY <2>1, <3>2 DEF FlagsRight
  <2>3. DOMAIN stored[b] = DOMAIN chain[b]
    BY <2>2 DEF InSequence
  <2>4. ASSUME NEW i \in DOMAIN chain[b], chain[b][i].type = "endorser"
        PROVE  /\ soft = {j \in hard : CardAccepts(b, j)}
               /\ i \in merged <=> i \in soft /\ ~Superseded(b, i, hard) /\ ~RepeatsId(b, i, hard)
               /\ i \in software <=> i \in soft /\ ~Superseded(b, i, soft) /\ ~RepeatsId(b, i, soft)
    <3>1. soft = {j \in hard : CardAccepts(b, j)}
      BY <2>1, <2>4, CardMakesTheRest
    <3>2. i \in merged <=> InSequence(b, TRUE)[i] = "VALID" /\ CardAccepts(b, i)
      BY <2>2, <2>3, <2>4 DEF Valid
    <3>3. i \in software <=> InSequence(b, FALSE)[i] = "VALID"
      BY <2>4
    <3> HIDE DEF merged, software
    <3> QED BY <3>1, <3>2, <3>3, ValidInSequence
  <2>5. /\ \A i \in merged : i \in DOMAIN chain[b] /\ chain[b][i].type = "endorser"
        /\ \A i \in software : i \in DOMAIN chain[b] /\ chain[b][i].type = "endorser"
        /\ hard \subseteq DOMAIN chain[b]
    BY <2>3 DEF Valid, Passes
  <2> HIDE DEF merged, software, soft, hard
  <2>6. ASSUME NEW i \in merged PROVE i \in software
    <3>1. /\ soft \subseteq hard /\ i \in soft
          /\ ~Superseded(b, i, hard) /\ ~RepeatsId(b, i, hard)
      BY <2>4, <2>5
    <3>2. ~RepeatsId(b, i, soft)
      BY <3>1 DEF RepeatsId
    <3>3. ~Superseded(b, i, soft)
      BY <3>1 DEF Superseded
    <3> QED BY <2>4, <2>5, <3>1, <3>2, <3>3
  <2>7. ASSUME NEW i \in software, i \notin merged
        PROVE  \E j \in DOMAIN chain[b] \ {i} :
                 /\ ~CardAccepts(b, j)
                 /\ \/ chain[b][j].id = chain[b][i].id
                    \/ /\ chain[b][j].up # NoCC
                       /\ chain[b][j].up \in {chain[b][i].cc, chain[b][i].up}
    <3>1. /\ soft = {j \in hard : CardAccepts(b, j)} /\ i \in soft
          /\ ~Superseded(b, i, soft) /\ ~RepeatsId(b, i, soft)
          /\ Superseded(b, i, hard) \/ RepeatsId(b, i, hard)
      BY <2>4, <2>5, <2>7
    <3>2. \A j \in hard \ soft : j \in DOMAIN chain[b] \ {i} /\ ~CardAccepts(b, j)
      BY <2>5, <3>1
    <3>3. CASE RepeatsId(b, i, hard)
      <4>1. PICK j \in hard : j < i /\ chain[b][j].id = chain[b][i].id
        BY <3>3 DEF RepeatsId
      <4>2. j \notin soft
        BY <3>1, <3>3, <4>1 DEF RepeatsId
      <4> QED BY <3>2, <4>1, <4>2
    <3>4. CASE ~RepeatsId(b, i, hard) /\ Superseded(b, i, hard)
      <4>1. PICK j \in hard :
              /\ chain[b][j].up # NoCC
              /\ \/ chain[b][i].cc = chain[b][j].up
                 \/ chain[b][i].up = chain[b][j].up /\ i < j
        BY <3>4 DEF Superseded
      <4>2. j \notin soft
        BY <3>1, <3>4, <4>1 DEF Superseded
      <4> QED BY <3>2, <4>1, <4>2
    <3> QED BY <3>1, <3>3, <3>4
  <2> QED BY <2>6, <2>7 DEF merged, software
<1> QED BY <1>1, FlagsInvariant, PTL

=============================================================================
