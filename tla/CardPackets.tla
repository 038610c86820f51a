---------------------------- MODULE CardPackets ----------------------------
(***************************************************************************)
(* What the orderer sends to the card: the certificates of its             *)
(* configuration file under ids it gives them, and then blocks, taken      *)
(* apart into packets from which the certificates are removed and in which *)
(* annotations tell the card where they were and where the fields are that *)
(* it checks.                                                              *)
(*                                                                         *)
(* Everything here is about positions in marshalled messages, so bytes are *)
(* bytes: sequences over 0..255. As in the code positions count from 0.    *)
(***************************************************************************)
EXTENDS Integers, Sequences, SequencesExt, FiniteSets, Functions

CONSTANTS
  Files,   \* configuration files: sequences of organisations
  Blocks   \* blocks: a number, transactions and the orderer's certificate

(***************************************************************************)
(* An organisation has a name and a sequence of certificates, each with    *)
(* the position of its role in Roles and the content of its file, which is *)
(* empty if the file cannot be read. A transaction has its creator, its    *)
(* endorsers and the fields the card looks at.                             *)
(***************************************************************************)
\* There are four roles: Go would panic over a fifth one.
ASSUME FilesAssumption ==
  Files \subseteq Seq([name  : Seq(0..255),
                      certs : Seq([role : 0..3, ca : Seq(0..255)])])

VARIABLES
  file,      \* the configuration file
  todo,      \* the certificates in it that are still to be installed
  cache,     \* CertificateCache: from an identity to its id
  idCache,   \* CertificateIdCache: from an id to its identity
  pc,        \* "install", "send" once the card has the certificates, "sent"
  updates,   \* the certificate updates sent to the card
  block,     \* the block, once it is sent
  packets    \* its packets

caches == <<cache, idCache>>
vars == <<file, todo, cache, idCache, pc, updates, block, packets>>

MAX_ENDORSER_NUM == 8
Uint8(n) == n % 256
Uint16(n) == n % 65536
Slice(data, from, to) == SubSeq(data, from + 1, to)    \* data[from:to]

-----------------------------------------------------------------------------
(* Protobuf, as protobuf has it.                                           *)

Varint(n) ==
  LET varint[k \in Nat] ==
        IF k < 128 THEN <<k>> ELSE <<128 + (k % 128)>> \o varint[k \div 128]
  IN  varint[n]
VarintField(f, n) == <<8 * f>> \o Varint(n)
Field(f, bytes) == <<8 * f + 2>> \o Varint(Len(bytes)) \o bytes

Identity(name, ca) == Field(1, name) \o Field(2, ca)
Envelope(t) ==
  LET header(id) == Field(1, id) \o Field(2, <<7>>)
      creator == header(Identity(t.creator.name, t.creator.ca))
      channel == VarintField(1, 3) \o Field(7, Field(2, Field(2, t.chaincode)))
      endorsements == FlattenSeq([i \in DOMAIN t.endorsers |->
        Field(2, Field(1, Identity(t.endorsers[i].name, t.endorsers[i].ca)) \o Field(2, <<8>>))])
      response == Field(1, <<9>>) \o Field(2, Field(1, t.results))
      action == Field(1, <<10>>) \o Field(2, Field(1, response) \o endorsements)
      transaction == Field(1, Field(1, creator) \o Field(2, action))
      payload == Field(1, Field(1, channel) \o Field(2, creator)) \o Field(2, transaction)
  IN  Field(1, payload) \o Field(2, t.signature)
Metadata(b) ==
  LET id == Identity(b.orderer.name, b.orderer.ca)
      signature == Field(1, Field(1, id) \o Field(2, <<7>>)) \o Field(2, b.signature)
  IN  Field(1, Field(1, <<11>>) \o Field(2, signature)) \o Field(1, <<12>>)
Marshal(b) ==
  Field(1, VarintField(1, b.number) \o Field(2, <<13>>) \o Field(3, <<14>>))
    \o Field(2, FlattenSeq([i \in DOMAIN b.txs |-> Field(1, Envelope(b.txs[i]))]))
    \o Field(3, Metadata(b))

\* Protobuf has no empty fields, and a number takes at most ten bytes. A transaction
\* that nobody has endorsed is not looked at here.
Filled == Seq(0..255) \ {<<>>}
Certificate == [name : Filled, ca : Filled]
Transaction == [creator : Certificate, endorsers : Seq(Certificate) \ {<<>>},
                chaincode : Filled, results : Filled, signature : Filled]
ASSUME BlocksAssumption ==
  \A b \in Blocks :
    /\ b.number \in Nat \ {0} /\ Len(Varint(b.number)) <= 10
    /\ b.txs \in Seq(Transaction)
    /\ b.orderer \in Certificate
    /\ b.signature \in Filled

-----------------------------------------------------------------------------
(* Protobuf, as sproto.go reads it.                                        *)

\* (Past the end of data Go panics; what is read there does not matter.)
GetVarint(data, pos) ==
  LET varint[p \in Nat] ==
        LET byte == data[p + 1]
            rest == varint[p + 1]
        IN  IF p >= Len(data) THEN [val |-> 0, off |-> 1]
            ELSE IF byte < 128 THEN [val |-> byte, off |-> 1]
            ELSE [val |-> byte - 128 + 128 * rest.val, off |-> rest.off + 1]
  IN  varint[pos]

ProtoGetFieldLength(data, pos) ==
  LET tag == GetVarint(data, pos)
      value == GetVarint(data, pos + tag.off)
  IN  IF tag.val % 8 # 0
      THEN [field |-> tag.val \div 8, len |-> value.val, pos |-> pos + tag.off + value.off]
      ELSE [field |-> tag.val \div 8, len |-> value.off, pos |-> pos + tag.off]

NoField == [pos |-> -1, len |-> 0]
ProtoSearchFieldPos(data, start, size, target) ==
  LET found[p \in Nat] ==
        LET f == ProtoGetFieldLength(data, p)
        IN  IF p >= start + size THEN NoField
            ELSE IF f.field = target THEN [pos |-> f.pos, len |-> f.len]
            ELSE found[f.pos + f.len]
  IN  found[start]

\* A loop over a sequence, from its first element on.
FoldUp(step(_, _), first, seq) ==
  LET after[i \in 0..Len(seq)] == IF i = 0 THEN first ELSE step(after[i - 1], seq[i])
  IN  after[Len(seq)]

ProtoGetFieldPos(data, start, size, path) ==
  FoldUp(LAMBDA at, f : IF at.pos = -1 THEN at ELSE ProtoSearchFieldPos(data, at.pos, at.len, f),
         [pos |-> start, len |-> size], path)

-----------------------------------------------------------------------------
(* The certificates.                                                       *)

GenerateId(user, org, role) == role + 16 * org + 256 * user

\* loadIdentityTable: the certificates of a role are numbered in each organisation.
LoadIdentityTable(f) ==
  FlattenSeq([o \in DOMAIN f |-> [c \in DOMAIN f[o].certs |->
    [id   |-> GenerateId(Cardinality({d \in 1..c-1 : f[o].certs[d].role = f[o].certs[c].role}),
                         o - 1, f[o].certs[c].role),
     name |-> f[o].name,
     ca   |-> f[o].certs[c].ca]]])

\* The length of the certificate always takes two bytes.
SerializeCertificate(name, ca) ==
  <<10, Uint8(Len(name))>> \o name
    \o <<18, (Len(ca) % 128) + 128, Uint8(Len(ca) \div 128)>> \o ca

GetCertificateId(identity) == IF identity \in DOMAIN cache THEN cache[identity] ELSE -1

\* A certificate with id 0 is not noticed when it is inserted again.
Overwritten(id, sk) == GetCertificateId(sk) > 0
Rejected(id, sk) == id \in DOMAIN idCache \/ GetCertificateId(sk) > 0
InsertCertificate(id, sk) ==
  IF Rejected(id, sk) THEN UNCHANGED caches
  ELSE /\ cache' = [k \in DOMAIN cache \union {sk} |-> IF k = sk THEN id ELSE cache[k]]
       /\ idCache' = [i \in DOMAIN idCache \union {id} |-> IF i = id THEN sk ELSE idCache[i]]

Readable(e) == e.ca # <<>>
InstallCertificateFile ==
  /\ pc = "install"
  /\ todo # <<>>
  /\ LET e == Head(todo)
     IN  IF Readable(e) THEN InsertCertificate(e.id, SerializeCertificate(e.name, e.ca))
         ELSE UNCHANGED caches
  /\ todo' = Tail(todo)
  /\ UNCHANGED <<file, pc, updates, block, packets>>

-----------------------------------------------------------------------------
(* Annotations.                                                            *)

Annotation(type, offset, desc) ==
  [type |-> type, offset |-> Uint16(offset), desc |-> Uint16(desc)]
NoAnnotation == Annotation("none", 0, 0)
Locators == {"TRANSACTION", "BLOCKMETADATA", "CREATER_CA", "TX_CA", "ENDORSER_CA",
             "ORDERER_CA", "CACHE_DATA"}

BlockHeaderAnnotations == <<"BLOCKHEADER", "TRANSACTION", "BLOCKMETADATA", "BLOCK_ID">>
TransactionAnnotations ==
  <<[type |-> "TX_START",        path |-> <<1, 2>>],
    [type |-> "CHAINCODE_NAME",  path |-> <<1, 1, 1, 1, 7, 2, 2>>],
    [type |-> "CREATER_CA",      path |-> <<1, 1, 1, 2, 1>>],
    [type |-> "TX_ACTION",       path |-> <<1, 1, 2, 1>>],
    [type |-> "TX_CA",           path |-> <<1, 1, 2, 1, 1, 1>>],
    [type |-> "ENDORSER_ACTION", path |-> <<1, 1, 2, 1, 2, 1>>],
    [type |-> "RW_SET",          path |-> <<1, 1, 2, 1, 2, 2, 1, 2, 1>>]>>
EndorserPath == <<1, 1, 2, 1, 2, 2, 2>>
TxSigAnnotation == <<[type |-> "TX_SIG", path |-> <<1, 2>>]>>
MetadataAnnotations ==
  <<[type |-> "ORDERER_CA",  path |-> <<3, 1, 2, 1, 1>>],
    [type |-> "ORDERER_SIG", path |-> <<3, 1, 2, 2>>]>>

\* One annotation for each entry of a list, relative to the start of the message.
GenerateAnnotations(list, data, pos, len) ==
  [i \in DOMAIN list |->
     LET at == ProtoGetFieldPos(data, pos, len, list[i].path)
     IN  Annotation(list[i].type, at.pos - pos, at.len)]

\* The varint after the tag of the block's number, in which data starts.
GenerateBlockAnnotation(len, txs, data) ==
  LET header == ProtoGetFieldLength(data, 0)
      number == ProtoGetFieldPos(data, 0, header.len, <<1>>).pos + 1
      last   == CHOOSE p \in number..63 :
                  data[p + 1] < 128 /\ \A q \in number..p-1 : data[q + 1] >= 128
  IN  [i \in DOMAIN BlockHeaderAnnotations |->
         LET type == BlockHeaderAnnotations[i]
         IN  CASE type = "BLOCKHEADER"   -> Annotation(type, 0, len)
               [] type = "TRANSACTION"   -> Annotation(type, Len(txs), 0)
               [] type = "BLOCKMETADATA" -> Annotation(type, 1, 0)
               [] type = "BLOCK_ID"      -> Annotation(type, number, last - number + 1)]

\* The certificates of the endorsements from pos on, to their end or the eighth.
EndorserCAs(data, base, pos, end) ==
  LET read[i \in 0..MAX_ENDORSER_NUM] ==
        LET before == read[i - 1]
            ca     == ProtoGetFieldLength(data, before.pos)
            sig    == ProtoGetFieldLength(data, ca.pos + ca.len)
            next   == sig.pos + sig.len
        IN  IF i = 0 THEN [list |-> <<>>, pos |-> pos, all |-> FALSE]
            ELSE IF before.all THEN before
            ELSE [list |-> Append(before.list, Annotation("ENDORSER_CA", ca.pos - base, ca.len)),
                  pos  |-> ProtoGetFieldLength(data, next).pos,
                  all  |-> next >= end]
  IN  read[MAX_ENDORSER_NUM]

\* The number of endorsers goes into the annotation before their certificates; the
\* loop that did not see the end of the endorsements is one too far for that.
GenerateTransactionAnnotation(pos, len, data) ==
  LET first == ProtoGetFieldPos(data, pos, len, EndorserPath)
      outer == ProtoGetFieldPos(data, pos, len, Front(EndorserPath))
      before == Append(GenerateAnnotations(TransactionAnnotations, data, pos, len),
                       Annotation("ENDORSER", first.pos - pos - 3, first.len))
      cas == EndorserCAs(data, pos, first.pos, outer.pos + outer.len)
      n == Len(cas.list)
      count == IF cas.all THEN n ELSE n + 1
  IN  [before EXCEPT ![Len(before) + n - count].desc = count]
        \o cas.list \o [i \in 1..MAX_ENDORSER_NUM - n |-> NoAnnotation]
        \o GenerateAnnotations(TxSigAnnotation, data, pos, len)

GenerateBlockMetaAnnotation(pos, len, data) ==
  GenerateAnnotations(MetadataAnnotations, data, pos, len)

\* The loop is over the list for block headers: no annotation is ever made.
GenerateCertificateUpdateAnnotation(id, sk) ==
  [i \in 1..3 |-> IF BlockHeaderAnnotations[i] = "CACHE_DATA"
                  THEN Annotation("CACHE_DATA", id, Len(sk)) ELSE NoAnnotation]

-----------------------------------------------------------------------------
(* adjustDataBasedOnLocator, one annotation after the other: out is the    *)
(* payload so far, start the position up to which data has been dealt with.*)

OffsetKept(acc, a) == a.offset
CorrectedOffset(acc, a) == Uint16(a.offset - acc.removed)
CertificateKept(pos, a) == pos + a.offset
NextStart(pos, a) == pos + a.offset + a.desc
AdjustOne(data, pos, acc, a) ==
  CASE a.type = "none" -> [acc EXCEPT !.list = Append(@, a)]
    [] a.type \in Locators ->
         LET from == pos + a.offset
             id == GetCertificateId(Slice(data, from, pos + Uint16(a.offset + a.desc)))
         IN  [out     |-> acc.out \o Slice(data, acc.start, from),
              start   |-> NextStart(pos, a),
              removed |-> acc.removed + a.desc,
              list    |-> Append(acc.list, [a EXCEPT !.offset = CorrectedOffset(acc, a),
                                                     !.desc = Uint16(id)])]
    [] OTHER -> [acc EXCEPT !.list = Append(@, [a EXCEPT !.offset = CorrectedOffset(acc, a)])]

AdjustDataBasedOnLocator(data, pos, len, annotations) ==
  LET end == FoldUp(LAMBDA acc, a : AdjustOne(data, pos, acc, a),
                    [out |-> <<>>, start |-> pos, removed |-> 0, list |-> <<>>], annotations)
  IN  [annotations |-> end.list, payload |-> end.out \o Slice(data, end.start, pos + len)]

-----------------------------------------------------------------------------
(* Packets.                                                                *)

CacheUpdate(id, sk) ==
  [annotations |-> GenerateCertificateUpdateAnnotation(id, sk), payload |-> sk]
SendBlockHeader(data, len, txs) ==
  [annotations |-> GenerateBlockAnnotation(len, txs, data), payload |-> Slice(data, 0, len)]
SendTransaction(data, pos, len) ==
  AdjustDataBasedOnLocator(data, pos, len, GenerateTransactionAnnotation(pos, len, data))
SendBlockMeta(data, pos, len) ==
  AdjustDataBasedOnLocator(data, pos, len, GenerateBlockMetaAnnotation(pos, len, data))

\* The transactions of a block, from pos on.
Transactions(data, pos, end) ==
  LET from[p \in Nat] ==
        LET f    == ProtoGetFieldLength(data, p)
            next == f.pos + f.len
        IN  IF p >= end THEN <<>> ELSE <<[pos |-> p, len |-> next - p]>> \o from[next]
  IN  from[pos]

BlockPackets(data) ==
  LET header == ProtoGetFieldLength(data, 0)
      body   == ProtoGetFieldLength(data, header.pos + header.len)
      end    == body.pos + body.len
      meta   == ProtoGetFieldLength(data, end)
      txs    == Transactions(data, body.pos, end)
  IN  <<SendBlockHeader(data, body.pos, txs)>>
        \o [i \in DOMAIN txs |-> SendTransaction(data, txs[i].pos, txs[i].len)]
        \o <<SendBlockMeta(data, end, meta.pos + meta.len - end)>>

\* Before the first block every certificate is sent, in any order.
UpdateRemoteCertificateCache ==
  /\ pc = "install"
  /\ todo = <<>>
  /\ updates' = {CacheUpdate(cache[sk], sk) : sk \in DOMAIN cache}
  /\ pc' = "send"
  /\ UNCHANGED <<file, todo, caches, block, packets>>

SendBlock(b) ==
  /\ pc = "send"
  /\ block' = b
  /\ packets' = BlockPackets(Marshal(b))
  /\ pc' = "sent"
  /\ UNCHANGED <<file, todo, caches, updates>>

-----------------------------------------------------------------------------
Init ==
  /\ file \in Files
  /\ todo = LoadIdentityTable(file)
  /\ cache = <<>> /\ idCache = <<>>
  /\ pc = "install"
  /\ updates = {}
  /\ block = CHOOSE b \in Blocks : TRUE
  /\ packets = <<>>

Next ==
  \/ InstallCertificateFile
  \/ UpdateRemoteCertificateCache
  \/ \E b \in Blocks : SendBlock(b)

Spec == Init /\ [][Next]_vars

-----------------------------------------------------------------------------
(* Properties.                                                             *)

\* An id stands for one identity and an identity for one id, in both caches, and every
\* certificate of the file that can be read has one. Two exceptions: a certificate with
\* id 0 that is listed again keeps that id as a second one; and from the seventeenth
\* organisation on, ids collide and certificates are left out.
CachesAgree ==
  /\ \A sk \in DOMAIN cache : cache[sk] \in DOMAIN idCache /\ idCache[cache[sk]] = sk
  /\ \A id \in DOMAIN idCache \ {0} : cache[idCache[id]] = id
  /\ todo = <<>> /\ Len(file) <= 16 =>
       \A i \in DOMAIN LoadIdentityTable(file) :
         LET e == LoadIdentityTable(file)[i]
         IN  Readable(e) => SerializeCertificate(e.name, e.ca) \in DOMAIN cache

\* The card: it puts the certificates back where the locators say.
ExpandOne(acc, a) ==
  LET at == a.offset + acc.grown
  IN  IF a.type \notin Locators THEN acc
      ELSE [bytes |-> Slice(acc.bytes, 0, at) \o idCache[a.desc]
                        \o Slice(acc.bytes, at, Len(acc.bytes)),
            grown |-> acc.grown + Len(idCache[a.desc])]
Expand(packet) ==
  FoldUp(ExpandOne, [bytes |-> packet.payload, grown |-> 0], packet.annotations).bytes

\* A transaction or the metadata fits if sixteen bits are enough for every position.
Positions == 0..65535
FitsTransaction(t) == Len(Field(1, Envelope(t))) \in Positions
FitsMetadata(b) == Len(Field(3, Metadata(b))) \in Positions
Fits(b) == (\A t \in Range(b.txs) : FitsTransaction(t)) /\ FitsMetadata(b)

\* In a file without collisions there are at most sixteen organisations, each with at
\* most 256 certificates for a role.
NoCollision == Len(file) <= 16 /\ \A e \in Range(LoadIdentityTable(file)) : e.id \in Positions

\* Certificates whose identities the cache knows are those of the file whose length
\* takes two bytes and that of their name one, with the name their organisation has on
\* the channel.
Certificates(b) ==
  {b.orderer} \union UNION {{t.creator} \union Range(t.endorsers) : t \in Range(b.txs)}
TwoBytes == 128..16383
Known(c) ==
  /\ Len(c.ca) \in TwoBytes /\ Len(c.name) < 128
  /\ \E i \in DOMAIN LoadIdentityTable(file) :
       LoadIdentityTable(file)[i].name = c.name /\ LoadIdentityTable(file)[i].ca = c.ca

\* From the packets of a block and the caches' ids the card can put the block together
\* again, byte by byte, whatever the numbers and sizes of what is in it, if it fits and
\* every certificate is known; and a certificate that a packet leaves out has been sent
\* before. (An unknown one is left out all the same, and lost.)
RebuildsBlock ==
  pc = "sent" /\ NoCollision /\ Fits(block) /\ (\A c \in Certificates(block) : Known(c)) =>
    /\ packets[1].payload \o FlattenSeq([i \in 1..Len(packets)-1 |-> Expand(packets[i + 1])])
         = Marshal(block)
    /\ \A c \in Certificates(block) : \E u \in updates : u.payload = Identity(c.name, c.ca)

\* The field an annotation with a name is for.
FieldOf(b, i, type) ==
  CASE type = "BLOCK_ID"       -> Varint(b.number)
    [] type = "CHAINCODE_NAME" -> b.txs[i - 1].chaincode
    [] type = "RW_SET"         -> b.txs[i - 1].results
    [] type = "TX_SIG"         -> b.txs[i - 1].signature
    [] type = "ORDERER_SIG"    -> b.signature

\* What an annotation says of a field is where the card finds it in the packet, from
\* which certificates have been cut, known or not; and the number of endorsers is
\* right, in all that fits. But with more than eight endorsers that number is written
\* over the length of the read-write set instead.
Named == {"BLOCK_ID", "CHAINCODE_NAME", "RW_SET", "TX_SIG", "ORDERER_SIG"}
AnnotationsHit ==
  Fits(block) => \A i \in DOMAIN packets : \A a \in Range(packets[i].annotations) :
    LET endorsers == IF i \in 2..Len(packets)-1 THEN Len(block.txs[i - 1].endorsers) ELSE 0
    IN  /\ a.type \in Named =>
             \/ a.type = "RW_SET" /\ endorsers > MAX_ENDORSER_NUM
             \/ /\ a.offset + a.desc <= Len(packets[i].payload)
                /\ Slice(packets[i].payload, a.offset, a.offset + a.desc) = FieldOf(block, i, a.type)
        /\ a.type = "ENDORSER" => a.desc = endorsers \/ endorsers > MAX_ENDORSER_NUM
=============================================================================
