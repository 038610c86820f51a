------------------------- MODULE CardPacketsProofs -------------------------
(***************************************************************************)
(* What the orderer sends to the card, for any configuration file and any  *)
(* block, of any number of transactions and fields of any size.            *)
(*                                                                         *)
(* The caches: an id stands for one identity and an identity for one id.   *)
(* The ids of a file with up to sixteen organisations are distinct, since  *)
(* the fields of an id do not overlap and certificates of one role are     *)
(* numbered.                                                               *)
(*                                                                         *)
(* The packets: the parsers of sproto.go read what protobuf encodes, so    *)
(* that the annotations say where the fields are; cutting the certificates *)
(* out moves each field by what was cut before it, and the ids left in     *)
(* their place tell the card what to put back; and the packets of a block  *)
(* are those of its parts. The functions of the model that recurse over    *)
(* bytes or annotations are followed step by step: a search as far as the  *)
(* field it finds, a number from its first byte on.                        *)
(***************************************************************************)
EXTENDS CardPackets, RecursiveFunctions, SequenceTheorems, FiniteSetTheorems, TLAPS

-----------------------------------------------------------------------------
(* The entries of the identity table.                                      *)

Byte == 0..255
Cert == [role : 0..3, ca : Seq(Byte)]
Organisation == [name : Seq(Byte), certs : Seq(Cert)]
IdEntry == [id : Nat, name : Seq(Byte), ca : Seq(Byte)]

\* The number of a certificate among those of its role, and the entry it gets.
UserId(org, c) == Cardinality({d \in 1..c-1 : org.certs[d].role = org.certs[c].role})
EntryOf(f, o, c) ==
  [id   |-> GenerateId(UserId(f[o], c), o - 1, f[o].certs[c].role),
   name |-> f[o].name,
   ca   |-> f[o].certs[c].ca]
EntriesOf(f, o) == [c \in DOMAIN f[o].certs |-> EntryOf(f, o, c)]

\* The table is made of these entries.
LEMMA TableOfEntries ==
  ASSUME NEW f
  PROVE  LoadIdentityTable(f) = FlattenSeq([o \in DOMAIN f |-> EntriesOf(f, o)])
BY DEF LoadIdentityTable, EntriesOf, EntryOf, UserId

\* A file is a sequence of organisations with sequences of certificates.
LEMMA FileShape ==
  ASSUME NEW f \in Seq(Organisation)
  PROVE  /\ Len(f) \in Nat /\ DOMAIN f = 1..Len(f)
         /\ \A o \in 1..Len(f) :
              /\ f[o] \in Organisation
              /\ f[o].certs \in Seq(Cert)
              /\ Len(f[o].certs) \in Nat /\ DOMAIN f[o].certs = 1..Len(f[o].certs)
              /\ \A c \in 1..Len(f[o].certs) : f[o].certs[c] \in Cert
<1>1. Len(f) \in Nat /\ DOMAIN f = 1..Len(f) /\ \A o \in 1..Len(f) : f[o] \in Organisation
  OBVIOUS
<1>2. ASSUME NEW o \in 1..Len(f)
      PROVE  f[o].certs \in Seq(Cert)
  BY <1>1 DEF Organisation
<1>3. ASSUME NEW o \in 1..Len(f)
      PROVE  /\ Len(f[o].certs) \in Nat /\ DOMAIN f[o].certs = 1..Len(f[o].certs)
             /\ \A c \in 1..Len(f[o].certs) : f[o].certs[c] \in Cert
  BY <1>2
<1> QED BY <1>1, <1>2, <1>3

\* The numbers are natural, and of two certificates of one role the later one's is higher.
LEMMA UserIds ==
  ASSUME NEW f \in Seq(Organisation), NEW o \in 1..Len(f), NEW c \in 1..Len(f[o].certs)
  PROVE  /\ UserId(f[o], c) \in Nat
         /\ \A b \in 1..(c - 1) :
              f[o].certs[b].role = f[o].certs[c].role => UserId(f[o], b) < UserId(f[o], c)
<1> DEFINE Same(d) == {e \in 1..d-1 : f[o].certs[e].role = f[o].certs[d].role}
<1>1. Len(f[o].certs) \in Nat
  BY FileShape
<1>2. ASSUME NEW d \in 1..Len(f[o].certs)
      PROVE  IsFiniteSet(Same(d)) /\ Cardinality(Same(d)) \in Nat
  <2>1. IsFiniteSet(1..d-1)
    BY <1>1, FS_Interval
  <2>2. IsFiniteSet(Same(d))
    BY <2>1, FS_Subset
  <2> HIDE DEF Same
  <2> QED BY <2>2, FS_CardinalityType
<1>3. ASSUME NEW b \in 1..(c - 1), f[o].certs[b].role = f[o].certs[c].role
      PROVE  Cardinality(Same(b)) < Cardinality(Same(c))
  <2>1. b \in 1..Len(f[o].certs)
    BY <1>1
  <2>2. Same(b) \subseteq Same(c)
    BY <1>1, <1>3
  <2>3. b \in Same(c) /\ b \notin Same(b)
    BY <1>1, <1>3
  <2>4. IsFiniteSet(Same(c)) /\ Cardinality(Same(c)) \in Nat /\ Cardinality(Same(b)) \in Nat
    BY <1>2, <2>1
  <2> HIDE DEF Same
  <2> QED BY <2>2, <2>3, <2>4, FS_Subset
<1> QED BY <1>2, <1>3 DEF UserId

\* An id tells role, organisation and number apart, if there are at most sixteen
\* organisations.
LEMMA IdsApart ==
  ASSUME NEW u \in Nat, NEW v \in Nat, NEW o \in 0..15, NEW p \in 0..15,
         NEW r \in 0..3, NEW s \in 0..3, GenerateId(u, o, r) = GenerateId(v, p, s)
  PROVE  u = v /\ o = p /\ r = s
BY Z3 DEF GenerateId

\* The entries of one organisation have their type and, with at most sixteen
\* organisations, ids of their own.
LEMMA EntriesOfOrganisation ==
  ASSUME NEW f \in Seq(Organisation), NEW o \in 1..Len(f)
  PROVE  /\ EntriesOf(f, o) \in Seq(IdEntry)
         /\ Len(EntriesOf(f, o)) = Len(f[o].certs)
         /\ \A c \in 1..Len(f[o].certs) : EntriesOf(f, o)[c] = EntryOf(f, o, c)
<1>1. /\ f[o] \in Organisation /\ f[o].certs \in Seq(Cert) /\ Len(f[o].certs) \in Nat
      /\ DOMAIN f[o].certs = 1..Len(f[o].certs) /\ Len(f) \in Nat
      /\ \A c \in 1..Len(f[o].certs) : f[o].certs[c] \in Cert
  BY FileShape
<1>2. ASSUME NEW c \in 1..Len(f[o].certs)
      PROVE  EntryOf(f, o, c) \in IdEntry
  <2>1. UserId(f[o], c) \in Nat
    BY UserIds
  <2>2. f[o].certs[c].role \in 0..3 /\ f[o].certs[c].ca \in Seq(Byte) /\ f[o].name \in Seq(Byte)
    BY <1>1 DEF Cert, Organisation
  <2>3. GenerateId(UserId(f[o], c), o - 1, f[o].certs[c].role) \in Nat
    <3> DEFINE u == UserId(f[o], c)
               r == f[o].certs[c].role
    <3>1. u \in Nat /\ r \in 0..3 /\ o - 1 \in Nat
      BY <1>1, <2>1, <2>2
    <3> HIDE DEF u, r
    <3>2. GenerateId(u, o - 1, r) \in Nat
      BY <3>1 DEF GenerateId
    <3> QED BY <3>2 DEF u, r
  <2> QED BY <2>2, <2>3 DEF EntryOf, IdEntry
<1>3. EntriesOf(f, o) \in [1..Len(f[o].certs) -> IdEntry]
  BY <1>1, <1>2 DEF EntriesOf
<1>4. \A c \in 1..Len(f[o].certs) : EntriesOf(f, o)[c] = EntryOf(f, o, c)
  BY <1>1 DEF EntriesOf
<1> HIDE DEF IdEntry
<1>5. EntriesOf(f, o) \in Seq(IdEntry) /\ Len(EntriesOf(f, o)) = Len(f[o].certs)
  <2> DEFINE e == EntriesOf(f, o)
             n == Len(f[o].certs)
  <2>1. e \in [1..n -> IdEntry] /\ n \in Nat
    BY <1>1, <1>3
  <2> HIDE DEF e, n
  <2>2. e \in Seq(IdEntry) /\ Len(e) = n
    BY <2>1
  <2> QED BY <2>2 DEF e, n
<1> QED BY <1>4, <1>5

-----------------------------------------------------------------------------
(* Sequences one after the other.                                          *)

\* FlattenSeq appends one sequence after the other.
LEMMA FlattenSteps ==
  ASSUME NEW S, NEW seqs \in Seq(Seq(S)), Len(seqs) > 0
  PROVE  \E g : /\ g \in [1..Len(seqs) -> Seq(S)]
                /\ g[1] = seqs[1]
                /\ \A i \in 2..Len(seqs) : g[i] = g[i - 1] \o seqs[i]
                /\ FlattenSeq(seqs) = g[Len(seqs)]
<1> DEFINE n == Len(seqs)
           Unfolds(g) == g = [i \in 1..n |-> IF i = 1 THEN seqs[i] ELSE g[i - 1] \o seqs[i]]
           G == [i \in 1..(n - 1) |-> [s \in Seq(S) |-> s \o seqs[i + 1]]]
<1>1. n \in Nat /\ n > 0 /\ \A i \in 1..n : seqs[i] \in Seq(S)
  OBVIOUS
<1>2. \E f : Recursion(f, n - 1, Seq(S), seqs[1], G)
  <2>1. G \in Steps(n - 1, Seq(S))
    <3>1. \A i \in 1..(n - 1) : \A s \in Seq(S) : s \o seqs[i + 1] \in Seq(S)
      <4> SUFFICES ASSUME NEW i \in 1..(n - 1), NEW s \in Seq(S)
                   PROVE  s \o seqs[i + 1] \in Seq(S)
        OBVIOUS
      <4>1. seqs[i + 1] \in Seq(S)
        BY <1>1
      <4> QED BY <4>1
    <3> QED BY <3>1 DEF Steps
  <2>2. n - 1 \in Nat /\ seqs[1] \in Seq(S)
    BY <1>1
  <2> HIDE DEF G, n
  <2> QED BY <2>1, <2>2, RecursionExists
<1>3. PICK f : Recursion(f, n - 1, Seq(S), seqs[1], G)
  BY <1>2
<1> DEFINE h == [i \in 1..n |-> f[i - 1]]
<1>4. f \in [0..(n - 1) -> Seq(S)] /\ f[0] = seqs[1] /\ \A i \in 1..(n - 1) : f[i] = G[i][f[i - 1]]
  BY <1>3 DEF Recursion
<1>5. \A i \in 1..(n - 1) : f[i] = f[i - 1] \o seqs[i + 1]
  <2> TAKE i \in 1..(n - 1)
  <2>1. i - 1 \in 0..(n - 1)
    BY <1>1
  <2>2. f[i - 1] \in Seq(S)
    BY <1>4, <2>1
  <2> QED BY <1>4, <2>2
<1>6. \A i \in 2..n : h[i] = h[i - 1] \o seqs[i]
  <2> TAKE i \in 2..n
  <2>1. i - 1 \in 1..(n - 1) /\ i \in 1..n /\ i - 1 \in 1..n /\ (i - 1) + 1 = i /\ (i - 1) - 1 = i - 2
    BY <1>1
  <2>2. f[i - 1] = f[i - 2] \o seqs[i]
    BY <1>5, <2>1
  <2> QED BY <2>1, <2>2
<1>7. h \in [1..n -> Seq(S)] /\ h[1] = seqs[1]
  BY <1>1, <1>4
<1> HIDE DEF h, G
<1>8. Unfolds(h)
  <2>1. h = [i \in 1..n |-> h[i]]
    BY <1>7
  <2>2. \A i \in 1..n : h[i] = IF i = 1 THEN seqs[i] ELSE h[i - 1] \o seqs[i]
    <3> TAKE i \in 1..n
    <3>1. i = 1 \/ i \in 2..n
      BY <1>1
    <3> QED BY <1>6, <1>7, <3>1
  <2> QED BY <2>1, <2>2, Zenon
<1>9. ASSUME NEW g, Unfolds(g)
      PROVE  g \in [1..n -> Seq(S)] /\ g[1] = seqs[1] /\ \A i \in 2..n : g[i] = g[i - 1] \o seqs[i]
  <2>1. \A i \in 1..n : g[i] = IF i = 1 THEN seqs[i] ELSE g[i - 1] \o seqs[i]
    BY <1>9
  <2>2. g[1] = seqs[1]
    BY <1>1, <2>1
  <2>3. \A i \in 2..n : g[i] = g[i - 1] \o seqs[i]
    <3> TAKE i \in 2..n
    <3>1. i \in 1..n /\ i # 1
      BY <1>1
    <3> QED BY <2>1, <3>1
  <2>4. \A i \in 0..n : i = 0 \/ g[i] \in Seq(S)
    <3> DEFINE T == {i \in 0..n : i = 0 \/ g[i] \in Seq(S)}
    <3>1. 0 \in T
      BY <1>1
    <3>2. ASSUME NEW i \in 1..n, i - 1 \in T
          PROVE  i \in T
      <4>1. CASE i = 1
        BY <1>1, <2>2, <4>1
      <4>2. CASE i \in 2..n
        <5>1. g[i - 1] \in Seq(S) /\ seqs[i] \in Seq(S)
          BY <1>1, <3>2, <4>2
        <5>2. g[i - 1] \o seqs[i] \in Seq(S)
          BY <5>1
        <5>3. g[i] = g[i - 1] \o seqs[i]
          BY <2>3, <4>2
        <5>4. g[i] \in Seq(S)
          BY <5>2, <5>3
        <5> QED BY <5>4
      <4> QED BY <1>1, <4>1, <4>2
    <3> HIDE DEF T
    <3>3. \A i \in 0..n : i \in T
      BY <1>1, <3>1, <3>2, IntervalInduction
    <3> QED BY <3>3 DEF T
  <2>5. \A i \in 1..n : g[i] \in Seq(S)
    BY <1>1, <2>4
  <2>6. g = [i \in 1..n |-> g[i]]
    BY <1>9
  <2>7. g \in [1..n -> Seq(S)]
    BY <2>5, <2>6
  <2> QED BY <2>2, <2>3, <2>7
<1>10. Unfolds(CHOOSE g : Unfolds(g))
  <2> HIDE DEF Unfolds
  <2> QED BY <1>8
<1> DEFINE flat == CHOOSE g : Unfolds(g)
<1>11. FlattenSeq(seqs) = flat[n]
  BY <1>1 DEF FlattenSeq
<1>12. flat \in [1..n -> Seq(S)] /\ flat[1] = seqs[1] /\ \A i \in 2..n : flat[i] = flat[i - 1] \o seqs[i]
  <2> HIDE DEF Unfolds
  <2>1. Unfolds(flat)
    BY <1>10
  <2> HIDE DEF flat
  <2> QED BY <1>9, <2>1
<1> HIDE DEF flat
<1> QED BY <1>11, <1>12

-----------------------------------------------------------------------------
(* Ids of a table.                                                         *)

\* No two entries with one id; every entry is that of a certificate of the first m
\* organisations.
Distinct(s) == \A i, j \in 1..Len(s) : i # j => s[i].id # s[j].id
MadeOf(f, m, s) ==
  \A i \in 1..Len(s) : \E o \in 1..m : \E c \in 1..Len(f[o].certs) : s[i] = EntryOf(f, o, c)

\* With at most sixteen organisations an id belongs to one certificate of the file.
LEMMA EntriesApart ==
  ASSUME NEW f \in Seq(Organisation), Len(f) <= 16,
         NEW o \in 1..Len(f), NEW c \in 1..Len(f[o].certs),
         NEW p \in 1..Len(f), NEW d \in 1..Len(f[p].certs),
         EntryOf(f, o, c).id = EntryOf(f, p, d).id
  PROVE  o = p /\ c = d
<1> DEFINE u == UserId(f[o], c)
           v == UserId(f[p], d)
           r == f[o].certs[c].role
           s == f[p].certs[d].role
<1>1. u \in Nat /\ v \in Nat
  BY UserIds
<1>2. Len(f) \in Nat /\ Len(f[o].certs) \in Nat /\ Len(f[p].certs) \in Nat
  BY FileShape
<1>3. r \in 0..3 /\ s \in 0..3
  <2>1. f[o].certs[c] \in Cert /\ f[p].certs[d] \in Cert
    BY FileShape
  <2> QED BY <2>1 DEF Cert
<1>4. GenerateId(u, o - 1, r) = GenerateId(v, p - 1, s)
  BY DEF EntryOf
<1>5. o - 1 \in 0..15 /\ p - 1 \in 0..15
  BY <1>2
<1>6. u = v /\ o - 1 = p - 1 /\ r = s
  <2> DEFINE a == o - 1
             b == p - 1
  <2>1. a \in 0..15 /\ b \in 0..15 /\ GenerateId(u, a, r) = GenerateId(v, b, s)
    BY <1>4, <1>5
  <2> HIDE DEF u, v, r, s, a, b
  <2>2. u = v /\ a = b /\ r = s
    BY <1>1, <1>3, <2>1, Z3 DEF GenerateId
  <2> QED BY <2>2 DEF a, b
<1>7. o = p
  BY <1>2, <1>6
<1>8. ~(c < d)
  <2> SUFFICES ASSUME c < d PROVE FALSE
    OBVIOUS
  <2>1. c \in 1..(d - 1) /\ f[p].certs[c].role = f[p].certs[d].role
    BY <1>2, <1>6, <1>7
  <2>2. UserId(f[p], c) < UserId(f[p], d)
    BY <2>1, UserIds
  <2> QED BY <1>1, <1>6, <1>7, <2>2
<1>9. ~(d < c)
  <2> SUFFICES ASSUME d < c PROVE FALSE
    OBVIOUS
  <2>1. d \in 1..(c - 1) /\ f[o].certs[d].role = f[o].certs[c].role
    BY <1>2, <1>6, <1>7
  <2>2. UserId(f[o], d) < UserId(f[o], c)
    BY <2>1, UserIds
  <2> QED BY <1>1, <1>6, <1>7, <2>2
<1> QED BY <1>2, <1>7, <1>8, <1>9

\* The entries of one more organisation have new ids.
LEMMA OneMoreOrganisation ==
  ASSUME NEW f \in Seq(Organisation), NEW m \in 1..Len(f), NEW s \in Seq(IdEntry),
         MadeOf(f, m - 1, s), Len(f) <= 16 => Distinct(s)
  PROVE  /\ MadeOf(f, m, s \o EntriesOf(f, m))
         /\ Len(f) <= 16 => Distinct(s \o EntriesOf(f, m))
<1> DEFINE t == EntriesOf(f, m)
<1>1. /\ t \in Seq(IdEntry) /\ Len(t) = Len(f[m].certs) /\ Len(t) \in Nat
      /\ \A c \in 1..Len(t) : t[c] = EntryOf(f, m, c)
  BY EntriesOfOrganisation, FileShape
<1>2. Len(f) \in Nat /\ Len(s) \in Nat
  BY FileShape, LenProperties
<1> HIDE DEF t, IdEntry
<1>3. /\ Len(s \o t) = Len(s) + Len(t)
      /\ \A i \in 1..Len(s) + Len(t) : (s \o t)[i] = IF i <= Len(s) THEN s[i] ELSE t[i - Len(s)]
  BY <1>1, ConcatProperties
<1>4. \A i \in 1..Len(s \o t) : \/ i \in 1..Len(s) /\ (s \o t)[i] = s[i]
                                \/ i - Len(s) \in 1..Len(t) /\ (s \o t)[i] = t[i - Len(s)]
  <2> TAKE i \in 1..Len(s \o t)
  <2>1. i \in 1..Len(s) + Len(t)
    BY <1>3
  <2>2. i \in 1..Len(s) \/ (i - Len(s) \in 1..Len(t) /\ ~(i <= Len(s)))
    BY <1>1, <1>2, <2>1
  <2>3. i \in 1..Len(s) => i <= Len(s)
    BY <1>2
  <2> QED BY <1>3, <2>1, <2>2, <2>3, Zenon
<1>5. MadeOf(f, m, s \o t)
  <2> SUFFICES ASSUME NEW i \in 1..Len(s \o t)
               PROVE  \E o \in 1..m : \E c \in 1..Len(f[o].certs) : (s \o t)[i] = EntryOf(f, o, c)
    BY DEF MadeOf
  <2>1. CASE i \in 1..Len(s) /\ (s \o t)[i] = s[i]
    <3>1. PICK o \in 1..(m - 1) : \E c \in 1..Len(f[o].certs) : s[i] = EntryOf(f, o, c)
      BY <2>1 DEF MadeOf
    <3>2. o \in 1..m
      BY <1>2
    <3> QED BY <2>1, <3>1, <3>2
  <2>2. CASE i - Len(s) \in 1..Len(t) /\ (s \o t)[i] = t[i - Len(s)]
    <3>1. (s \o t)[i] = EntryOf(f, m, i - Len(s)) /\ i - Len(s) \in 1..Len(f[m].certs)
      BY <1>1, <2>2
    <3>2. m \in 1..m
      BY <1>2
    <3> QED BY <3>1, <3>2
  <2> QED BY <1>4, <2>1, <2>2
<1>6. ASSUME Len(f) <= 16
      PROVE  Distinct(s \o t)
  <2>1. \A i, j \in 1..Len(t) : i # j => t[i].id # t[j].id
    <3> SUFFICES ASSUME NEW i \in 1..Len(t), NEW j \in 1..Len(t), t[i].id = t[j].id PROVE i = j
      OBVIOUS
    <3>1. i \in 1..Len(f[m].certs) /\ j \in 1..Len(f[m].certs)
          /\ EntryOf(f, m, i).id = EntryOf(f, m, j).id
      BY <1>1
    <3> QED BY <1>6, <3>1, EntriesApart
  <2>2. \A i \in 1..Len(s) : \A j \in 1..Len(t) : s[i].id # t[j].id
    <3> SUFFICES ASSUME NEW i \in 1..Len(s), NEW j \in 1..Len(t), s[i].id = t[j].id PROVE FALSE
      OBVIOUS
    <3>1. PICK o \in 1..(m - 1) : \E c \in 1..Len(f[o].certs) : s[i] = EntryOf(f, o, c)
      BY DEF MadeOf
    <3>2. PICK c \in 1..Len(f[o].certs) : s[i] = EntryOf(f, o, c)
      BY <3>1
    <3>3. o \in 1..Len(f) /\ o # m
      <4>1. \A n \in Nat : m \in 1..n => o \in 1..n /\ o # m
        OBVIOUS
      <4> QED BY <1>2, <4>1
    <3>4. j \in 1..Len(f[m].certs) /\ EntryOf(f, o, c).id = EntryOf(f, m, j).id
      BY <1>1, <3>2
    <3> QED BY <1>6, <3>3, <3>4, EntriesApart
  <2> SUFFICES ASSUME NEW i \in 1..Len(s \o t), NEW j \in 1..Len(s \o t), i # j
               PROVE  (s \o t)[i].id # (s \o t)[j].id
    BY DEF Distinct
  <2>3. CASE i \in 1..Len(s) /\ (s \o t)[i] = s[i]
    <3>1. CASE j \in 1..Len(s) /\ (s \o t)[j] = s[j]
      BY <1>6, <2>3, <3>1 DEF Distinct
    <3>2. CASE j - Len(s) \in 1..Len(t) /\ (s \o t)[j] = t[j - Len(s)]
      BY <2>2, <2>3, <3>2
    <3> QED BY <1>4, <3>1, <3>2
  <2>4. CASE i - Len(s) \in 1..Len(t) /\ (s \o t)[i] = t[i - Len(s)]
    <3>1. CASE j \in 1..Len(s) /\ (s \o t)[j] = s[j]
      BY <2>2, <2>4, <3>1
    <3>2. CASE j - Len(s) \in 1..Len(t) /\ (s \o t)[j] = t[j - Len(s)]
      <4>1. i - Len(s) # j - Len(s)
        BY <1>2, <1>3, <1>1
      <4> QED BY <2>1, <2>4, <3>2, <4>1
    <3> QED BY <1>4, <3>1, <3>2
  <2> QED BY <1>4, <2>3, <2>4
<1> QED BY <1>5, <1>6 DEF t

\* The table of a file, and its ids.
LEMMA TableIds ==
  ASSUME NEW f \in Seq(Organisation)
  PROVE  /\ LoadIdentityTable(f) \in Seq(IdEntry)
         /\ Len(f) <= 16 => Distinct(LoadIdentityTable(f))
<1> DEFINE n == Len(f)
           seqs == [o \in 1..n |-> EntriesOf(f, o)]
<1>1. n \in Nat /\ DOMAIN f = 1..n
  BY FileShape
<1>2. seqs \in Seq(Seq(IdEntry)) /\ Len(seqs) = n /\ \A o \in 1..n : seqs[o] = EntriesOf(f, o)
  <2>1. \A o \in 1..n : EntriesOf(f, o) \in Seq(IdEntry)
    BY EntriesOfOrganisation
  <2> HIDE DEF n, IdEntry
  <2> QED BY <1>1, <2>1
<1>3. LoadIdentityTable(f) = FlattenSeq(seqs)
  BY <1>1, TableOfEntries
<1>4. CASE n = 0
  <2>1. LoadIdentityTable(f) = <<>>
    BY <1>2, <1>3, <1>4 DEF FlattenSeq
  <2> QED BY <2>1 DEF Distinct
<1>5. CASE n # 0
  <2> HIDE DEF n, seqs, IdEntry
  <2>1. Len(seqs) > 0
    BY <1>1, <1>2, <1>5
  <2>2. PICK g : /\ g \in [1..Len(seqs) -> Seq(IdEntry)]
                 /\ g[1] = seqs[1]
                 /\ \A i \in 2..Len(seqs) : g[i] = g[i - 1] \o seqs[i]
                 /\ FlattenSeq(seqs) = g[Len(seqs)]
    BY <1>2, <2>1, FlattenSteps
  <2>3. \A i \in 1..n : g[i] \in Seq(IdEntry)
    BY <1>2, <2>2
  <2> DEFINE Good(m) == MadeOf(f, m, g[m]) /\ (Len(f) <= 16 => Distinct(g[m]))
             T == {m \in 0..n : m = 0 \/ Good(m)}
  <2>4. 0 \in T
    BY <1>1
  <2>5. ASSUME NEW m \in 1..n, m - 1 \in T
        PROVE  m \in T
    <3>1. m \in 1..Len(f)
      BY DEF n
    <3>2. CASE m = 1
      <4>1. g[1] = <<>> \o EntriesOf(f, 1)
        <5>1. EntriesOf(f, 1) \in Seq(IdEntry)
          BY <3>1, <3>2, EntriesOfOrganisation
        <5>2. g[1] = EntriesOf(f, 1)
          BY <1>2, <2>2, <3>2
        <5> QED BY <5>1, <5>2
      <4>2. <<>> \in Seq(IdEntry) /\ MadeOf(f, m - 1, <<>>) /\ Distinct(<<>>)
        BY DEF MadeOf, Distinct
      <4>3. MadeOf(f, m, <<>> \o EntriesOf(f, m))
            /\ (Len(f) <= 16 => Distinct(<<>> \o EntriesOf(f, m)))
        BY <3>1, <4>2, OneMoreOrganisation
      <4> QED BY <3>2, <4>1, <4>3
    <3>3. CASE m \in 2..n
      <4>1. m - 1 \in 1..n /\ m - 1 # 0
        BY <1>1, <3>3
      <4>2. g[m - 1] \in Seq(IdEntry) /\ Good(m - 1)
        BY <2>3, <2>5, <4>1
      <4>3. g[m] = g[m - 1] \o EntriesOf(f, m)
        BY <1>2, <2>2, <3>3
      <4>4. MadeOf(f, m, g[m - 1] \o EntriesOf(f, m))
            /\ (Len(f) <= 16 => Distinct(g[m - 1] \o EntriesOf(f, m)))
        BY <3>1, <4>2, OneMoreOrganisation
      <4>5. Good(m)
        BY <4>3, <4>4
      <4> QED BY <4>5
    <3> QED BY <1>1, <3>2, <3>3
  <2> HIDE DEF T
  <2>6. \A m \in 0..n : m \in T
    BY <1>1, <2>4, <2>5, IntervalInduction
  <2>7. Good(n)
    BY <1>1, <1>5, <2>6 DEF T
  <2>8. LoadIdentityTable(f) = g[n]
    BY <1>2, <1>3, <2>2
  <2> QED BY <1>1, <1>5, <2>3, <2>7, <2>8
<1> QED BY <1>4, <1>5

-----------------------------------------------------------------------------
(* The caches.                                                             *)

\* The caches while a table is installed: what is still to do is the end of the table,
\* the ids are those of the entries before it, and no readable one of these was left
\* out unless ids collide.
Table == LoadIdentityTable(file)
InstalledFrom(k) ==
  /\ todo = SubSeq(Table, k + 1, Len(Table))
  /\ \A id \in DOMAIN idCache : \E i \in 1..k : id = Table[i].id
  /\ Len(file) <= 16 =>
       \A i \in 1..k : Readable(Table[i]) =>
         SerializeCertificate(Table[i].name, Table[i].ca) \in DOMAIN cache

\* What each cache says of the other.
TwoWays ==
  /\ \A sk \in DOMAIN cache : cache[sk] \in DOMAIN idCache /\ idCache[cache[sk]] = sk
  /\ \A id \in DOMAIN idCache \ {0} :
       idCache[id] \in DOMAIN cache /\ cache[idCache[id]] = id

CacheInv ==
  /\ file \in Files
  /\ \E k \in 0..Len(Table) : InstalledFrom(k)
  /\ TwoWays

\* The table of the file.
LEMMA TableShape ==
  ASSUME file \in Files
  PROVE  /\ Table \in Seq(IdEntry) /\ Len(Table) \in Nat /\ DOMAIN Table = 1..Len(Table)
         /\ \A i \in 1..Len(Table) : Table[i].id \in Nat
         /\ Len(file) <= 16 => Distinct(Table)
<1>1. file \in Seq(Organisation)
  BY FilesAssumption DEF Organisation, Cert, Byte
<1>2. Table \in Seq(IdEntry) /\ (Len(file) <= 16 => Distinct(Table))
  BY <1>1, TableIds DEF Table
<1>3. Len(Table) \in Nat /\ DOMAIN Table = 1..Len(Table)
  BY <1>2, LenProperties
<1>4. \A i \in 1..Len(Table) : Table[i] \in IdEntry
  BY <1>2
<1> QED BY <1>2, <1>3, <1>4 DEF IdEntry

\* At first the caches are empty.
LEMMA InitCaches == Init => CacheInv
<1> SUFFICES ASSUME Init PROVE CacheInv
  OBVIOUS
<1>1. Table \in Seq(IdEntry) /\ Len(Table) \in Nat
  BY TableShape DEF Init
<1>2. todo = SubSeq(Table, 0 + 1, Len(Table))
  <2>1. SubSeq(Table, 1, Len(Table)) = Table
    <3> HIDE DEF Table, IdEntry
    <3> QED BY <1>1
  <2> QED BY <2>1 DEF Init, Table
<1>3. DOMAIN idCache = {} /\ DOMAIN cache = {}
  BY DEF Init
<1>4. InstalledFrom(0)
  BY <1>2, <1>3 DEF InstalledFrom
<1>5. TwoWays
  BY <1>3 DEF TwoWays
<1> QED BY <1>1, <1>4, <1>5 DEF Init, CacheInv

\* A certificate that is inserted gets an id that no other one has; an entry of the
\* other cache that it replaces is at most that of id 0.
LEMMA InsertTwoWays ==
  ASSUME TwoWays, \A i \in DOMAIN idCache : i \in Nat,
         NEW id \in Nat, NEW sk, InsertCertificate(id, sk)
  PROVE  /\ TwoWays'
         /\ DOMAIN cache \subseteq DOMAIN cache'
         /\ DOMAIN idCache' \subseteq DOMAIN idCache \union {id}
         /\ id \notin DOMAIN idCache => sk \in DOMAIN cache'
<1>1. CASE Rejected(id, sk)
  <2>1. cache' = cache /\ idCache' = idCache
    BY <1>1 DEF InsertCertificate, caches
  <2>2. id \notin DOMAIN idCache => sk \in DOMAIN cache
    BY <1>1 DEF Rejected, GetCertificateId
  <2>3. TwoWays'
    BY <2>1 DEF TwoWays
  <2> QED BY <2>1, <2>2, <2>3
<1>2. CASE ~Rejected(id, sk)
  <2>1. /\ cache' = [k \in DOMAIN cache \union {sk} |-> IF k = sk THEN id ELSE cache[k]]
        /\ idCache' = [i \in DOMAIN idCache \union {id} |-> IF i = id THEN sk ELSE idCache[i]]
    BY <1>2 DEF InsertCertificate
  <2>2. id \notin DOMAIN idCache /\ (sk \in DOMAIN cache => ~(cache[sk] > 0))
    BY <1>2 DEF Rejected, GetCertificateId
  <2>3. /\ DOMAIN cache' = DOMAIN cache \union {sk} /\ cache'[sk] = id
        /\ \A k \in DOMAIN cache : k # sk => cache'[k] = cache[k]
        /\ DOMAIN idCache' = DOMAIN idCache \union {id} /\ idCache'[id] = sk
        /\ \A i \in DOMAIN idCache : i # id => idCache'[i] = idCache[i]
    BY <2>1, Zenon
  <2>4. \A k \in DOMAIN cache' : cache'[k] \in DOMAIN idCache' /\ idCache'[cache'[k]] = k
    <3> TAKE k \in DOMAIN cache'
    <3>1. CASE k = sk
      BY <2>3, <3>1
    <3>2. CASE k # sk
      <4>1. k \in DOMAIN cache /\ cache'[k] = cache[k]
        BY <2>3, <3>2
      <4>2. cache[k] \in DOMAIN idCache /\ idCache[cache[k]] = k
        BY <4>1 DEF TwoWays
      <4> QED BY <2>2, <2>3, <4>1, <4>2
    <3> QED BY <3>1, <3>2
  <2>5. \A i \in DOMAIN idCache' \ {0} : idCache'[i] \in DOMAIN cache' /\ cache'[idCache'[i]] = i
    <3> TAKE i \in DOMAIN idCache' \ {0}
    <3>1. CASE i = id
      BY <2>3, <3>1
    <3>2. CASE i # id
      <4>1. i \in DOMAIN idCache \ {0} /\ idCache'[i] = idCache[i]
        BY <2>3, <3>2
      <4>2. idCache[i] \in DOMAIN cache /\ cache[idCache[i]] = i
        BY <4>1 DEF TwoWays
      <4>3. i \in Nat /\ i > 0
        <5>1. i \in Nat /\ i # 0
          BY <4>1
        <5> QED BY <5>1
      <4>4. idCache[i] # sk
        BY <2>2, <4>2, <4>3
      <4> QED BY <2>3, <4>1, <4>2, <4>4
    <3> QED BY <3>1, <3>2
  <2>6. TwoWays'
    BY <2>4, <2>5 DEF TwoWays
  <2> QED BY <2>3, <2>6
<1> QED BY <1>1, <1>2

\* One certificate after the other.
LEMMA InstallCaches ==
  ASSUME CacheInv, InstallCertificateFile
  PROVE  CacheInv'
<1>1. file \in Files /\ TwoWays /\ file' = file /\ Table' = Table
  BY DEF CacheInv, InstallCertificateFile, Table
<1>2. PICK k \in 0..Len(Table) : InstalledFrom(k)
  BY DEF CacheInv
<1>3. /\ Table \in Seq(IdEntry) /\ Len(Table) \in Nat /\ DOMAIN Table = 1..Len(Table)
      /\ \A i \in 1..Len(Table) : Table[i].id \in Nat
      /\ Len(file) <= 16 => Distinct(Table)
  BY <1>1, TableShape
<1>4. /\ k < Len(Table) /\ Head(todo) = Table[k + 1]
      /\ Tail(todo) = SubSeq(Table, (k + 1) + 1, Len(Table))
  <2>1. todo = SubSeq(Table, k + 1, Len(Table)) /\ todo # <<>>
    BY <1>2 DEF InstalledFrom, InstallCertificateFile
  <2> HIDE DEF Table, IdEntry
  <2>2. k < Len(Table)
    BY <1>2, <1>3, <2>1
  <2>3. k + 1 \in 1..Len(Table) /\ Len(Table) \in (k + 1)..Len(Table)
    BY <1>2, <1>3, <2>2
  <2>4. /\ Head(todo) = Table[k + 1]
        /\ Tail(todo) = SubSeq(Table, (k + 1) + 1, Len(Table))
    BY <1>3, <2>1, <2>3, HeadTailOfSubSeq
  <2> QED BY <2>2, <2>4
<1> DEFINE e == Table[k + 1]
           sk == SerializeCertificate(e.name, e.ca)
<1>5. e.id \in Nat /\ k + 1 \in 1..Len(Table)
  BY <1>2, <1>3, <1>4
<1>6. \A id \in DOMAIN idCache : id \in Nat
  BY <1>2, <1>3 DEF InstalledFrom
<1>7. Len(file) <= 16 => e.id \notin DOMAIN idCache
  <2> SUFFICES ASSUME Len(file) <= 16, e.id \in DOMAIN idCache PROVE FALSE
    OBVIOUS
  <2>1. PICK i \in 1..k : e.id = Table[i].id
    BY <1>2 DEF InstalledFrom
  <2>2. i \in 1..Len(Table) /\ i # k + 1
    BY <1>2, <1>3
  <2> QED BY <1>3, <1>5, <2>1, <2>2 DEF Distinct
<1>8. /\ TwoWays'
      /\ DOMAIN cache \subseteq DOMAIN cache'
      /\ DOMAIN idCache' \subseteq DOMAIN idCache \union {e.id}
      /\ Readable(e) /\ Len(file) <= 16 => sk \in DOMAIN cache'
  <2> HIDE DEF e, sk
  <2>1. CASE Readable(e)
    <3>1. InsertCertificate(e.id, sk)
      BY <1>4, <2>1 DEF InstallCertificateFile, e, sk
    <3> QED BY <1>1, <1>5, <1>6, <1>7, <3>1, InsertTwoWays
  <2>2. CASE ~Readable(e)
    <3>1. cache' = cache /\ idCache' = idCache
      BY <1>4, <2>2 DEF InstallCertificateFile, caches, e
    <3>2. TwoWays'
      BY <1>1, <3>1 DEF TwoWays
    <3> QED BY <2>2, <3>1, <3>2
  <2> QED BY <2>1, <2>2
<1>9. InstalledFrom(k + 1)'
  <2>1. todo' = SubSeq(Table, (k + 1) + 1, Len(Table))
    BY <1>4 DEF InstallCertificateFile
  <2>2. ASSUME NEW id \in DOMAIN idCache'
        PROVE  \E i \in 1..(k + 1) : id = Table[i].id
    <3>1. CASE id = e.id
      BY <1>2, <3>1
    <3>2. CASE id \in DOMAIN idCache
      <4>1. PICK i \in 1..k : id = Table[i].id
        BY <1>2, <3>2 DEF InstalledFrom
      <4> QED BY <1>2, <4>1
    <3> QED BY <1>8, <3>1, <3>2
  <2>3. ASSUME Len(file) <= 16, NEW i \in 1..(k + 1), Readable(Table[i])
        PROVE  SerializeCertificate(Table[i].name, Table[i].ca) \in DOMAIN cache'
    <3>1. CASE i = k + 1
      BY <1>8, <2>3, <3>1
    <3>2. CASE i \in 1..k
      BY <1>2, <1>8, <2>3, <3>2 DEF InstalledFrom
    <3> QED BY <1>2, <3>1, <3>2
  <2> HIDE DEF Table
  <2> QED BY <1>1, <2>1, <2>2, <2>3 DEF InstalledFrom
<1>10. k + 1 \in 0..Len(Table)
  BY <1>5
<1> QED BY <1>1, <1>8, <1>9, <1>10 DEF CacheInv

\* Nothing else touches the caches.
LEMMA StepCaches ==
  ASSUME CacheInv, [Next]_vars
  PROVE  CacheInv'
<1>1. ASSUME UNCHANGED <<file, todo, caches>>
      PROVE  CacheInv'
  BY <1>1 DEF CacheInv, InstalledFrom, Table, TwoWays, caches, Readable
<1>2. CASE InstallCertificateFile
  BY <1>2, InstallCaches
<1>3. CASE UpdateRemoteCertificateCache
  BY <1>1, <1>3 DEF UpdateRemoteCertificateCache
<1>4. CASE \E b \in Blocks : SendBlock(b)
  BY <1>1, <1>4 DEF SendBlock
<1>5. CASE UNCHANGED vars
  BY <1>1, <1>5 DEF vars, caches
<1> QED BY <1>2, <1>3, <1>4, <1>5 DEF Next

\* The caches agree and, once the table has been gone through, have all its readable
\* certificates, if the ids do not collide.
LEMMA CachesFollow == CacheInv => CachesAgree
<1> SUFFICES ASSUME CacheInv PROVE CachesAgree
  OBVIOUS
<1>1. PICK k \in 0..Len(Table) : InstalledFrom(k)
  BY DEF CacheInv
<1>2. file \in Files /\ TwoWays
  BY DEF CacheInv
<1>3. Table \in Seq(IdEntry) /\ Len(Table) \in Nat /\ DOMAIN Table = 1..Len(Table)
  BY <1>2, TableShape
<1>4. todo = <<>> => k = Len(Table)
  <2>1. todo = SubSeq(Table, k + 1, Len(Table))
    BY <1>1 DEF InstalledFrom
  <2> DEFINE n == Len(Table)
  <2>2. k \in 0..n /\ n \in Nat /\ Table \in Seq(IdEntry)
    BY <1>1, <1>3
  <2> HIDE DEF n
  <2> SUFFICES ASSUME todo = <<>>, k < n PROVE FALSE
    BY <2>2 DEF n
  <2>3. \A i \in (k + 1)..n : i \in 1..n
    BY <2>2
  <2>4. \A i \in (k + 1)..n : Table[i] \in IdEntry
    BY <2>2, <2>3, ElementOfSeq DEF n
  <2>5. todo = SubSeq(Table, k + 1, n)
    BY <2>1 DEF n
  <2>6. Len(todo) = n - (k + 1) + 1
    <3>1. k + 1 \in Int /\ n \in Int /\ k + 1 <= n
      BY <2>2
    <3> QED BY <2>4, <2>5, <3>1, SubSeqProperties
  <2>7. Len(todo) = 0
    OBVIOUS
  <2> QED BY <2>2, <2>6, <2>7
<1>5. todo = <<>> /\ Len(file) <= 16 =>
        \A i \in DOMAIN Table : Readable(Table[i]) =>
          SerializeCertificate(Table[i].name, Table[i].ca) \in DOMAIN cache
  BY <1>1, <1>3, <1>4 DEF InstalledFrom
<1> QED BY <1>2, <1>5 DEF CachesAgree, TwoWays, Table

\* The inductive invariant of the caches.
THEOREM CacheInvariant == Spec => []CacheInv
BY InitCaches, StepCaches, PTL DEF Spec

\* For every configuration file: an id stands for one identity and an identity for one
\* id, and with up to sixteen organisations no readable certificate is left out.
THEOREM CachesAgreeCorrect == Spec => []CachesAgree
<1>1. CacheInv => CachesAgree
  BY CachesFollow
<1> QED BY <1>1, CacheInvariant, PTL

-----------------------------------------------------------------------------
(* What is where in a message.                                             *)

Bytes == Seq(Byte)
At(d, p, w) ==
  /\ p \in Nat /\ p + Len(w) <= Len(d)
  /\ \A i \in 1..Len(w) : d[p + i] = w[i]

\* The facts about sequences of bytes that everything else uses.
LEMMA BytesShape ==
  ASSUME NEW w \in Bytes
  PROVE  Len(w) \in Nat /\ DOMAIN w = 1..Len(w) /\ \A i \in 1..Len(w) : w[i] \in Byte
BY DEF Bytes

\* Two messages one after the other are one, as long as both.
LEMMA BytesConcat ==
  ASSUME NEW u \in Bytes, NEW v \in Bytes
  PROVE  u \o v \in Bytes /\ Len(u \o v) = Len(u) + Len(v)
BY ConcatProperties DEF Bytes

\* A message is at its own position 0.
LEMMA AtWhole ==
  ASSUME NEW d \in Bytes
  PROVE  At(d, 0, d)
BY BytesShape DEF At

\* Where two parts are, there is the one and after it the other.
LEMMA AtConcat ==
  ASSUME NEW d \in Bytes, NEW p, NEW u \in Bytes, NEW v \in Bytes, At(d, p, u \o v)
  PROVE  /\ At(d, p, u) /\ At(d, p + Len(u), v)
         /\ p + Len(u \o v) = p + Len(u) + Len(v)
<1>1. /\ Len(d) \in Nat /\ Len(u) \in Nat /\ Len(v) \in Nat
      /\ Len(u \o v) = Len(u) + Len(v)
  BY BytesShape, BytesConcat
<1>2. \A i \in 1..(Len(u) + Len(v)) : (u \o v)[i] = IF i <= Len(u) THEN u[i] ELSE v[i - Len(u)]
  BY ConcatProperties DEF Bytes
<1>3. p \in Nat /\ p + (Len(u) + Len(v)) <= Len(d)
  BY <1>1 DEF At
<1>4. \A i \in 1..(Len(u) + Len(v)) : d[p + i] = (u \o v)[i]
  BY <1>1 DEF At
<1>5. ASSUME NEW i \in 1..Len(u) PROVE d[p + i] = u[i]
  <2>1. i \in 1..(Len(u) + Len(v)) /\ i <= Len(u)
    BY <1>1
  <2> QED BY <1>2, <1>4, <2>1
<1>6. ASSUME NEW i \in 1..Len(v) PROVE d[(p + Len(u)) + i] = v[i]
  <2>1. /\ Len(u) + i \in 1..(Len(u) + Len(v)) /\ ~(Len(u) + i <= Len(u))
        /\ (Len(u) + i) - Len(u) = i /\ p + (Len(u) + i) = (p + Len(u)) + i
    BY <1>1, <1>3
  <2>2. d[p + (Len(u) + i)] = (u \o v)[Len(u) + i]
    BY <1>4, <2>1
  <2>3. (u \o v)[Len(u) + i] = v[i]
    BY <1>2, <2>1
  <2> QED BY <2>1, <2>2, <2>3
<1>7. p \in Nat /\ p + Len(u) <= Len(d) /\ p + Len(u) \in Nat /\ (p + Len(u)) + Len(v) <= Len(d)
  BY <1>1, <1>3
<1> QED BY <1>1, <1>3, <1>5, <1>6, <1>7 DEF At

\* A slice is what is there.
LEMMA SliceAt ==
  ASSUME NEW d \in Bytes, NEW p, NEW w \in Bytes, At(d, p, w)
  PROVE  Slice(d, p, p + Len(w)) = w
<1> DEFINE n == Len(w)
           s == Slice(d, p, p + n)
<1>1. /\ n \in Nat /\ Len(d) \in Nat /\ p \in Nat /\ p + n <= Len(d)
      /\ \A i \in 1..n : d[p + i] = w[i]
  BY BytesShape DEF At
<1>2. \A i \in 1..Len(d) : d[i] \in Byte
  BY BytesShape
<1> HIDE DEF n
<1>3. \A i \in (p + 1)..(p + n) : d[i] \in Byte
  BY <1>1, <1>2
<1>4. p + 1 \in Int /\ p + n \in Int
  BY <1>1
<1>5. /\ SubSeq(d, p + 1, p + n) \in Seq(Byte)
      /\ Len(SubSeq(d, p + 1, p + n)) = IF p + 1 <= p + n THEN (p + n) - (p + 1) + 1 ELSE 0
      /\ \A i \in 1..((p + n) - (p + 1) + 1) : SubSeq(d, p + 1, p + n)[i] = d[(p + 1) + i - 1]
  BY <1>3, <1>4, SubSeqProperties
<1>6. s \in Seq(Byte) /\ Len(s) = n /\ \A i \in 1..n : s[i] = d[p + i]
  <2>1. s = SubSeq(d, p + 1, p + n)
    BY DEF Slice
  <2> HIDE DEF s
  <2> QED BY <1>1, <1>5, <2>1
<1> HIDE DEF s
<1>7. s = w
  BY <1>1, <1>6, SeqEqual DEF Bytes, n
<1> QED BY <1>7 DEF s, n

-----------------------------------------------------------------------------
(* Numbers and fields.                                                     *)

\* Dividing by 128: where a varint is cut.
LEMMA Div128 ==
  ASSUME NEW k \in Nat
  PROVE  /\ k \div 128 \in Nat /\ k % 128 \in 0..127 /\ k = 128 * (k \div 128) + (k % 128)
         /\ k >= 128 => k \div 128 < k
BY Z3

\* One byte, as a sequence.
LEMMA OneByte ==
  ASSUME NEW b \in Byte
  PROVE  <<b>> \in Bytes /\ Len(<<b>>) = 1 /\ <<b>>[1] = b
BY DEF Bytes

\* A varint has seven bits of the number in each byte, the lowest first.
LEMMA VarintSteps ==
  \A n \in Nat :
    /\ Varint(n) \in Bytes
    /\ Varint(n) = IF n < 128 THEN <<n>> ELSE <<128 + (n % 128)>> \o Varint(n \div 128)
<1> DEFINE Unfolds(f) == f = [k \in Nat |-> IF k < 128 THEN <<k>>
                                            ELSE <<128 + (k % 128)>> \o f[k \div 128]]
           G == [k \in Nat |-> [f \in [Nat -> Bytes] |->
                   IF k < 128 THEN <<k>> ELSE <<128 + (k % 128)>> \o f[k \div 128]]]
<1>1. G \in Equations(Bytes)
  <2>1. ASSUME NEW k \in Nat, NEW f \in [Nat -> Bytes]
        PROVE  (IF k < 128 THEN <<k>> ELSE <<128 + (k % 128)>> \o f[k \div 128]) \in Bytes
    <3>1. CASE k < 128
      <4>1. k \in Byte
        BY <3>1 DEF Byte
      <4>2. <<k>> \in Bytes
        BY <4>1, OneByte
      <4> QED BY <3>1, <4>2
    <3>2. CASE ~(k < 128)
      <4>1. 128 + (k % 128) \in Byte /\ f[k \div 128] \in Bytes
        BY Div128 DEF Byte
      <4>2. <<128 + (k % 128)>> \in Bytes
        BY <4>1, OneByte
      <4>3. <<128 + (k % 128)>> \o f[k \div 128] \in Bytes
        BY <4>1, <4>2, BytesConcat
      <4> QED BY <3>2, <4>3
    <3> QED BY <3>1, <3>2
  <2> QED BY <2>1 DEF Equations
<1>2. ASSUME NEW i \in Nat, NEW f \in [Nat -> Bytes], NEW g \in [Nat -> Bytes],
             \A j \in Nat : j < i => f[j] = g[j]
      PROVE  G[i][f] = G[i][g]
  <2>1. i >= 128 => f[i \div 128] = g[i \div 128]
    BY <1>2, Div128
  <2>2. CASE i < 128
    BY <2>2
  <2>3. CASE ~(i < 128)
    BY <2>1, <2>3
  <2> QED BY <2>2, <2>3
<1>3. <<>> \in Bytes
  BY DEF Bytes
<1>4. PICK f \in [Nat -> Bytes] : Solves(f, G)
  <2> HIDE DEF G
  <2> QED BY <1>1, <1>2, <1>3, UpwardRecursion
<1>5. Unfolds(f)
  <2>1. \A k \in Nat : f[k] = G[k][f]
    BY <1>4 DEF Solves
  <2>2. \A k \in Nat : f[k] = IF k < 128 THEN <<k>> ELSE <<128 + (k % 128)>> \o f[k \div 128]
    BY <2>1
  <2>3. f = [k \in Nat |-> f[k]]
    BY <1>4
  <2> QED BY <2>2, <2>3, Zenon
<1> DEFINE v == CHOOSE g : Unfolds(g)
<1>6. Unfolds(v)
  <2> HIDE DEF Unfolds
  <2> QED BY <1>5
<1>7. \A n \in Nat : Varint(n) = v[n]
  BY DEF Varint
<1> HIDE DEF v
<1>8. \A k \in Nat : v[k] = IF k < 128 THEN <<k>> ELSE <<128 + (k % 128)>> \o v[k \div 128]
  BY <1>6, Zenon
<1> HIDE DEF Unfolds
<1>9. \A k \in Nat : v[k] \in Bytes
  <2> DEFINE T == {m \in Nat : \A k \in Nat : k < m => v[k] \in Bytes}
  <2>1. 0 \in T
    OBVIOUS
  <2>2. ASSUME NEW m \in Nat, m \in T PROVE m + 1 \in T
    <3> SUFFICES ASSUME NEW k \in Nat, k < m + 1 PROVE v[k] \in Bytes
      OBVIOUS
    <3>1. CASE k < 128
      <4>1. v[k] = <<k>>
        BY <1>8, <3>1
      <4>2. k \in Byte
        BY <3>1 DEF Byte
      <4>3. <<k>> \in Bytes
        BY <4>2, OneByte
      <4> QED BY <4>1, <4>3
    <3>2. CASE ~(k < 128)
      <4>1. k \div 128 \in Nat /\ k \div 128 < m /\ 128 + (k % 128) \in Byte
        BY <3>2, Div128 DEF Byte
      <4>2. v[k \div 128] \in Bytes
        BY <2>2, <4>1
      <4>3. <<128 + (k % 128)>> \in Bytes
        BY <4>1, OneByte
      <4>4. <<128 + (k % 128)>> \o v[k \div 128] \in Bytes
        BY <4>2, <4>3, BytesConcat
      <4> QED BY <1>8, <3>2, <4>4
    <3> QED BY <3>1, <3>2
  <2>3. \A m \in Nat : m \in T
    <3> HIDE DEF T
    <3> QED BY <2>1, <2>2, NaturalInduction
  <2> SUFFICES ASSUME NEW k \in Nat PROVE v[k] \in Bytes
    OBVIOUS
  <2>4. k + 1 \in T
    <3> HIDE DEF T
    <3> QED BY <2>3
  <2> QED BY <2>4
<1>10. ASSUME NEW n \in Nat
       PROVE  /\ Varint(n) \in Bytes
              /\ Varint(n) = IF n < 128 THEN <<n>> ELSE <<128 + (n % 128)>> \o Varint(n \div 128)
  <2>1. n \div 128 \in Nat
    BY Div128
  <2>2. Varint(n) = v[n] /\ Varint(n \div 128) = v[n \div 128]
    BY <1>7, <2>1
  <2> QED BY <1>8, <1>9, <2>2
<1> QED BY <1>10

\* The number and the size of a varint that is read.
ReadNumber == [val : Nat, off : Nat \ {0}]

\* A varint is read byte by byte, to the first one below 128.
LEMMA GetVarintSteps ==
  ASSUME NEW d \in Bytes
  PROVE  \A p \in Nat :
           /\ GetVarint(d, p) \in ReadNumber
           /\ p < Len(d) =>
                GetVarint(d, p) =
                  IF d[p + 1] < 128 THEN [val |-> d[p + 1], off |-> 1]
                  ELSE [val |-> d[p + 1] - 128 + 128 * GetVarint(d, p + 1).val,
                        off |-> GetVarint(d, p + 1).off + 1]
<1> DEFINE Body(f, p) ==
             LET byte == d[p + 1]
                 rest == f[p + 1]
             IN  IF p >= Len(d) THEN [val |-> 0, off |-> 1]
                 ELSE IF byte < 128 THEN [val |-> byte, off |-> 1]
                 ELSE [val |-> byte - 128 + 128 * rest.val, off |-> rest.off + 1]
           Unfolds(f) == f = [p \in Nat |-> Body(f, p)]
           G == [p \in Nat |-> [f \in [Nat -> ReadNumber] |-> Body(f, p)]]
<1>1. Len(d) \in Nat /\ \A p \in Nat : p < Len(d) => d[p + 1] \in Byte
  BY BytesShape
<1>2. ASSUME NEW p \in Nat, NEW f \in [Nat -> ReadNumber]
      PROVE  Body(f, p) \in ReadNumber
  <2>1. CASE p >= Len(d)
    BY <2>1 DEF ReadNumber
  <2>2. CASE p < Len(d) /\ d[p + 1] < 128
    <3>1. d[p + 1] \in Nat
      <4>1. d[p + 1] \in Byte
        BY <1>1, <2>2
      <4> QED BY <4>1 DEF Byte
    <3>2. Body(f, p) = [val |-> d[p + 1], off |-> 1]
      BY <1>1, <2>2
    <3> HIDE DEF Body
    <3> QED BY <3>1, <3>2 DEF ReadNumber
  <2>3. CASE p < Len(d) /\ ~(d[p + 1] < 128)
    <3>1. f[p + 1] \in ReadNumber /\ d[p + 1] \in Byte
      BY <1>1, <2>3
    <3>2. f[p + 1].val \in Nat /\ f[p + 1].off \in Nat
      BY <3>1 DEF ReadNumber
    <3>3. d[p + 1] - 128 + 128 * f[p + 1].val \in Nat /\ f[p + 1].off + 1 \in Nat \ {0}
      <4>1. PICK b, v, o : b = d[p + 1] /\ v = f[p + 1].val /\ o = f[p + 1].off
        OBVIOUS
      <4>2. b \in 128..255 /\ v \in Nat /\ o \in Nat
        <5>1. b \in Byte /\ ~(b < 128)
          BY <2>3, <3>1, <4>1
        <5> QED BY <3>2, <4>1, <5>1 DEF Byte
      <4>3. b - 128 + 128 * v \in Nat /\ o + 1 \in Nat \ {0}
        BY <4>2
      <4> QED BY <4>1, <4>3
    <3> QED BY <1>1, <2>3, <3>3 DEF ReadNumber
  <2> QED BY <1>1, <2>1, <2>2, <2>3
<1>3. G \in Equations(ReadNumber)
  <2> HIDE DEF Body
  <2> QED BY <1>2 DEF Equations
<1>4. ASSUME NEW i \in Nat, NEW f \in [Nat -> ReadNumber], NEW g \in [Nat -> ReadNumber],
             \A j \in Nat : i < j /\ i < Len(d) => f[j] = g[j]
      PROVE  G[i][f] = G[i][g]
  <2>1. i < Len(d) => f[i + 1] = g[i + 1]
    BY <1>4
  <2>2. Body(f, i) = Body(g, i)
    BY <1>1, <2>1
  <2> HIDE DEF Body
  <2> QED BY <2>2
<1>5. [val |-> 0, off |-> 1] \in ReadNumber
  BY DEF ReadNumber
<1>6. PICK f \in [Nat -> ReadNumber] : Solves(f, G)
  <2> HIDE DEF G
  <2> QED BY <1>1, <1>3, <1>4, <1>5, DownwardRecursion
<1>7. Unfolds(f)
  <2> HIDE DEF Body
  <2>1. \A k \in Nat : f[k] = Body(f, k)
    BY <1>6 DEF Solves
  <2>2. f = [k \in Nat |-> f[k]]
    BY <1>6
  <2> QED BY <2>1, <2>2, Zenon
<1> DEFINE v == CHOOSE g : Unfolds(g)
<1>8. Unfolds(v)
  <2> HIDE DEF Unfolds
  <2> QED BY <1>7
<1>9. \A p \in Nat : GetVarint(d, p) = v[p]
  BY DEF GetVarint
<1> HIDE DEF v
<1>10. \A p \in Nat : v[p] = Body(v, p)
  <2> HIDE DEF Body
  <2> QED BY <1>8, Zenon
<1> HIDE DEF Unfolds, G
<1>11. \A p \in Nat : p < Len(d) =>
          v[p] = IF d[p + 1] < 128 THEN [val |-> d[p + 1], off |-> 1]
                 ELSE [val |-> d[p + 1] - 128 + 128 * v[p + 1].val, off |-> v[p + 1].off + 1]
  <2> SUFFICES ASSUME NEW p \in Nat, p < Len(d)
               PROVE  v[p] = IF d[p + 1] < 128 THEN [val |-> d[p + 1], off |-> 1]
                             ELSE [val |-> d[p + 1] - 128 + 128 * v[p + 1].val,
                                   off |-> v[p + 1].off + 1]
    OBVIOUS
  <2>1. ~(p >= Len(d))
    BY <1>1
  <2> QED BY <1>10, <2>1, Zenon
<1>12. \A p \in Nat : v[p] \in ReadNumber
  <2> DEFINE T == {m \in Nat : \A p \in Nat : Len(d) <= p + m => v[p] \in ReadNumber}
  <2>1. 0 \in T
    <3> SUFFICES ASSUME NEW p \in Nat, Len(d) <= p PROVE v[p] \in ReadNumber
      OBVIOUS
    <3>1. p >= Len(d)
      BY <1>1
    <3>2. v[p] = [val |-> 0, off |-> 1]
      BY <1>10, <3>1, Zenon
    <3> QED BY <1>5, <3>2
  <2>2. ASSUME NEW m \in Nat, m \in T PROVE m + 1 \in T
    <3> SUFFICES ASSUME NEW p \in Nat, Len(d) <= p + (m + 1) PROVE v[p] \in ReadNumber
      OBVIOUS
    <3>1. v[p + 1] \in ReadNumber
      BY <1>1, <2>2
    <3> DEFINE h == [k \in Nat |-> v[p + 1]]
    <3>2. h \in [Nat -> ReadNumber]
      BY <3>1
    <3>3. Body(h, p) = Body(v, p)
      BY <1>1
    <3> HIDE DEF h, Body
    <3> QED BY <1>2, <1>10, <3>2, <3>3
  <2>3. \A m \in Nat : m \in T
    <3> HIDE DEF T
    <3> QED BY <2>1, <2>2, NaturalInduction
  <2> SUFFICES ASSUME NEW p \in Nat PROVE v[p] \in ReadNumber
    OBVIOUS
  <2>4. Len(d) \in T
    <3> HIDE DEF T
    <3> QED BY <1>1, <2>3
  <2> QED BY <1>1, <2>4
<1>13. \A p \in Nat : GetVarint(d, p + 1) = v[p + 1]
  BY <1>9
<1> SUFFICES ASSUME NEW p \in Nat
             PROVE  /\ GetVarint(d, p) \in ReadNumber
                    /\ p < Len(d) =>
                         GetVarint(d, p) =
                           IF d[p + 1] < 128 THEN [val |-> d[p + 1], off |-> 1]
                           ELSE [val |-> d[p + 1] - 128 + 128 * GetVarint(d, p + 1).val,
                                 off |-> GetVarint(d, p + 1).off + 1]
  OBVIOUS
<1>14. GetVarint(d, p) = v[p] /\ GetVarint(d, p + 1) = v[p + 1]
  BY <1>9, <1>13
<1>15. v[p] \in ReadNumber
  BY <1>12
<1> QED BY <1>11, <1>14, <1>15, Zenon

\* Reading a varint gives the number it was made of, and its size.
THEOREM GetVarintReads ==
  \A n \in Nat : \A d \in Bytes : \A p \in Nat :
    At(d, p, Varint(n)) => GetVarint(d, p) = [val |-> n, off |-> Len(Varint(n))]
<1> DEFINE Good(n) == \A d \in Bytes : \A p \in Nat :
             At(d, p, Varint(n)) => GetVarint(d, p) = [val |-> n, off |-> Len(Varint(n))]
           T == {n \in Nat : Good(n)}
<1>1. ASSUME NEW n \in Nat, \A m \in Nat : m < n => m \in T
      PROVE  n \in T
  <2> SUFFICES ASSUME NEW d \in Bytes, NEW p \in Nat, At(d, p, Varint(n))
               PROVE  GetVarint(d, p) = [val |-> n, off |-> Len(Varint(n))]
    OBVIOUS
  <2>1. CASE n < 128
    <3>1. Varint(n) = <<n>> /\ n \in Byte
      <4>1. n \in Byte
        BY <2>1 DEF Byte
      <4> QED BY <2>1, <4>1, VarintSteps
    <3>2. Len(<<n>>) = 1 /\ <<n>>[1] = n
      BY <3>1, OneByte
    <3>3. p < Len(d) /\ d[p + 1] = n
      BY <3>1, <3>2, BytesShape DEF At
    <3>4. GetVarint(d, p) = [val |-> n, off |-> 1]
      BY <2>1, <3>3, GetVarintSteps
    <3> QED BY <3>1, <3>2, <3>4
  <2>2. CASE ~(n < 128)
    <3> DEFINE b == 128 + (n % 128)
               m == n \div 128
    <3>1. b \in Byte /\ m \in Nat /\ m < n /\ ~(b < 128) /\ n = b - 128 + 128 * m
      BY <2>2, Div128 DEF Byte
    <3>2. Varint(n) = <<b>> \o Varint(m) /\ Varint(m) \in Bytes
      BY <2>2, <3>1, VarintSteps
    <3>3. Good(m)
      BY <1>1, <3>1
    <3> HIDE DEF b, m, Good
    <3>4. <<b>> \in Bytes /\ Len(<<b>>) = 1 /\ <<b>>[1] = b
      BY <3>1, OneByte
    <3>5. At(d, p, <<b>>) /\ At(d, p + 1, Varint(m))
      <4>1. At(d, p, <<b>> \o Varint(m))
        BY <3>2
      <4>2. At(d, p, <<b>>) /\ At(d, p + Len(<<b>>), Varint(m))
        BY <3>2, <3>4, <4>1, AtConcat
      <4> QED BY <3>4, <4>2
    <3>6. p < Len(d) /\ d[p + 1] = b
      BY <3>4, <3>5, BytesShape DEF At
    <3>7. GetVarint(d, p + 1) = [val |-> m, off |-> Len(Varint(m))]
      BY <3>3, <3>5 DEF Good
    <3>8. GetVarint(d, p) = [val |-> b - 128 + 128 * m, off |-> Len(Varint(m)) + 1]
      BY <3>1, <3>6, <3>7, GetVarintSteps
    <3>9. Len(Varint(n)) = 1 + Len(Varint(m)) /\ Len(Varint(m)) \in Nat
      BY <3>2, <3>4, BytesConcat, BytesShape
    <3> QED BY <3>1, <3>8, <3>9
  <2> QED BY <2>1, <2>2
<1>2. \A n \in Nat : n \in T
  <2> HIDE DEF T
  <2> QED BY <1>1, StrongInduction
<1> QED BY <1>2

\* What reading a field gives: it makes progress, whatever is there.
ReadField == [field : Nat, len : Nat, pos : Nat]

\* A field is read to natural numbers, and its contents are behind its start.
LEMMA GetFieldProgress ==
  ASSUME NEW d \in Bytes, NEW p \in Nat
  PROVE  ProtoGetFieldLength(d, p) \in ReadField /\ ProtoGetFieldLength(d, p).pos > p
<1> DEFINE tag == GetVarint(d, p)
           value == GetVarint(d, p + tag.off)
<1>1. tag.val \in Nat /\ tag.off \in Nat \ {0}
  <2>1. tag \in ReadNumber
    BY GetVarintSteps
  <2> HIDE DEF tag
  <2> QED BY <2>1 DEF ReadNumber
<1> HIDE DEF tag
<1>2. value.val \in Nat /\ value.off \in Nat \ {0}
  <2>1. p + tag.off \in Nat
    BY <1>1
  <2>2. value \in ReadNumber
    BY <2>1, GetVarintSteps
  <2> HIDE DEF value
  <2> QED BY <2>2 DEF ReadNumber
<1> HIDE DEF value
<1>3. tag.val \div 8 \in Nat
  BY <1>1, Z3
<1>4. ProtoGetFieldLength(d, p) =
        IF tag.val % 8 # 0
        THEN [field |-> tag.val \div 8, len |-> value.val, pos |-> p + tag.off + value.off]
        ELSE [field |-> tag.val \div 8, len |-> value.off, pos |-> p + tag.off]
  BY DEF ProtoGetFieldLength, tag, value
<1>5. /\ p + tag.off + value.off \in Nat /\ p + tag.off \in Nat /\ value.off \in Nat
      /\ p + tag.off + value.off > p /\ p + tag.off > p
  BY <1>1, <1>2
<1> QED BY <1>2, <1>3, <1>4, <1>5 DEF ReadField

\* Fields of the numbers in use have a tag of one byte.
FieldNumbers == 1..15

\* The parts of a field, and its size.
HeadSize(b) == 1 + Len(Varint(Len(b)))

\* A field is a tag of one byte, the length of its contents as a varint, and the contents.
LEMMA FieldShape ==
  ASSUME NEW f \in FieldNumbers, NEW b \in Bytes
  PROVE  /\ Field(f, b) \in Bytes
         /\ Varint(Len(b)) \in Bytes /\ <<8 * f + 2>> \in Bytes /\ 8 * f + 2 \in 0..127
         /\ <<8 * f + 2>> \o Varint(Len(b)) \in Bytes
         /\ Len(<<8 * f + 2>> \o Varint(Len(b))) = HeadSize(b)
         /\ HeadSize(b) \in Nat /\ HeadSize(b) > 0 /\ Len(b) \in Nat
         /\ Len(Field(f, b)) = HeadSize(b) + Len(b)
         /\ Len(Field(f, b)) \in Nat /\ Len(Field(f, b)) > 0
<1>1. 8 * f + 2 \in 0..127
  BY DEF FieldNumbers
<1>2. <<8 * f + 2>> \in Bytes /\ Len(<<8 * f + 2>>) = 1
  <2>1. 8 * f + 2 \in Byte
    BY <1>1 DEF Byte
  <2> QED BY <2>1, OneByte
<1>3. Len(b) \in Nat
  BY BytesShape
<1>4. Varint(Len(b)) \in Bytes /\ Len(Varint(Len(b))) \in Nat
  BY <1>3, VarintSteps, BytesShape
<1>5. /\ <<8 * f + 2>> \o Varint(Len(b)) \in Bytes
      /\ Len(<<8 * f + 2>> \o Varint(Len(b))) = HeadSize(b)
  BY <1>2, <1>4, BytesConcat DEF HeadSize
<1>6. HeadSize(b) \in Nat /\ HeadSize(b) > 0
  BY <1>4 DEF HeadSize
<1>7. Field(f, b) \in Bytes /\ Len(Field(f, b)) = HeadSize(b) + Len(b)
  BY <1>5, BytesConcat DEF Field
<1>8. Len(Field(f, b)) \in Nat /\ Len(Field(f, b)) > 0
  BY <1>3, <1>6, <1>7
<1> QED BY <1>1, <1>2, <1>3, <1>4, <1>5, <1>6, <1>7, <1>8

\* A tag is read as the number and the kind of its field.
LEMMA ReadTag ==
  ASSUME NEW d \in Bytes, NEW p \in Nat, NEW k \in 0..127, At(d, p, <<k>>)
  PROVE  GetVarint(d, p) = [val |-> k, off |-> 1]
<1>1. k \in Byte /\ k \in Nat /\ k < 128
  BY DEF Byte
<1>2. Varint(k) = <<k>> /\ Len(<<k>>) = 1
  BY <1>1, VarintSteps, OneByte
<1>3. At(d, p, Varint(k))
  BY <1>2
<1>4. GetVarint(d, p) = [val |-> k, off |-> Len(Varint(k))]
  BY <1>1, <1>3, GetVarintReads
<1> QED BY <1>2, <1>4

\* Reading a field gives its number and where its content is.
LEMMA GetFieldReads ==
  ASSUME NEW d \in Bytes, NEW p \in Nat, NEW f \in FieldNumbers, NEW b \in Bytes,
         At(d, p, Field(f, b))
  PROVE  /\ ProtoGetFieldLength(d, p) = [field |-> f, len |-> Len(b), pos |-> p + HeadSize(b)]
         /\ At(d, p + HeadSize(b), b)
<1> DEFINE k == 8 * f + 2
           n == Len(b)
           v == Varint(n)
<1>1. /\ v \in Bytes /\ <<k>> \in Bytes /\ <<k>> \o v \in Bytes /\ Len(<<k>> \o v) = HeadSize(b)
      /\ n \in Nat /\ k \in 0..127
  BY FieldShape
<1>2. Field(f, b) = (<<k>> \o v) \o b
  BY DEF Field
<1>3. Len(v) \in Nat
  BY <1>1, BytesShape
<1> HIDE DEF n, v
<1>4. k % 8 # 0 /\ k \div 8 = f
  BY Z3 DEF FieldNumbers
<1> HIDE DEF k
<1>5. At(d, p, <<k>> \o v) /\ At(d, p + HeadSize(b), b)
  <2>1. At(d, p, (<<k>> \o v) \o b)
    BY <1>2
  <2>2. At(d, p, <<k>> \o v) /\ At(d, p + Len(<<k>> \o v), b)
    BY <1>1, <2>1, AtConcat
  <2> QED BY <1>1, <2>2
<1>6. At(d, p, <<k>>) /\ At(d, p + 1, v)
  <2>1. At(d, p, <<k>>) /\ At(d, p + Len(<<k>>), v)
    BY <1>1, <1>5, AtConcat
  <2>2. Len(<<k>>) = 1
    OBVIOUS
  <2> QED BY <2>1, <2>2
<1>7. GetVarint(d, p) = [val |-> k, off |-> 1]
  BY <1>1, <1>6, ReadTag
<1>8. GetVarint(d, p + 1) = [val |-> n, off |-> Len(v)]
  <2>1. p + 1 \in Nat
    OBVIOUS
  <2> QED BY <1>1, <1>6, <2>1, GetVarintReads DEF v
<1>9. HeadSize(b) = 1 + Len(v)
  BY DEF HeadSize, v, n
<1>10. ProtoGetFieldLength(d, p) = [field |-> k \div 8, len |-> n, pos |-> p + 1 + Len(v)]
  BY <1>4, <1>7, <1>8 DEF ProtoGetFieldLength
<1>11. p + 1 + Len(v) = p + HeadSize(b)
  BY <1>3, <1>9
<1> QED BY <1>4, <1>5, <1>10, <1>11 DEF n

\* A field that is a number is its own content, after the tag.
LEMMA VarintFieldReads ==
  ASSUME NEW d \in Bytes, NEW p \in Nat, NEW f \in FieldNumbers, NEW n \in Nat,
         At(d, p, VarintField(f, n))
  PROVE  /\ VarintField(f, n) \in Bytes /\ Varint(n) \in Bytes
         /\ Len(Varint(n)) \in Nat /\ Len(VarintField(f, n)) = 1 + Len(Varint(n))
         /\ At(d, p + 1, Varint(n))
         /\ ProtoGetFieldLength(d, p) = [field |-> f, len |-> Len(Varint(n)), pos |-> p + 1]
<1> DEFINE k == 8 * f
           v == Varint(n)
<1>1. k \in 0..127 /\ k % 8 = 0 /\ k \div 8 = f
  BY Z3 DEF FieldNumbers
<1>2. v \in Bytes /\ Len(v) \in Nat
  BY VarintSteps, BytesShape
<1>3. <<k>> \in Bytes /\ Len(<<k>>) = 1
  <2>1. k \in Byte
    BY <1>1 DEF Byte
  <2> HIDE DEF k
  <2> QED BY <2>1, OneByte
<1>4. VarintField(f, n) = <<k>> \o v
  BY DEF VarintField
<1> HIDE DEF k
<1>5. <<k>> \o v \in Bytes /\ Len(<<k>> \o v) = 1 + Len(v)
  BY <1>2, <1>3, BytesConcat
<1>6. At(d, p, <<k>>) /\ At(d, p + 1, v)
  <2>1. At(d, p, <<k>>) /\ At(d, p + Len(<<k>>), v)
    <3>1. At(d, p, <<k>> \o v)
      BY <1>4
    <3> HIDE DEF v
    <3> QED BY <1>2, <1>3, <3>1, AtConcat
  <2> QED BY <1>3, <2>1
<1>7. GetVarint(d, p) = [val |-> k, off |-> 1]
  BY <1>1, <1>6, ReadTag
<1>8. GetVarint(d, p + 1) = [val |-> n, off |-> Len(v)]
  <2>1. p + 1 \in Nat
    OBVIOUS
  <2> QED BY <1>6, <2>1, GetVarintReads
<1>9. ProtoGetFieldLength(d, p) = [field |-> f, len |-> Len(v), pos |-> p + 1]
  <2> HIDE DEF v
  <2> QED BY <1>1, <1>7, <1>8 DEF ProtoGetFieldLength
<1> QED BY <1>2, <1>4, <1>5, <1>6, <1>9

-----------------------------------------------------------------------------
(* Searching fields.                                                       *)

\* A search looks at one field after the other.
LEMMA SearchSteps ==
  ASSUME NEW d \in Bytes, NEW start \in Nat, NEW size \in Nat, NEW target
  PROVE  \E found :
           /\ ProtoSearchFieldPos(d, start, size, target) = found[start]
           /\ \A p \in Nat :
                LET f == ProtoGetFieldLength(d, p)
                IN  found[p] = IF p >= start + size THEN NoField
                               ELSE IF f.field = target THEN [pos |-> f.pos, len |-> f.len]
                               ELSE found[f.pos + f.len]
<1> DEFINE R == {NoField} \union [pos : Nat, len : Nat]
           Body(f, p) ==
             LET x == ProtoGetFieldLength(d, p)
             IN  IF p >= start + size THEN NoField
                 ELSE IF x.field = target THEN [pos |-> x.pos, len |-> x.len]
                 ELSE f[x.pos + x.len]
           Unfolds(f) == f = [p \in Nat |-> Body(f, p)]
           G == [p \in Nat |-> [f \in [Nat -> R] |-> Body(f, p)]]
<1>1. ASSUME NEW p \in Nat
      PROVE  /\ ProtoGetFieldLength(d, p).pos \in Nat /\ ProtoGetFieldLength(d, p).len \in Nat
             /\ ProtoGetFieldLength(d, p).pos + ProtoGetFieldLength(d, p).len \in Nat
             /\ ProtoGetFieldLength(d, p).pos + ProtoGetFieldLength(d, p).len > p
  <2>1. ProtoGetFieldLength(d, p) \in ReadField /\ ProtoGetFieldLength(d, p).pos > p
    BY GetFieldProgress
  <2>2. ProtoGetFieldLength(d, p).pos \in Nat /\ ProtoGetFieldLength(d, p).len \in Nat
    BY <2>1 DEF ReadField
  <2> QED BY <2>1, <2>2
<1>2. ASSUME NEW p \in Nat, NEW f \in [Nat -> R]
      PROVE  Body(f, p) \in R
  <2>1. f[ProtoGetFieldLength(d, p).pos + ProtoGetFieldLength(d, p).len] \in R
    BY <1>1
  <2>2. [pos |-> ProtoGetFieldLength(d, p).pos, len |-> ProtoGetFieldLength(d, p).len] \in R
    BY <1>1
  <2>3. NoField \in R
    OBVIOUS
  <2> HIDE DEF R
  <2> QED BY <2>1, <2>2, <2>3
<1>3. NoField \in R
  OBVIOUS
<1> HIDE DEF R
<1>4. G \in Equations(R)
  <2> HIDE DEF Body
  <2> QED BY <1>2 DEF Equations
<1>5. ASSUME NEW i \in Nat, NEW f \in [Nat -> R], NEW g \in [Nat -> R],
             \A j \in Nat : i < j /\ i < start + size => f[j] = g[j]
      PROVE  G[i][f] = G[i][g]
  <2>1. Body(f, i) = Body(g, i)
    <3>1. CASE i >= start + size
      BY <3>1
    <3>2. CASE ~(i >= start + size)
      <4>1. f[ProtoGetFieldLength(d, i).pos + ProtoGetFieldLength(d, i).len]
              = g[ProtoGetFieldLength(d, i).pos + ProtoGetFieldLength(d, i).len]
        BY <1>1, <1>5, <3>2
      <4> QED BY <4>1
    <3> QED BY <3>1, <3>2
  <2> HIDE DEF Body
  <2> QED BY <2>1
<1>6. PICK f \in [Nat -> R] : Solves(f, G)
  <2>1. start + size \in Nat
    OBVIOUS
  <2> HIDE DEF G
  <2> QED BY <1>3, <1>4, <1>5, <2>1, DownwardRecursion
<1>7. Unfolds(f)
  <2> HIDE DEF Body
  <2>1. \A k \in Nat : f[k] = Body(f, k)
    BY <1>6 DEF Solves
  <2>2. f = [k \in Nat |-> f[k]]
    BY <1>6
  <2> QED BY <2>1, <2>2, Zenon
<1> DEFINE v == CHOOSE g : Unfolds(g)
<1>8. Unfolds(v)
  <2> HIDE DEF Unfolds
  <2> QED BY <1>7
<1>9. ProtoSearchFieldPos(d, start, size, target) = v[start]
  BY DEF ProtoSearchFieldPos
<1> HIDE DEF v
<1>10. \A p \in Nat : v[p] = Body(v, p)
  <2> HIDE DEF Body
  <2> QED BY <1>8, Zenon
<1> QED BY <1>9, <1>10

\* The field that is searched is the first.
LEMMA SearchFirst ==
  ASSUME NEW d \in Bytes, NEW start \in Nat, NEW size \in Nat, size > 0,
         NEW f \in FieldNumbers, NEW b \in Bytes, At(d, start, Field(f, b))
  PROVE  /\ ProtoSearchFieldPos(d, start, size, f) = [pos |-> start + HeadSize(b), len |-> Len(b)]
         /\ At(d, start + HeadSize(b), b)
<1>1. /\ ProtoGetFieldLength(d, start) = [field |-> f, len |-> Len(b), pos |-> start + HeadSize(b)]
      /\ At(d, start + HeadSize(b), b)
  BY GetFieldReads
<1>2. PICK found :
        /\ ProtoSearchFieldPos(d, start, size, f) = found[start]
        /\ \A p \in Nat :
             LET x == ProtoGetFieldLength(d, p)
             IN  found[p] = IF p >= start + size THEN NoField
                            ELSE IF x.field = f THEN [pos |-> x.pos, len |-> x.len]
                            ELSE found[x.pos + x.len]
  BY SearchSteps
<1>3. ~(start >= start + size)
  OBVIOUS
<1>4. found[start] = [pos |-> start + HeadSize(b), len |-> Len(b)]
  <2> DEFINE x == ProtoGetFieldLength(d, start)
  <2>1. found[start] = IF start >= start + size THEN NoField
                       ELSE IF x.field = f THEN [pos |-> x.pos, len |-> x.len]
                       ELSE found[x.pos + x.len]
    BY <1>2
  <2>2. x.field = f /\ x.pos = start + HeadSize(b) /\ x.len = Len(b)
    BY <1>1
  <2> HIDE DEF x
  <2> QED BY <1>3, <2>1, <2>2
<1> QED BY <1>1, <1>2, <1>4

\* The field that is searched is the second, after one with another number that takes
\* n bytes.
LEMMA SearchSecond ==
  ASSUME NEW d \in Bytes, NEW start \in Nat, NEW size \in Nat, NEW n \in Nat, n < size,
         NEW f \in FieldNumbers, NEW b \in Bytes, At(d, start + n, Field(f, b)),
         ProtoGetFieldLength(d, start).field # f,
         ProtoGetFieldLength(d, start).pos + ProtoGetFieldLength(d, start).len = start + n
  PROVE  /\ ProtoSearchFieldPos(d, start, size, f)
              = [pos |-> start + n + HeadSize(b), len |-> Len(b)]
         /\ At(d, start + n + HeadSize(b), b)
<1>0. start + n \in Nat
  OBVIOUS
<1>1. /\ ProtoGetFieldLength(d, start + n)
           = [field |-> f, len |-> Len(b), pos |-> start + n + HeadSize(b)]
      /\ At(d, start + n + HeadSize(b), b)
  BY <1>0, GetFieldReads
<1>2. PICK found :
        /\ ProtoSearchFieldPos(d, start, size, f) = found[start]
        /\ \A p \in Nat :
             LET x == ProtoGetFieldLength(d, p)
             IN  found[p] = IF p >= start + size THEN NoField
                            ELSE IF x.field = f THEN [pos |-> x.pos, len |-> x.len]
                            ELSE found[x.pos + x.len]
  BY SearchSteps
<1>3. ~(start >= start + size) /\ ~(start + n >= start + size)
  OBVIOUS
<1>4. found[start] = found[start + n]
  BY <1>2, <1>3
<1>5. found[start + n] = [pos |-> start + n + HeadSize(b), len |-> Len(b)]
  BY <1>0, <1>1, <1>2, <1>3
<1> QED BY <1>1, <1>2, <1>4, <1>5

\* What a search finds is a place, or nothing.
Found == {NoField} \union [pos : Nat, len : Nat]

\* A search finds a place, a position with a length, or nothing.
LEMMA SearchType ==
  ASSUME NEW d \in Bytes, NEW start \in Nat, NEW size \in Nat, NEW target
  PROVE  ProtoSearchFieldPos(d, start, size, target) \in Found
<1>1. PICK found :
        /\ ProtoSearchFieldPos(d, start, size, target) = found[start]
        /\ \A p \in Nat :
             LET x == ProtoGetFieldLength(d, p)
             IN  found[p] = IF p >= start + size THEN NoField
                            ELSE IF x.field = target THEN [pos |-> x.pos, len |-> x.len]
                            ELSE found[x.pos + x.len]
  BY SearchSteps
<1> DEFINE T == {m \in Nat : \A p \in Nat : start + size <= p + m => found[p] \in Found}
<1>2. 0 \in T
  <2> SUFFICES ASSUME NEW p \in Nat, start + size <= p PROVE found[p] \in Found
    OBVIOUS
  <2>1. p >= start + size
    OBVIOUS
  <2>2. found[p] = NoField
    BY <1>1, <2>1
  <2> QED BY <2>2 DEF Found
<1>3. ASSUME NEW m \in Nat, m \in T PROVE m + 1 \in T
  <2> SUFFICES ASSUME NEW p \in Nat, start + size <= p + (m + 1) PROVE found[p] \in Found
    OBVIOUS
  <2> DEFINE x == ProtoGetFieldLength(d, p)
  <2>1. x \in ReadField /\ x.pos > p
    BY GetFieldProgress
  <2>2. found[p] = IF p >= start + size THEN NoField
                   ELSE IF x.field = target THEN [pos |-> x.pos, len |-> x.len]
                   ELSE found[x.pos + x.len]
    BY <1>1
  <2> HIDE DEF x
  <2>3. x.pos \in Nat /\ x.len \in Nat /\ x.pos + x.len \in Nat /\ x.pos + x.len > p
    BY <2>1 DEF ReadField
  <2>4. found[x.pos + x.len] \in Found
    BY <1>3, <2>3
  <2>5. [pos |-> x.pos, len |-> x.len] \in Found /\ NoField \in Found
    BY <2>3 DEF Found
  <2> QED BY <2>2, <2>4, <2>5
<1>4. \A m \in Nat : m \in T
  <2> HIDE DEF T
  <2> QED BY <1>2, <1>3, NaturalInduction
<1>5. start + size \in T
  <2> start + size \in Nat
    OBVIOUS
  <2> HIDE DEF T
  <2> QED BY <1>4
<1>6. found[start] \in Found
  BY <1>5
<1> QED BY <1>1, <1>6

\* A path is followed one search after the other.
FollowsPath(d, p, n, path, at) ==
  /\ at[0] = [pos |-> p, len |-> n]
  /\ \A i \in 1..Len(path) :
       at[i] = IF at[i - 1].pos = -1 THEN at[i - 1]
               ELSE ProtoSearchFieldPos(d, at[i - 1].pos, at[i - 1].len, path[i])

PathEndsAt(d, p, n, path, end) ==
  \E at : FollowsPath(d, p, n, path, at) /\ end = at[Len(path)]

\* Where the path ends is where the code finds its field.
LEMMA PathSteps ==
  ASSUME NEW d \in Bytes, NEW p \in Nat, NEW n \in Nat, NEW path, Len(path) \in Nat
  PROVE  PathEndsAt(d, p, n, path, ProtoGetFieldPos(d, p, n, path))
<1> DEFINE l == Len(path)
           first == [pos |-> p, len |-> n]
           Step(x, i) == IF x.pos = -1 THEN x ELSE ProtoSearchFieldPos(d, x.pos, x.len, path[i])
           G == [i \in 1..l |-> [x \in Found |-> Step(x, i)]]
           Body(f, i) ==
             IF i = 0 THEN [pos |-> p, len |-> n]
             ELSE IF f[i - 1].pos = -1 THEN f[i - 1]
             ELSE ProtoSearchFieldPos(d, f[i - 1].pos, f[i - 1].len, path[i])
           Unfolds(f) == f = [i \in 0..l |-> Body(f, i)]
<1>1. first \in Found
  BY DEF Found
<1>2. ASSUME NEW x \in Found, NEW i \in 1..l PROVE Step(x, i) \in Found
  <2>1. CASE x = NoField
    BY <2>1 DEF NoField
  <2>2. CASE x \in [pos : Nat, len : Nat]
    <3>1. x.pos \in Nat /\ x.len \in Nat /\ x.pos # -1
      BY <2>2
    <3> QED BY <3>1, SearchType
  <2> QED BY <2>1, <2>2 DEF Found
<1>3. G \in Steps(l, Found)
  <2> HIDE DEF Step
  <2> QED BY <1>2 DEF Steps
<1> HIDE DEF G
<1>4. PICK f : Recursion(f, l, Found, first, G)
  <2> HIDE DEF first
  <2> QED BY <1>1, <1>3, RecursionExists
<1>5. Unfolds(f)
  <2>1. f \in [0..l -> Found] /\ f[0] = first /\ \A i \in 1..l : f[i] = G[i][f[i - 1]]
    BY <1>4 DEF Recursion
  <2>2. ASSUME NEW i \in 1..l PROVE f[i] = Step(f[i - 1], i)
    <3>1. f[i - 1] \in Found /\ f[i] = G[i][f[i - 1]]
      <4> i - 1 \in 0..l
        OBVIOUS
      <4> QED BY <2>1
    <3> HIDE DEF Step
    <3> QED BY <3>1 DEF G
  <2>3. \A i \in 0..l : f[i] = Body(f, i)
    <3> SUFFICES ASSUME NEW i \in 0..l PROVE f[i] = Body(f, i)
      OBVIOUS
    <3>1. CASE i = 0
      BY <2>1, <3>1
    <3>2. CASE i # 0
      BY <2>2, <3>2
    <3> QED BY <3>1, <3>2
  <2>4. f = [i \in 0..l |-> f[i]]
    BY <2>1
  <2> HIDE DEF Body
  <2> QED BY <2>3, <2>4, Zenon
<1> DEFINE v == CHOOSE g : Unfolds(g)
<1>6. Unfolds(v)
  <2> HIDE DEF Unfolds
  <2> QED BY <1>5
<1>7. ProtoGetFieldPos(d, p, n, path) = v[l]
  BY DEF ProtoGetFieldPos, FoldUp
<1> HIDE DEF v
<1>8. \A i \in 0..l : v[i] = Body(v, i)
  <2> HIDE DEF Body
  <2> QED BY <1>6, Zenon
<1>9. FollowsPath(d, p, n, path, v)
  <2>1. v[0] = [pos |-> p, len |-> n]
    BY <1>8
  <2>2. ASSUME NEW i \in 1..l
        PROVE  v[i] = IF v[i - 1].pos = -1 THEN v[i - 1]
                      ELSE ProtoSearchFieldPos(d, v[i - 1].pos, v[i - 1].len, path[i])
    <3>1. i \in 0..l /\ i # 0
      OBVIOUS
    <3> QED BY <1>8, <3>1
  <2> QED BY <2>1, <2>2 DEF FollowsPath
<1> QED BY <1>7, <1>9 DEF PathEndsAt

\* There is one way to follow it.
LEMMA PathUnique ==
  ASSUME NEW d, NEW p, NEW n, NEW path, NEW long, Len(path) \in Nat, Len(long) \in Nat,
         Len(path) <= Len(long), \A i \in 1..Len(path) : long[i] = path[i],
         NEW f, NEW g, FollowsPath(d, p, n, path, f), FollowsPath(d, p, n, long, g)
  PROVE  \A i \in 0..Len(path) : f[i] = g[i]
<1> DEFINE T == {i \in Nat : f[i] = g[i]}
<1>1. 0 \in T
  BY DEF FollowsPath
<1>2. ASSUME NEW i \in 1..Len(path), i - 1 \in T PROVE i \in T
  <2>1. f[i - 1] = g[i - 1] /\ long[i] = path[i] /\ i \in 1..Len(long)
    BY <1>2
  <2> QED BY <2>1 DEF FollowsPath
<1>3. \A i \in 0..Len(path) : i \in T
  <2> HIDE DEF T
  <2> QED BY <1>1, <1>2, IntervalInduction
<1> QED BY <1>3

\* One search more for one field more.
LEMMA PathAppend ==
  ASSUME NEW d \in Bytes, NEW p \in Nat, NEW n \in Nat, NEW path \in Seq(Nat), NEW f \in Nat,
         NEW q \in Nat, NEW m, ProtoGetFieldPos(d, p, n, path) = [pos |-> q, len |-> m]
  PROVE  ProtoGetFieldPos(d, p, n, Append(path, f)) = ProtoSearchFieldPos(d, q, m, f)
<1> DEFINE long == Append(path, f)
           l == Len(path)
<1>1. /\ l \in Nat /\ Len(long) = l + 1 /\ long[l + 1] = f
      /\ \A i \in 1..l : long[i] = path[i]
  BY AppendProperties
<1> HIDE DEF long, l
<1>2. PICK a : FollowsPath(d, p, n, path, a) /\ ProtoGetFieldPos(d, p, n, path) = a[l]
  <2>1. PathEndsAt(d, p, n, path, ProtoGetFieldPos(d, p, n, path))
    BY <1>1, PathSteps DEF l
  <2> QED BY <2>1 DEF PathEndsAt, l
<1>3. PICK b : FollowsPath(d, p, n, long, b) /\ ProtoGetFieldPos(d, p, n, long) = b[l + 1]
  <2>1. Len(long) \in Nat
    BY <1>1
  <2>2. PathEndsAt(d, p, n, long, ProtoGetFieldPos(d, p, n, long))
    BY <2>1, PathSteps
  <2> QED BY <1>1, <2>2 DEF PathEndsAt
<1>4. a[l] = b[l]
  <2>1. \A i \in 0..Len(path) : a[i] = b[i]
    <3>1. Len(path) \in Nat /\ Len(long) \in Nat /\ Len(path) <= Len(long)
      BY <1>1 DEF l
    <3>2. \A i \in 1..Len(path) : long[i] = path[i]
      BY <1>1 DEF l
    <3> QED BY <1>2, <1>3, <3>1, <3>2, PathUnique
  <2> QED BY <1>1, <2>1 DEF l
<1>5. b[l] = [pos |-> q, len |-> m]
  BY <1>2, <1>4
<1>6. b[l + 1] = IF b[l].pos = -1 THEN b[l]
                 ELSE ProtoSearchFieldPos(d, b[l].pos, b[l].len, f)
  <2>1. l + 1 \in 1..Len(long) /\ (l + 1) - 1 = l
    BY <1>1
  <2>2. b[l + 1] = IF b[(l + 1) - 1].pos = -1 THEN b[(l + 1) - 1]
                   ELSE ProtoSearchFieldPos(d, b[(l + 1) - 1].pos, b[(l + 1) - 1].len, long[l + 1])
    BY <1>3, <2>1 DEF FollowsPath
  <2> QED BY <1>1, <2>1, <2>2
<1>7. b[l].pos = q /\ b[l].len = m /\ q # -1
  BY <1>5
<1>8. b[l + 1] = ProtoSearchFieldPos(d, q, m, f)
  BY <1>6, <1>7
<1> QED BY <1>3, <1>8 DEF long

\* Without a field there is nothing to search.
LEMMA PathEmpty ==
  ASSUME NEW d \in Bytes, NEW p \in Nat, NEW n \in Nat
  PROVE  ProtoGetFieldPos(d, p, n, <<>>) = [pos |-> p, len |-> n]
<1>1. Len(<<>>) \in Nat /\ Len(<<>>) = 0
  OBVIOUS
<1>2. PICK a : FollowsPath(d, p, n, <<>>, a) /\ ProtoGetFieldPos(d, p, n, <<>>) = a[Len(<<>>)]
  <2>1. PathEndsAt(d, p, n, <<>>, ProtoGetFieldPos(d, p, n, <<>>))
    BY <1>1, PathSteps
  <2> QED BY <2>1 DEF PathEndsAt
<1> QED BY <1>1, <1>2 DEF FollowsPath

\* A path leads from the message of n bytes at p to the bytes w at q.
Leads(d, p, n, path, q, w) ==
  /\ path \in Seq(Nat) /\ q \in Nat /\ w \in Bytes
  /\ ProtoGetFieldPos(d, p, n, path) = [pos |-> q, len |-> Len(w)]
  /\ At(d, q, w)

\* From a place to the first field there.
LEMMA StepFirst ==
  ASSUME NEW d \in Bytes, NEW p \in Nat, NEW n \in Nat, NEW path, NEW q, NEW w,
         Leads(d, p, n, path, q, w), Len(w) > 0,
         NEW f \in FieldNumbers, NEW b \in Bytes, At(d, q, Field(f, b))
  PROVE  Leads(d, p, n, Append(path, f), q + HeadSize(b), b)
<1>1. /\ path \in Seq(Nat) /\ q \in Nat /\ w \in Bytes /\ Len(w) \in Nat
      /\ ProtoGetFieldPos(d, p, n, path) = [pos |-> q, len |-> Len(w)]
  BY BytesShape DEF Leads
<1>2. f \in Nat /\ HeadSize(b) \in Nat
  BY FieldShape DEF FieldNumbers
<1>3. ProtoGetFieldPos(d, p, n, Append(path, f)) = ProtoSearchFieldPos(d, q, Len(w), f)
  BY <1>1, <1>2, PathAppend
<1>4. /\ ProtoSearchFieldPos(d, q, Len(w), f) = [pos |-> q + HeadSize(b), len |-> Len(b)]
      /\ At(d, q + HeadSize(b), b)
  BY <1>1, SearchFirst
<1>5. Append(path, f) \in Seq(Nat) /\ q + HeadSize(b) \in Nat
  BY <1>1, <1>2
<1> QED BY <1>3, <1>4, <1>5 DEF Leads

\* From a place to the second field there, after one with another number.
LEMMA StepSecond ==
  ASSUME NEW d \in Bytes, NEW p \in Nat, NEW n \in Nat, NEW path, NEW q, NEW w,
         Leads(d, p, n, path, q, w), NEW k \in Nat, k < Len(w),
         NEW f \in FieldNumbers, NEW b \in Bytes, At(d, q + k, Field(f, b)),
         ProtoGetFieldLength(d, q).field # f,
         ProtoGetFieldLength(d, q).pos + ProtoGetFieldLength(d, q).len = q + k
  PROVE  Leads(d, p, n, Append(path, f), q + k + HeadSize(b), b)
<1>1. /\ path \in Seq(Nat) /\ q \in Nat /\ w \in Bytes /\ Len(w) \in Nat
      /\ ProtoGetFieldPos(d, p, n, path) = [pos |-> q, len |-> Len(w)]
  BY BytesShape DEF Leads
<1>2. f \in Nat /\ HeadSize(b) \in Nat
  BY FieldShape DEF FieldNumbers
<1>3. ProtoGetFieldPos(d, p, n, Append(path, f)) = ProtoSearchFieldPos(d, q, Len(w), f)
  BY <1>1, <1>2, PathAppend
<1>4. /\ ProtoSearchFieldPos(d, q, Len(w), f) = [pos |-> q + k + HeadSize(b), len |-> Len(b)]
      /\ At(d, q + k + HeadSize(b), b)
  BY <1>1, SearchSecond
<1>5. Append(path, f) \in Seq(Nat) /\ q + k + HeadSize(b) \in Nat
  <2>1. q + k + HeadSize(b) \in Nat
    <3>1. q \in Nat /\ k \in Nat /\ HeadSize(b) \in Nat
      BY <1>1, <1>2
    <3> QED BY <3>1, Z3
  <2> QED BY <1>1, <1>2, <2>1
<1> QED BY <1>3, <1>4, <1>5 DEF Leads

\* A message of one field.
LEMMA OnlyField ==
  ASSUME NEW d \in Bytes, NEW p \in Nat, NEW n \in Nat, NEW path, NEW q,
         NEW f \in FieldNumbers, NEW b \in Bytes, Leads(d, p, n, path, q, Field(f, b))
  PROVE  Leads(d, p, n, Append(path, f), q + HeadSize(b), b)
<1>1. At(d, q, Field(f, b))
  BY DEF Leads
<1>2. Len(Field(f, b)) > 0
  BY FieldShape
<1> QED BY <1>1, <1>2, StepFirst

\* The first field of a message.
LEMMA FirstField ==
  ASSUME NEW d \in Bytes, NEW p \in Nat, NEW n \in Nat, NEW path, NEW q,
         NEW f \in FieldNumbers, NEW b \in Bytes, NEW r \in Bytes,
         Leads(d, p, n, path, q, Field(f, b) \o r)
  PROVE  Leads(d, p, n, Append(path, f), q + HeadSize(b), b)
<1>1. /\ Field(f, b) \in Bytes /\ Len(Field(f, b)) \in Nat /\ Len(Field(f, b)) > 0
      /\ Len(r) \in Nat
  BY FieldShape, BytesShape
<1>2. At(d, q, Field(f, b))
  <2>1. At(d, q, Field(f, b) \o r)
    BY DEF Leads
  <2> QED BY <1>1, <2>1, AtConcat
<1>3. Len(Field(f, b) \o r) = Len(Field(f, b)) + Len(r)
  BY <1>1, BytesConcat
<1>4. Len(Field(f, b) \o r) > 0
  BY <1>1, <1>3
<1> QED BY <1>2, <1>4, StepFirst

\* The second field of a message, whose first one has another number.
LEMMA SecondField ==
  ASSUME NEW d \in Bytes, NEW p \in Nat, NEW n \in Nat, NEW path, NEW q,
         NEW g \in FieldNumbers, NEW c \in Bytes, NEW f \in FieldNumbers, NEW b \in Bytes, f # g,
         Leads(d, p, n, path, q, Field(g, c) \o Field(f, b))
  PROVE  Leads(d, p, n, Append(path, f), q + Len(Field(g, c)) + HeadSize(b), b)
<1> DEFINE k == Len(Field(g, c))
<1>1. /\ Field(g, c) \in Bytes /\ k \in Nat /\ k = HeadSize(c) + Len(c)
      /\ HeadSize(c) \in Nat /\ Len(c) \in Nat
  BY FieldShape, BytesShape
<1>2. Field(f, b) \in Bytes /\ Len(Field(f, b)) \in Nat /\ Len(Field(f, b)) > 0
  BY FieldShape, BytesShape
<1>3. At(d, q, Field(g, c)) /\ At(d, q + k, Field(f, b)) /\ q \in Nat
  <2>1. At(d, q, Field(g, c) \o Field(f, b)) /\ q \in Nat
    BY DEF Leads
  <2> QED BY <1>1, <1>2, <2>1, AtConcat
<1>4. ProtoGetFieldLength(d, q) = [field |-> g, len |-> Len(c), pos |-> q + HeadSize(c)]
  BY <1>3, GetFieldReads
<1> HIDE DEF k
<1>5. /\ ProtoGetFieldLength(d, q).field # f
      /\ ProtoGetFieldLength(d, q).pos + ProtoGetFieldLength(d, q).len = q + k
  BY <1>1, <1>3, <1>4
<1>6. k < Len(Field(g, c) \o Field(f, b))
  <2>1. Len(Field(g, c) \o Field(f, b)) = k + Len(Field(f, b))
    BY <1>1, <1>2, BytesConcat DEF k
  <2> QED BY <1>1, <1>2, <2>1
<1>7. Leads(d, p, n, Append(path, f), q + k + HeadSize(b), b)
  BY <1>1, <1>3, <1>5, <1>6, StepSecond
<1> QED BY <1>7 DEF k

\* The same, with the bounds between which the field is.
IsPlace(d, p, n, path, b, e, low, high) ==
  Leads(d, p, n, path, e, b) /\ low < e /\ e + Len(b) = high
HasPlace(d, p, n, path, b, low, high) == \E e \in Nat : IsPlace(d, p, n, path, b, e, low, high)

\* Where the only field of a message is.
LEMMA OnlyPlace ==
  ASSUME NEW d \in Bytes, NEW p \in Nat, NEW n \in Nat, NEW path, NEW q,
         NEW f \in FieldNumbers, NEW b \in Bytes, NEW w, w = Field(f, b),
         Leads(d, p, n, path, q, w)
  PROVE  HasPlace(d, p, n, Append(path, f), b, q, q + Len(w))
<1>1. Leads(d, p, n, Append(path, f), q + HeadSize(b), b)
  BY OnlyField
<1>2. /\ q \in Nat /\ HeadSize(b) \in Nat /\ HeadSize(b) > 0 /\ Len(b) \in Nat
      /\ Len(Field(f, b)) = HeadSize(b) + Len(b)
  BY FieldShape DEF Leads
<1> DEFINE e == q + HeadSize(b)
<1>3. e \in Nat /\ q < e /\ e + Len(b) = q + Len(w)
  BY <1>2
<1> HIDE DEF e
<1>4. Leads(d, p, n, Append(path, f), e, b)
  BY <1>1 DEF e
<1> QED BY <1>3, <1>4 DEF HasPlace, IsPlace

\* Where the first one is.
LEMMA FirstPlace ==
  ASSUME NEW d \in Bytes, NEW p \in Nat, NEW n \in Nat, NEW path, NEW q,
         NEW f \in FieldNumbers, NEW b \in Bytes, NEW r \in Bytes,
         NEW w, w = Field(f, b) \o r, Leads(d, p, n, path, q, w)
  PROVE  HasPlace(d, p, n, Append(path, f), b, q, q + Len(Field(f, b)))
<1>1. Leads(d, p, n, Append(path, f), q + HeadSize(b), b)
  BY FirstField
<1>2. /\ q \in Nat /\ HeadSize(b) \in Nat /\ HeadSize(b) > 0 /\ Len(b) \in Nat
      /\ Len(Field(f, b)) = HeadSize(b) + Len(b)
  BY FieldShape DEF Leads
<1> DEFINE e == q + HeadSize(b)
<1>3. e \in Nat /\ q < e /\ e + Len(b) = q + Len(Field(f, b))
  BY <1>2, Z3
<1> HIDE DEF e
<1>4. Leads(d, p, n, Append(path, f), e, b)
  BY <1>1 DEF e
<1> QED BY <1>3, <1>4 DEF HasPlace, IsPlace

\* Where the second of two is.
LEMMA SecondPlace ==
  ASSUME NEW d \in Bytes, NEW p \in Nat, NEW n \in Nat, NEW path, NEW q,
         NEW g \in FieldNumbers, NEW c \in Bytes, NEW f \in FieldNumbers, NEW b \in Bytes, f # g,
         NEW w, w = Field(g, c) \o Field(f, b), Leads(d, p, n, path, q, w)
  PROVE  HasPlace(d, p, n, Append(path, f), b, q + Len(Field(g, c)), q + Len(w))
<1> DEFINE k == Len(Field(g, c))
           e == q + k + HeadSize(b)
<1>1. Leads(d, p, n, Append(path, f), e, b)
  BY SecondField
<1>2. /\ q \in Nat /\ HeadSize(b) \in Nat /\ HeadSize(b) > 0 /\ Len(b) \in Nat
      /\ Len(Field(f, b)) = HeadSize(b) + Len(b) /\ k \in Nat
      /\ Len(w) = k + Len(Field(f, b))
  BY FieldShape, BytesConcat DEF Leads
<1> HIDE DEF k
<1>3. e \in Nat /\ q + k < e /\ e + Len(b) = q + Len(w)
  BY <1>2, Z3
<1> HIDE DEF e
<1> QED BY <1>1, <1>3 DEF HasPlace, IsPlace, k

-----------------------------------------------------------------------------
(* The parts of an envelope.                                               *)

IdOf(c) == Identity(c.name, c.ca)
SignedBy(id) == Field(1, id) \o Field(2, <<7>>)
CreatorPart(t) == SignedBy(IdOf(t.creator))
NamePart(t) == Field(2, Field(2, t.chaincode))
ChannelPart(t) == VarintField(1, 3) \o Field(7, NamePart(t))
Endorsement(c) == Field(1, IdOf(c)) \o Field(2, <<8>>)
EndorsementFields(t) == [i \in DOMAIN t.endorsers |-> Field(2, Endorsement(t.endorsers[i]))]
EndorsementsPart(t) == FlattenSeq(EndorsementFields(t))
ResultsPart(t) == Field(1, t.results)
ResponsePart(t) == Field(1, <<9>>) \o Field(2, ResultsPart(t))
EndorsedPart(t) == Field(1, ResponsePart(t)) \o EndorsementsPart(t)
ActionPart(t) == Field(1, <<10>>) \o Field(2, EndorsedPart(t))
CallPart(t) == Field(1, CreatorPart(t)) \o Field(2, ActionPart(t))
HeaderPart(t) == Field(1, ChannelPart(t)) \o Field(2, CreatorPart(t))
PayloadPart(t) == Field(1, HeaderPart(t)) \o Field(2, Field(1, CallPart(t)))

\* An envelope is made of them.
LEMMA EnvelopeParts ==
  ASSUME NEW t
  PROVE  Envelope(t) = Field(1, PayloadPart(t)) \o Field(2, t.signature)
BY DEF Envelope, PayloadPart, HeaderPart, CallPart, ActionPart, EndorsedPart, ResponsePart,
       ResultsPart, EndorsementsPart, EndorsementFields, Endorsement, ChannelPart, NamePart,
       CreatorPart, SignedBy, IdOf

\* A field of bytes is bytes, and so are two of them.
LEMMA TwoFields ==
  ASSUME NEW f \in FieldNumbers, NEW b \in Bytes, NEW g \in FieldNumbers, NEW c \in Bytes
  PROVE  Field(f, b) \o Field(g, c) \in Bytes
BY FieldShape, BytesConcat

\* What is filled is bytes, and so are the parts of a certificate.
LEMMA CertificateShape ==
  ASSUME NEW c \in Certificate
  PROVE  /\ c.name \in Bytes /\ c.ca \in Bytes /\ c.ca # <<>>
         /\ IdOf(c) \in Bytes /\ Len(IdOf(c)) \in Nat
<1>1. c.name \in Bytes /\ c.ca \in Bytes /\ c.ca # <<>>
  BY DEF Certificate, Filled, Bytes, Byte
<1>2. 1 \in FieldNumbers /\ 2 \in FieldNumbers
  BY DEF FieldNumbers
<1>3. IdOf(c) \in Bytes
  BY <1>1, <1>2, TwoFields DEF IdOf, Identity
<1> QED BY <1>1, <1>3, BytesShape

\* And those of a transaction.
LEMMA TransactionShape ==
  ASSUME NEW t \in Transaction
  PROVE  /\ t.creator \in Certificate
         /\ Len(t.endorsers) \in Nat /\ Len(t.endorsers) > 0
         /\ DOMAIN t.endorsers = 1..Len(t.endorsers)
         /\ \A i \in 1..Len(t.endorsers) : t.endorsers[i] \in Certificate
         /\ t.chaincode \in Bytes /\ t.results \in Bytes /\ t.signature \in Bytes
<1>1. /\ t.creator \in Certificate /\ t.endorsers \in Seq(Certificate) /\ t.endorsers # <<>>
      /\ t.chaincode \in Filled /\ t.results \in Filled /\ t.signature \in Filled
  BY DEF Transaction
<1>2. t.chaincode \in Bytes /\ t.results \in Bytes /\ t.signature \in Bytes
  BY <1>1 DEF Filled, Bytes, Byte
<1> QED BY <1>1, <1>2

\* A sequence that is flattened is bytes if its parts are.
LEMMA FlatBytes ==
  ASSUME NEW s \in Seq(Bytes)
  PROVE  FlattenSeq(s) \in Bytes
<1>1. Len(s) \in Nat
  OBVIOUS
<1>2. CASE Len(s) = 0
  <2>1. FlattenSeq(s) = s
    BY <1>2 DEF FlattenSeq
  <2>2. s = <<>>
    BY <1>2
  <2> QED BY <2>1, <2>2 DEF Bytes
<1>3. CASE Len(s) > 0
  <2>1. PICK g : /\ g \in [1..Len(s) -> Seq(Byte)]
                 /\ g[1] = s[1]
                 /\ \A i \in 2..Len(s) : g[i] = g[i - 1] \o s[i]
                 /\ FlattenSeq(s) = g[Len(s)]
    BY <1>3, FlattenSteps DEF Bytes
  <2>2. Len(s) \in 1..Len(s)
    BY <1>1, <1>3
  <2> QED BY <2>1, <2>2 DEF Bytes
<1> QED BY <1>1, <1>2, <1>3

\* A path and one field more.
LEMMA LongerPath ==
  ASSUME NEW path, NEW f \in Nat, NEW long, NEW m \in Nat,
         path \in Seq(Nat), long \in Seq(Nat), Len(path) = m, Len(long) = m + 1,
         long[m + 1] = f, \A j \in 1..m : long[j] = path[j]
  PROVE  Append(path, f) = long
<1>1. /\ Append(path, f) \in Seq(Nat) /\ Len(Append(path, f)) = m + 1
      /\ Append(path, f)[m + 1] = f /\ \A j \in 1..m : Append(path, f)[j] = path[j]
  BY AppendProperties
<1>2. \A j \in 1..m + 1 : Append(path, f)[j] = long[j]
  BY <1>1
<1> QED BY <1>1, <1>2, SeqEqual

\* The paths of the annotations, built field by field.
LEMMA TransactionPaths ==
  /\ Append(<<>>, 1) = <<1>>
  /\ Append(<<1>>, 1) = <<1, 1>>
  /\ Append(<<1>>, 2) = <<1, 2>>
  /\ Append(<<1, 1>>, 1) = <<1, 1, 1>>
  /\ Append(<<1, 1>>, 2) = <<1, 1, 2>>
  /\ Append(<<1, 1, 1>>, 1) = <<1, 1, 1, 1>>
  /\ Append(<<1, 1, 1>>, 2) = <<1, 1, 1, 2>>
  /\ Append(<<1, 1, 1, 2>>, 1) = <<1, 1, 1, 2, 1>>
  /\ Append(<<1, 1, 2>>, 1) = <<1, 1, 2, 1>>
  /\ Append(<<1, 1, 2, 1>>, 1) = <<1, 1, 2, 1, 1>>
  /\ Append(<<1, 1, 2, 1, 1>>, 1) = <<1, 1, 2, 1, 1, 1>>
  /\ Append(<<1, 1, 2, 1>>, 2) = <<1, 1, 2, 1, 2>>
  /\ Append(<<1, 1, 2, 1, 2>>, 2) = <<1, 1, 2, 1, 2, 2>>
  /\ Append(<<1, 1, 2, 1, 2, 2>>, 1) = <<1, 1, 2, 1, 2, 2, 1>>
  /\ Append(<<1, 1, 2, 1, 2, 2>>, 2) = <<1, 1, 2, 1, 2, 2, 2>>
  /\ Append(<<1, 1, 2, 1, 2, 2, 1>>, 2) = <<1, 1, 2, 1, 2, 2, 1, 2>>
  /\ Append(<<1, 1, 2, 1, 2, 2, 1, 2>>, 1) = <<1, 1, 2, 1, 2, 2, 1, 2, 1>>
  /\ Append(<<1, 1, 1, 1>>, 7) = <<1, 1, 1, 1, 7>>
  /\ Append(<<1, 1, 1, 1, 7>>, 2) = <<1, 1, 1, 1, 7, 2>>
  /\ Append(<<1, 1, 1, 1, 7, 2>>, 2) = <<1, 1, 1, 1, 7, 2, 2>>
<1>1. Append(<<>>, 1) = <<1>>
  <2> DEFINE path == <<>>
             long == <<1>>
  <2>1. /\ path \in Seq(Nat) /\ long \in Seq(Nat) /\ Len(path) = 0 /\ Len(long) = 0 + 1
        /\ long[0 + 1] = 1 /\ \A j \in 1..0 : long[j] = path[j]
    OBVIOUS
  <2> HIDE DEF path, long
  <2>2. Append(path, 1) = long
    BY <2>1, LongerPath
  <2> QED BY <2>2 DEF path, long
<1>2. Append(<<1>>, 1) = <<1, 1>>
  <2> DEFINE path == <<1>>
             long == <<1, 1>>
  <2>1. /\ path \in Seq(Nat) /\ long \in Seq(Nat) /\ Len(path) = 1 /\ Len(long) = 1 + 1
        /\ long[1 + 1] = 1 /\ \A j \in 1..1 : long[j] = path[j]
    OBVIOUS
  <2> HIDE DEF path, long
  <2>2. Append(path, 1) = long
    BY <2>1, LongerPath
  <2> QED BY <2>2 DEF path, long
<1>3. Append(<<1>>, 2) = <<1, 2>>
  <2> DEFINE path == <<1>>
             long == <<1, 2>>
  <2>1. /\ path \in Seq(Nat) /\ long \in Seq(Nat) /\ Len(path) = 1 /\ Len(long) = 1 + 1
        /\ long[1 + 1] = 2 /\ \A j \in 1..1 : long[j] = path[j]
    OBVIOUS
  <2> HIDE DEF path, long
  <2>2. Append(path, 2) = long
    BY <2>1, LongerPath
  <2> QED BY <2>2 DEF path, long
<1>4. Append(<<1, 1>>, 1) = <<1, 1, 1>>
  <2> DEFINE path == <<1, 1>>
             long == <<1, 1, 1>>
  <2>1. /\ path \in Seq(Nat) /\ long \in Seq(Nat) /\ Len(path) = 2 /\ Len(long) = 2 + 1
        /\ long[2 + 1] = 1 /\ \A j \in 1..2 : long[j] = path[j]
    OBVIOUS
  <2> HIDE DEF path, long
  <2>2. Append(path, 1) = long
    BY <2>1, LongerPath
  <2> QED BY <2>2 DEF path, long
<1>5. Append(<<1, 1>>, 2) = <<1, 1, 2>>
  <2> DEFINE path == <<1, 1>>
             long == <<1, 1, 2>>
  <2>1. /\ path \in Seq(Nat) /\ long \in Seq(Nat) /\ Len(path) = 2 /\ Len(long) = 2 + 1
        /\ long[2 + 1] = 2 /\ \A j \in 1..2 : long[j] = path[j]
    OBVIOUS
  <2> HIDE DEF path, long
  <2>2. Append(path, 2) = long
    BY <2>1, LongerPath
  <2> QED BY <2>2 DEF path, long
<1>6. Append(<<1, 1, 1>>, 1) = <<1, 1, 1, 1>>
  <2> DEFINE path == <<1, 1, 1>>
             long == <<1, 1, 1, 1>>
  <2>1. /\ path \in Seq(Nat) /\ long \in Seq(Nat) /\ Len(path) = 3 /\ Len(long) = 3 + 1
        /\ long[3 + 1] = 1 /\ \A j \in 1..3 : long[j] = path[j]
    OBVIOUS
  <2> HIDE DEF path, long
  <2>2. Append(path, 1) = long
    BY <2>1, LongerPath
  <2> QED BY <2>2 DEF path, long
<1>7. Append(<<1, 1, 1>>, 2) = <<1, 1, 1, 2>>
  <2> DEFINE path == <<1, 1, 1>>
             long == <<1, 1, 1, 2>>
  <2>1. /\ path \in Seq(Nat) /\ long \in Seq(Nat) /\ Len(path) = 3 /\ Len(long) = 3 + 1
        /\ long[3 + 1] = 2 /\ \A j \in 1..3 : long[j] = path[j]
    OBVIOUS
  <2> HIDE DEF path, long
  <2>2. Append(path, 2) = long
    BY <2>1, LongerPath
  <2> QED BY <2>2 DEF path, long
<1>8. Append(<<1, 1, 1, 2>>, 1) = <<1, 1, 1, 2, 1>>
  <2> DEFINE path == <<1, 1, 1, 2>>
             long == <<1, 1, 1, 2, 1>>
  <2>1. /\ path \in Seq(Nat) /\ long \in Seq(Nat) /\ Len(path) = 4 /\ Len(long) = 4 + 1
        /\ long[4 + 1] = 1 /\ \A j \in 1..4 : long[j] = path[j]
    OBVIOUS
  <2> HIDE DEF path, long
  <2>2. Append(path, 1) = long
    BY <2>1, LongerPath
  <2> QED BY <2>2 DEF path, long
<1>9. Append(<<1, 1, 2>>, 1) = <<1, 1, 2, 1>>
  <2> DEFINE path == <<1, 1, 2>>
             long == <<1, 1, 2, 1>>
  <2>1. /\ path \in Seq(Nat) /\ long \in Seq(Nat) /\ Len(path) = 3 /\ Len(long) = 3 + 1
        /\ long[3 + 1] = 1 /\ \A j \in 1..3 : long[j] = path[j]
    OBVIOUS
  <2> HIDE DEF path, long
  <2>2. Append(path, 1) = long
    BY <2>1, LongerPath
  <2> QED BY <2>2 DEF path, long
<1>10. Append(<<1, 1, 2, 1>>, 1) = <<1, 1, 2, 1, 1>>
  <2> DEFINE path == <<1, 1, 2, 1>>
             long == <<1, 1, 2, 1, 1>>
  <2>1. /\ path \in Seq(Nat) /\ long \in Seq(Nat) /\ Len(path) = 4 /\ Len(long) = 4 + 1
        /\ long[4 + 1] = 1 /\ \A j \in 1..4 : long[j] = path[j]
    OBVIOUS
  <2> HIDE DEF path, long
  <2>2. Append(path, 1) = long
    BY <2>1, LongerPath
  <2> QED BY <2>2 DEF path, long
<1>11. Append(<<1, 1, 2, 1, 1>>, 1) = <<1, 1, 2, 1, 1, 1>>
  <2> DEFINE path == <<1, 1, 2, 1, 1>>
             long == <<1, 1, 2, 1, 1, 1>>
  <2>1. /\ path \in Seq(Nat) /\ long \in Seq(Nat) /\ Len(path) = 5 /\ Len(long) = 5 + 1
        /\ long[5 + 1] = 1 /\ \A j \in 1..5 : long[j] = path[j]
    OBVIOUS
  <2> HIDE DEF path, long
  <2>2. Append(path, 1) = long
    BY <2>1, LongerPath
  <2> QED BY <2>2 DEF path, long
<1>12. Append(<<1, 1, 2, 1>>, 2) = <<1, 1, 2, 1, 2>>
  <2> DEFINE path == <<1, 1, 2, 1>>
             long == <<1, 1, 2, 1, 2>>
  <2>1. /\ path \in Seq(Nat) /\ long \in Seq(Nat) /\ Len(path) = 4 /\ Len(long) = 4 + 1
        /\ long[4 + 1] = 2 /\ \A j \in 1..4 : long[j] = path[j]
    OBVIOUS
  <2> HIDE DEF path, long
  <2>2. Append(path, 2) = long
    BY <2>1, LongerPath
  <2> QED BY <2>2 DEF path, long
<1>13. Append(<<1, 1, 2, 1, 2>>, 2) = <<1, 1, 2, 1, 2, 2>>
  <2> DEFINE path == <<1, 1, 2, 1, 2>>
             long == <<1, 1, 2, 1, 2, 2>>
  <2>1. /\ path \in Seq(Nat) /\ long \in Seq(Nat) /\ Len(path) = 5 /\ Len(long) = 5 + 1
        /\ long[5 + 1] = 2 /\ \A j \in 1..5 : long[j] = path[j]
    OBVIOUS
  <2> HIDE DEF path, long
  <2>2. Append(path, 2) = long
    BY <2>1, LongerPath
  <2> QED BY <2>2 DEF path, long
<1>14. Append(<<1, 1, 2, 1, 2, 2>>, 1) = <<1, 1, 2, 1, 2, 2, 1>>
  <2> DEFINE path == <<1, 1, 2, 1, 2, 2>>
             long == <<1, 1, 2, 1, 2, 2, 1>>
  <2>1. /\ path \in Seq(Nat) /\ long \in Seq(Nat) /\ Len(path) = 6 /\ Len(long) = 6 + 1
        /\ long[6 + 1] = 1 /\ \A j \in 1..6 : long[j] = path[j]
    OBVIOUS
  <2> HIDE DEF path, long
  <2>2. Append(path, 1) = long
    BY <2>1, LongerPath
  <2> QED BY <2>2 DEF path, long
<1>15. Append(<<1, 1, 2, 1, 2, 2, 1>>, 2) = <<1, 1, 2, 1, 2, 2, 1, 2>>
  <2> DEFINE path == <<1, 1, 2, 1, 2, 2, 1>>
             long == <<1, 1, 2, 1, 2, 2, 1, 2>>
  <2>1. /\ path \in Seq(Nat) /\ long \in Seq(Nat) /\ Len(path) = 7 /\ Len(long) = 7 + 1
        /\ long[7 + 1] = 2 /\ \A j \in 1..7 : long[j] = path[j]
    OBVIOUS
  <2> HIDE DEF path, long
  <2>2. Append(path, 2) = long
    BY <2>1, LongerPath
  <2> QED BY <2>2 DEF path, long
<1>16. Append(<<1, 1, 2, 1, 2, 2, 1, 2>>, 1) = <<1, 1, 2, 1, 2, 2, 1, 2, 1>>
  <2> DEFINE path == <<1, 1, 2, 1, 2, 2, 1, 2>>
             long == <<1, 1, 2, 1, 2, 2, 1, 2, 1>>
  <2>1. /\ path \in Seq(Nat) /\ long \in Seq(Nat) /\ Len(path) = 8 /\ Len(long) = 8 + 1
        /\ long[8 + 1] = 1 /\ \A j \in 1..8 : long[j] = path[j]
    OBVIOUS
  <2> HIDE DEF path, long
  <2>2. Append(path, 1) = long
    BY <2>1, LongerPath
  <2> QED BY <2>2 DEF path, long
<1>17. Append(<<1, 1, 1, 1>>, 7) = <<1, 1, 1, 1, 7>>
  <2> DEFINE path == <<1, 1, 1, 1>>
             long == <<1, 1, 1, 1, 7>>
  <2>1. /\ path \in Seq(Nat) /\ long \in Seq(Nat) /\ Len(path) = 4 /\ Len(long) = 4 + 1
        /\ long[4 + 1] = 7 /\ \A j \in 1..4 : long[j] = path[j]
    OBVIOUS
  <2> HIDE DEF path, long
  <2>2. Append(path, 7) = long
    BY <2>1, LongerPath
  <2> QED BY <2>2 DEF path, long
<1>18. Append(<<1, 1, 1, 1, 7>>, 2) = <<1, 1, 1, 1, 7, 2>>
  <2> DEFINE path == <<1, 1, 1, 1, 7>>
             long == <<1, 1, 1, 1, 7, 2>>
  <2>1. /\ path \in Seq(Nat) /\ long \in Seq(Nat) /\ Len(path) = 5 /\ Len(long) = 5 + 1
        /\ long[5 + 1] = 2 /\ \A j \in 1..5 : long[j] = path[j]
    OBVIOUS
  <2> HIDE DEF path, long
  <2>2. Append(path, 2) = long
    BY <2>1, LongerPath
  <2> QED BY <2>2 DEF path, long
<1>19. Append(<<1, 1, 1, 1, 7, 2>>, 2) = <<1, 1, 1, 1, 7, 2, 2>>
  <2> DEFINE path == <<1, 1, 1, 1, 7, 2>>
             long == <<1, 1, 1, 1, 7, 2, 2>>
  <2>1. /\ path \in Seq(Nat) /\ long \in Seq(Nat) /\ Len(path) = 6 /\ Len(long) = 6 + 1
        /\ long[6 + 1] = 2 /\ \A j \in 1..6 : long[j] = path[j]
    OBVIOUS
  <2> HIDE DEF path, long
  <2>2. Append(path, 2) = long
    BY <2>1, LongerPath
  <2> QED BY <2>2 DEF path, long
<1>20. Append(<<1, 1, 2, 1, 2, 2>>, 2) = <<1, 1, 2, 1, 2, 2, 2>>
  <2> DEFINE path == <<1, 1, 2, 1, 2, 2>>
             long == <<1, 1, 2, 1, 2, 2, 2>>
  <2>1. /\ path \in Seq(Nat) /\ long \in Seq(Nat) /\ Len(path) = 6 /\ Len(long) = 6 + 1
        /\ long[6 + 1] = 2 /\ \A j \in 1..6 : long[j] = path[j]
    OBVIOUS
  <2> HIDE DEF path, long
  <2>2. Append(path, 2) = long
    BY <2>1, LongerPath
  <2> QED BY <2>2 DEF path, long
<1> QED BY <1>1, <1>2, <1>3, <1>4, <1>5, <1>6, <1>7, <1>8, <1>9, <1>10,
           <1>11, <1>12, <1>13, <1>14, <1>15, <1>16, <1>17, <1>18, <1>19, <1>20

\* The number before the name of the chaincode.
LEMMA ChannelHead ==
  VarintField(1, 3) \in Bytes /\ Len(VarintField(1, 3)) \in Nat
<1>1. 8 * 1 \in Byte
  BY DEF Byte
<1>2. <<8 * 1>> \in Bytes /\ Varint(3) \in Bytes
  BY <1>1, OneByte, VarintSteps
<1>3. VarintField(1, 3) \in Bytes
  BY <1>2, BytesConcat DEF VarintField
<1> QED BY <1>3, BytesShape

\* The parts of a transaction are bytes.
LEMMA PartsShape ==
  ASSUME NEW t \in Transaction
  PROVE  /\ 1 \in FieldNumbers /\ 2 \in FieldNumbers /\ 7 \in FieldNumbers
         /\ <<7>> \in Bytes /\ <<8>> \in Bytes /\ <<9>> \in Bytes /\ <<10>> \in Bytes
         /\ t.chaincode \in Bytes /\ t.results \in Bytes /\ t.signature \in Bytes
         /\ IdOf(t.creator) \in Bytes /\ CreatorPart(t) \in Bytes
         /\ NamePart(t) \in Bytes /\ Field(2, t.chaincode) \in Bytes
         /\ ChannelPart(t) \in Bytes
         /\ EndorsementFields(t) \in Seq(Bytes) /\ EndorsementsPart(t) \in Bytes
         /\ ResultsPart(t) \in Bytes /\ ResponsePart(t) \in Bytes
         /\ EndorsedPart(t) \in Bytes /\ ActionPart(t) \in Bytes
         /\ CallPart(t) \in Bytes /\ HeaderPart(t) \in Bytes
         /\ Field(1, CallPart(t)) \in Bytes /\ PayloadPart(t) \in Bytes
         /\ Envelope(t) \in Bytes /\ Field(1, Envelope(t)) \in Bytes
<1>1. 1 \in FieldNumbers /\ 2 \in FieldNumbers /\ 7 \in FieldNumbers
  BY DEF FieldNumbers
<1>2. <<7>> \in Bytes /\ <<8>> \in Bytes /\ <<9>> \in Bytes /\ <<10>> \in Bytes
  BY OneByte DEF Byte
<1>3. /\ t.chaincode \in Bytes /\ t.results \in Bytes /\ t.signature \in Bytes
      /\ t.creator \in Certificate
      /\ Len(t.endorsers) \in Nat /\ DOMAIN t.endorsers = 1..Len(t.endorsers)
      /\ \A i \in 1..Len(t.endorsers) : t.endorsers[i] \in Certificate
  BY TransactionShape
<1>4. IdOf(t.creator) \in Bytes
  BY <1>3, CertificateShape
<1>5. CreatorPart(t) \in Bytes
  BY <1>1, <1>2, <1>4, TwoFields DEF CreatorPart, SignedBy
<1>6. Field(2, t.chaincode) \in Bytes
  BY <1>1, <1>3, FieldShape
<1>7. NamePart(t) \in Bytes
  BY <1>1, <1>6, FieldShape DEF NamePart
<1>8. ChannelPart(t) \in Bytes
  <2>1. Field(7, NamePart(t)) \in Bytes
    BY <1>1, <1>7, FieldShape
  <2> QED BY <2>1, ChannelHead, BytesConcat DEF ChannelPart
<1>9. EndorsementFields(t) \in Seq(Bytes)
  <2>1. ASSUME NEW i \in 1..Len(t.endorsers) PROVE Field(2, Endorsement(t.endorsers[i])) \in Bytes
    <3>1. IdOf(t.endorsers[i]) \in Bytes
      BY <1>3, CertificateShape
    <3>2. Endorsement(t.endorsers[i]) \in Bytes
      BY <1>1, <1>2, <3>1, TwoFields DEF Endorsement
    <3> QED BY <1>1, <3>2, FieldShape
  <2>2. EndorsementFields(t) \in [1..Len(t.endorsers) -> Bytes]
    BY <1>3, <2>1 DEF EndorsementFields
  <2> QED BY <1>3, <2>2
<1>10. EndorsementsPart(t) \in Bytes
  BY <1>9, FlatBytes DEF EndorsementsPart
<1>11. ResultsPart(t) \in Bytes
  BY <1>1, <1>3, FieldShape DEF ResultsPart
<1>12. ResponsePart(t) \in Bytes
  BY <1>1, <1>2, <1>11, TwoFields DEF ResponsePart
<1>13. EndorsedPart(t) \in Bytes
  BY <1>1, <1>10, <1>12, FieldShape, BytesConcat DEF EndorsedPart
<1>14. ActionPart(t) \in Bytes
  BY <1>1, <1>2, <1>13, TwoFields DEF ActionPart
<1>15. CallPart(t) \in Bytes /\ Field(1, CallPart(t)) \in Bytes
  <2>1. CallPart(t) \in Bytes
    BY <1>1, <1>5, <1>14, TwoFields DEF CallPart
  <2> QED BY <1>1, <2>1, FieldShape
<1>16. HeaderPart(t) \in Bytes
  BY <1>1, <1>5, <1>8, TwoFields DEF HeaderPart
<1>17. PayloadPart(t) \in Bytes
  BY <1>1, <1>15, <1>16, TwoFields DEF PayloadPart
<1>18. Envelope(t) \in Bytes
  BY <1>1, <1>3, <1>17, TwoFields, EnvelopeParts
<1>19. Field(1, Envelope(t)) \in Bytes
  BY <1>1, <1>18, FieldShape
<1> QED BY <1>1, <1>2, <1>3, <1>4, <1>5, <1>6, <1>7, <1>8, <1>9, <1>10, <1>11, <1>12, <1>13,
           <1>14, <1>15, <1>16, <1>17, <1>18, <1>19

\* In the header of the channel the name comes after a number.
LEMMA ChannelPlace ==
  ASSUME NEW d \in Bytes, NEW p \in Nat, NEW n \in Nat, NEW path, NEW q, NEW t \in Transaction,
         Leads(d, p, n, path, q, ChannelPart(t))
  PROVE  HasPlace(d, p, n, Append(path, 7), NamePart(t), q, q + Len(ChannelPart(t)))
<1> DEFINE v == VarintField(1, 3)
           k == Len(v)
           b == NamePart(t)
<1>1. /\ 1 \in FieldNumbers /\ 7 \in FieldNumbers /\ b \in Bytes
      /\ Field(7, b) \in Bytes /\ Len(Field(7, b)) = HeadSize(b) + Len(b)
      /\ HeadSize(b) \in Nat /\ HeadSize(b) > 0 /\ Len(b) \in Nat
  BY PartsShape, FieldShape
<1>2. v \in Bytes /\ k \in Nat
  BY ChannelHead
<1>3. ChannelPart(t) = v \o Field(7, b)
  BY DEF ChannelPart
<1> HIDE DEF b, v
<1>4. q \in Nat /\ At(d, q, v) /\ At(d, q + k, Field(7, b))
  <2>1. q \in Nat /\ At(d, q, v \o Field(7, b))
    BY <1>3 DEF Leads
  <2> QED BY <1>1, <1>2, <2>1, AtConcat
<1>5. /\ ProtoGetFieldLength(d, q).field = 1
      /\ ProtoGetFieldLength(d, q).pos + ProtoGetFieldLength(d, q).len = q + k
  <2>1. /\ ProtoGetFieldLength(d, q) = [field |-> 1, len |-> Len(Varint(3)), pos |-> q + 1]
        /\ Len(Varint(3)) \in Nat /\ k = 1 + Len(Varint(3))
    BY <1>1, <1>4, VarintFieldReads DEF v
  <2> DEFINE m == Len(Varint(3))
  <2> HIDE DEF m, k
  <2>2. /\ ProtoGetFieldLength(d, q) = [field |-> 1, len |-> m, pos |-> q + 1]
        /\ m \in Nat /\ k = 1 + m
    BY <2>1 DEF m
  <2> QED BY <1>4, <2>2
<1>6. Len(ChannelPart(t)) = k + Len(Field(7, b))
  BY <1>1, <1>2, <1>3, BytesConcat
<1> HIDE DEF k
<1>7. k < Len(ChannelPart(t))
  BY <1>1, <1>2, <1>6
<1> DEFINE e == q + k + HeadSize(b)
<1>8. Leads(d, p, n, Append(path, 7), e, b)
  <2>1. ProtoGetFieldLength(d, q).field # 7
    BY <1>5
  <2> QED BY <1>1, <1>2, <1>4, <1>5, <1>7, <2>1, StepSecond
<1>9. e \in Nat /\ q < e /\ e + Len(b) = q + Len(ChannelPart(t))
  BY <1>1, <1>2, <1>4, <1>6, Z3
<1> HIDE DEF e
<1>10. HasPlace(d, p, n, Append(path, 7), b, q, q + Len(ChannelPart(t)))
  BY <1>8, <1>9 DEF HasPlace, IsPlace
<1> QED BY <1>10 DEF b

\* Where the fields of a transaction are that annotations are for, in their order.
TxPlaces(d, p, n, t, x) ==
  /\ Leads(d, p, n, <<1, 2>>, x.sig, t.signature)
  /\ Leads(d, p, n, <<1, 1, 1, 1, 7, 2, 2>>, x.name, t.chaincode)
  /\ Leads(d, p, n, <<1, 1, 1, 2, 1>>, x.creator, IdOf(t.creator))
  /\ Leads(d, p, n, <<1, 1, 2, 1, 1, 1>>, x.caller, IdOf(t.creator))
  /\ Leads(d, p, n, <<1, 1, 2, 1, 2, 2, 1, 2, 1>>, x.results, t.results)
  /\ Leads(d, p, n, <<1, 1, 2, 1, 2, 2>>, x.outer, EndorsedPart(t))
  /\ p < x.name
  /\ x.name + Len(t.chaincode) <= x.creator
  /\ x.creator + Len(IdOf(t.creator)) <= x.caller
  /\ x.caller + Len(IdOf(t.creator)) <= x.results
  /\ x.results + Len(t.results) = x.outer + Len(Field(1, ResponsePart(t)))
  /\ x.outer + Len(EndorsedPart(t)) <= x.sig
  /\ x.sig + Len(t.signature) = p + n

\* The code finds all of them.
TxPlacesKnown(d, p, n, t) ==
  \E x \in [sig : Nat, name : Nat, creator : Nat, caller : Nat, results : Nat, outer : Nat] :
    TxPlaces(d, p, n, t, x)

\* In the field of a transaction, each path of the annotations leads to its part.
LEMMA TxPlacesExist ==
  ASSUME NEW d \in Bytes, NEW p \in Nat, NEW t \in Transaction, NEW n,
         n = Len(Field(1, Envelope(t))), At(d, p, Field(1, Envelope(t)))
  PROVE  TxPlacesKnown(d, p, n, t)
<1>0. n \in Nat
  BY PartsShape, BytesShape
<1>1. /\ 1 \in FieldNumbers /\ 2 \in FieldNumbers /\ 7 \in FieldNumbers
      /\ <<7>> \in Bytes /\ <<9>> \in Bytes /\ <<10>> \in Bytes
      /\ t.chaincode \in Bytes /\ t.results \in Bytes /\ t.signature \in Bytes
      /\ IdOf(t.creator) \in Bytes /\ CreatorPart(t) \in Bytes
      /\ NamePart(t) \in Bytes /\ Field(2, t.chaincode) \in Bytes
      /\ ChannelPart(t) \in Bytes /\ EndorsementsPart(t) \in Bytes
      /\ ResultsPart(t) \in Bytes /\ ResponsePart(t) \in Bytes
      /\ EndorsedPart(t) \in Bytes /\ ActionPart(t) \in Bytes
      /\ CallPart(t) \in Bytes /\ HeaderPart(t) \in Bytes
      /\ Field(1, CallPart(t)) \in Bytes /\ PayloadPart(t) \in Bytes
      /\ Envelope(t) \in Bytes /\ Field(1, Envelope(t)) \in Bytes
      /\ n \in Nat /\ p \in Nat /\ d \in Bytes
      /\ Field(2, <<7>>) \in Bytes /\ Field(2, t.signature) \in Bytes
      /\ Field(2, Field(1, CallPart(t))) \in Bytes /\ Field(2, CreatorPart(t)) \in Bytes
      /\ Field(2, ActionPart(t)) \in Bytes
  BY <1>0, PartsShape, FieldShape
<1>2. Leads(d, p, n, <<>>, p, Field(1, Envelope(t)))
  <2>1. ProtoGetFieldPos(d, p, n, <<>>) = [pos |-> p, len |-> n]
    BY <1>1, PathEmpty
  <2>2. <<>> \in Seq(Nat)
    OBVIOUS
  <2> QED BY <1>1, <2>1, <2>2 DEF Leads
<1>3. PICK env \in Nat :
           IsPlace(d, p, n, <<1>>, Envelope(t), env,
                   p, p + Len(Field(1, Envelope(t))))
  <2>1. HasPlace(d, p, n, Append(<<>>, 1), Envelope(t),
                 p, p + Len(Field(1, Envelope(t))))
    BY <1>1, <1>2, OnlyPlace
  <2>2. Append(<<>>, 1) = <<1>>
    BY TransactionPaths
  <2> QED BY <2>1, <2>2 DEF HasPlace
<1>4. PICK pay \in Nat :
           IsPlace(d, p, n, <<1, 1>>, PayloadPart(t), pay,
                   env, env + Len(Field(1, PayloadPart(t))))
  <2>1. HasPlace(d, p, n, Append(<<1>>, 1), PayloadPart(t),
                 env, env + Len(Field(1, PayloadPart(t))))
    BY <1>1, <1>3, FirstPlace, EnvelopeParts DEF IsPlace
  <2>2. Append(<<1>>, 1) = <<1, 1>>
    BY TransactionPaths
  <2> QED BY <2>1, <2>2 DEF HasPlace
<1>5. PICK sig \in Nat :
           IsPlace(d, p, n, <<1, 2>>, t.signature, sig,
                   env + Len(Field(1, PayloadPart(t))), env + Len(Envelope(t)))
  <2>1. HasPlace(d, p, n, Append(<<1>>, 2), t.signature,
                 env + Len(Field(1, PayloadPart(t))), env + Len(Envelope(t)))
    <3>1. Envelope(t) = Field(1, PayloadPart(t)) \o Field(2, t.signature)
      BY EnvelopeParts
    <3>2. Leads(d, p, n, <<1>>, env, Envelope(t))
      BY <1>3 DEF IsPlace
    <3>3. 2 # 1 /\ 2 \in Nat
      OBVIOUS
    <3> QED BY <1>1, <3>1, <3>2, <3>3, SecondPlace
  <2>2. Append(<<1>>, 2) = <<1, 2>>
    BY TransactionPaths
  <2> QED BY <2>1, <2>2 DEF HasPlace
<1>6. PICK hdr \in Nat :
           IsPlace(d, p, n, <<1, 1, 1>>, HeaderPart(t), hdr,
                   pay, pay + Len(Field(1, HeaderPart(t))))
  <2>1. HasPlace(d, p, n, Append(<<1, 1>>, 1), HeaderPart(t),
                 pay, pay + Len(Field(1, HeaderPart(t))))
    BY <1>1, <1>4, FirstPlace DEF PayloadPart, IsPlace
  <2>2. Append(<<1, 1>>, 1) = <<1, 1, 1>>
    BY TransactionPaths
  <2> QED BY <2>1, <2>2 DEF HasPlace
<1>7. PICK trn \in Nat :
           IsPlace(d, p, n, <<1, 1, 2>>, Field(1, CallPart(t)), trn,
                   pay + Len(Field(1, HeaderPart(t))), pay + Len(PayloadPart(t)))
  <2>1. HasPlace(d, p, n, Append(<<1, 1>>, 2), Field(1, CallPart(t)),
                 pay + Len(Field(1, HeaderPart(t))), pay + Len(PayloadPart(t)))
    <3>1. PayloadPart(t) = Field(1, HeaderPart(t)) \o Field(2, Field(1, CallPart(t)))
      BY DEF PayloadPart
    <3>2. Leads(d, p, n, <<1, 1>>, pay, PayloadPart(t))
      BY <1>4 DEF IsPlace
    <3>3. 2 # 1 /\ 2 \in Nat
      OBVIOUS
    <3> QED BY <1>1, <3>1, <3>2, <3>3, SecondPlace
  <2>2. Append(<<1, 1>>, 2) = <<1, 1, 2>>
    BY TransactionPaths
  <2> QED BY <2>1, <2>2 DEF HasPlace
<1>8. PICK chn \in Nat :
           IsPlace(d, p, n, <<1, 1, 1, 1>>, ChannelPart(t), chn,
                   hdr, hdr + Len(Field(1, ChannelPart(t))))
  <2>1. HasPlace(d, p, n, Append(<<1, 1, 1>>, 1), ChannelPart(t),
                 hdr, hdr + Len(Field(1, ChannelPart(t))))
    BY <1>1, <1>6, FirstPlace DEF HeaderPart, IsPlace
  <2>2. Append(<<1, 1, 1>>, 1) = <<1, 1, 1, 1>>
    BY TransactionPaths
  <2> QED BY <2>1, <2>2 DEF HasPlace
<1>9. PICK crt \in Nat :
           IsPlace(d, p, n, <<1, 1, 1, 2>>, CreatorPart(t), crt,
                   hdr + Len(Field(1, ChannelPart(t))), hdr + Len(HeaderPart(t)))
  <2>1. HasPlace(d, p, n, Append(<<1, 1, 1>>, 2), CreatorPart(t),
                 hdr + Len(Field(1, ChannelPart(t))), hdr + Len(HeaderPart(t)))
    <3>1. HeaderPart(t) = Field(1, ChannelPart(t)) \o Field(2, CreatorPart(t))
      BY DEF HeaderPart
    <3>2. Leads(d, p, n, <<1, 1, 1>>, hdr, HeaderPart(t))
      BY <1>6 DEF IsPlace
    <3>3. 2 # 1 /\ 2 \in Nat
      OBVIOUS
    <3> QED BY <1>1, <3>1, <3>2, <3>3, SecondPlace
  <2>2. Append(<<1, 1, 1>>, 2) = <<1, 1, 1, 2>>
    BY TransactionPaths
  <2> QED BY <2>1, <2>2 DEF HasPlace
<1>10. PICK crid \in Nat :
           IsPlace(d, p, n, <<1, 1, 1, 2, 1>>, IdOf(t.creator), crid,
                   crt, crt + Len(Field(1, IdOf(t.creator))))
  <2>1. HasPlace(d, p, n, Append(<<1, 1, 1, 2>>, 1), IdOf(t.creator),
                 crt, crt + Len(Field(1, IdOf(t.creator))))
    BY <1>1, <1>9, FirstPlace DEF CreatorPart, SignedBy, IsPlace
  <2>2. Append(<<1, 1, 1, 2>>, 1) = <<1, 1, 1, 2, 1>>
    BY TransactionPaths
  <2> QED BY <2>1, <2>2 DEF HasPlace
<1>11. PICK call \in Nat :
           IsPlace(d, p, n, <<1, 1, 2, 1>>, CallPart(t), call,
                   trn, trn + Len(Field(1, CallPart(t))))
  <2>1. HasPlace(d, p, n, Append(<<1, 1, 2>>, 1), CallPart(t),
                 trn, trn + Len(Field(1, CallPart(t))))
    BY <1>1, <1>7, OnlyPlace DEF IsPlace
  <2>2. Append(<<1, 1, 2>>, 1) = <<1, 1, 2, 1>>
    BY TransactionPaths
  <2> QED BY <2>1, <2>2 DEF HasPlace
<1>12. PICK cl \in Nat :
           IsPlace(d, p, n, <<1, 1, 2, 1, 1>>, CreatorPart(t), cl,
                   call, call + Len(Field(1, CreatorPart(t))))
  <2>1. HasPlace(d, p, n, Append(<<1, 1, 2, 1>>, 1), CreatorPart(t),
                 call, call + Len(Field(1, CreatorPart(t))))
    BY <1>1, <1>11, FirstPlace DEF CallPart, IsPlace
  <2>2. Append(<<1, 1, 2, 1>>, 1) = <<1, 1, 2, 1, 1>>
    BY TransactionPaths
  <2> QED BY <2>1, <2>2 DEF HasPlace
<1>13. PICK clid \in Nat :
           IsPlace(d, p, n, <<1, 1, 2, 1, 1, 1>>, IdOf(t.creator), clid,
                   cl, cl + Len(Field(1, IdOf(t.creator))))
  <2>1. HasPlace(d, p, n, Append(<<1, 1, 2, 1, 1>>, 1), IdOf(t.creator),
                 cl, cl + Len(Field(1, IdOf(t.creator))))
    BY <1>1, <1>12, FirstPlace DEF CreatorPart, SignedBy, IsPlace
  <2>2. Append(<<1, 1, 2, 1, 1>>, 1) = <<1, 1, 2, 1, 1, 1>>
    BY TransactionPaths
  <2> QED BY <2>1, <2>2 DEF HasPlace
<1>14. PICK act \in Nat :
           IsPlace(d, p, n, <<1, 1, 2, 1, 2>>, ActionPart(t), act,
                   call + Len(Field(1, CreatorPart(t))), call + Len(CallPart(t)))
  <2>1. HasPlace(d, p, n, Append(<<1, 1, 2, 1>>, 2), ActionPart(t),
                 call + Len(Field(1, CreatorPart(t))), call + Len(CallPart(t)))
    <3>1. CallPart(t) = Field(1, CreatorPart(t)) \o Field(2, ActionPart(t))
      BY DEF CallPart
    <3>2. Leads(d, p, n, <<1, 1, 2, 1>>, call, CallPart(t))
      BY <1>11 DEF IsPlace
    <3>3. 2 # 1 /\ 2 \in Nat
      OBVIOUS
    <3> QED BY <1>1, <3>1, <3>2, <3>3, SecondPlace
  <2>2. Append(<<1, 1, 2, 1>>, 2) = <<1, 1, 2, 1, 2>>
    BY TransactionPaths
  <2> QED BY <2>1, <2>2 DEF HasPlace
<1>15. PICK endd \in Nat :
           IsPlace(d, p, n, <<1, 1, 2, 1, 2, 2>>, EndorsedPart(t), endd,
                   act + Len(Field(1, <<10>>)), act + Len(ActionPart(t)))
  <2>1. HasPlace(d, p, n, Append(<<1, 1, 2, 1, 2>>, 2), EndorsedPart(t),
                 act + Len(Field(1, <<10>>)), act + Len(ActionPart(t)))
    <3>1. ActionPart(t) = Field(1, <<10>>) \o Field(2, EndorsedPart(t))
      BY DEF ActionPart
    <3>2. Leads(d, p, n, <<1, 1, 2, 1, 2>>, act, ActionPart(t))
      BY <1>14 DEF IsPlace
    <3>3. 2 # 1 /\ 2 \in Nat
      OBVIOUS
    <3> QED BY <1>1, <3>1, <3>2, <3>3, SecondPlace
  <2>2. Append(<<1, 1, 2, 1, 2>>, 2) = <<1, 1, 2, 1, 2, 2>>
    BY TransactionPaths
  <2> QED BY <2>1, <2>2 DEF HasPlace
<1>16. PICK rsp \in Nat :
           IsPlace(d, p, n, <<1, 1, 2, 1, 2, 2, 1>>, ResponsePart(t), rsp,
                   endd, endd + Len(Field(1, ResponsePart(t))))
  <2>1. HasPlace(d, p, n, Append(<<1, 1, 2, 1, 2, 2>>, 1), ResponsePart(t),
                 endd, endd + Len(Field(1, ResponsePart(t))))
    BY <1>1, <1>15, FirstPlace DEF EndorsedPart, IsPlace
  <2>2. Append(<<1, 1, 2, 1, 2, 2>>, 1) = <<1, 1, 2, 1, 2, 2, 1>>
    BY TransactionPaths
  <2> QED BY <2>1, <2>2 DEF HasPlace
<1>17. PICK res \in Nat :
           IsPlace(d, p, n, <<1, 1, 2, 1, 2, 2, 1, 2>>, ResultsPart(t), res,
                   rsp + Len(Field(1, <<9>>)), rsp + Len(ResponsePart(t)))
  <2>1. HasPlace(d, p, n, Append(<<1, 1, 2, 1, 2, 2, 1>>, 2), ResultsPart(t),
                 rsp + Len(Field(1, <<9>>)), rsp + Len(ResponsePart(t)))
    <3>1. ResponsePart(t) = Field(1, <<9>>) \o Field(2, ResultsPart(t))
      BY DEF ResponsePart
    <3>2. Leads(d, p, n, <<1, 1, 2, 1, 2, 2, 1>>, rsp, ResponsePart(t))
      BY <1>16 DEF IsPlace
    <3>3. 2 # 1 /\ 2 \in Nat
      OBVIOUS
    <3> QED BY <1>1, <3>1, <3>2, <3>3, SecondPlace
  <2>2. Append(<<1, 1, 2, 1, 2, 2, 1>>, 2) = <<1, 1, 2, 1, 2, 2, 1, 2>>
    BY TransactionPaths
  <2> QED BY <2>1, <2>2 DEF HasPlace
<1>18. PICK rw \in Nat :
           IsPlace(d, p, n, <<1, 1, 2, 1, 2, 2, 1, 2, 1>>, t.results, rw,
                   res, res + Len(ResultsPart(t)))
  <2>1. HasPlace(d, p, n, Append(<<1, 1, 2, 1, 2, 2, 1, 2>>, 1), t.results,
                 res, res + Len(ResultsPart(t)))
    BY <1>1, <1>17, OnlyPlace DEF ResultsPart, IsPlace
  <2>2. Append(<<1, 1, 2, 1, 2, 2, 1, 2>>, 1) = <<1, 1, 2, 1, 2, 2, 1, 2, 1>>
    BY TransactionPaths
  <2> QED BY <2>1, <2>2 DEF HasPlace
<1>19. PICK chn7 \in Nat :
           IsPlace(d, p, n, <<1, 1, 1, 1, 7>>, NamePart(t), chn7,
                   chn, chn + Len(ChannelPart(t)))
  <2>1. HasPlace(d, p, n, Append(<<1, 1, 1, 1>>, 7), NamePart(t),
                 chn, chn + Len(ChannelPart(t)))
    BY <1>1, <1>8, ChannelPlace DEF IsPlace
  <2>2. Append(<<1, 1, 1, 1>>, 7) = <<1, 1, 1, 1, 7>>
    BY TransactionPaths
  <2> QED BY <2>1, <2>2 DEF HasPlace
<1>20. PICK chn72 \in Nat :
           IsPlace(d, p, n, <<1, 1, 1, 1, 7, 2>>, Field(2, t.chaincode), chn72,
                   chn7, chn7 + Len(NamePart(t)))
  <2>1. HasPlace(d, p, n, Append(<<1, 1, 1, 1, 7>>, 2), Field(2, t.chaincode),
                 chn7, chn7 + Len(NamePart(t)))
    BY <1>1, <1>19, OnlyPlace DEF NamePart, IsPlace
  <2>2. Append(<<1, 1, 1, 1, 7>>, 2) = <<1, 1, 1, 1, 7, 2>>
    BY TransactionPaths
  <2> QED BY <2>1, <2>2 DEF HasPlace
<1>21. PICK name \in Nat :
           IsPlace(d, p, n, <<1, 1, 1, 1, 7, 2, 2>>, t.chaincode, name,
                   chn72, chn72 + Len(Field(2, t.chaincode)))
  <2>1. HasPlace(d, p, n, Append(<<1, 1, 1, 1, 7, 2>>, 2), t.chaincode,
                 chn72, chn72 + Len(Field(2, t.chaincode)))
    BY <1>1, <1>20, OnlyPlace DEF IsPlace
  <2>2. Append(<<1, 1, 1, 1, 7, 2>>, 2) = <<1, 1, 1, 1, 7, 2, 2>>
    BY TransactionPaths
  <2> QED BY <2>1, <2>2 DEF HasPlace
<1>22. /\ p < env /\ env < pay /\ pay < hdr /\ hdr < chn /\ chn < chn7 /\ chn7 < chn72 /\ chn72 < name
       /\ hdr + Len(Field(1, ChannelPart(t))) < crt /\ crt < crid
       /\ pay + Len(Field(1, HeaderPart(t))) < trn /\ trn < call /\ call < cl /\ cl < clid
       /\ call + Len(Field(1, CreatorPart(t))) < act /\ act + Len(Field(1, <<10>>)) < endd
       /\ endd < rsp /\ rsp + Len(Field(1, <<9>>)) < res /\ res < rw
       /\ env + Len(Field(1, PayloadPart(t))) < sig
  BY <1>3, <1>4, <1>5, <1>6, <1>7, <1>8, <1>9, <1>10, <1>11, <1>12, <1>13, <1>14, <1>15, <1>16,
     <1>17, <1>18, <1>19, <1>20, <1>21 DEF IsPlace
<1>23. /\ env + Len(Envelope(t)) = p + n
       /\ pay + Len(PayloadPart(t)) = env + Len(Field(1, PayloadPart(t)))
       /\ sig + Len(t.signature) = env + Len(Envelope(t))
       /\ hdr + Len(HeaderPart(t)) = pay + Len(Field(1, HeaderPart(t)))
       /\ trn + Len(Field(1, CallPart(t))) = pay + Len(PayloadPart(t))
       /\ chn + Len(ChannelPart(t)) = hdr + Len(Field(1, ChannelPart(t)))
       /\ crt + Len(CreatorPart(t)) = hdr + Len(HeaderPart(t))
       /\ crid + Len(IdOf(t.creator)) = crt + Len(Field(1, IdOf(t.creator)))
       /\ call + Len(CallPart(t)) = trn + Len(Field(1, CallPart(t)))
       /\ cl + Len(CreatorPart(t)) = call + Len(Field(1, CreatorPart(t)))
       /\ clid + Len(IdOf(t.creator)) = cl + Len(Field(1, IdOf(t.creator)))
       /\ act + Len(ActionPart(t)) = call + Len(CallPart(t))
       /\ endd + Len(EndorsedPart(t)) = act + Len(ActionPart(t))
       /\ rsp + Len(ResponsePart(t)) = endd + Len(Field(1, ResponsePart(t)))
       /\ res + Len(ResultsPart(t)) = rsp + Len(ResponsePart(t))
       /\ rw + Len(t.results) = res + Len(ResultsPart(t))
       /\ chn7 + Len(NamePart(t)) = chn + Len(ChannelPart(t))
       /\ chn72 + Len(Field(2, t.chaincode)) = chn7 + Len(NamePart(t))
       /\ name + Len(t.chaincode) = chn72 + Len(Field(2, t.chaincode))
  BY <1>3, <1>4, <1>5, <1>6, <1>7, <1>8, <1>9, <1>10, <1>11, <1>12, <1>13, <1>14, <1>15, <1>16,
     <1>17, <1>18, <1>19, <1>20, <1>21 DEF IsPlace
<1>24. Len(Field(1, IdOf(t.creator))) <= Len(CreatorPart(t))
  <2>1. Len(CreatorPart(t)) = Len(Field(1, IdOf(t.creator))) + Len(Field(2, <<7>>))
    BY <1>1, FieldShape, BytesConcat DEF CreatorPart, SignedBy
  <2> QED BY <1>1, <2>1, FieldShape
<1>25. /\ Len(IdOf(t.creator)) \in Nat /\ Len(CreatorPart(t)) \in Nat
       /\ Len(Field(1, IdOf(t.creator))) \in Nat /\ Len(Field(1, <<9>>)) \in Nat
       /\ Len(Field(1, <<10>>)) \in Nat /\ Len(Field(1, ResponsePart(t))) \in Nat
       /\ Len(Field(1, ChannelPart(t))) \in Nat /\ Len(Field(1, HeaderPart(t))) \in Nat
       /\ Len(Field(1, CreatorPart(t))) \in Nat /\ Len(Field(1, PayloadPart(t))) \in Nat
       /\ Len(HeaderPart(t)) \in Nat /\ Len(PayloadPart(t)) \in Nat
  BY <1>1, FieldShape, BytesShape
<1>26. /\ Len(CallPart(t)) \in Nat /\ Len(Field(1, CallPart(t))) \in Nat
       /\ Len(ActionPart(t)) \in Nat /\ Len(EndorsedPart(t)) \in Nat
       /\ Len(ResponsePart(t)) \in Nat /\ Len(ResultsPart(t)) \in Nat
       /\ Len(ChannelPart(t)) \in Nat /\ Len(NamePart(t)) \in Nat
       /\ Len(Field(2, t.chaincode)) \in Nat /\ Len(t.chaincode) \in Nat
       /\ Len(t.results) \in Nat /\ Len(t.signature) \in Nat /\ Len(Envelope(t)) \in Nat
  BY <1>1, BytesShape
<1>27. /\ env \in Nat /\ pay \in Nat /\ sig \in Nat /\ hdr \in Nat /\ trn \in Nat /\ chn \in Nat
       /\ crt \in Nat /\ crid \in Nat /\ call \in Nat /\ cl \in Nat /\ clid \in Nat /\ act \in Nat
       /\ endd \in Nat /\ rsp \in Nat /\ res \in Nat /\ rw \in Nat /\ chn7 \in Nat
       /\ chn72 \in Nat /\ name \in Nat
  BY <1>3, <1>4, <1>5, <1>6, <1>7, <1>8, <1>9, <1>10, <1>11, <1>12, <1>13, <1>14, <1>15, <1>16,
     <1>17, <1>18, <1>19, <1>20, <1>21
<1>28. p < name /\ name + Len(t.chaincode) <= crid
  <2>1. p < name
    BY <1>22, <1>27, Z3
  <2>2. name + Len(t.chaincode) = hdr + Len(Field(1, ChannelPart(t)))
    BY <1>23
  <2>3. hdr + Len(Field(1, ChannelPart(t))) < crid
    BY <1>22, <1>25, <1>27, Z3
  <2> QED BY <1>25, <1>27, <2>1, <2>2, <2>3, Z3
<1>29. crid + Len(IdOf(t.creator)) <= clid
  <2>1. crid + Len(IdOf(t.creator)) <= crt + Len(CreatorPart(t))
    BY <1>23, <1>24, <1>25, <1>27, Z3
  <2>2. crt + Len(CreatorPart(t)) = pay + Len(Field(1, HeaderPart(t)))
    BY <1>23
  <2>3. pay + Len(Field(1, HeaderPart(t))) < clid
    BY <1>22, <1>25, <1>27, Z3
  <2> QED BY <1>25, <1>27, <2>1, <2>2, <2>3
<1>30. clid + Len(IdOf(t.creator)) <= rw
  <2>1. clid + Len(IdOf(t.creator)) <= cl + Len(CreatorPart(t))
    BY <1>23, <1>24, <1>25, <1>27, Z3
  <2>2. cl + Len(CreatorPart(t)) = call + Len(Field(1, CreatorPart(t)))
    BY <1>23
  <2>3. call + Len(Field(1, CreatorPart(t))) < endd
    BY <1>22, <1>25, <1>27, Z3
  <2>4. endd < rw
    BY <1>22, <1>25, <1>27, Z3
  <2> QED BY <1>25, <1>27, <2>1, <2>2, <2>3, <2>4
<1>31. rw + Len(t.results) = endd + Len(Field(1, ResponsePart(t)))
  BY <1>1, <1>22, <1>23, <1>25, <1>26, Z3
<1>32. endd + Len(EndorsedPart(t)) <= sig /\ sig + Len(t.signature) = p + n
  BY <1>1, <1>22, <1>23, <1>25, <1>26, Z3
<1>33. /\ Leads(d, p, n, <<1, 2>>, sig, t.signature)
       /\ Leads(d, p, n, <<1, 1, 1, 1, 7, 2, 2>>, name, t.chaincode)
       /\ Leads(d, p, n, <<1, 1, 1, 2, 1>>, crid, IdOf(t.creator))
       /\ Leads(d, p, n, <<1, 1, 2, 1, 1, 1>>, clid, IdOf(t.creator))
       /\ Leads(d, p, n, <<1, 1, 2, 1, 2, 2, 1, 2, 1>>, rw, t.results)
       /\ Leads(d, p, n, <<1, 1, 2, 1, 2, 2>>, endd, EndorsedPart(t))
  BY <1>5, <1>10, <1>13, <1>15, <1>18, <1>21 DEF IsPlace
<1> QED
  <2> DEFINE x == [sig |-> sig, name |-> name, creator |-> crid, caller |-> clid,
                   results |-> rw, outer |-> endd]
  <2>1. /\ x \in [sig : Nat, name : Nat, creator : Nat, caller : Nat, results : Nat, outer : Nat]
        /\ x.sig = sig /\ x.name = name /\ x.creator = crid /\ x.caller = clid
        /\ x.results = rw /\ x.outer = endd
    OBVIOUS
  <2> HIDE DEF x
  <2>2. TxPlaces(d, p, n, t, x)
    BY <1>1, <1>28, <1>29, <1>30, <1>31, <1>32, <1>33, <2>1 DEF TxPlaces
  <2> QED BY <2>1, <2>2 DEF TxPlacesKnown

-----------------------------------------------------------------------------
(* Fields that are repeated.                                               *)

\* Parts that follow each other from p on: s[i] is where the first i of them end.
LaidOut(d, p, parts, s) ==
  /\ s \in [0..Len(parts) -> Nat] /\ s[0] = p
  /\ \A i \in 1..Len(parts) : At(d, s[i - 1], parts[i]) /\ s[i] = s[i - 1] + Len(parts[i])
IsLaidOut(d, p, parts) ==
  \E s : LaidOut(d, p, parts, s) /\ s[Len(parts)] = p + Len(FlattenSeq(parts))

\* What has been flattened is laid out.
LEMMA FlatLaidOut ==
  ASSUME NEW d \in Bytes, NEW p, NEW parts \in Seq(Bytes), At(d, p, FlattenSeq(parts))
  PROVE  IsLaidOut(d, p, parts)
<1> DEFINE n == Len(parts)
<1>1. n \in Nat /\ p \in Nat /\ \A i \in 1..n : parts[i] \in Bytes
  BY DEF At
<1>2. CASE n = 0
  <2> DEFINE s == [i \in 0..n |-> p]
  <2>1. FlattenSeq(parts) = parts
    BY <1>2 DEF FlattenSeq
  <2>2. s \in [0..n -> Nat] /\ s[0] = p /\ s[n] = p
    BY <1>1, <1>2
  <2>3. LaidOut(d, p, parts, s)
    BY <1>2, <2>2 DEF LaidOut
  <2>4. s[n] = p + Len(FlattenSeq(parts))
    BY <1>1, <1>2, <2>1, <2>2
  <2> HIDE DEF s
  <2> QED BY <2>3, <2>4 DEF IsLaidOut
<1>3. CASE n > 0
  <2>1. PICK g : /\ g \in [1..n -> Bytes]
                 /\ g[1] = parts[1]
                 /\ \A i \in 2..n : g[i] = g[i - 1] \o parts[i]
                 /\ FlattenSeq(parts) = g[n]
    BY <1>3, FlattenSteps DEF Bytes
  <2>2. \A i \in 1..n : g[i] \in Bytes /\ Len(g[i]) \in Nat
    BY <2>1, BytesShape
  <2> DEFINE T == {k \in 0..n - 1 : At(d, p, g[n - k])}
  <2>3. 0 \in T
    BY <1>1, <1>3, <2>1
  <2>4. ASSUME NEW k \in 1..n - 1, k - 1 \in T PROVE k \in T
    <3>1. n - k \in 1..n /\ n - (k - 1) \in 2..n /\ (n - (k - 1)) - 1 = n - k /\ n - (k - 1) \in 1..n
      BY <1>1
    <3>2. g[n - (k - 1)] = g[n - k] \o parts[n - (k - 1)]
      BY <2>1, <3>1
    <3>3. At(d, p, g[n - k] \o parts[n - (k - 1)])
      BY <2>4, <3>2
    <3>4. At(d, p, g[n - k])
      BY <1>1, <2>2, <3>1, <3>3, AtConcat
    <3> QED BY <3>4
  <2>5. \A k \in 0..n - 1 : k \in T
    <3>1. n - 1 \in Nat
      BY <1>1, <1>3
    <3> HIDE DEF T, n
    <3> QED BY <2>3, <2>4, <3>1, IntervalInduction
  <2>6. ASSUME NEW i \in 1..n PROVE At(d, p, g[i])
    <3>1. n - i \in 0..n - 1 /\ n - (n - i) = i
      BY <1>1
    <3>2. n - i \in T
      BY <2>5, <3>1
    <3> QED BY <3>1, <3>2
  <2> DEFINE s == [i \in 0..n |-> IF i = 0 THEN p ELSE p + Len(g[i])]
  <2>7. s \in [0..n -> Nat] /\ s[0] = p
    BY <1>1, <2>2
  <2>8. \A i \in 1..n : s[i] = p + Len(g[i])
    BY <1>1
  <2> HIDE DEF s, T
  <2>9. ASSUME NEW i \in 1..n
        PROVE  At(d, s[i - 1], parts[i]) /\ s[i] = s[i - 1] + Len(parts[i])
    <3>1. CASE i = 1
      BY <2>1, <2>6, <2>7, <2>8, <3>1
    <3>2. CASE i # 1
      <4>1. i \in 2..n /\ i - 1 \in 1..n
        BY <1>1, <3>2
      <4>2. g[i] = g[i - 1] \o parts[i] /\ g[i - 1] \in Bytes /\ parts[i] \in Bytes
        BY <1>1, <2>1, <2>2, <4>1
      <4>3. At(d, p, g[i - 1] \o parts[i])
        BY <2>6, <4>2
      <4>4. /\ At(d, p + Len(g[i - 1]), parts[i])
            /\ p + Len(g[i - 1] \o parts[i]) = p + Len(g[i - 1]) + Len(parts[i])
        <5>1. PICK u \in Bytes, v \in Bytes : u = g[i - 1] /\ v = parts[i]
          BY <4>2
        <5>2. At(d, p, u \o v)
          BY <4>3, <5>1
        <5>3. At(d, p + Len(u), v) /\ p + Len(u \o v) = p + Len(u) + Len(v)
          BY <5>2, AtConcat
        <5> QED BY <5>1, <5>3
      <4>5. s[i - 1] = p + Len(g[i - 1]) /\ s[i] = p + Len(g[i - 1] \o parts[i])
        BY <2>8, <4>1, <4>2
      <4> QED BY <4>4, <4>5
    <3> QED BY <3>1, <3>2
  <2>10. LaidOut(d, p, parts, s)
    BY <2>7, <2>9 DEF LaidOut
  <2>11. s[n] = p + Len(FlattenSeq(parts))
    BY <1>1, <1>3, <2>1, <2>8
  <2> QED BY <2>10, <2>11 DEF IsLaidOut
<1> QED BY <1>1, <1>2, <1>3

\* The one part ends before the other does.
LEMMA LaidOutInOrder ==
  ASSUME NEW d, NEW p, NEW parts \in Seq(Bytes), NEW s, LaidOut(d, p, parts, s)
  PROVE  /\ \A i \in 0..Len(parts) : \A j \in 0..Len(parts) : i <= j => s[i] <= s[j]
         /\ (\A i \in 1..Len(parts) : Len(parts[i]) > 0) =>
              \A i \in 0..Len(parts) : \A j \in 0..Len(parts) : i < j => s[i] < s[j]
<1> DEFINE n == Len(parts)
           T == {j \in 0..n : \A i \in 0..n : i <= j => s[i] <= s[j]}
           U == {j \in 0..n : \A i \in 0..n : i < j => s[i] < s[j]}
<1>1. /\ n \in Nat /\ \A i \in 0..n : s[i] \in Nat
      /\ \A i \in 1..n : s[i] = s[i - 1] + Len(parts[i])
      /\ \A i \in 1..n : Len(parts[i]) \in Nat
  <2>1. \A i \in 1..n : parts[i] \in Bytes
    OBVIOUS
  <2>2. \A i \in 1..n : Len(parts[i]) \in Nat
    BY <2>1, BytesShape
  <2>3. n \in Nat
    OBVIOUS
  <2>4. /\ \A i \in 0..n : s[i] \in Nat
        /\ \A i \in 1..n : s[i] = s[i - 1] + Len(parts[i])
    BY DEF LaidOut
  <2> QED BY <2>2, <2>3, <2>4
<1>2. 0 \in T /\ 0 \in U
  BY <1>1
<1>3. ASSUME NEW j \in 1..n, j - 1 \in T PROVE j \in T
  <2> SUFFICES ASSUME NEW i \in 0..n, i <= j PROVE s[i] <= s[j]
    OBVIOUS
  <2>1. j \in 0..n /\ j - 1 \in 0..n /\ s[j - 1] <= s[j]
    <3>1. j \in 0..n /\ j - 1 \in 0..n
      BY <1>1
    <3>2. s[j] = s[j - 1] + Len(parts[j]) /\ Len(parts[j]) \in Nat /\ s[j - 1] \in Nat
      BY <1>1, <3>1
    <3> QED BY <3>1, <3>2
  <2>2. i = j \/ s[i] <= s[j - 1]
    BY <1>1, <1>3
  <2>3. s[i] \in Nat /\ s[j - 1] \in Nat /\ s[j] \in Nat
    BY <1>1, <2>1
  <2> QED BY <2>1, <2>2, <2>3
<1>4. ASSUME \A i \in 1..n : Len(parts[i]) > 0, NEW j \in 1..n, j - 1 \in U PROVE j \in U
  <2> SUFFICES ASSUME NEW i \in 0..n, i < j PROVE s[i] < s[j]
    OBVIOUS
  <2>1. j \in 0..n /\ j - 1 \in 0..n /\ s[j - 1] < s[j]
    <3>1. j \in 0..n /\ j - 1 \in 0..n
      BY <1>1
    <3>2. s[j] = s[j - 1] + Len(parts[j]) /\ Len(parts[j]) > 0 /\ s[j - 1] \in Nat
      BY <1>1, <1>4, <3>1
    <3>3. Len(parts[j]) \in Nat
      BY <1>1
    <3> QED BY <3>1, <3>2, <3>3
  <2>2. i = j - 1 \/ s[i] < s[j - 1]
    BY <1>1, <1>4
  <2>3. s[i] \in Nat /\ s[j - 1] \in Nat /\ s[j] \in Nat
    BY <1>1, <2>1
  <2> QED BY <2>1, <2>2, <2>3
<1>5. \A j \in 0..n : j \in T
  <2> HIDE DEF T, n
  <2> QED BY <1>1, <1>2, <1>3, IntervalInduction
<1>6. (\A i \in 1..n : Len(parts[i]) > 0) => \A j \in 0..n : j \in U
  <2> HIDE DEF U, n
  <2> QED BY <1>1, <1>2, <1>4, IntervalInduction
<1> QED BY <1>5, <1>6

-----------------------------------------------------------------------------
(* The endorsements.                                                       *)

\* The field of an endorsement at q, as the code reads it: the identity, and then the
\* signature up to the end.
IdPlace(q, c) == q + HeadSize(Endorsement(c)) + HeadSize(IdOf(c))
EndorsementAt(d, q, c) ==
  LET e == ProtoGetFieldLength(d, q)
      ca == ProtoGetFieldLength(d, e.pos)
      sig == ProtoGetFieldLength(d, ca.pos + ca.len)
  IN  /\ e.pos = q + HeadSize(Endorsement(c)) /\ e.pos \in Nat
      /\ ca.pos = IdPlace(q, c) /\ ca.len = Len(IdOf(c)) /\ ca.pos \in Nat /\ q < ca.pos
      /\ sig.pos + sig.len = q + Len(Field(2, Endorsement(c)))
      /\ ca.pos + ca.len < sig.pos + sig.len
      /\ At(d, ca.pos, IdOf(c))

\* The shape of one.
LEMMA EndorsementShape ==
  ASSUME NEW c \in Certificate
  PROVE  /\ 1 \in FieldNumbers /\ 2 \in FieldNumbers /\ <<8>> \in Bytes
         /\ IdOf(c) \in Bytes /\ Field(1, IdOf(c)) \in Bytes /\ Field(2, <<8>>) \in Bytes
         /\ Endorsement(c) \in Bytes /\ Field(2, Endorsement(c)) \in Bytes
         /\ Len(Endorsement(c)) = Len(Field(1, IdOf(c))) + Len(Field(2, <<8>>))
         /\ Len(Field(1, IdOf(c))) = HeadSize(IdOf(c)) + Len(IdOf(c))
         /\ Len(Field(2, Endorsement(c))) = HeadSize(Endorsement(c)) + Len(Endorsement(c))
         /\ HeadSize(IdOf(c)) \in Nat /\ HeadSize(Endorsement(c)) \in Nat /\ Len(IdOf(c)) \in Nat
         /\ HeadSize(IdOf(c)) > 0 /\ HeadSize(Endorsement(c)) > 0
         /\ Len(Field(2, <<8>>)) = HeadSize(<<8>>) + Len(<<8>>)
         /\ Len(Field(2, <<8>>)) \in Nat /\ Len(Field(2, <<8>>)) > 0
<1>1. 1 \in FieldNumbers /\ 2 \in FieldNumbers
  BY DEF FieldNumbers
<1>2. <<8>> \in Bytes
  BY OneByte DEF Byte
<1>3. IdOf(c) \in Bytes
  BY CertificateShape
<1>4. Field(1, IdOf(c)) \in Bytes /\ Field(2, <<8>>) \in Bytes
  BY <1>1, <1>2, <1>3, FieldShape
<1>5. Endorsement(c) \in Bytes /\ Len(Endorsement(c)) = Len(Field(1, IdOf(c))) + Len(Field(2, <<8>>))
  BY <1>4, BytesConcat DEF Endorsement
<1> QED BY <1>1, <1>2, <1>3, <1>4, <1>5, FieldShape

\* It is read that way.
LEMMA EndorsementReads ==
  ASSUME NEW d \in Bytes, NEW q \in Nat, NEW c \in Certificate,
         At(d, q, Field(2, Endorsement(c)))
  PROVE  EndorsementAt(d, q, c)
<1> DEFINE w == Endorsement(c)
           id == IdOf(c)
           e == q + HeadSize(w)
           g == e + HeadSize(id)
           h == e + Len(Field(1, id))
<1>1. /\ 1 \in FieldNumbers /\ 2 \in FieldNumbers /\ <<8>> \in Bytes /\ id \in Bytes /\ w \in Bytes
      /\ Field(1, id) \in Bytes /\ Field(2, <<8>>) \in Bytes
      /\ HeadSize(w) \in Nat /\ HeadSize(id) \in Nat /\ Len(id) \in Nat
      /\ HeadSize(id) > 0 /\ HeadSize(w) > 0 /\ Len(Field(2, <<8>>)) > 0
      /\ Len(Field(1, id)) = HeadSize(id) + Len(id) /\ Len(Field(2, <<8>>)) \in Nat
      /\ Len(Field(2, <<8>>)) = HeadSize(<<8>>) + Len(<<8>>)
      /\ Len(Field(2, w)) = HeadSize(w) + Len(w) /\ Len(w) = Len(Field(1, id)) + Len(Field(2, <<8>>))
  BY EndorsementShape
<1>2. w = Field(1, id) \o Field(2, <<8>>)
  BY DEF Endorsement
<1> HIDE DEF w, id
<1>3. /\ ProtoGetFieldLength(d, q) = [field |-> 2, len |-> Len(w), pos |-> e]
      /\ At(d, e, w) /\ e \in Nat
  <2>1. At(d, q, Field(2, w)) /\ 2 \in FieldNumbers /\ w \in Bytes
    BY <1>1 DEF w
  <2>2. e \in Nat
    BY <1>1, Z3
  <2> QED BY <2>1, <2>2, GetFieldReads
<1>4. At(d, e, Field(1, id)) /\ At(d, h, Field(2, <<8>>)) /\ h \in Nat
  <2>1. At(d, e, Field(1, id) \o Field(2, <<8>>))
    BY <1>2, <1>3
  <2>2. e \in Nat /\ Field(1, id) \in Bytes /\ Field(2, <<8>>) \in Bytes
    BY <1>1, <1>3
  <2> HIDE DEF e
  <2>3. At(d, e, Field(1, id)) /\ At(d, e + Len(Field(1, id)), Field(2, <<8>>))
    BY <2>1, <2>2, AtConcat
  <2>4. h \in Nat
    BY <2>3 DEF At, h
  <2> QED BY <2>3, <2>4
<1> HIDE DEF h
<1>5. /\ ProtoGetFieldLength(d, e) = [field |-> 1, len |-> Len(id), pos |-> g]
      /\ At(d, g, id) /\ g \in Nat
  <2> HIDE DEF e
  <2>1. /\ ProtoGetFieldLength(d, e) = [field |-> 1, len |-> Len(id), pos |-> e + HeadSize(id)]
        /\ At(d, e + HeadSize(id), id)
    BY <1>1, <1>3, <1>4, GetFieldReads
  <2>2. g \in Nat
    BY <2>1 DEF At
  <2> QED BY <2>1, <2>2
<1>6. ProtoGetFieldLength(d, h) = [field |-> 2, len |-> Len(<<8>>), pos |-> h + HeadSize(<<8>>)]
  <2>1. 2 \in FieldNumbers /\ <<8>> \in Bytes /\ h \in Nat /\ At(d, h, Field(2, <<8>>))
    BY <1>1, <1>4
  <2> HIDE DEF e
  <2> QED BY <2>1, GetFieldReads
<1>7. HeadSize(<<8>>) \in Nat /\ Len(<<8>>) \in Nat
  BY <1>1, FieldShape
<1>8. g + Len(id) = h
  BY <1>1, Z3 DEF h
<1>9. q < g /\ h < q + Len(Field(2, w)) /\ h + HeadSize(<<8>>) + Len(<<8>>) = q + Len(Field(2, w))
  <2>1. /\ q \in Nat /\ HeadSize(w) \in Nat /\ HeadSize(id) \in Nat /\ Len(id) \in Nat
        /\ HeadSize(id) > 0 /\ HeadSize(w) > 0 /\ Len(Field(2, <<8>>)) > 0
        /\ Len(Field(2, <<8>>)) \in Nat /\ Len(Field(1, id)) = HeadSize(id) + Len(id)
        /\ Len(Field(2, w)) = HeadSize(w) + Len(Field(1, id)) + Len(Field(2, <<8>>))
    BY <1>1, Z3
  <2>2. PICK a, b, c1, x, y, z \in Nat :
          /\ a = HeadSize(w) /\ b = HeadSize(id) /\ c1 = Len(id) /\ x = Len(Field(2, <<8>>))
          /\ y = HeadSize(<<8>>) /\ z = Len(<<8>>)
    BY <1>7, <2>1
  <2>3. /\ g = q + a + b /\ h = q + a + (b + c1) /\ Len(Field(2, w)) = a + (b + c1) + x
        /\ x = y + z /\ a > 0 /\ x > 0
    BY <1>1, <2>1, <2>2 DEF h
  <2>4. q < q + a + b /\ q + a + (b + c1) < q + (a + (b + c1) + x)
        /\ q + a + (b + c1) + y + z = q + (a + (b + c1) + x)
    BY <2>3
  <2> HIDE DEF g, w, id
  <2> QED BY <2>2, <2>3, <2>4
<1>10. g = IdPlace(q, c)
  BY DEF IdPlace, w, id
<1> HIDE DEF e, g
<1>11. /\ ProtoGetFieldLength(d, q).pos = e /\ ProtoGetFieldLength(d, e).pos = g
       /\ ProtoGetFieldLength(d, e).len = Len(id)
       /\ ProtoGetFieldLength(d, h).pos = h + HeadSize(<<8>>)
       /\ ProtoGetFieldLength(d, h).len = Len(<<8>>)
  BY <1>3, <1>5, <1>6
<1>12. /\ e = q + HeadSize(Endorsement(c)) /\ Len(id) = Len(IdOf(c)) /\ At(d, g, IdOf(c))
       /\ Len(Field(2, w)) = Len(Field(2, Endorsement(c)))
  BY <1>5 DEF e, w, id
<1> QED BY <1>3, <1>5, <1>8, <1>9, <1>10, <1>11, <1>12 DEF EndorsementAt

\* The loop over the endorsements: what it has after one more of them.
CaAnnotations == [type : {"ENDORSER_CA"}, offset : Positions, desc : Positions]
NextEndorser(d, base, end, x) ==
  LET ca   == ProtoGetFieldLength(d, x.pos)
      sig  == ProtoGetFieldLength(d, ca.pos + ca.len)
      next == sig.pos + sig.len
  IN  [list |-> Append(x.list, Annotation("ENDORSER_CA", ca.pos - base, ca.len)),
       pos  |-> ProtoGetFieldLength(d, next).pos,
       all  |-> next >= end]
ReadsEndorsers(d, base, pos, end, r) ==
  /\ r[0] = [list |-> <<>>, pos |-> pos, all |-> FALSE]
  /\ \A i \in 1..MAX_ENDORSER_NUM :
       r[i] = IF r[i - 1].all THEN r[i - 1] ELSE NextEndorser(d, base, end, r[i - 1])
EndorsersRead(d, base, pos, end, result) ==
  \E r : ReadsEndorsers(d, base, pos, end, r) /\ result = r[MAX_ENDORSER_NUM]

\* Sixteen bits make a number.
LEMMA PositionsAreNumbers == \A i \in Positions : i \in Nat /\ i <= 65535
BY DEF Positions

\* An annotation has 16-bit fields.
LEMMA AnnotationShape ==
  ASSUME NEW type, NEW o \in Int, NEW l \in Int
  PROVE  /\ Annotation(type, o, l) = [type |-> type, offset |-> o % 65536, desc |-> l % 65536]
         /\ o % 65536 \in Positions /\ l % 65536 \in Positions
         /\ o \in Positions => o % 65536 = o
         /\ l \in Positions => l % 65536 = l
<1>1. Annotation(type, o, l) = [type |-> type, offset |-> o % 65536, desc |-> l % 65536]
  BY DEF Annotation, Uint16
<1>2. ASSUME NEW n \in Int PROVE n % 65536 \in Positions
  BY DEF Positions
<1>3. ASSUME NEW n \in Positions PROVE n % 65536 = n
  <2>1. n \in Nat /\ n <= 65535
    BY DEF Positions
  <2> QED BY <2>1
<1> QED BY <1>1, <1>2, <1>3

\* A field is read to be somewhere.
LEMMA FieldSomewhere ==
  ASSUME NEW d \in Bytes, NEW p \in Nat
  PROVE  /\ ProtoGetFieldLength(d, p).pos \in Nat /\ ProtoGetFieldLength(d, p).len \in Nat
         /\ ProtoGetFieldLength(d, p).pos + ProtoGetFieldLength(d, p).len \in Nat
<1>1. ProtoGetFieldLength(d, p) \in ReadField
  BY GetFieldProgress
<1>2. ProtoGetFieldLength(d, p).pos \in Nat /\ ProtoGetFieldLength(d, p).len \in Nat
  BY <1>1 DEF ReadField
<1> QED BY <1>2

\* The loop is run to its end.
LEMMA EndorserSteps ==
  ASSUME NEW d \in Bytes, NEW base \in Nat, NEW pos \in Nat, NEW end \in Nat
  PROVE  EndorsersRead(d, base, pos, end, EndorserCAs(d, base, pos, end))
<1> DEFINE k == MAX_ENDORSER_NUM
           R == [list : Seq(CaAnnotations), pos : Nat, all : BOOLEAN]
           first == [list |-> <<>>, pos |-> pos, all |-> FALSE]
           Step(x) == IF x.all THEN x ELSE NextEndorser(d, base, end, x)
           G == [i \in 1..k |-> [x \in R |-> Step(x)]]
           Body(f, i) ==
             IF i = 0 THEN [list |-> <<>>, pos |-> pos, all |-> FALSE]
             ELSE IF f[i - 1].all THEN f[i - 1]
             ELSE LET ca   == ProtoGetFieldLength(d, f[i - 1].pos)
                      sig  == ProtoGetFieldLength(d, ca.pos + ca.len)
                      next == sig.pos + sig.len
                  IN  [list |-> Append(f[i - 1].list,
                                       Annotation("ENDORSER_CA", ca.pos - base, ca.len)),
                       pos  |-> ProtoGetFieldLength(d, next).pos,
                       all  |-> next >= end]
           Unfolds(f) == f = [i \in 0..k |-> Body(f, i)]
<1>0. k \in Nat
  BY DEF MAX_ENDORSER_NUM
<1> HIDE DEF k
<1>1. first \in R
  OBVIOUS
<1>2. ASSUME NEW x \in R PROVE Step(x) \in R
  <2> DEFINE ca   == ProtoGetFieldLength(d, x.pos)
             sig  == ProtoGetFieldLength(d, ca.pos + ca.len)
             next == sig.pos + sig.len
             a    == Annotation("ENDORSER_CA", ca.pos - base, ca.len)
  <2>1. x.pos \in Nat /\ x.list \in Seq(CaAnnotations) /\ x.all \in BOOLEAN
    OBVIOUS
  <2>2. ca.pos \in Nat /\ ca.len \in Nat /\ ca.pos + ca.len \in Nat
    BY <2>1, FieldSomewhere
  <2>3. next \in Nat
    <3> HIDE DEF ca
    <3> QED BY <2>2, FieldSomewhere
  <2>4. a \in CaAnnotations
    <3>1. ca.pos - base \in Int /\ ca.len \in Int
      BY <2>2
    <3> HIDE DEF ca
    <3>2. PICK o \in Int, l \in Int : o = ca.pos - base /\ l = ca.len
      BY <3>1
    <3>3. Annotation("ENDORSER_CA", o, l) \in CaAnnotations
      <4>1. /\ Annotation("ENDORSER_CA", o, l)
                 = [type |-> "ENDORSER_CA", offset |-> o % 65536, desc |-> l % 65536]
            /\ o % 65536 \in Positions /\ l % 65536 \in Positions
        BY AnnotationShape
      <4>2. PICK x1 \in Positions, y1 \in Positions : x1 = o % 65536 /\ y1 = l % 65536
        BY <4>1
      <4>3. [type |-> "ENDORSER_CA", offset |-> x1, desc |-> y1] \in CaAnnotations
        BY DEF CaAnnotations
      <4> QED BY <4>1, <4>2, <4>3
    <3> QED BY <3>2, <3>3
  <2>5. ProtoGetFieldLength(d, next).pos \in Nat
    <3> HIDE DEF next
    <3> QED BY <2>3, FieldSomewhere
  <2>6. NextEndorser(d, base, end, x)
          = [list |-> Append(x.list, a), pos |-> ProtoGetFieldLength(d, next).pos, all |-> next >= end]
    BY DEF NextEndorser
  <2>7. (next >= end) \in BOOLEAN
    OBVIOUS
  <2> HIDE DEF a, next
  <2>8. Append(x.list, a) \in Seq(CaAnnotations)
    BY <2>1, <2>4
  <2> QED BY <2>5, <2>6, <2>7, <2>8
<1> HIDE DEF R, first
<1>3. G \in Steps(k, R)
  <2> HIDE DEF Step
  <2> QED BY <1>2 DEF Steps
<1> HIDE DEF G
<1>4. PICK f : Recursion(f, k, R, first, G)
  BY <1>0, <1>1, <1>3, RecursionExists
<1>5. Unfolds(f)
  <2>1. f \in [0..k -> R] /\ f[0] = first /\ \A i \in 1..k : f[i] = G[i][f[i - 1]]
    BY <1>4 DEF Recursion
  <2>2. ASSUME NEW i \in 1..k PROVE f[i] = Step(f[i - 1])
    <3>1. f[i - 1] \in R /\ f[i] = G[i][f[i - 1]]
      <4> i - 1 \in 0..k
        BY <1>0
      <4> QED BY <2>1
    <3> HIDE DEF Step
    <3> QED BY <3>1 DEF G
  <2>3. ASSUME NEW i \in 1..k PROVE Step(f[i - 1]) = Body(f, i)
    <3>1. i # 0
      BY <1>0
    <3> QED BY <3>1, Zenon DEF NextEndorser
  <2>4. \A i \in 0..k : f[i] = Body(f, i)
    <3>0. Body(f, 0) = [list |-> <<>>, pos |-> pos, all |-> FALSE]
      BY Zenon
    <3> HIDE DEF Body
    <3> SUFFICES ASSUME NEW i \in 0..k PROVE f[i] = Body(f, i)
      OBVIOUS
    <3>1. CASE i = 0
      BY <2>1, <3>0, <3>1 DEF first
    <3>2. CASE i # 0
      <4>1. i \in 1..k
        BY <1>0, <3>2
      <4> HIDE DEF Step
      <4> QED BY <2>2, <2>3, <4>1
    <3> QED BY <3>1, <3>2
  <2>5. f = [i \in 0..k |-> f[i]]
    BY <2>1
  <2> HIDE DEF Body
  <2> QED BY <2>4, <2>5, Zenon
<1> DEFINE v == CHOOSE g : Unfolds(g)
<1>6. Unfolds(v)
  <2> HIDE DEF Unfolds
  <2> QED BY <1>5
<1>7. EndorserCAs(d, base, pos, end) = v[k]
  BY DEF EndorserCAs, k
<1> HIDE DEF v
<1>8. \A i \in 0..k : v[i] = Body(v, i)
  <2> HIDE DEF Body
  <2> QED BY <1>6, Zenon
<1>9. ReadsEndorsers(d, base, pos, end, v)
  <2>0. Body(v, 0) = [list |-> <<>>, pos |-> pos, all |-> FALSE]
    BY Zenon
  <2>1. v[0] = [list |-> <<>>, pos |-> pos, all |-> FALSE]
    <3>1. v[0] = Body(v, 0)
      <4> HIDE DEF Body
      <4> QED BY <1>0, <1>8
    <3> QED BY <2>0, <3>1, Zenon
  <2>2. ASSUME NEW i \in 1..k
        PROVE  v[i] = IF v[i - 1].all THEN v[i - 1] ELSE NextEndorser(d, base, end, v[i - 1])
    <3>1. i \in 0..k /\ i # 0
      BY <1>0
    <3>2. v[i] = Body(v, i)
      <4> HIDE DEF Body
      <4> QED BY <1>8, <3>1
    <3> QED BY <3>1, <3>2, Zenon DEF NextEndorser
  <2> QED BY <2>1, <2>2 DEF ReadsEndorsers, k
<1> QED BY <1>7, <1>9 DEF EndorsersRead, k

\* What it finds in a transaction: the identities of the endorsers, of eight at most.
Listed(t) == IF Len(t.endorsers) <= MAX_ENDORSER_NUM THEN Len(t.endorsers) ELSE MAX_ENDORSER_NUM
CaAnnotation(base, t, s, j) ==
  Annotation("ENDORSER_CA", IdPlace(s[j - 1], t.endorsers[j]) - base, Len(IdOf(t.endorsers[j])))
CaList(base, t, s, m) == [j \in 1..m |-> CaAnnotation(base, t, s, j)]
EndorsersFound(base, t, s, result) ==
  /\ result.list = CaList(base, t, s, Listed(t))
  /\ result.all = (Len(t.endorsers) <= MAX_ENDORSER_NUM)

\* A sequence with one element more.
LEMMA AppendNext ==
  ASSUME NEW S, NEW m \in Nat, NEW f \in [1..m + 1 -> S]
  PROVE  Append([j \in 1..m |-> f[j]], f[m + 1]) = f
<1> DEFINE g == [j \in 1..m |-> f[j]]
<1>1. f[m + 1] \in S /\ \A j \in 1..m : f[j] \in S
  OBVIOUS
<1>2. g \in Seq(S) /\ Len(g) = m /\ \A j \in 1..m : g[j] = f[j]
  BY <1>1
<1>3. f \in Seq(S) /\ Len(f) = m + 1
  OBVIOUS
<1> HIDE DEF g
<1>4. /\ Append(g, f[m + 1]) \in Seq(S) /\ Len(Append(g, f[m + 1])) = m + 1
      /\ Append(g, f[m + 1])[m + 1] = f[m + 1]
      /\ \A j \in 1..m : Append(g, f[m + 1])[j] = g[j]
  BY <1>1, <1>2, AppendProperties
<1>5. \A j \in 1..m + 1 : Append(g, f[m + 1])[j] = f[j]
  BY <1>2, <1>4
<1>6. Append(g, f[m + 1]) = f
  BY <1>3, <1>4, <1>5, SeqEqual
<1> QED BY <1>6 DEF g

\* The fields of the endorsements are read one by one.
LEMMA EndorsersListed ==
  ASSUME NEW d \in Bytes, NEW base \in Nat, NEW t \in Transaction, NEW q \in Nat, NEW s,
         LaidOut(d, q, EndorsementFields(t), s)
  PROVE  EndorsersFound(base, t, s,
           EndorserCAs(d, base, q + HeadSize(Endorsement(t.endorsers[1])), s[Len(t.endorsers)]))
<1> DEFINE n == Len(t.endorsers)
           c(i) == t.endorsers[i]
           C(i) == s[i - 1] + HeadSize(Endorsement(c(i)))
           m(i) == IF i <= n THEN i ELSE n
<1>1. n \in Nat /\ n > 0 /\ \A i \in 1..n : c(i) \in Certificate
  BY TransactionShape
<1>2. /\ EndorsementFields(t) \in Seq(Bytes) /\ Len(EndorsementFields(t)) = n
      /\ \A i \in 1..n : EndorsementFields(t)[i] = Field(2, Endorsement(c(i)))
  <2>1. DOMAIN t.endorsers = 1..n /\ n \in Nat
    BY TransactionShape
  <2>2. EndorsementFields(t) = [i \in 1..n |-> Field(2, Endorsement(c(i)))]
    BY <2>1 DEF EndorsementFields
  <2>3. EndorsementFields(t) \in Seq(Bytes)
    BY PartsShape
  <2> HIDE DEF n, c
  <2> QED BY <2>1, <2>2, <2>3
<1> HIDE DEF n, c
<1>3. ASSUME NEW i \in 1..n
      PROVE  /\ s[i - 1] \in Nat /\ s[i] \in Nat /\ s[i] = s[i - 1] + Len(Field(2, Endorsement(c(i))))
             /\ EndorsementAt(d, s[i - 1], c(i))
  <2>1. /\ s[i - 1] \in Nat /\ s[i] \in Nat
        /\ At(d, s[i - 1], EndorsementFields(t)[i])
        /\ s[i] = s[i - 1] + Len(EndorsementFields(t)[i])
    <3>1. i \in 0..n /\ i - 1 \in 0..n
      BY <1>1
    <3> QED BY <1>2, <3>1 DEF LaidOut
  <2>2. c(i) \in Certificate
    BY <1>1
  <2> QED BY <1>2, <2>1, <2>2, EndorsementReads
<1>4. ASSUME NEW i \in 1..n PROVE i < n => s[i] < s[n]
  <2>1. \A j \in 1..n : Len(EndorsementFields(t)[j]) > 0
    <3> SUFFICES ASSUME NEW j \in 1..n PROVE Len(Field(2, Endorsement(c(j)))) > 0
      BY <1>2
    <3>1. Endorsement(c(j)) \in Bytes /\ 2 \in FieldNumbers
      BY <1>1, EndorsementShape
    <3> QED BY <3>1, FieldShape
  <2>2. \A j \in 0..n : \A k \in 0..n : j < k => s[j] < s[k]
    BY <1>2, <2>1, LaidOutInOrder
  <2>3. i \in 0..n /\ n \in 0..n
    BY <1>1
  <2> QED BY <2>2, <2>3
<1> DEFINE pos == q + HeadSize(Endorsement(c(1)))
           end == s[n]
<1>5. pos = C(1) /\ pos \in Nat /\ end \in Nat
  <2>1. s[0] = q
    BY DEF LaidOut
  <2>2. 1 \in 1..n /\ n \in 1..n
    BY <1>1
  <2>3. HeadSize(Endorsement(c(1))) \in Nat
    BY <1>1, <2>2, EndorsementShape
  <2>4. pos \in Nat
    BY <2>3, Z3
  <2> QED BY <1>3, <2>1, <2>2, <2>4
<1> HIDE DEF pos, end
<1>6. PICK r : /\ ReadsEndorsers(d, base, pos, end, r)
               /\ EndorserCAs(d, base, pos, end) = r[MAX_ENDORSER_NUM]
  <2>1. EndorsersRead(d, base, pos, end, EndorserCAs(d, base, pos, end))
    BY <1>5, EndorserSteps
  <2> QED BY <2>1 DEF EndorsersRead
<1> DEFINE Good(i) == /\ r[i].list = CaList(base, t, s, m(i))
                      /\ r[i].all = (i >= n)
                      /\ i < n => r[i].pos = C(i + 1)
           T == {i \in Nat : Good(i)}
<1>7. 0 \in T
  <2>1. r[0] = [list |-> <<>>, pos |-> pos, all |-> FALSE]
    BY <1>6 DEF ReadsEndorsers
  <2>2. CaList(base, t, s, 0) = <<>>
    BY DEF CaList
  <2>3. m(0) = 0 /\ (0 >= n) = FALSE /\ 0 + 1 = 1
    BY <1>1
  <2>4. r[0].list = <<>> /\ r[0].pos = pos /\ r[0].all = FALSE
    BY <2>1
  <2>5. CaList(base, t, s, m(0)) = <<>> /\ C(0 + 1) = pos
    <3>1. C(0 + 1) = C(1)
      BY <2>3
    <3> HIDE DEF C, m
    <3> QED BY <1>5, <2>2, <2>3, <3>1
  <2>6. Good(0)
    <3> HIDE DEF C, m
    <3> QED BY <2>3, <2>4, <2>5
  <2> HIDE DEF Good
  <2> QED BY <2>6
<1>8. ASSUME NEW i \in 1..MAX_ENDORSER_NUM, i - 1 \in T PROVE i \in T
  <2>1. i \in Nat /\ i - 1 \in Nat /\ i > 0
    BY DEF MAX_ENDORSER_NUM
  <2>2. r[i] = IF r[i - 1].all THEN r[i - 1] ELSE NextEndorser(d, base, end, r[i - 1])
    BY <1>6 DEF ReadsEndorsers
  <2>3. CASE i - 1 >= n
    <3>1. m(i) = n /\ m(i - 1) = n /\ i >= n /\ ~(i < n) /\ (i >= n) = TRUE /\ (i - 1 >= n) = TRUE
      BY <1>1, <2>1, <2>3
    <3>2. r[i] = r[i - 1]
      BY <1>8, <2>2, <3>1
    <3> HIDE DEF C
    <3> QED BY <1>8, <2>1, <3>1, <3>2
  <2>4. CASE i - 1 < n
    <3>1. /\ i \in 1..n /\ m(i) = i /\ m(i - 1) = i - 1 /\ (i - 1 >= n) = FALSE /\ (i - 1) + 1 = i
      BY <1>1, <2>1, <2>4
    <3>2. /\ r[i - 1].list = CaList(base, t, s, i - 1) /\ r[i - 1].all = FALSE
          /\ r[i - 1].pos = C(i)
      BY <1>8, <2>4, <3>1
    <3>3. r[i] = NextEndorser(d, base, end, r[i - 1])
      BY <2>2, <3>2
    <3> DEFINE ca   == ProtoGetFieldLength(d, C(i))
               sig  == ProtoGetFieldLength(d, ca.pos + ca.len)
    <3>4. /\ ca.pos = IdPlace(s[i - 1], c(i)) /\ ca.len = Len(IdOf(c(i)))
          /\ sig.pos + sig.len = s[i]
      <4>1. /\ EndorsementAt(d, s[i - 1], c(i))
            /\ s[i] = s[i - 1] + Len(Field(2, Endorsement(c(i))))
        BY <1>3, <3>1
      <4>2. ProtoGetFieldLength(d, s[i - 1]).pos = C(i)
        BY <4>1 DEF EndorsementAt
      <4> HIDE DEF C
      <4> QED BY <4>1, <4>2 DEF EndorsementAt
    <3>5. CaAnnotation(base, t, s, i) = Annotation("ENDORSER_CA", ca.pos - base, ca.len)
      <4> HIDE DEF ca
      <4> QED BY <3>4 DEF CaAnnotation, c
    <3>6. NextEndorser(d, base, end, r[i - 1])
            = [list |-> Append(r[i - 1].list, Annotation("ENDORSER_CA", ca.pos - base, ca.len)),
               pos  |-> ProtoGetFieldLength(d, sig.pos + sig.len).pos,
               all  |-> sig.pos + sig.len >= end]
      <4> HIDE DEF C
      <4> QED BY <3>2, Zenon DEF NextEndorser
    <3> HIDE DEF ca, sig, C
    <3>7. r[i] = [list |-> Append(CaList(base, t, s, i - 1), CaAnnotation(base, t, s, i)),
                  pos  |-> ProtoGetFieldLength(d, s[i]).pos,
                  all  |-> s[i] >= end]
      BY <3>2, <3>3, <3>4, <3>5, <3>6, Zenon
    <3>8. Append(CaList(base, t, s, i - 1), CaAnnotation(base, t, s, i)) = CaList(base, t, s, i)
      <4> DEFINE S == {CaAnnotation(base, t, s, j) : j \in 1..i}
                 f == CaList(base, t, s, i)
      <4>1. f \in [1..(i - 1) + 1 -> S] /\ \A j \in 1..i : f[j] = CaAnnotation(base, t, s, j)
        BY <3>1 DEF CaList
      <4>2. CaList(base, t, s, i - 1) = [j \in 1..i - 1 |-> f[j]]
        BY <2>1, <4>1 DEF CaList
      <4>3. f[(i - 1) + 1] = CaAnnotation(base, t, s, i)
        BY <2>1, <4>1
      <4> HIDE DEF f, S
      <4>4. Append([j \in 1..i - 1 |-> f[j]], f[(i - 1) + 1]) = f
        BY <2>1, <4>1, AppendNext
      <4> QED BY <4>2, <4>3, <4>4 DEF f
    <3>9. (s[i] >= end) = (i >= n)
      <4>1. s[i] \in Nat /\ (i < n => s[i] < end)
        BY <1>3, <1>4, <3>1 DEF end
      <4>2. CASE i = n
        BY <1>5, <4>1, <4>2 DEF end
      <4>3. CASE i # n
        BY <1>1, <1>5, <3>1, <4>1, <4>3
      <4> QED BY <4>2, <4>3
    <3>10. i < n => ProtoGetFieldLength(d, s[i]).pos = C(i + 1)
      <4> SUFFICES ASSUME i < n PROVE ProtoGetFieldLength(d, s[i]).pos = C(i + 1)
        OBVIOUS
      <4>1. i + 1 \in 1..n /\ (i + 1) - 1 = i
        BY <1>1, <3>1
      <4>2. EndorsementAt(d, s[i], c(i + 1))
        BY <1>3, <4>1
      <4>3. ProtoGetFieldLength(d, s[i]).pos = s[i] + HeadSize(Endorsement(c(i + 1)))
        BY <4>2 DEF EndorsementAt
      <4> QED BY <4>1, <4>3 DEF C
    <3>11. Good(i)
      BY <3>1, <3>7, <3>8, <3>9, <3>10
    <3> HIDE DEF Good
    <3> QED BY <2>1, <3>11
  <2> QED BY <1>1, <2>1, <2>3, <2>4
<1>9. Good(MAX_ENDORSER_NUM)
  <2>1. MAX_ENDORSER_NUM \in Nat
    BY DEF MAX_ENDORSER_NUM
  <2>2. MAX_ENDORSER_NUM \in T
    <3>1. \A i \in 0..MAX_ENDORSER_NUM : i \in T
      <4> HIDE DEF T
      <4> QED BY <1>7, <1>8, <2>1, IntervalInduction
    <3> HIDE DEF T
    <3> QED BY <2>1, <3>1
  <2> QED BY <2>2
<1>10. m(MAX_ENDORSER_NUM) = Listed(t) /\ (MAX_ENDORSER_NUM >= n) = (n <= MAX_ENDORSER_NUM)
  BY <1>1 DEF Listed, n, MAX_ENDORSER_NUM
<1>11. EndorsersFound(base, t, s, EndorserCAs(d, base, pos, end))
  <2> HIDE DEF C, m
  <2> QED BY <1>6, <1>9, <1>10 DEF EndorsersFound, n
<1> QED BY <1>11 DEF pos, end, c, n

\* Where the endorsements of a transaction are: after the response, to the end.
TxEndorsers(d, p, n, t, x, s) ==
  /\ LaidOut(d, x.outer + Len(Field(1, ResponsePart(t))), EndorsementFields(t), s)
  /\ s[Len(t.endorsers)] = x.outer + Len(EndorsedPart(t))
  /\ Leads(d, p, n, EndorserPath, s[0] + HeadSize(Endorsement(t.endorsers[1])),
           Endorsement(t.endorsers[1]))
HasTxEndorsers(d, p, n, t, x) == \E s : TxEndorsers(d, p, n, t, x, s)

\* The endorsements of a transaction are laid out after the response, one by one.
LEMMA EndorsersPlaced ==
  ASSUME NEW d \in Bytes, NEW p \in Nat, NEW n \in Nat, NEW t \in Transaction, NEW x,
         x.outer \in Nat, Leads(d, p, n, <<1, 1, 2, 1, 2, 2>>, x.outer, EndorsedPart(t))
  PROVE  HasTxEndorsers(d, p, n, t, x)
<1> DEFINE o == x.outer
           w == EndorsedPart(t)
           r == ResponsePart(t)
           k == Len(Field(1, r))
           m == Len(t.endorsers)
           fs == EndorsementFields(t)
           e == Endorsement(t.endorsers[1])
<1>1. /\ 1 \in FieldNumbers /\ 2 \in FieldNumbers /\ r \in Bytes /\ w \in Bytes
      /\ EndorsementsPart(t) \in Bytes /\ fs \in Seq(Bytes)
      /\ Field(1, r) \in Bytes /\ k \in Nat /\ k = HeadSize(r) + Len(r)
      /\ HeadSize(r) \in Nat /\ Len(r) \in Nat
  BY PartsShape, FieldShape
<1>2. w = Field(1, r) \o EndorsementsPart(t) /\ EndorsementsPart(t) = FlattenSeq(fs)
  BY DEF EndorsedPart, EndorsementsPart
<1>3. /\ m \in Nat /\ m > 0 /\ Len(fs) = m /\ e \in Bytes /\ fs[1] = Field(2, e)
  <2>1. m \in Nat /\ m > 0 /\ DOMAIN t.endorsers = 1..m /\ t.endorsers[1] \in Certificate
    BY TransactionShape
  <2>2. e \in Bytes
    BY <2>1, EndorsementShape
  <2> HIDE DEF m
  <2>3. fs = [i \in 1..m |-> Field(2, Endorsement(t.endorsers[i]))]
    BY <2>1 DEF EndorsementFields
  <2> HIDE DEF fs
  <2>4. Len(fs) = m /\ fs[1] = Field(2, e)
    BY <2>1, <2>3
  <2> QED BY <2>1, <2>2, <2>4
<1> HIDE DEF w, r, m, fs, e
<1>4. At(d, o, Field(1, r)) /\ At(d, o + k, FlattenSeq(fs)) /\ o + Len(w) = o + k + Len(FlattenSeq(fs))
  <2>1. At(d, o, Field(1, r) \o FlattenSeq(fs))
    BY <1>2 DEF Leads, w
  <2>2. Field(1, r) \in Bytes /\ FlattenSeq(fs) \in Bytes
    BY <1>1, <1>2
  <2>3. /\ At(d, o, Field(1, r)) /\ At(d, o + Len(Field(1, r)), FlattenSeq(fs))
        /\ o + Len(Field(1, r) \o FlattenSeq(fs)) = o + Len(Field(1, r)) + Len(FlattenSeq(fs))
    BY <2>1, <2>2, AtConcat
  <2> QED BY <1>2, <2>3
<1> HIDE DEF o, k
<1>5. PICK s : LaidOut(d, o + k, fs, s) /\ s[m] = o + k + Len(FlattenSeq(fs))
  <2>1. IsLaidOut(d, o + k, fs)
    BY <1>1, <1>4, FlatLaidOut
  <2> QED BY <1>3, <2>1 DEF IsLaidOut
<1>6. s[0] = o + k /\ At(d, o + k, Field(2, e)) /\ s[1] = o + k + Len(Field(2, e))
  <2>1. 1 \in 1..Len(fs) /\ 1 - 1 = 0
    BY <1>3
  <2>2. s[0] = o + k /\ At(d, s[1 - 1], fs[1]) /\ s[1] = s[1 - 1] + Len(fs[1])
    BY <1>5, <2>1 DEF LaidOut
  <2> QED BY <1>3, <2>1, <2>2
<1>7. k < Len(w)
  <2>1. 0 \in 0..Len(fs) /\ 1 \in 0..Len(fs) /\ m \in 0..Len(fs) /\ 1 <= m
    BY <1>3
  <2>2. s[1] <= s[m]
    BY <1>1, <1>5, <2>1, LaidOutInOrder
  <2>3. o \in Nat /\ s[1] \in Nat /\ s[m] \in Nat /\ s[m] = o + Len(w) /\ Len(w) \in Nat
    BY <1>1, <1>4, <1>5, <2>1, BytesShape DEF LaidOut, o
  <2>4. Len(Field(2, e)) \in Nat /\ Len(Field(2, e)) > 0
    BY <1>1, <1>3, FieldShape
  <2>5. PICK a, b \in Nat : a = Len(Field(2, e)) /\ b = Len(w)
    BY <2>3, <2>4
  <2>6. s[1] = o + k + a /\ s[m] = o + b /\ a > 0 /\ k \in Nat
    BY <1>1, <1>6, <2>3, <2>4, <2>5
  <2>7. k < b
    BY <2>2, <2>3, <2>6
  <2> QED BY <2>5, <2>7
<1>8. /\ ProtoGetFieldLength(d, o).field # 2
      /\ ProtoGetFieldLength(d, o).pos + ProtoGetFieldLength(d, o).len = o + k
  <2>1. ProtoGetFieldLength(d, o) = [field |-> 1, len |-> Len(r), pos |-> o + HeadSize(r)]
    <3>1. o \in Nat /\ 1 \in FieldNumbers /\ r \in Bytes /\ At(d, o, Field(1, r))
      BY <1>1, <1>4 DEF o
    <3> QED BY <3>1, GetFieldReads
  <2>2. PICK a, b \in Nat : a = HeadSize(r) /\ b = Len(r)
    BY <1>1
  <2>3. o \in Nat /\ k = a + b
    BY <1>1, <2>2 DEF o
  <2>4. o + a + b = o + k
    BY <2>3
  <2> QED BY <2>1, <2>2, <2>4
<1>9. Leads(d, p, n, Append(<<1, 1, 2, 1, 2, 2>>, 2), o + k + HeadSize(e), e)
  <2>1. Leads(d, p, n, <<1, 1, 2, 1, 2, 2>>, o, w)
    BY DEF o, w
  <2> QED BY <1>1, <1>3, <1>6, <1>7, <1>8, <2>1, StepSecond
<1>10. Append(<<1, 1, 2, 1, 2, 2>>, 2) = EndorserPath
  BY TransactionPaths DEF EndorserPath
<1>11. Leads(d, p, n, EndorserPath, s[0] + HeadSize(e), e)
  BY <1>6, <1>9, <1>10
<1>12. s[m] = o + Len(w)
  BY <1>4, <1>5
<1> QED BY <1>5, <1>11, <1>12 DEF HasTxEndorsers, TxEndorsers, o, k, r, w, m, fs, e

\* Where the certificate of an endorsement is, and that it is inside.
EndOf(q, c) == IdPlace(q, c) + Len(IdOf(c))
EndorsersInside(d, n, t, x, s) ==
  /\ \A j \in 1..Len(t.endorsers) :
       /\ IdPlace(s[j - 1], t.endorsers[j]) \in Nat /\ EndOf(s[j - 1], t.endorsers[j]) \in Nat
       /\ Len(IdOf(t.endorsers[j])) \in Nat
       /\ s[j - 1] \in Nat /\ s[j] \in Nat
       /\ s[j - 1] <= IdPlace(s[j - 1], t.endorsers[j])
       /\ EndOf(s[j - 1], t.endorsers[j]) <= s[j]
       /\ At(d, IdPlace(s[j - 1], t.endorsers[j]), IdOf(t.endorsers[j]))
       /\ s[0] <= s[j - 1] /\ s[j] <= s[Len(t.endorsers)]
  /\ s[0] = x.results + Len(t.results) /\ s[Len(t.endorsers)] <= x.sig

\* The certificates of the endorsers are inside of their endorsements, in order.
LEMMA EndorsersAreInside ==
  ASSUME NEW d \in Bytes, NEW p \in Nat, NEW n \in Nat, NEW t \in Transaction, NEW x,
         TxPlaces(d, p, n, t, x), NEW s, TxEndorsers(d, p, n, t, x, s)
  PROVE  EndorsersInside(d, n, t, x, s)
<1> DEFINE k == Len(t.endorsers)
           fs == EndorsementFields(t)
           q == x.outer + Len(Field(1, ResponsePart(t)))
<1>1. /\ k \in Nat /\ fs \in Seq(Bytes) /\ Len(fs) = k
      /\ \A j \in 1..k : t.endorsers[j] \in Certificate /\ fs[j] = Field(2, Endorsement(t.endorsers[j]))
  <2>1. k \in Nat /\ DOMAIN t.endorsers = 1..k /\ \A j \in 1..k : t.endorsers[j] \in Certificate
    BY TransactionShape
  <2>2. fs \in Seq(Bytes)
    BY PartsShape
  <2>3. fs = [j \in 1..k |-> Field(2, Endorsement(t.endorsers[j]))]
    BY <2>1 DEF EndorsementFields
  <2> HIDE DEF fs, k
  <2>4. Len(fs) = k /\ \A j \in 1..k : fs[j] = Field(2, Endorsement(t.endorsers[j]))
    BY <2>1, <2>3
  <2> QED BY <2>1, <2>2, <2>4
<1>2. LaidOut(d, q, fs, s) /\ s[0] = q /\ q = x.results + Len(t.results)
      /\ s[k] = x.outer + Len(EndorsedPart(t)) /\ x.outer + Len(EndorsedPart(t)) <= x.sig
  BY DEF TxEndorsers, TxPlaces, LaidOut
<1> HIDE DEF fs, k, q
<1>3. ASSUME NEW j \in 1..k
      PROVE  /\ IdPlace(s[j - 1], t.endorsers[j]) \in Nat /\ EndOf(s[j - 1], t.endorsers[j]) \in Nat
             /\ Len(IdOf(t.endorsers[j])) \in Nat
             /\ s[j - 1] \in Nat /\ s[j] \in Nat
             /\ s[j - 1] <= IdPlace(s[j - 1], t.endorsers[j])
             /\ EndOf(s[j - 1], t.endorsers[j]) <= s[j]
             /\ At(d, IdPlace(s[j - 1], t.endorsers[j]), IdOf(t.endorsers[j]))
             /\ s[0] <= s[j - 1] /\ s[j] <= s[k]
  <2> DEFINE c == t.endorsers[j]
  <2>1. j \in 0..k /\ j - 1 \in 0..k /\ 0 \in 0..k /\ k \in 0..k /\ 0 <= j - 1 /\ j <= k
    BY <1>1
  <2>2. /\ s[j - 1] \in Nat /\ s[j] \in Nat /\ c \in Certificate
        /\ At(d, s[j - 1], Field(2, Endorsement(c)))
        /\ s[j] = s[j - 1] + Len(Field(2, Endorsement(c)))
    BY <1>1, <1>2, <2>1 DEF LaidOut
  <2>3. s[0] <= s[j - 1] /\ s[j] <= s[k]
    BY <1>1, <1>2, <2>1, LaidOutInOrder
  <2> HIDE DEF c
  <2>4. EndorsementAt(d, s[j - 1], c)
    BY <2>2, EndorsementReads
  <2>5. PICK y \in Nat, l \in Nat, e \in Nat : /\ y = IdPlace(s[j - 1], c) /\ l = Len(IdOf(c)) /\ s[j - 1] < y
                                               /\ y + l < e /\ e = s[j] /\ At(d, y, IdOf(c))
    <3>1. Len(IdOf(c)) \in Nat
      BY <2>2, EndorsementShape
    <3>2. /\ IdPlace(s[j - 1], c) \in Nat /\ s[j - 1] < IdPlace(s[j - 1], c)
          /\ At(d, IdPlace(s[j - 1], c), IdOf(c))
          /\ IdPlace(s[j - 1], c) + Len(IdOf(c)) < s[j]
      BY <2>2, <2>4, Zenon DEF EndorsementAt
    <3>3. s[j] \in Nat
      BY <2>2
    <3> QED BY <3>1, <3>2, <3>3, Zenon
  <2>6. y + l \in Nat /\ s[j - 1] <= y /\ y + l <= s[j] /\ EndOf(s[j - 1], c) = y + l
    <3>1. PICK a \in Nat, b \in Nat : a = s[j - 1] /\ b = s[j]
      BY <2>2
    <3>2. a < y /\ y + l < b
      BY <2>5, <3>1
    <3>3. a <= y /\ y + l <= b
      BY <3>2
    <3>4. EndOf(s[j - 1], c) = y + l
      BY <2>5 DEF EndOf
    <3>5. y + l \in Nat
      <4>1. \A a1, a2 \in Nat : a1 + a2 \in Nat
        OBVIOUS
      <4> QED BY <4>1, <2>5, Zenon
    <3> QED BY <3>1, <3>3, <3>4, <3>5
  <2> QED BY <2>2, <2>3, <2>5, <2>6 DEF c
<1> QED BY <1>2, <1>3 DEF EndorsersInside, k

-----------------------------------------------------------------------------
(* The annotations of a transaction.                                       *)

Types == Locators \union Named \union
  {"none", "TX_START", "TX_ACTION", "ENDORSER_ACTION", "ENDORSER"}
Annotations == [type : Types, offset : Positions, desc : Positions]

\* Both fields of an annotation are positions.
LEMMA AnnotationFields ==
  ASSUME NEW a \in Annotations
  PROVE  /\ a.type \in Types /\ a.offset \in Positions /\ a.desc \in Positions
         /\ a.offset \in Nat /\ a.desc \in Nat /\ a.offset \in Int /\ a.desc \in Int
         /\ a.offset <= 65535 /\ a.desc <= 65535
<1>1. a.type \in Types /\ a.offset \in Positions /\ a.desc \in Positions
  BY DEF Annotations
<1>2. \A n \in Positions : n \in Nat /\ n \in Int /\ n <= 65535
  BY DEF Positions
<1> QED BY <1>1, <1>2

\* Whatever number is written into it.
LEMMA AnnotationMade ==
  ASSUME NEW type \in Types, NEW o \in Int, NEW l \in Int
  PROVE  Annotation(type, o, l) \in Annotations
<1>1. PICK x \in Positions, y \in Positions : x = o % 65536 /\ y = l % 65536
  BY AnnotationShape
<1>2. Annotation(type, o, l) = [type |-> type, offset |-> x, desc |-> y]
  BY <1>1, AnnotationShape
<1> QED BY <1>2 DEF Annotations

\* Any path ends at a field or nowhere.
LEMMA PathType ==
  ASSUME NEW d \in Bytes, NEW p \in Nat, NEW n \in Nat, NEW path, Len(path) \in Nat
  PROVE  ProtoGetFieldPos(d, p, n, path).pos \in Int /\ ProtoGetFieldPos(d, p, n, path).len \in Int
<1> DEFINE l == Len(path)
<1>1. PICK at : FollowsPath(d, p, n, path, at) /\ ProtoGetFieldPos(d, p, n, path) = at[l]
  BY PathSteps DEF PathEndsAt
<1> DEFINE T == {i \in 0..l : at[i] \in Found}
<1>2. 0 \in T
  BY <1>1 DEF FollowsPath, Found
<1>3. ASSUME NEW i \in 1..l, i - 1 \in T PROVE i \in T
  <2> DEFINE x == at[i - 1]
  <2>1. i \in 0..l /\ x \in Found
    BY <1>3
  <2>2. at[i] = IF x.pos = -1 THEN x ELSE ProtoSearchFieldPos(d, x.pos, x.len, path[i])
    BY <1>1 DEF FollowsPath
  <2> HIDE DEF x
  <2>3. CASE x = NoField
    <3>1. x.pos = -1
      BY <2>3 DEF NoField
    <3> QED BY <2>1, <2>2, <3>1
  <2>4. CASE x \in [pos : Nat, len : Nat]
    <3>1. x.pos \in Nat /\ x.len \in Nat /\ x.pos # -1
      BY <2>4
    <3>2. ProtoSearchFieldPos(d, x.pos, x.len, path[i]) \in Found
      BY <3>1, SearchType
    <3> QED BY <2>1, <2>2, <3>1, <3>2
  <2> QED BY <2>1, <2>3, <2>4 DEF Found
<1>4. \A i \in 0..l : i \in T
  <2> HIDE DEF T
  <2> QED BY <1>2, <1>3, IntervalInduction
<1>5. at[l] \in Found
  BY <1>4
<1> HIDE DEF l
<1>6. at[l].pos \in Int /\ at[l].len \in Int
  BY <1>5 DEF Found, NoField
<1> QED BY <1>1, <1>6

\* A function from 1..n is a sequence.
LEMMA FunctionIsSeq ==
  ASSUME NEW S, NEW n \in Nat, NEW f \in [1..n -> S]
  PROVE  f \in Seq(S) /\ Len(f) = n
OBVIOUS

\* Where the elements of four sequences are that are one after the other.
FourParts(f, g, h, k, z) ==
  /\ Len(z) = Len(f) + Len(g) + Len(h) + Len(k) /\ z = [i \in 1..Len(z) |-> z[i]]
  /\ \A i \in 1..Len(f) : z[i] = f[i]
  /\ \A i \in 1..Len(g) : z[Len(f) + i] = g[i]
  /\ \A i \in 1..Len(h) : z[Len(f) + Len(g) + i] = h[i]
  /\ \A i \in 1..Len(k) : z[Len(f) + Len(g) + Len(h) + i] = k[i]

\* Joining four sequences puts their elements there.
LEMMA InFourParts ==
  ASSUME NEW S, NEW f \in Seq(S), NEW g \in Seq(S), NEW h \in Seq(S), NEW k \in Seq(S)
  PROVE  FourParts(f, g, h, k, f \o g \o h \o k)
<1> DEFINE a == Len(f)
           b == Len(g)
           c == Len(h)
           e == Len(k)
           fg == f \o g
           fgh == fg \o h
           z == fgh \o k
<1>1. a \in Nat /\ b \in Nat /\ c \in Nat /\ e \in Nat
  OBVIOUS
<1>2. fg \in Seq(S) /\ Len(fg) = a + b /\ \A i \in 1..a + b : fg[i] = IF i <= a THEN f[i] ELSE g[i - a]
  BY ConcatProperties
<1> HIDE DEF fg
<1>3. /\ fgh \in Seq(S) /\ Len(fgh) = a + b + c
      /\ \A i \in 1..a + b + c : fgh[i] = IF i <= a + b THEN fg[i] ELSE h[i - (a + b)]
  <2>1. /\ fgh \in Seq(S) /\ Len(fgh) = Len(fg) + Len(h)
        /\ \A i \in 1..Len(fg) + Len(h) : fgh[i] = IF i <= Len(fg) THEN fg[i] ELSE h[i - Len(fg)]
    <3>1. fg \in Seq(S) /\ h \in Seq(S)
      BY <1>2
    <3> QED BY <3>1, ConcatProperties
  <2> HIDE DEF fgh
  <2> QED BY <1>2, <2>1
<1> HIDE DEF fgh
<1>4. /\ Len(z) = a + b + c + e
      /\ \A i \in 1..a + b + c + e : z[i] = IF i <= a + b + c THEN fgh[i] ELSE k[i - (a + b + c)]
  <2>1. /\ Len(z) = Len(fgh) + Len(k)
        /\ \A i \in 1..Len(fgh) + Len(k) : z[i] = IF i <= Len(fgh) THEN fgh[i] ELSE k[i - Len(fgh)]
    <3>1. fgh \in Seq(S) /\ k \in Seq(S)
      BY <1>3
    <3> QED BY <3>1, ConcatProperties
  <2> HIDE DEF z
  <2> QED BY <1>3, <2>1
<1> HIDE DEF z, a, b, c, e
<1>5. ASSUME NEW i \in 1..a PROVE z[i] = f[i]
  <2>1. i \in 1..a + b + c + e /\ i <= a + b + c /\ i \in 1..a + b + c /\ i <= a + b /\ i \in 1..a + b
    BY <1>1
  <2>2. z[i] = fgh[i] /\ fgh[i] = fg[i] /\ fg[i] = f[i]
    BY <1>2, <1>3, <1>4, <2>1
  <2> QED BY <2>2
<1>6. ASSUME NEW i \in 1..b PROVE z[a + i] = g[i]
  <2>1. /\ a + i \in 1..a + b + c + e /\ a + i <= a + b + c /\ a + i \in 1..a + b + c
        /\ a + i <= a + b /\ a + i \in 1..a + b /\ ~(a + i <= a) /\ (a + i) - a = i
    BY <1>1
  <2>2. z[a + i] = fgh[a + i] /\ fgh[a + i] = fg[a + i] /\ fg[a + i] = g[i]
    BY <1>2, <1>3, <1>4, <2>1
  <2> QED BY <2>2
<1>7. ASSUME NEW i \in 1..c PROVE z[a + b + i] = h[i]
  <2>1. /\ a + b + i \in 1..a + b + c + e /\ a + b + i <= a + b + c /\ a + b + i \in 1..a + b + c
        /\ ~(a + b + i <= a + b) /\ (a + b + i) - (a + b) = i
    BY <1>1
  <2>2. z[a + b + i] = fgh[a + b + i] /\ fgh[a + b + i] = h[i]
    BY <1>3, <1>4, <2>1
  <2> QED BY <2>2
<1>8. ASSUME NEW i \in 1..e PROVE z[a + b + c + i] = k[i]
  <2>1. /\ a + b + c + i \in 1..a + b + c + e /\ ~(a + b + c + i <= a + b + c)
        /\ (a + b + c + i) - (a + b + c) = i
    BY <1>1
  <2> QED BY <1>4, <2>1
<1>9. z = [i \in 1..Len(z) |-> z[i]]
  <2>1. z \in Seq(S)
    BY <1>3, ConcatProperties DEF z
  <2> QED BY <2>1
<1>10. FourParts(f, g, h, k, z)
  BY <1>9, <1>4, <1>5, <1>6, <1>7, <1>8 DEF FourParts, a, b, c, e
<1> QED BY <1>10 DEF z, fgh, fg

\* The path to the endorsements, without its last field.
LEMMA FrontOfPath == Front(EndorserPath) = <<1, 1, 2, 1, 2, 2>>
<1> DEFINE long == <<1, 1, 2, 1, 2, 2, 2>>
           path == <<1, 1, 2, 1, 2, 2>>
<1>1. /\ long \in Seq(Nat) /\ Len(long) = 7 /\ path \in Seq(Nat) /\ Len(path) = 6
      /\ \A i \in 1..6 : long[i] = path[i]
  OBVIOUS
<1>2. Front(EndorserPath) = SubSeq(long, 1, 6)
  BY <1>1 DEF Front, EndorserPath
<1> HIDE DEF long, path
<1>3. \A i \in 1..6 : long[i] \in Nat
  <2> HIDE DEF long
  <2>1. \A i \in 1..7 : long[i] \in Nat
    <3>1. long \in [1..Len(long) -> Nat] /\ Len(long) = 7
      BY <1>1, LenProperties
    <3> QED BY <3>1
  <2> QED BY <2>1
<1>4. /\ SubSeq(long, 1, 6) \in Seq(Nat)
      /\ Len(SubSeq(long, 1, 6)) = IF 1 <= 6 THEN 6 - 1 + 1 ELSE 0
      /\ \A i \in 1..(6 - 1 + 1) : SubSeq(long, 1, 6)[i] = long[1 + i - 1]
  BY <1>3, SubSeqProperties
<1>5. /\ SubSeq(long, 1, 6) \in Seq(Nat) /\ Len(SubSeq(long, 1, 6)) = 6
      /\ \A i \in 1..6 : SubSeq(long, 1, 6)[i] = long[i]
  BY <1>4
<1>6. SubSeq(long, 1, 6) = path
  BY <1>1, <1>5, SeqEqual
<1> QED BY <1>2, <1>6 DEF path

\* What the annotations of a transaction are; s is where its endorsements are.
TxAnnotations(A, p, t, x, s) ==
  /\ A \in Seq(Annotations) /\ Len(A) = 17
  /\ A[1].type = "TX_START" /\ A[4].type = "TX_ACTION" /\ A[6].type = "ENDORSER_ACTION"
  /\ A[2] = Annotation("CHAINCODE_NAME", x.name - p, Len(t.chaincode))
  /\ A[3] = Annotation("CREATER_CA", x.creator - p, Len(IdOf(t.creator)))
  /\ A[5] = Annotation("TX_CA", x.caller - p, Len(IdOf(t.creator)))
  /\ A[7].type = "RW_SET" /\ A[8].type = "ENDORSER"
  /\ Len(t.endorsers) <= MAX_ENDORSER_NUM =>
       /\ A[7] = Annotation("RW_SET", x.results - p, Len(t.results))
       /\ A[8].desc = Len(t.endorsers)
  /\ \A j \in 1..Listed(t) : A[8 + j] = CaAnnotation(p, t, s, j)
  /\ \A j \in (Listed(t) + 1)..MAX_ENDORSER_NUM : A[8 + j] = NoAnnotation
  /\ A[17] = Annotation("TX_SIG", x.sig - p, Len(t.signature))

\* generateTransactionAnnotation gives these annotations, as places and sizes.
LEMMA TxAnnotationsMade ==
  ASSUME NEW d \in Bytes, NEW p \in Nat, NEW n \in Nat, NEW t \in Transaction,
         NEW x, TxPlaces(d, p, n, t, x), NEW s, TxEndorsers(d, p, n, t, x, s)
  PROVE  TxAnnotations(GenerateTransactionAnnotation(p, n, d), p, t, x, s)
<1> DEFINE path(i) == TransactionAnnotations[i].path
           at(i) == ProtoGetFieldPos(d, p, n, path(i))
           first == ProtoGetFieldPos(d, p, n, EndorserPath)
           outer == ProtoGetFieldPos(d, p, n, Front(EndorserPath))
           seven == GenerateAnnotations(TransactionAnnotations, d, p, n)
           eighth == Annotation("ENDORSER", first.pos - p - 3, first.len)
           before == Append(seven, eighth)
           cas == EndorserCAs(d, p, first.pos, outer.pos + outer.len)
           m == Len(cas.list)
           count == IF cas.all THEN m ELSE m + 1
           front == [before EXCEPT ![Len(before) + m - count].desc = count]
           nones == [i \in 1..MAX_ENDORSER_NUM - m |-> NoAnnotation]
           sigs == GenerateAnnotations(TxSigAnnotation, d, p, n)
           A == GenerateTransactionAnnotation(p, n, d)
<1>1. A = front \o cas.list \o nones \o sigs
  BY DEF GenerateTransactionAnnotation
<1> HIDE DEF A
<1>2. /\ first = [pos |-> s[0] + HeadSize(Endorsement(t.endorsers[1])),
                  len |-> Len(Endorsement(t.endorsers[1]))]
      /\ outer = [pos |-> x.outer, len |-> Len(EndorsedPart(t))]
  <2>1. Front(EndorserPath) = <<1, 1, 2, 1, 2, 2>>
    BY FrontOfPath
  <2> QED BY <2>1 DEF TxPlaces, TxEndorsers, Leads
<1>3. EndorsersFound(p, t, s, cas)
  <2> DEFINE q == x.outer + Len(Field(1, ResponsePart(t)))
  <2>1. LaidOut(d, q, EndorsementFields(t), s) /\ s[0] = q /\ q \in Nat
    BY DEF TxEndorsers, LaidOut
  <2>2. EndorsersFound(p, t, s,
          EndorserCAs(d, p, q + HeadSize(Endorsement(t.endorsers[1])), s[Len(t.endorsers)]))
    <3> HIDE DEF q
    <3> QED BY <2>1, EndorsersListed
  <2>3. outer.pos + outer.len = s[Len(t.endorsers)]
    BY <1>2 DEF TxEndorsers
  <2>4. first.pos = q + HeadSize(Endorsement(t.endorsers[1]))
    BY <1>2, <2>1
  <2> QED BY <2>2, <2>3, <2>4
<1> HIDE DEF first, outer, cas
<1>4. /\ Len(t.endorsers) \in Nat /\ Listed(t) \in 1..MAX_ENDORSER_NUM
      /\ MAX_ENDORSER_NUM = 8
  <2>1. PICK k \in Nat : k = Len(t.endorsers) /\ k > 0
    BY TransactionShape
  <2>2. Listed(t) = IF k <= 8 THEN k ELSE 8
    BY <2>1 DEF Listed, MAX_ENDORSER_NUM
  <2>3. Listed(t) \in 1..8
    <3>1. \A i \in Nat : i > 0 => (IF i <= 8 THEN i ELSE 8) \in 1..8
      OBVIOUS
    <3> QED BY <2>1, <2>2, <3>1, Zenon
  <2> QED BY <2>1, <2>3 DEF MAX_ENDORSER_NUM
<1>5. /\ m = Listed(t) /\ m \in 1..8 /\ cas.list \in [1..m -> Range(cas.list)]
      /\ \A j \in 1..m : cas.list[j] = CaAnnotation(p, t, s, j)
  BY <1>3, <1>4 DEF EndorsersFound, CaList, Range
<1>6. /\ Len(t.endorsers) <= MAX_ENDORSER_NUM => count = Len(t.endorsers) /\ count = m
      /\ ~(Len(t.endorsers) <= MAX_ENDORSER_NUM) => count = m + 1
  BY <1>3, <1>4, <1>5 DEF EndorsersFound, Listed
<1> HIDE DEF m, count
<1>7. /\ seven = [i \in 1..7 |-> Annotation(TransactionAnnotations[i].type, at(i).pos - p, at(i).len)]
      /\ sigs = [i \in 1..1 |->
                   Annotation("TX_SIG", ProtoGetFieldPos(d, p, n, <<1, 2>>).pos - p,
                              ProtoGetFieldPos(d, p, n, <<1, 2>>).len)]
  <2>1. DOMAIN TransactionAnnotations = 1..7 /\ DOMAIN TxSigAnnotation = 1..1
    BY DEF TransactionAnnotations, TxSigAnnotation
  <2>2. \A i \in 1..1 : TxSigAnnotation[i].type = "TX_SIG" /\ TxSigAnnotation[i].path = <<1, 2>>
    BY DEF TxSigAnnotation
  <2> QED BY <2>1, <2>2 DEF GenerateAnnotations
<1>8. /\ \A i \in 1..7 : before[i] = seven[i]
      /\ before[8] = eighth /\ Len(before) = 8 /\ DOMAIN before = 1..8
  <2> DEFINE S == {seven[i] : i \in 1..7} \union {eighth}
  <2>1. seven \in Seq(S) /\ Len(seven) = 7 /\ eighth \in S
    <3>1. seven \in [1..7 -> S]
      <4>1. DOMAIN seven = 1..7 /\ seven = [i \in 1..7 |-> seven[i]]
        BY <1>7
      <4> QED BY <4>1
    <3> HIDE DEF seven, eighth
    <3>2. seven \in Seq(S) /\ Len(seven) = 7
      <4> HIDE DEF S
      <4>1. 7 \in Nat
        OBVIOUS
      <4> QED BY <3>1, <4>1, FunctionIsSeq
    <3> QED BY <3>2
  <2> HIDE DEF S, seven, eighth
  <2>2. /\ before \in Seq(S) /\ Len(before) = Len(seven) + 1 /\ before[Len(seven) + 1] = eighth
        /\ \A i \in 1..Len(seven) : before[i] = seven[i]
    <3>1. seven \in Seq(S) /\ eighth \in S
      BY <2>1
    <3> QED BY <3>1, AppendProperties
  <2> HIDE DEF before
  <2>3. Len(before) = 8 /\ before[8] = eighth /\ \A i \in 1..7 : before[i] = seven[i]
    BY <2>1, <2>2
  <2>4. DOMAIN before = 1..8
    BY <2>2, <2>3, LenProperties
  <2> QED BY <2>3, <2>4
<1> HIDE DEF seven, eighth, before
<1>9. /\ DOMAIN front = 1..8 /\ front = [i \in 1..8 |-> front[i]]
      /\ \A i \in 1..8 : front[i] = IF i = 8 + m - count
                                   THEN [before[i] EXCEPT !.desc = count] ELSE before[i]
  BY <1>8
<1> HIDE DEF front
<1>10. FourParts(front, cas.list, nones, sigs, A)
  <2> DEFINE S == {front[i] : i \in 1..8} \union {cas.list[j] : j \in 1..m}
                    \union {NoAnnotation} \union {sigs[i] : i \in 1..1}
  <2>1. front \in Seq(S)
    <3>1. front \in [1..8 -> S]
      BY <1>9
    <3> HIDE DEF S
    <3>2. 8 \in Nat
      OBVIOUS
    <3> QED BY <3>1, <3>2, FunctionIsSeq
  <2>2. cas.list \in Seq(S)
    <3>1. cas.list \in [1..m -> S]
      BY <1>5
    <3> HIDE DEF S
    <3>2. m \in Nat
      BY <1>5
    <3> QED BY <3>1, <3>2
  <2>3. nones \in Seq(S)
    <3>1. 8 - m \in Nat
      BY <1>5
    <3> QED BY <1>4, <3>1
  <2>4. sigs \in Seq(S)
    <3>1. sigs \in [1..1 -> S]
      <4>1. sigs = [i \in 1..1 |-> sigs[i]]
        BY <1>7
      <4> HIDE DEF sigs
      <4> QED BY <4>1
    <3> HIDE DEF S, sigs
    <3>2. 1 \in Nat
      OBVIOUS
    <3> QED BY <3>1, <3>2, FunctionIsSeq
  <2> HIDE DEF S, nones, sigs
  <2> QED BY <1>1, <2>1, <2>2, <2>3, <2>4, InFourParts
<1>11. /\ Len(front) = 8 /\ Len(cas.list) = m /\ Len(nones) = 8 - m /\ Len(sigs) = 1
       /\ 8 + m + (8 - m) + 1 = 17 /\ 8 + m + (8 - m) = 16
  <2>1. DOMAIN cas.list = 1..m /\ Len(cas.list) = m
    BY <1>5 DEF m
  <2>2. 8 - m \in Nat
    BY <1>5
  <2>3. Len(front) = 8
    <3>1. front \in [1..8 -> {front[i] : i \in 1..8}]
      BY <1>9
    <3> QED BY <3>1
  <2>4. Len(nones) = 8 - m
    BY <1>4, <2>2
  <2>5. Len(sigs) = 1
    BY <1>7
  <2>6. 8 + m + (8 - m) + 1 = 17 /\ 8 + m + (8 - m) = 16
    BY <1>5
  <2> QED BY <2>1, <2>3, <2>4, <2>5, <2>6
<1>12. /\ Len(A) = 17 /\ A = [i \in 1..17 |-> A[i]]
       /\ \A i \in 1..8 : A[i] = front[i]
       /\ \A j \in 1..m : A[8 + j] = cas.list[j]
       /\ \A j \in 1..8 - m : A[8 + m + j] = nones[j]
       /\ A[17] = sigs[1]
  <2> HIDE DEF nones, sigs
  <2>1. /\ Len(A) = 8 + m + (8 - m) + 1 /\ A = [i \in 1..Len(A) |-> A[i]]
        /\ \A i \in 1..8 : A[i] = front[i]
        /\ \A j \in 1..m : A[8 + j] = cas.list[j]
        /\ \A j \in 1..8 - m : A[8 + m + j] = nones[j]
        /\ \A j \in 1..1 : A[8 + m + (8 - m) + j] = sigs[j]
    BY <1>10, <1>11, Zenon DEF FourParts
  <2>2. 1 \in 1..1 /\ 16 + 1 = 17
    OBVIOUS
  <2>3. A[17] = sigs[1]
    BY <1>11, <2>1, <2>2, Zenon
  <2>4. Len(A) = 17
    BY <1>11, <2>1, Zenon
  <2> QED BY <2>1, <2>3, <2>4, Zenon
<1>13. \A j \in (m + 1)..8 : A[8 + j] = NoAnnotation
  <2> SUFFICES ASSUME NEW j \in (m + 1)..8 PROVE A[8 + j] = NoAnnotation
    OBVIOUS
  <2>1. j - m \in 1..8 - m /\ 8 + m + (j - m) = 8 + j
    <3>1. \A k \in 1..8 : \A i \in (k + 1)..8 : i - k \in 1..8 - k /\ 8 + k + (i - k) = 8 + i
      OBVIOUS
    <3> QED BY <1>5, <3>1, Zenon
  <2>2. nones[j - m] = NoAnnotation
    BY <1>4, <2>1
  <2> HIDE DEF nones
  <2> QED BY <1>12, <2>1, <2>2, Zenon
<1> HIDE DEF nones
<1> DEFINE Of(i) == Annotation(TransactionAnnotations[i].type, at(i).pos - p, at(i).len)
           E(i) == IF i = 8 THEN eighth ELSE Of(i)
<1>14. /\ \A i \in 1..8 : A[i] = IF i = 8 + m - count THEN [E(i) EXCEPT !.desc = count] ELSE E(i)
       /\ Len(t.endorsers) <= MAX_ENDORSER_NUM => 8 + m - count = 8
       /\ ~(Len(t.endorsers) <= MAX_ENDORSER_NUM) => 8 + m - count = 7
       /\ count \in Positions
  <2>1. \A i \in 1..8 : before[i] = E(i)
    <3> SUFFICES ASSUME NEW i \in 1..8 PROVE before[i] = E(i)
      OBVIOUS
    <3>1. CASE i = 8
      BY <1>8, <3>1
    <3>2. CASE i # 8
      <4>1. i \in 1..7
        BY <3>2
      <4>2. seven[i] = Of(i)
        <5> HIDE DEF Of, at
        <5>1. seven = [k \in 1..7 |-> Annotation(TransactionAnnotations[k].type, at(k).pos - p, at(k).len)]
          BY <1>7
        <5> QED BY <4>1, <5>1, Zenon DEF Of
      <4> HIDE DEF Of
      <4> QED BY <1>8, <3>2, <4>1, <4>2
    <3> QED BY <3>1, <3>2
  <2> HIDE DEF E
  <2>2. \A i \in 1..8 : A[i] = IF i = 8 + m - count THEN [E(i) EXCEPT !.desc = count] ELSE E(i)
    BY <1>9, <1>12, <2>1, Zenon
  <2>3. /\ Len(t.endorsers) <= MAX_ENDORSER_NUM => 8 + m - count = 8
        /\ ~(Len(t.endorsers) <= MAX_ENDORSER_NUM) => 8 + m - count = 7
    BY <1>5, <1>6
  <2>4. count \in Positions
    <3>1. count \in 1..9
      BY <1>5, <1>6
    <3>2. \A k \in 1..9 : k \in Positions
      BY DEF Positions
    <3> QED BY <3>1, <3>2, Zenon
  <2> QED BY <2>2, <2>3, <2>4
<1>15. /\ \A i \in 1..7 : TransactionAnnotations[i].type \in Types
       /\ TransactionAnnotations[1].type = "TX_START"
       /\ TransactionAnnotations[2].type = "CHAINCODE_NAME"
       /\ TransactionAnnotations[3].type = "CREATER_CA"
       /\ TransactionAnnotations[4].type = "TX_ACTION"
       /\ TransactionAnnotations[5].type = "TX_CA"
       /\ TransactionAnnotations[6].type = "ENDORSER_ACTION"
       /\ TransactionAnnotations[7].type = "RW_SET"
       /\ path(2) = <<1, 1, 1, 1, 7, 2, 2>> /\ path(3) = <<1, 1, 1, 2, 1>>
       /\ path(5) = <<1, 1, 2, 1, 1, 1>> /\ path(7) = <<1, 1, 2, 1, 2, 2, 1, 2, 1>>
       /\ \A i \in 1..7 : Len(path(i)) \in Nat
       /\ {"TX_SIG", "ENDORSER", "ENDORSER_CA", "none"} \subseteq Types
  <2>1. /\ TransactionAnnotations[1] = [type |-> "TX_START", path |-> <<1, 2>>]
        /\ TransactionAnnotations[2] = [type |-> "CHAINCODE_NAME", path |-> <<1, 1, 1, 1, 7, 2, 2>>]
        /\ TransactionAnnotations[3] = [type |-> "CREATER_CA", path |-> <<1, 1, 1, 2, 1>>]
        /\ TransactionAnnotations[4] = [type |-> "TX_ACTION", path |-> <<1, 1, 2, 1>>]
        /\ TransactionAnnotations[5] = [type |-> "TX_CA", path |-> <<1, 1, 2, 1, 1, 1>>]
        /\ TransactionAnnotations[6] = [type |-> "ENDORSER_ACTION", path |-> <<1, 1, 2, 1, 2, 1>>]
        /\ TransactionAnnotations[7] = [type |-> "RW_SET", path |-> <<1, 1, 2, 1, 2, 2, 1, 2, 1>>]
    BY DEF TransactionAnnotations
  <2>2. /\ TransactionAnnotations[1].type = "TX_START"
        /\ TransactionAnnotations[2].type = "CHAINCODE_NAME"
        /\ TransactionAnnotations[3].type = "CREATER_CA"
        /\ TransactionAnnotations[4].type = "TX_ACTION"
        /\ TransactionAnnotations[5].type = "TX_CA"
        /\ TransactionAnnotations[6].type = "ENDORSER_ACTION"
        /\ TransactionAnnotations[7].type = "RW_SET"
    BY <2>1
  <2>3. /\ path(2) = <<1, 1, 1, 1, 7, 2, 2>> /\ path(3) = <<1, 1, 1, 2, 1>>
        /\ path(5) = <<1, 1, 2, 1, 1, 1>> /\ path(7) = <<1, 1, 2, 1, 2, 2, 1, 2, 1>>
        /\ path(1) = <<1, 2>> /\ path(4) = <<1, 1, 2, 1>> /\ path(6) = <<1, 1, 2, 1, 2, 1>>
    BY <2>1
  <2>4. \A i \in 1..7 : i = 1 \/ i = 2 \/ i = 3 \/ i = 4 \/ i = 5 \/ i = 6 \/ i = 7
    OBVIOUS
  <2>5. {"TX_START", "CHAINCODE_NAME", "CREATER_CA", "TX_ACTION", "TX_CA", "ENDORSER_ACTION",
         "RW_SET", "TX_SIG", "ENDORSER", "ENDORSER_CA", "none"} \subseteq Types
    BY DEF Types, Locators, Named
  <2>6. \A i \in 1..7 : TransactionAnnotations[i].type \in Types
    BY <2>2, <2>4, <2>5
  <2>7. \A i \in 1..7 : Len(path(i)) \in Nat
    <3> SUFFICES ASSUME NEW i \in 1..7 PROVE Len(path(i)) \in Nat
      OBVIOUS
    <3> HIDE DEF path
    <3>1. /\ Len(<<1, 2>>) \in Nat /\ Len(<<1, 1, 1, 1, 7, 2, 2>>) \in Nat
          /\ Len(<<1, 1, 1, 2, 1>>) \in Nat /\ Len(<<1, 1, 2, 1>>) \in Nat
          /\ Len(<<1, 1, 2, 1, 1, 1>>) \in Nat /\ Len(<<1, 1, 2, 1, 2, 1>>) \in Nat
          /\ Len(<<1, 1, 2, 1, 2, 2, 1, 2, 1>>) \in Nat
      OBVIOUS
    <3> QED BY <2>3, <2>4, <3>1, Zenon
  <2> HIDE DEF path
  <2> QED BY <2>2, <2>3, <2>5, <2>6, <2>7
<1>16. /\ \A i \in 1..7 : at(i).pos \in Int /\ at(i).len \in Int
       /\ first.pos \in Nat /\ first.len \in Nat
  <2>1. \A i \in 1..7 : at(i).pos \in Int /\ at(i).len \in Int
    <3> HIDE DEF path
    <3> QED BY <1>15, PathType
  <2>2. Leads(d, p, n, EndorserPath, s[0] + HeadSize(Endorsement(t.endorsers[1])),
              Endorsement(t.endorsers[1]))
    BY DEF TxEndorsers
  <2>3. /\ s[0] + HeadSize(Endorsement(t.endorsers[1])) \in Nat
        /\ Len(Endorsement(t.endorsers[1])) \in Nat
    BY <2>2, BytesShape DEF Leads
  <2> QED BY <1>2, <2>1, <2>3
<1>17. \A i \in 1..8 : /\ E(i) \in Annotations
                       /\ E(i).type = IF i = 8 THEN "ENDORSER" ELSE TransactionAnnotations[i].type
  <2>1. \A type, o, l : Annotation(type, o, l).type = type
    BY DEF Annotation
  <2>2. \A i \in 1..7 : Of(i) \in Annotations /\ Of(i).type = TransactionAnnotations[i].type
    <3> SUFFICES ASSUME NEW i \in 1..7
                 PROVE  Of(i) \in Annotations /\ Of(i).type = TransactionAnnotations[i].type
      OBVIOUS
    <3>1. at(i).pos \in Int /\ at(i).len \in Int /\ TransactionAnnotations[i].type \in Types
      BY <1>15, <1>16, Zenon
    <3> HIDE DEF at
    <3>2. at(i).pos - p \in Int
      BY <3>1
    <3> QED BY <2>1, <3>1, <3>2, AnnotationMade
  <2>3. eighth \in Annotations /\ eighth.type = "ENDORSER"
    <3>1. first.pos - p - 3 \in Int /\ first.len \in Int /\ "ENDORSER" \in Types
      <4>1. "ENDORSER" \in Types
        BY <1>15, Zenon
      <4>2. first.pos - p - 3 \in Int /\ first.len \in Int
        BY <1>16
      <4> QED BY <4>1, <4>2
    <3> QED BY <2>1, <3>1, AnnotationMade DEF eighth
  <2>4. \A i \in 1..8 : i # 8 => i \in 1..7
    OBVIOUS
  <2> HIDE DEF Of
  <2> QED BY <2>2, <2>3, <2>4, Zenon DEF E
<1> HIDE DEF E
<1>18. \A e \in Annotations : \A c \in Positions :
         /\ [e EXCEPT !.desc = c] \in Annotations
         /\ [e EXCEPT !.desc = c].type = e.type /\ [e EXCEPT !.desc = c].desc = c
  BY DEF Annotations
<1>19. \A i \in 1..8 : A[i] \in Annotations /\ A[i].type = E(i).type
  <2> SUFFICES ASSUME NEW i \in 1..8 PROVE A[i] \in Annotations /\ A[i].type = E(i).type
    OBVIOUS
  <2>1. E(i) \in Annotations /\ count \in Positions
    BY <1>14, <1>17, Zenon
  <2>2. [E(i) EXCEPT !.desc = count] \in Annotations /\ [E(i) EXCEPT !.desc = count].type = E(i).type
    BY <1>18, <2>1, Zenon
  <2>3. CASE i = 8 + m - count
    <3>1. A[i] = [E(i) EXCEPT !.desc = count]
      BY <1>14, <2>3, Zenon
    <3> QED BY <2>2, <3>1, Zenon
  <2>4. CASE i # 8 + m - count
    <3>1. A[i] = E(i)
      BY <1>14, <2>4, Zenon
    <3> QED BY <2>1, <3>1, Zenon
  <2> QED BY <2>3, <2>4
<1>20. /\ \A j \in 1..m : A[8 + j] = CaAnnotation(p, t, s, j) /\ A[8 + j] \in Annotations
       /\ NoAnnotation \in Annotations
  <2>1. \A j \in 1..m : j \in 1..Len(t.endorsers)
    <3>1. PICK k \in Nat : k = Len(t.endorsers)
      BY <1>4
    <3>2. m <= k
      BY <1>4, <1>5, <3>1 DEF Listed
    <3> QED BY <1>5, <3>1, <3>2
  <2>2. \A j \in 1..m : IdPlace(s[j - 1], t.endorsers[j]) \in Nat /\ Len(IdOf(t.endorsers[j])) \in Nat
    <3>1. EndorsersInside(d, n, t, x, s)
      BY EndorsersAreInside
    <3> QED BY <2>1, <3>1, Zenon DEF EndorsersInside
  <2>3. \A j \in 1..m : CaAnnotation(p, t, s, j) \in Annotations
    <3> SUFFICES ASSUME NEW j \in 1..m PROVE CaAnnotation(p, t, s, j) \in Annotations
      OBVIOUS
    <3>1. PICK o \in Nat, l \in Nat : o = IdPlace(s[j - 1], t.endorsers[j]) /\ l = Len(IdOf(t.endorsers[j]))
      BY <2>2
    <3>2. "ENDORSER_CA" \in Types
      BY <1>15, Zenon
    <3>3. o - p \in Int /\ l \in Int
      OBVIOUS
    <3>4. Annotation("ENDORSER_CA", o - p, l) \in Annotations
      BY <3>2, <3>3, AnnotationMade
    <3> QED BY <3>1, <3>4, Zenon DEF CaAnnotation
  <2>4. NoAnnotation \in Annotations
    <3>1. "none" \in Types
      BY <1>15, Zenon
    <3>2. 0 \in Int
      OBVIOUS
    <3> QED BY <3>1, <3>2, AnnotationMade DEF NoAnnotation
  <2>5. \A j \in 1..m : A[8 + j] = cas.list[j]
    BY <1>12, Zenon
  <2>6. \A j \in 1..m : cas.list[j] = CaAnnotation(p, t, s, j)
    BY <1>5, Zenon
  <2>7. \A j \in 1..m : A[8 + j] = CaAnnotation(p, t, s, j)
    <3> HIDE DEF cas
    <3> QED BY <2>5, <2>6, Zenon
  <2>8. \A j \in 1..m : A[8 + j] \in Annotations
    BY <2>3, <2>7, Zenon
  <2> QED BY <2>4, <2>7, <2>8
<1>21. A[17] = Annotation("TX_SIG", x.sig - p, Len(t.signature)) /\ A[17] \in Annotations
  <2>1. /\ ProtoGetFieldPos(d, p, n, <<1, 2>>) = [pos |-> x.sig, len |-> Len(t.signature)]
        /\ x.sig \in Nat /\ t.signature \in Bytes
    BY Zenon DEF TxPlaces, Leads
  <2>2. /\ ProtoGetFieldPos(d, p, n, <<1, 2>>).pos = x.sig
        /\ ProtoGetFieldPos(d, p, n, <<1, 2>>).len = Len(t.signature)
    BY <2>1
  <2>3. 1 \in 1..1
    OBVIOUS
  <2>4. sigs[1] = Annotation("TX_SIG", x.sig - p, Len(t.signature))
    <3> HIDE DEF sigs
    <3> QED BY <1>7, <2>2, <2>3, Zenon
  <2>5. x.sig - p \in Int /\ Len(t.signature) \in Int
    BY <2>1, BytesShape
  <2>6. "TX_SIG" \in Types
    BY <1>15, Zenon
  <2>7. Annotation("TX_SIG", x.sig - p, Len(t.signature)) \in Annotations
    BY <2>5, <2>6, AnnotationMade
  <2> HIDE DEF sigs
  <2> QED BY <1>12, <2>4, <2>7, Zenon
<1>22. A \in Seq(Annotations)
  <2>1. \A i \in 1..17 : A[i] \in Annotations
    <3> SUFFICES ASSUME NEW i \in 1..17 PROVE A[i] \in Annotations
      OBVIOUS
    <3>1. CASE i \in 1..8
      BY <1>19, <3>1, Zenon
    <3>2. CASE i \in 9..(8 + m)
      <4>1. i - 8 \in 1..m /\ 8 + (i - 8) = i
        BY <1>5, <3>2
      <4> QED BY <1>20, <4>1, Zenon
    <3>3. CASE i \in (9 + m)..16
      <4>1. i - 8 \in (m + 1)..8 /\ 8 + (i - 8) = i
        BY <1>5, <3>3
      <4> QED BY <1>13, <1>20, <4>1, Zenon
    <3>4. CASE i = 17
      BY <1>21, <3>4, Zenon
    <3> QED BY <1>5, <3>1, <3>2, <3>3, <3>4
  <2>2. A \in [1..17 -> Annotations]
    BY <1>12, <2>1, Zenon
  <2>3. 17 \in Nat
    OBVIOUS
  <2> QED BY <2>2, <2>3, FunctionIsSeq
<1>23. /\ A[2] = Annotation("CHAINCODE_NAME", x.name - p, Len(t.chaincode))
       /\ A[3] = Annotation("CREATER_CA", x.creator - p, Len(IdOf(t.creator)))
       /\ A[5] = Annotation("TX_CA", x.caller - p, Len(IdOf(t.creator)))
       /\ Len(t.endorsers) <= MAX_ENDORSER_NUM =>
            A[7] = Annotation("RW_SET", x.results - p, Len(t.results))
  <2> DEFINE PosLen(o, l) == [pos |-> o, len |-> l]
  <2>1. /\ at(2) = PosLen(x.name, Len(t.chaincode))
        /\ at(3) = PosLen(x.creator, Len(IdOf(t.creator)))
        /\ at(5) = PosLen(x.caller, Len(IdOf(t.creator)))
        /\ at(7) = PosLen(x.results, Len(t.results))
    <3> HIDE DEF path
    <3>1. /\ Leads(d, p, n, path(2), x.name, t.chaincode)
          /\ Leads(d, p, n, path(3), x.creator, IdOf(t.creator))
          /\ Leads(d, p, n, path(5), x.caller, IdOf(t.creator))
          /\ Leads(d, p, n, path(7), x.results, t.results)
      BY <1>15, Zenon DEF TxPlaces
    <3> QED BY <3>1, Zenon DEF Leads
  <2>2. \A o, l : PosLen(o, l).pos = o /\ PosLen(o, l).len = l
    OBVIOUS
  <2> HIDE DEF at, PosLen
  <2>3. /\ at(2).pos = x.name /\ at(2).len = Len(t.chaincode)
        /\ at(3).pos = x.creator /\ at(3).len = Len(IdOf(t.creator))
        /\ at(5).pos = x.caller /\ at(5).len = Len(IdOf(t.creator))
        /\ at(7).pos = x.results /\ at(7).len = Len(t.results)
    <3>1. at(2).pos = x.name /\ at(2).len = Len(t.chaincode)
      BY <2>1, <2>2
    <3>2. at(3).pos = x.creator /\ at(3).len = Len(IdOf(t.creator))
      BY <2>1, <2>2
    <3>3. at(5).pos = x.caller /\ at(5).len = Len(IdOf(t.creator))
      BY <2>1, <2>2
    <3>4. at(7).pos = x.results /\ at(7).len = Len(t.results)
      BY <2>1, <2>2
    <3> QED BY <3>1, <3>2, <3>3, <3>4
  <2>4. /\ E(2) = Annotation("CHAINCODE_NAME", x.name - p, Len(t.chaincode))
        /\ E(3) = Annotation("CREATER_CA", x.creator - p, Len(IdOf(t.creator)))
        /\ E(5) = Annotation("TX_CA", x.caller - p, Len(IdOf(t.creator)))
        /\ E(7) = Annotation("RW_SET", x.results - p, Len(t.results))
    <3>1. 2 # 8 /\ 3 # 8 /\ 5 # 8 /\ 7 # 8
      OBVIOUS
    <3>2. E(2) = Of(2) /\ E(3) = Of(3) /\ E(5) = Of(5) /\ E(7) = Of(7)
      BY <3>1 DEF E
    <3> HIDE DEF Of
    <3> QED BY <1>15, <2>3, <3>2, Zenon DEF Of
  <2>5. 8 + m - count # 2 /\ 8 + m - count # 3 /\ 8 + m - count # 5
    BY <1>14
  <2>6. 2 \in 1..8 /\ 3 \in 1..8 /\ 5 \in 1..8 /\ 7 \in 1..8
    OBVIOUS
  <2>7. A[2] = E(2) /\ A[3] = E(3) /\ A[5] = E(5)
    BY <1>14, <2>5, <2>6
  <2>8. ASSUME Len(t.endorsers) <= MAX_ENDORSER_NUM PROVE A[7] = E(7)
    <3>1. 7 # 8 + m - count
      BY <1>14, <2>8
    <3> QED BY <1>14, <2>6, <3>1
  <2> QED BY <2>4, <2>7, <2>8
<1>24. Len(t.endorsers) <= MAX_ENDORSER_NUM => A[8].desc = Len(t.endorsers)
  <2> SUFFICES ASSUME Len(t.endorsers) <= MAX_ENDORSER_NUM PROVE A[8].desc = Len(t.endorsers)
    OBVIOUS
  <2>1. 8 + m - count = 8 /\ count = Len(t.endorsers) /\ 8 \in 1..8
    BY <1>6, <1>14
  <2>2. A[8] = [E(8) EXCEPT !.desc = count]
    BY <1>14, <2>1
  <2> QED BY <1>14, <1>17, <1>18, <2>1, <2>2
<1>25. /\ A[1].type = "TX_START" /\ A[4].type = "TX_ACTION" /\ A[6].type = "ENDORSER_ACTION"
       /\ A[7].type = "RW_SET" /\ A[8].type = "ENDORSER"
  <2>1. /\ 1 \in 1..8 /\ 4 \in 1..8 /\ 6 \in 1..8 /\ 7 \in 1..8 /\ 8 \in 1..8
        /\ 1 # 8 /\ 4 # 8 /\ 6 # 8 /\ 7 # 8
    OBVIOUS
  <2> QED BY <1>15, <1>17, <1>19, <2>1
<1> HIDE DEF sigs, path, at, Of
<1> QED BY <1>4, <1>5, <1>12, <1>13, <1>20, <1>21, <1>22, <1>23, <1>24, <1>25, Zenon
  DEF TxAnnotations, A

-----------------------------------------------------------------------------
(* Parts of messages, cut and put together.                                *)

\* What a slice is.
LEMMA SliceShape ==
  ASSUME NEW d \in Bytes, NEW a \in Nat, NEW b \in Nat, a <= b, b <= Len(d)
  PROVE  /\ Slice(d, a, b) \in Bytes /\ Len(Slice(d, a, b)) = b - a
         /\ \A i \in 1..b - a : Slice(d, a, b)[i] = d[a + i]
<1>1. Len(d) \in Nat /\ \A i \in 1..Len(d) : d[i] \in Byte
  BY BytesShape
<1>2. \A i \in (a + 1)..b : d[i] \in Byte
  BY <1>1
<1>3. a + 1 \in Int /\ b \in Int
  OBVIOUS
<1>4. /\ SubSeq(d, a + 1, b) \in Seq(Byte)
      /\ Len(SubSeq(d, a + 1, b)) = IF a + 1 <= b THEN b - (a + 1) + 1 ELSE 0
      /\ \A i \in 1..(b - (a + 1) + 1) : SubSeq(d, a + 1, b)[i] = d[(a + 1) + i - 1]
  BY <1>2, <1>3, SubSeqProperties
<1> DEFINE s == SubSeq(d, a + 1, b)
<1>5. Slice(d, a, b) = s
  BY DEF Slice
<1>6. s \in Seq(Byte) /\ Len(s) = b - a /\ \A i \in 1..b - a : s[i] = d[a + i]
  <2> HIDE DEF s
  <2>1. /\ s \in Seq(Byte) /\ Len(s) = IF a + 1 <= b THEN b - (a + 1) + 1 ELSE 0
        /\ \A i \in 1..(b - (a + 1) + 1) : s[i] = d[(a + 1) + i - 1]
    BY <1>4 DEF s
  <2> QED BY <2>1
<1> QED BY <1>5, <1>6 DEF Bytes

\* Two slices that meet are one.
LEMMA SliceJoin ==
  ASSUME NEW d \in Bytes, NEW a \in Nat, NEW b \in Nat, NEW c \in Nat, a <= b, b <= c, c <= Len(d)
  PROVE  Slice(d, a, b) \o Slice(d, b, c) = Slice(d, a, c)
<1>1. Len(d) \in Nat
  BY BytesShape
<1>2. /\ a + 1 \in 1..Len(d) + 1 /\ b \in (a + 1) - 1..Len(d) /\ c \in b..Len(d)
  BY <1>1
<1>3. SubSeq(d, a + 1, b) \o SubSeq(d, b + 1, c) = SubSeq(d, a + 1, c)
  BY <1>2, ConcatAdjacentSubSeq DEF Bytes
<1> QED BY <1>3 DEF Slice

\* The slices of two sequences that have been put together.
LEMMA SliceConcat ==
  ASSUME NEW u \in Bytes, NEW v \in Bytes
  PROVE  /\ Slice(u \o v, 0, Len(u)) = u /\ Slice(u \o v, Len(u), Len(u \o v)) = v
         /\ Slice(u, 0, Len(u)) = u
<1>1. u \o v \in Bytes /\ Len(u \o v) = Len(u) + Len(v) /\ Len(u) \in Nat /\ Len(v) \in Nat
  BY BytesConcat, BytesShape
<1> DEFINE w == u \o v
<1>2. At(w, 0, w)
  BY <1>1, AtWhole
<1>3. At(w, 0, u) /\ At(w, 0 + Len(u), v)
  <2>1. At(w, 0, u \o v)
    BY <1>2
  <2> HIDE DEF w
  <2>2. w \in Bytes
    BY <1>1 DEF w
  <2> QED BY <2>1, <2>2, AtConcat
<1>4. w \in Bytes /\ Len(w) = Len(u) + Len(v)
  BY <1>1
<1> HIDE DEF w
<1>5. Slice(w, 0, 0 + Len(u)) = u /\ Slice(w, 0 + Len(u), 0 + Len(u) + Len(v)) = v
  BY <1>3, <1>4, SliceAt
<1>6. 0 + Len(u) = Len(u) /\ 0 + Len(u) + Len(v) = Len(w)
  BY <1>1, <1>4
<1>7. Slice(u, 0, 0 + Len(u)) = u
  BY AtWhole, SliceAt
<1> QED BY <1>5, <1>6, <1>7 DEF w

\* It does not matter in which order messages are joined.
LEMMA BytesAssociate ==
  ASSUME NEW u \in Bytes, NEW v \in Bytes, NEW w \in Bytes
  PROVE  (u \o v) \o w = u \o (v \o w)
BY ConcatAssociative DEF Bytes

Associates(u, v, w) == (u \o v) \o w = u \o (v \o w)

\* The same, as a fact about the three.
LEMMA MessagesAssociate == \A u, v, w \in Bytes : Associates(u, v, w)
BY BytesAssociate DEF Associates

\* Nothing is an empty message.
LEMMA EmptyBytes ==
  /\ <<>> \in Bytes /\ Len(<<>>) = 0
  /\ \A w \in Bytes : <<>> \o w = w /\ w \o <<>> = w /\ (Len(w) = 0 => w = <<>>)
<1>1. <<>> \in Bytes /\ Len(<<>>) = 0
  BY DEF Bytes
<1>2. ASSUME NEW w \in Bytes PROVE <<>> \o w = w /\ w \o <<>> = w /\ (Len(w) = 0 => w = <<>>)
  BY ConcatEmptySeq, EmptySeq DEF Bytes
<1> QED BY <1>1, <1>2

-----------------------------------------------------------------------------
(* The certificates are cut out.                                           *)

CertificateIds == \A w : GetCertificateId(w) \in Int

\* The annotation that takes the place of another.
Changed(d, pos, removed, a) ==
  IF a.type = "none" THEN a
  ELSE [type   |-> a.type, offset |-> Uint16(a.offset - removed),
        desc   |-> IF a.type \in Locators
                   THEN Uint16(GetCertificateId(
                                 Slice(d, pos + a.offset, pos + Uint16(a.offset + a.desc))))
                   ELSE a.desc]

\* One step of adjustDataBasedOnLocator.
AdjustedOne(d, pos, x, a) ==
  [out     |-> IF a.type \in Locators THEN x.out \o Slice(d, x.start, pos + a.offset) ELSE x.out,
   start   |-> IF a.type \in Locators THEN pos + a.offset + a.desc ELSE x.start,
   removed |-> IF a.type \in Locators THEN x.removed + a.desc ELSE x.removed,
   list    |-> Append(x.list, Changed(d, pos, x.removed, a))]
IsAccumulator(x) == x = [out |-> x.out, start |-> x.start, removed |-> x.removed, list |-> x.list]

\* Case by case, one step of adjustDataBasedOnLocator is the above.
LEMMA AdjustOneIs ==
  ASSUME NEW d, NEW pos, NEW a \in Annotations, NEW y, IsAccumulator(y)
  PROVE  AdjustOne(d, pos, y, a) = AdjustedOne(d, pos, y, a)
<1>0. PICK out, start, removed, list :
        y = [out |-> out, start |-> start, removed |-> removed, list |-> list]
  BY DEF IsAccumulator
<1> DEFINE x == [out |-> out, start |-> start, removed |-> removed, list |-> list]
           from == pos + a.offset
           id == GetCertificateId(Slice(d, from, pos + Uint16(a.offset + a.desc)))
           result == [out     |-> IF a.type \in Locators THEN out \o Slice(d, start, pos + a.offset) ELSE out,
                     start   |-> IF a.type \in Locators THEN pos + a.offset + a.desc ELSE start,
                     removed |-> IF a.type \in Locators THEN removed + a.desc ELSE removed,
                     list    |-> Append(list, Changed(d, pos, removed, a))]
<1>1. a = [type |-> a.type, offset |-> a.offset, desc |-> a.desc]
  BY DEF Annotations
<1>2. "none" \notin Locators
  BY DEF Locators
<1>3. \A l : [x EXCEPT !.list = l]
                = [out |-> out, start |-> start, removed |-> removed, list |-> l]
  OBVIOUS
<1>4. /\ \A o : [a EXCEPT !.offset = o] = [type |-> a.type, offset |-> o, desc |-> a.desc]
      /\ \A o, e : [a EXCEPT !.offset = o, !.desc = e] = [type |-> a.type, offset |-> o, desc |-> e]
  <2>1. ASSUME NEW o
        PROVE  [a EXCEPT !.offset = o] = [type |-> a.type, offset |-> o, desc |-> a.desc]
    BY DEF Annotations
  <2>2. ASSUME NEW o, NEW e
        PROVE  [a EXCEPT !.offset = o, !.desc = e] = [type |-> a.type, offset |-> o, desc |-> e]
    <3> DEFINE b == [a EXCEPT !.offset = o]
               c == [b EXCEPT !.desc = e]
    <3>1. b = [type |-> a.type, offset |-> o, desc |-> a.desc]
      BY <2>1
    <3>2. [a EXCEPT !.offset = o, !.desc = e] = c
      OBVIOUS
    <3> HIDE DEF b
    <3>3. c = [type |-> a.type, offset |-> o, desc |-> e]
      BY <3>1
    <3> QED BY <3>2, <3>3
  <2> QED BY <2>1, <2>2, Zenon
<1>5. ASSUME a.type = "none" PROVE AdjustOne(d, pos, x, a) = result
  <2>1. AdjustOne(d, pos, x, a) = [x EXCEPT !.list = Append(x.list, a)]
    BY <1>2, <1>5, Zenon DEF AdjustOne
  <2>2. Changed(d, pos, removed, a) = a
    BY <1>5 DEF Changed
  <2>3. x.list = list
    OBVIOUS
  <2> HIDE DEF x
  <2>4. AdjustOne(d, pos, x, a)
          = [out |-> out, start |-> start, removed |-> removed,
             list |-> Append(list, Changed(d, pos, removed, a))]
    BY <1>3, <2>1, <2>2, <2>3, Zenon
  <2>5. a.type \notin Locators
    BY <1>2, <1>5
  <2> QED BY <2>4, <2>5 DEF x
<1>6. ASSUME a.type \in Locators PROVE AdjustOne(d, pos, x, a) = result
  <2>1. AdjustOne(d, pos, x, a) =
          [out     |-> x.out \o Slice(d, x.start, from),
           start   |-> NextStart(pos, a),
           removed |-> x.removed + a.desc,
           list    |-> Append(x.list, [a EXCEPT !.offset = CorrectedOffset(x, a), !.desc = Uint16(id)])]
    BY <1>2, <1>6, Zenon DEF AdjustOne
  <2>2. [a EXCEPT !.offset = CorrectedOffset(x, a), !.desc = Uint16(id)]
          = [type |-> a.type, offset |-> CorrectedOffset(x, a), desc |-> Uint16(id)]
    BY <1>4, Zenon
  <2>3. CorrectedOffset(x, a) = Uint16(a.offset - removed) /\ NextStart(pos, a) = pos + a.offset + a.desc
    BY DEF CorrectedOffset, NextStart
  <2>4. Changed(d, pos, removed, a)
          = [type |-> a.type, offset |-> Uint16(a.offset - removed), desc |-> Uint16(id)]
    BY <1>2, <1>6, Zenon DEF Changed
  <2>5. x.out = out /\ x.start = start /\ x.removed = removed /\ x.list = list
    OBVIOUS
  <2> HIDE DEF id, x, from
  <2>6. AdjustOne(d, pos, x, a) =
          [out     |-> out \o Slice(d, start, from),
           start   |-> pos + a.offset + a.desc,
           removed |-> removed + a.desc,
           list    |-> Append(list, Changed(d, pos, removed, a))]
    BY <2>1, <2>2, <2>3, <2>4, <2>5, Zenon
  <2> QED BY <1>6, <2>6 DEF x, from
<1>7. ASSUME a.type # "none", a.type \notin Locators PROVE AdjustOne(d, pos, x, a) = result
  <2>1. AdjustOne(d, pos, x, a)
          = [x EXCEPT !.list = Append(x.list, [a EXCEPT !.offset = CorrectedOffset(x, a)])]
    BY <1>7, Zenon DEF AdjustOne
  <2>2. CorrectedOffset(x, a) = Uint16(a.offset - removed)
    BY DEF CorrectedOffset
  <2>3. [a EXCEPT !.offset = CorrectedOffset(x, a)]
          = [type |-> a.type, offset |-> CorrectedOffset(x, a), desc |-> a.desc]
    BY <1>4, Zenon
  <2>4. Changed(d, pos, removed, a)
          = [type |-> a.type, offset |-> Uint16(a.offset - removed), desc |-> a.desc]
    BY <1>7 DEF Changed
  <2>5. x.list = list
    OBVIOUS
  <2> HIDE DEF x
  <2>6. AdjustOne(d, pos, x, a) = [x EXCEPT !.list = Append(list, Changed(d, pos, removed, a))]
    BY <2>1, <2>2, <2>3, <2>4, <2>5, Zenon
  <2>7. AdjustOne(d, pos, x, a)
          = [out |-> out, start |-> start, removed |-> removed,
             list |-> Append(list, Changed(d, pos, removed, a))]
    BY <1>3, <2>6, Zenon
  <2> QED BY <1>7, <2>7 DEF x
<1>8. AdjustOne(d, pos, x, a) = result
  BY <1>5, <1>6, <1>7, Zenon
<1>9. y.out = out /\ y.start = start /\ y.removed = removed /\ y.list = list
  BY <1>0
<1> QED BY <1>0, <1>8, <1>9, Zenon DEF AdjustedOne

\* The loop over the annotations.
Adjusts(d, pos, A, r) ==
  /\ r[0] = [out |-> <<>>, start |-> pos, removed |-> 0, list |-> <<>>]
  /\ \A i \in 1..Len(A) : r[i] = AdjustOne(d, pos, r[i - 1], A[i])
AdjustsTo(d, pos, len, A, result) ==
  \E r : /\ Adjusts(d, pos, A, r)
         /\ result = [annotations |-> r[Len(A)].list,
                      payload     |-> r[Len(A)].out \o Slice(d, r[Len(A)].start, pos + len)]

\* An annotation stays one.
LEMMA ChangedShape ==
  ASSUME CertificateIds, NEW d, NEW pos, NEW removed \in Int, NEW a \in Annotations
  PROVE  Changed(d, pos, removed, a) \in Annotations
<1>1. a.type \in Types /\ a.offset \in Int /\ a.desc \in Positions
  BY AnnotationFields
<1>2. \A n \in Int : Uint16(n) \in Positions
  BY DEF Uint16, Positions
<1> DEFINE id == GetCertificateId(Slice(d, pos + a.offset, pos + Uint16(a.offset + a.desc)))
<1>3. id \in Int
  BY DEF CertificateIds
<1>4. CASE a.type = "none"
  BY <1>4 DEF Changed
<1>5. CASE a.type # "none"
  <2>1. a.offset - removed \in Int
    BY <1>1
  <2>2. PICK o \in Positions, e \in Positions :
          Changed(d, pos, removed, a) = [type |-> a.type, offset |-> o, desc |-> e]
    <3>1. Uint16(a.offset - removed) \in Positions /\ Uint16(id) \in Positions
      BY <1>2, <1>3, <2>1
    <3>2. Changed(d, pos, removed, a)
            = [type |-> a.type, offset |-> Uint16(a.offset - removed),
               desc |-> IF a.type \in Locators THEN Uint16(id) ELSE a.desc]
      BY <1>5 DEF Changed
    <3>3. (IF a.type \in Locators THEN Uint16(id) ELSE a.desc) \in Positions
      BY <1>1, <3>1
    <3> QED BY <3>1, <3>2, <3>3
  <2> QED BY <1>1, <2>2 DEF Annotations
<1> QED BY <1>4, <1>5

\* It is run to its end.
LEMMA AdjustSteps ==
  ASSUME CertificateIds, NEW d \in Bytes, NEW pos \in Nat, NEW len, NEW A \in Seq(Annotations)
  PROVE  AdjustsTo(d, pos, len, A, AdjustDataBasedOnLocator(d, pos, len, A))
<1> DEFINE l == Len(A)
           X == {d[k] : k \in Int}
           R == [out : Seq(X), start : Int, removed : Int, list : Seq(Annotations)]
           first == [out |-> <<>>, start |-> pos, removed |-> 0, list |-> <<>>]
           Step(x, i) == AdjustOne(d, pos, x, A[i])
           G == [i \in 1..l |-> [x \in R |-> Step(x, i)]]
           Body(f, i) ==
             IF i = 0 THEN [out |-> <<>>, start |-> pos, removed |-> 0, list |-> <<>>]
             ELSE AdjustOne(d, pos, f[i - 1], A[i])
           Unfolds(f) == f = [i \in 0..l |-> Body(f, i)]
<1>0. l \in Nat /\ \A i \in 1..l : A[i] \in Annotations
  OBVIOUS
<1>1. first \in R
  <2>1. <<>> \in Seq(X) /\ <<>> \in Seq(Annotations)
    BY EmptySeq
  <2> HIDE DEF X
  <2> QED BY <2>1
<1> HIDE DEF l
<1>2. ASSUME NEW x \in R, NEW i \in 1..l PROVE Step(x, i) \in R
  <2> DEFINE a == A[i]
             c == Changed(d, pos, x.removed, a)
             more == Slice(d, x.start, pos + a.offset)
  <2>1. a \in Annotations /\ a.offset \in Int /\ a.desc \in Int
    <3>1. A[i] \in Annotations
      BY <1>0
    <3> QED BY <3>1, AnnotationFields
  <2>2. x = [out |-> x.out, start |-> x.start, removed |-> x.removed, list |-> x.list]
    OBVIOUS
  <2>3. x.out \in Seq(X) /\ x.start \in Int /\ x.removed \in Int /\ x.list \in Seq(Annotations)
    OBVIOUS
  <2> HIDE DEF R
  <2> HIDE DEF a
  <2>4. c \in Annotations
    BY <2>1, <2>3, ChangedShape
  <2>5. more \in Seq(X)
    <3>1. x.start + 1 \in Int /\ pos + a.offset \in Int
      BY <2>1, <2>3
    <3>2. \A k \in (x.start + 1)..(pos + a.offset) : d[k] \in X
      BY <3>1
    <3> HIDE DEF X
    <3> QED BY <3>1, <3>2, SubSeqProperties DEF Slice
  <2> HIDE DEF X, c, more
  <2>6. x.out \o more \in Seq(X) /\ Append(x.list, c) \in Seq(Annotations)
    BY <2>3, <2>4, <2>5, ConcatProperties, AppendProperties
  <2>7. Step(x, i)
          = [out     |-> IF a.type \in Locators THEN x.out \o more ELSE x.out,
             start   |-> IF a.type \in Locators THEN pos + a.offset + a.desc ELSE x.start,
             removed |-> IF a.type \in Locators THEN x.removed + a.desc ELSE x.removed,
             list    |-> Append(x.list, c)]
    <3>1. IsAccumulator(x)
      BY <2>2 DEF IsAccumulator
    <3>2. Step(x, i) = AdjustedOne(d, pos, x, a)
      BY <2>1, <3>1, AdjustOneIs DEF a
    <3> QED BY <3>2, Zenon DEF AdjustedOne, c, more
  <2>8. /\ (IF a.type \in Locators THEN x.out \o more ELSE x.out) \in Seq(X)
        /\ (IF a.type \in Locators THEN pos + a.offset + a.desc ELSE x.start) \in Int
        /\ (IF a.type \in Locators THEN x.removed + a.desc ELSE x.removed) \in Int
    <3>1. pos \in Int /\ \A m, k \in Int : m + k \in Int
      OBVIOUS
    <3>2. pos + a.offset + a.desc \in Int /\ x.removed + a.desc \in Int
      BY <2>1, <2>3, <3>1, Zenon
    <3> QED BY <2>3, <2>6, <3>2, Zenon
  <2> HIDE DEF Step
  <2> QED BY <2>6, <2>7, <2>8 DEF R
<1> HIDE DEF R, first, X
<1>3. G \in Steps(l, R)
  <2> HIDE DEF Step
  <2> QED BY <1>2 DEF Steps
<1> HIDE DEF G
<1>4. PICK f : Recursion(f, l, R, first, G)
  BY <1>0, <1>1, <1>3, RecursionExists DEF l
<1>5. Unfolds(f)
  <2>1. f \in [0..l -> R] /\ f[0] = first /\ \A i \in 1..l : f[i] = G[i][f[i - 1]]
    BY <1>4 DEF Recursion
  <2>0. l \in Nat
    BY <1>0 DEF l
  <2>2. ASSUME NEW i \in 1..l PROVE f[i] = Step(f[i - 1], i)
    <3>1. f[i - 1] \in R /\ f[i] = G[i][f[i - 1]]
      <4> i - 1 \in 0..l
        BY <2>0
      <4> QED BY <2>1
    <3> HIDE DEF Step
    <3> QED BY <3>1 DEF G
  <2>3. \A i \in 0..l : f[i] = Body(f, i)
    <3> SUFFICES ASSUME NEW i \in 0..l PROVE f[i] = Body(f, i)
      OBVIOUS
    <3>1. CASE i = 0
      BY <2>1, <3>1 DEF first
    <3>2. CASE i # 0
      <4>1. i \in 1..l
        BY <2>0, <3>2
      <4>2. f[i] = AdjustOne(d, pos, f[i - 1], A[i])
        BY <2>2, <4>1
      <4> QED BY <3>2, <4>2, Zenon
    <3> QED BY <3>1, <3>2
  <2>4. f = [i \in 0..l |-> f[i]]
    BY <2>1
  <2> HIDE DEF Body
  <2> QED BY <2>3, <2>4, Zenon
<1> DEFINE v == CHOOSE g : Unfolds(g)
<1>6. Unfolds(v)
  <2> HIDE DEF Unfolds
  <2> QED BY <1>5
<1>7. AdjustDataBasedOnLocator(d, pos, len, A)
        = [annotations |-> v[l].list, payload |-> v[l].out \o Slice(d, v[l].start, pos + len)]
  BY DEF AdjustDataBasedOnLocator, FoldUp, l
<1> HIDE DEF v
<1>8. \A i \in 0..l : v[i] = Body(v, i)
  <2> HIDE DEF Body
  <2> QED BY <1>6, Zenon
<1>9. Adjusts(d, pos, A, v)
  <2>0. l \in Nat
    BY <1>0 DEF l
  <2>1. v[0] = [out |-> <<>>, start |-> pos, removed |-> 0, list |-> <<>>]
    <3>1. 0 \in 0..l
      BY <2>0
    <3> QED BY <1>8, <3>1, Zenon
  <2>2. ASSUME NEW i \in 1..l PROVE v[i] = AdjustOne(d, pos, v[i - 1], A[i])
    <3>1. i \in 0..l /\ i # 0
      BY <2>0
    <3> QED BY <1>8, <3>1, Zenon
  <2> QED BY <2>1, <2>2 DEF Adjusts, l
<1> QED BY <1>7, <1>9 DEF AdjustsTo, l

\* The certificates are cut out in their order: cut[i] is the end of the last one
\* that the first i annotations are for.
Cuts(pos, len, A, cut) ==
  /\ cut \in [0..Len(A) -> Nat] /\ cut[0] = pos /\ cut[Len(A)] <= pos + len
  /\ \A i \in 1..Len(A) :
       IF A[i].type \in Locators
       THEN cut[i - 1] <= pos + A[i].offset /\ cut[i] = pos + A[i].offset + A[i].desc
       ELSE cut[i] = cut[i - 1]

\* What the loop has done then.
AdjustedTo(d, pos, A, cut, r, i) ==
  /\ r[i].start = cut[i] /\ r[i].out \in Bytes /\ r[i].removed \in Nat
  /\ Len(r[i].out) + r[i].removed = cut[i] - pos
  /\ r[i].list \in Seq(Annotations) /\ Len(r[i].list) = i
  /\ \A j \in 1..i : r[i].list[j] = Changed(d, pos, r[j - 1].removed, A[j])
  /\ IsAccumulator(r[i])

\* From one end to the next, nothing goes back.
LEMMA CutsInOrder ==
  ASSUME NEW pos \in Nat, NEW len \in Nat, NEW A \in Seq(Annotations), NEW cut,
         Cuts(pos, len, A, cut)
  PROVE  /\ \A i \in 0..Len(A) : cut[i] \in Nat /\ pos <= cut[i] /\ cut[i] <= pos + len
         /\ \A i \in 1..Len(A) : cut[i - 1] <= cut[i]
<1> DEFINE n == Len(A)
           T == {i \in 0..n : pos <= cut[i]}
           U == {i \in 0..n : cut[n - i] <= pos + len}
<1>1. n \in Nat /\ \A i \in 0..n : cut[i] \in Nat
  BY DEF Cuts
<1>2. \A i \in 1..n : A[i].offset \in Nat /\ A[i].desc \in Nat
  <2>1. \A i \in 1..n : A[i] \in Annotations
    OBVIOUS
  <2> QED BY <2>1, AnnotationFields
<1>3. ASSUME NEW i \in 1..n PROVE cut[i - 1] <= cut[i]
  <2>1. i \in 0..n /\ i - 1 \in 0..n
    BY <1>1
  <2>2. cut[i] \in Nat /\ cut[i - 1] \in Nat /\ A[i].offset \in Nat /\ A[i].desc \in Nat
    BY <1>1, <1>2, <2>1
  <2>3. \/ cut[i - 1] <= pos + A[i].offset /\ cut[i] = pos + A[i].offset + A[i].desc
        \/ cut[i] = cut[i - 1]
    BY DEF Cuts
  <2>4. PICK e, g, o, k \in Nat : e = cut[i] /\ g = cut[i - 1] /\ o = A[i].offset /\ k = A[i].desc
    BY <2>2
  <2>5. (g <= pos + o /\ e = pos + o + k) \/ e = g
    BY <2>3, <2>4
  <2>6. g <= e
    BY <2>5
  <2> QED BY <2>4, <2>6
<1>4. 0 \in T /\ 0 \in U
  BY <1>1 DEF Cuts
<1>5. ASSUME NEW i \in 1..n, i - 1 \in T PROVE i \in T
  <2>1. i \in 0..n /\ i - 1 \in 0..n
    BY <1>1
  <2> QED BY <1>1, <1>3, <1>5, <2>1
<1>6. ASSUME NEW i \in 1..n, i - 1 \in U PROVE i \in U
  <2>1. /\ i \in 0..n /\ n - i \in 0..n /\ n - (i - 1) \in 1..n /\ n - (i - 1) \in 0..n
        /\ (n - (i - 1)) - 1 = n - i
    BY <1>1
  <2>2. cut[n - i] <= cut[n - (i - 1)] /\ cut[n - (i - 1)] <= pos + len
    BY <1>3, <1>6, <2>1
  <2>3. cut[n - i] \in Nat /\ cut[n - (i - 1)] \in Nat
    BY <1>1, <2>1
  <2> QED BY <2>1, <2>2, <2>3
<1>7. (\A i \in 0..n : i \in T) /\ (\A i \in 0..n : i \in U)
  <2> HIDE DEF T, U, n
  <2> QED BY <1>1, <1>4, <1>5, <1>6, IntervalInduction
<1>8. ASSUME NEW i \in 0..n PROVE cut[i] <= pos + len
  <2>1. n - i \in 0..n /\ n - (n - i) = i
    BY <1>1
  <2> QED BY <1>7, <2>1
<1> QED BY <1>1, <1>3, <1>7, <1>8

\* After i annotations, what is copied and what is removed add up to the cut of i, and
\* the first i annotations have been corrected.
LEMMA AdjustedStates ==
  ASSUME CertificateIds, NEW d \in Bytes, NEW pos \in Nat, NEW len \in Nat,
         pos + len <= Len(d), NEW A \in Seq(Annotations), NEW cut, Cuts(pos, len, A, cut),
         NEW r, Adjusts(d, pos, A, r)
  PROVE  \A i \in 0..Len(A) : AdjustedTo(d, pos, A, cut, r, i)
<1> DEFINE n == Len(A)
           T == {i \in 0..n : AdjustedTo(d, pos, A, cut, r, i)}
<1>1. /\ n \in Nat /\ Len(d) \in Nat
      /\ \A i \in 0..n : cut[i] \in Nat /\ pos <= cut[i] /\ cut[i] <= pos + len
      /\ \A i \in 1..n : A[i] \in Annotations
  BY CutsInOrder, BytesShape
<1>2. 0 \in T
  <2>1. r[0] = [out |-> <<>>, start |-> pos, removed |-> 0, list |-> <<>>] /\ cut[0] = pos
    BY DEF Adjusts, Cuts
  <2>2. /\ r[0].start = cut[0] /\ r[0].out = <<>> /\ r[0].removed = 0 /\ r[0].list = <<>>
    BY <2>1
  <2>3. <<>> \in Seq(Annotations) /\ Len(<<>>) = 0
    BY EmptySeq
  <2>4. AdjustedTo(d, pos, A, cut, r, 0)
    <3>1. IsAccumulator(r[0])
      BY <2>1, <2>2, Zenon DEF IsAccumulator
    <3>2. <<>> \in Bytes /\ Len(<<>>) + 0 = cut[0] - pos
      BY <2>1, EmptyBytes
    <3> QED BY <2>2, <2>3, <3>1, <3>2 DEF AdjustedTo
  <2> QED BY <1>1, <2>4
<1>3. ASSUME NEW i \in 1..n, i - 1 \in T PROVE i \in T
  <2> DEFINE a == A[i]
             x == r[i - 1]
             c == Changed(d, pos, x.removed, a)
             more == Slice(d, x.start, pos + a.offset)
  <2>1. i \in 0..n /\ i - 1 \in 0..n /\ i - 1 \in Nat
    BY <1>1
  <2>2. /\ x.start = cut[i - 1] /\ x.out \in Bytes /\ x.removed \in Nat
        /\ Len(x.out) + x.removed = cut[i - 1] - pos
        /\ x.list \in Seq(Annotations) /\ Len(x.list) = i - 1
        /\ \A j \in 1..i - 1 : x.list[j] = Changed(d, pos, r[j - 1].removed, A[j])
        /\ IsAccumulator(x)
    BY <1>3 DEF AdjustedTo
  <2>3. a \in Annotations /\ a.offset \in Nat /\ a.desc \in Nat
    <3>1. A[i] \in Annotations
      BY <1>1
    <3> QED BY <3>1, AnnotationFields
  <2>4. r[i] = AdjustedOne(d, pos, x, a)
    <3>1. r[i] = AdjustOne(d, pos, x, a)
      BY DEF Adjusts
    <3> HIDE DEF a, x
    <3> QED BY <2>2, <2>3, <3>1, AdjustOneIs
  <2>5. c \in Annotations
    <3>1. x.removed \in Int
      BY <2>2
    <3> HIDE DEF a, x
    <3> QED BY <2>3, <3>1, ChangedShape
  <2>6. /\ IsAccumulator(r[i])
        /\ r[i].out = (IF a.type \in Locators THEN x.out \o more ELSE x.out)
        /\ r[i].start = (IF a.type \in Locators THEN pos + a.offset + a.desc ELSE x.start)
        /\ r[i].removed = (IF a.type \in Locators THEN x.removed + a.desc ELSE x.removed)
        /\ r[i].list = Append(x.list, c)
    <3> HIDE DEF a, x, c, more
    <3>1. r[i] = [out     |-> IF a.type \in Locators THEN x.out \o more ELSE x.out,
                  start   |-> IF a.type \in Locators THEN pos + a.offset + a.desc ELSE x.start,
                  removed |-> IF a.type \in Locators THEN x.removed + a.desc ELSE x.removed,
                  list    |-> Append(x.list, c)]
      BY <2>4, Zenon DEF AdjustedOne, c, more
    <3>2. PICK o, s, m, l : r[i] = [out |-> o, start |-> s, removed |-> m, list |-> l]
      BY <3>1
    <3>3. r[i].out = o /\ r[i].start = s /\ r[i].removed = m /\ r[i].list = l
      BY <3>2
    <3>4. IsAccumulator(r[i])
      BY <3>2, <3>3, Zenon DEF IsAccumulator
    <3> QED BY <3>1, <3>4
  <2>7. /\ r[i].list \in Seq(Annotations) /\ Len(r[i].list) = i
        /\ \A j \in 1..i : r[i].list[j] = Changed(d, pos, r[j - 1].removed, A[j])
    <3> DEFINE l == x.list
    <3>1. l \in Seq(Annotations) /\ Len(l) = i - 1 /\ c \in Annotations /\ r[i].list = Append(l, c)
      BY <2>2, <2>5, <2>6
    <3>2. \A j \in 1..i - 1 : l[j] = Changed(d, pos, r[j - 1].removed, A[j])
      BY <2>2
    <3>3. c = Changed(d, pos, r[i - 1].removed, A[i])
      OBVIOUS
    <3> HIDE DEF l, c
    <3>4. /\ Append(l, c) \in Seq(Annotations) /\ Len(Append(l, c)) = Len(l) + 1
          /\ \A j \in 1..Len(l) : Append(l, c)[j] = l[j]
          /\ Append(l, c)[Len(l) + 1] = c
      BY <3>1, AppendProperties
    <3>5. ASSUME NEW j \in 1..i PROVE r[i].list[j] = Changed(d, pos, r[j - 1].removed, A[j])
      <4>1. CASE j = i
        <5>1. Len(l) + 1 = i
          BY <2>1, <3>1
        <5> QED BY <3>1, <3>3, <3>4, <4>1, <5>1
      <4>2. CASE j # i
        <5>1. j \in 1..i - 1
          BY <2>1, <4>2
        <5> QED BY <3>1, <3>2, <3>4, <5>1
      <4> QED BY <4>1, <4>2
    <3>6. Len(r[i].list) = i
      BY <2>1, <3>1, <3>4
    <3> QED BY <3>1, <3>4, <3>5, <3>6
  <2>8. /\ r[i].start = cut[i] /\ r[i].out \in Bytes /\ r[i].removed \in Nat
        /\ Len(r[i].out) + r[i].removed = cut[i] - pos
    <3>1. /\ cut[i] \in Nat /\ cut[i - 1] \in Nat /\ cut[i] <= pos + len /\ Len(x.out) \in Nat
      BY <1>1, <2>1, <2>2, BytesShape
    <3>2. CASE a.type \in Locators
      <4>1. cut[i - 1] <= pos + a.offset /\ cut[i] = pos + a.offset + a.desc
        BY <3>2 DEF Cuts
      <4>2. PICK o, e, k, m, g, h \in Nat :
              /\ o = a.offset /\ e = a.desc /\ k = Len(x.out) /\ m = x.removed
              /\ g = cut[i - 1] /\ h = cut[i]
        BY <2>2, <2>3, <3>1
      <4>3. PICK z : z = x.out
        OBVIOUS
      <4>4. pos + o \in Nat /\ g <= pos + o /\ pos + o <= Len(d) /\ h = pos + o + e /\ k + m = g - pos
        <5>1. g <= pos + o /\ h = pos + o + e /\ k + m = g - pos /\ h <= pos + len
          BY <2>2, <3>1, <4>1, <4>2
        <5>2. Len(d) \in Nat /\ pos + len <= Len(d)
          BY <1>1
        <5> QED BY <5>1, <5>2
      <4>5. more \in Bytes /\ Len(more) = (pos + o) - g
        <5>1. more = Slice(d, g, pos + o)
          BY <2>2, <4>2
        <5>2. PICK b \in Nat : b = pos + o
          BY <4>4
        <5>3. g <= b /\ b <= Len(d)
          BY <4>4, <5>2
        <5>4. Slice(d, g, b) \in Bytes /\ Len(Slice(d, g, b)) = b - g
          BY <5>3, SliceShape
        <5> QED BY <5>1, <5>2, <5>4
      <4> HIDE DEF more
      <4>6. z \o more \in Bytes /\ Len(z \o more) = Len(z) + Len(more)
        <5>1. z \in Bytes
          BY <2>2, <4>3
        <5> QED BY <4>5, <5>1, BytesConcat
      <4>7. r[i].start = pos + o + e /\ r[i].out = z \o more /\ r[i].removed = m + e
        BY <2>6, <3>2, <4>2, <4>3
      <4>8. Len(z \o more) = k + ((pos + o) - g)
        BY <4>2, <4>3, <4>5, <4>6
      <4>9. (k + ((pos + o) - g)) + (m + e) = h - pos /\ m + e \in Nat
        BY <4>4
      <4>10. r[i].start = h
        BY <4>4, <4>7
      <4> QED BY <4>2, <4>6, <4>7, <4>8, <4>9, <4>10
    <3>3. CASE a.type \notin Locators
      <4>1. cut[i] = cut[i - 1]
        BY <3>3 DEF Cuts
      <4>2. r[i].start = x.start /\ r[i].out = x.out /\ r[i].removed = x.removed
        BY <2>6, <3>3
      <4> QED BY <2>2, <4>1, <4>2
    <3> QED BY <3>2, <3>3
  <2>9. AdjustedTo(d, pos, A, cut, r, i)
    BY <2>6, <2>7, <2>8 DEF AdjustedTo
  <2> QED BY <2>1, <2>9
<1> HIDE DEF T, n
<1>4. \A i \in 0..n : i \in T
  BY <1>1, <1>2, <1>3, IntervalInduction
<1> QED BY <1>4 DEF T, n

\* Where a slice is, there are its parts.
LEMMA AtSlice ==
  ASSUME NEW d \in Bytes, NEW g \in Bytes, NEW q, NEW a \in Nat, NEW b \in Nat, NEW c \in Nat,
         a <= b, b <= c, c <= Len(d), At(g, q, Slice(d, a, c))
  PROVE  At(g, q, Slice(d, a, b)) /\ At(g, q + (b - a), Slice(d, b, c))
<1>1. Len(d) \in Nat
  BY BytesShape
<1>2. PICK u \in Bytes, v \in Bytes : u = Slice(d, a, b) /\ v = Slice(d, b, c) /\ Len(u) = b - a
  <2>1. b <= Len(d)
    BY <1>1
  <2> QED BY <2>1, SliceShape
<1>3. At(g, q, u \o v)
  <2>1. u \o v = Slice(d, a, c)
    BY <1>2, SliceJoin
  <2> QED BY <2>1
<1>4. At(g, q, u) /\ At(g, q + Len(u), v)
  BY <1>3, AtConcat
<1> QED BY <1>2, <1>4

\* What one annotation adds to the payload.
OutAfter(d, pos, A, cut, r, i) ==
  /\ A[i].type \in Locators =>
       /\ r[i].out = r[i - 1].out \o Slice(d, cut[i - 1], pos + A[i].offset)
       /\ r[i].removed = r[i - 1].removed + A[i].desc
  /\ A[i].type \notin Locators =>
       r[i].out = r[i - 1].out /\ r[i].removed = r[i - 1].removed

\* A locator adds what is before its certificate; any other annotation adds nothing.
LEMMA OutSteps ==
  ASSUME CertificateIds, NEW d \in Bytes, NEW pos \in Nat, NEW len \in Nat,
         pos + len <= Len(d), NEW A \in Seq(Annotations), NEW cut, Cuts(pos, len, A, cut),
         NEW r, Adjusts(d, pos, A, r)
  PROVE  \A i \in 1..Len(A) : OutAfter(d, pos, A, cut, r, i)
<1> SUFFICES ASSUME NEW i \in 1..Len(A) PROVE OutAfter(d, pos, A, cut, r, i)
  OBVIOUS
<1> DEFINE a == A[i]
           x == r[i - 1]
<1>1. i - 1 \in 0..Len(A) /\ a \in Annotations
  OBVIOUS
<1>2. AdjustedTo(d, pos, A, cut, r, i - 1)
  BY <1>1, AdjustedStates
<1>3. x.start = cut[i - 1] /\ IsAccumulator(x)
  BY <1>2 DEF AdjustedTo
<1>4. r[i] = AdjustedOne(d, pos, x, a)
  <2>1. r[i] = AdjustOne(d, pos, x, a)
    BY DEF Adjusts
  <2> HIDE DEF a, x
  <2> QED BY <1>1, <1>3, <2>1, AdjustOneIs
<1> HIDE DEF a, x
<1>5. /\ r[i].out = (IF a.type \in Locators THEN x.out \o Slice(d, x.start, pos + a.offset) ELSE x.out)
      /\ r[i].removed = (IF a.type \in Locators THEN x.removed + a.desc ELSE x.removed)
  BY <1>4 DEF AdjustedOne
<1>6. a.type \in Locators => r[i].out = x.out \o Slice(d, cut[i - 1], pos + a.offset)
  BY <1>3, <1>5
<1> QED BY <1>5, <1>6 DEF OutAfter, a, x

\* All that the payload consists of.
Payload(d, pos, len, A, r) == r[Len(A)].out \o Slice(d, r[Len(A)].start, pos + len)
Starts(d, pos, len, A, cut, r) ==
  /\ Payload(d, pos, len, A, r) \in Bytes
  /\ At(Payload(d, pos, len, A, r), Len(r[Len(A)].out), Slice(d, cut[Len(A)], pos + len))
  /\ \A i \in 0..Len(A) : At(Payload(d, pos, len, A, r), 0, r[i].out)

\* What has been copied after i annotations stays the start of the payload, and what
\* follows the last certificate is its end.
LEMMA PayloadStarts ==
  ASSUME CertificateIds, NEW d \in Bytes, NEW pos \in Nat, NEW len \in Nat,
         pos + len <= Len(d), NEW A \in Seq(Annotations), NEW cut, Cuts(pos, len, A, cut),
         NEW r, Adjusts(d, pos, A, r)
  PROVE  Starts(d, pos, len, A, cut, r)
<1> DEFINE n == Len(A)
           P == Payload(d, pos, len, A, r)
           T == {k \in 0..n : At(P, 0, r[n - k].out)}
<1>1. /\ n \in Nat /\ \A i \in 0..n : r[i].out \in Bytes /\ r[i].start = cut[i]
      /\ \A i \in 0..n : cut[i] \in Nat /\ cut[i] <= pos + len
      /\ \A i \in 1..n : OutAfter(d, pos, A, cut, r, i)
  <2>1. \A i \in 0..n : AdjustedTo(d, pos, A, cut, r, i)
    BY AdjustedStates
  <2>2. \A i \in 0..n : cut[i] \in Nat /\ cut[i] <= pos + len
    BY CutsInOrder
  <2> QED BY <2>1, <2>2, OutSteps DEF AdjustedTo
<1>2. PICK e \in Nat : e = pos + len /\ e <= Len(d)
  OBVIOUS
<1>3. PICK u \in Bytes, v \in Bytes :
        u = r[n].out /\ v = Slice(d, cut[n], pos + len) /\ P = u \o v
  <2>1. n \in 0..n
    BY <1>1
  <2>2. r[n].out \in Bytes /\ r[n].start = cut[n] /\ cut[n] \in Nat /\ cut[n] <= e
    BY <1>1, <1>2, <2>1
  <2>3. Slice(d, cut[n], e) \in Bytes
    BY <1>2, <2>2, SliceShape
  <2>4. P = r[n].out \o Slice(d, cut[n], pos + len)
    BY <2>2 DEF Payload
  <2> QED BY <1>2, <2>2, <2>3, <2>4
<1> HIDE DEF P, n
<1>4. P \in Bytes /\ At(P, 0, u) /\ At(P, Len(u), v)
  <2>1. P \in Bytes
    BY <1>3, BytesConcat
  <2>2. At(P, 0, u \o v)
    BY <1>3, <2>1, AtWhole
  <2>3. At(P, 0, u) /\ At(P, 0 + Len(u), v)
    BY <2>1, <2>2, AtConcat
  <2>4. 0 + Len(u) = Len(u)
    BY BytesShape
  <2> QED BY <2>1, <2>3, <2>4
<1>5. 0 \in T
  <2>1. n - 0 = n /\ 0 \in 0..n
    BY <1>1
  <2> QED BY <1>3, <1>4, <2>1
<1>6. ASSUME NEW k \in 1..n, k - 1 \in T PROVE k \in T
  <2> DEFINE i == n - (k - 1)
  <2>1. i \in 1..n /\ i \in 0..n /\ i - 1 \in 0..n /\ i - 1 = n - k /\ k \in 0..n
    BY <1>1
  <2>2. At(P, 0, r[i].out) /\ r[i - 1].out \in Bytes /\ OutAfter(d, pos, A, cut, r, i)
    BY <1>1, <1>6, <2>1
  <2> HIDE DEF i
  <2>3. At(P, 0, r[i - 1].out)
    <3>1. CASE A[i].type \notin Locators
      BY <2>2, <3>1 DEF OutAfter
    <3>2. CASE A[i].type \in Locators
      <4>1. cut[i - 1] <= pos + A[i].offset /\ cut[i] = pos + A[i].offset + A[i].desc
        BY <2>1, <3>2 DEF Cuts, n
      <4>2. PICK o, c, f, g \in Nat : o = A[i].offset /\ c = A[i].desc /\ f = cut[i - 1] /\ g = cut[i]
        <5>1. A[i] \in Annotations
          BY <2>1 DEF n
        <5>2. A[i].offset \in Nat /\ A[i].desc \in Nat
          BY <5>1, AnnotationFields
        <5>3. cut[i - 1] \in Nat /\ cut[i] \in Nat
          BY <1>1, <2>1, Zenon
        <5> QED BY <5>2, <5>3, Zenon
      <4>3. f <= pos + o /\ pos + o <= Len(d) /\ pos + o \in Nat
        <5>1. f <= pos + o /\ g = pos + o + c /\ g <= pos + len
          BY <1>1, <2>1, <4>1, <4>2
        <5>2. Len(d) \in Nat /\ pos + len <= Len(d)
          BY BytesShape
        <5> QED BY <5>1, <5>2
      <4>4. PICK b \in Nat : b = pos + o
        BY <4>3
      <4>5. PICK y \in Bytes, z \in Bytes : y = r[i - 1].out /\ z = Slice(d, f, b)
        BY <2>2, <4>3, <4>4, SliceShape
      <4>6. r[i].out = y \o z
        BY <2>2, <3>2, <4>2, <4>4, <4>5 DEF OutAfter
      <4>7. At(P, 0, y)
        <5>1. At(P, 0, y \o z)
          BY <2>2, <4>6
        <5> QED BY <1>4, <5>1, AtConcat
      <4> QED BY <4>5, <4>7
    <3> QED BY <3>1, <3>2
  <2> QED BY <2>1, <2>3
<1>7. \A k \in 0..n : k \in T
  <2> HIDE DEF T
  <2> QED BY <1>1, <1>5, <1>6, IntervalInduction
<1>8. ASSUME NEW i \in 0..n PROVE At(P, 0, r[i].out)
  <2>1. n - i \in 0..n /\ n - (n - i) = i
    BY <1>1
  <2> QED BY <1>7, <2>1
<1> QED BY <1>3, <1>4, <1>8 DEF Starts, P, n

\* A field w at h, after the certificates of the first i annotations and before those of
\* the others.
Between(d, pos, len, A, cut, i, h, w) ==
  /\ i \in 0..Len(A) /\ h \in Nat /\ w \in Bytes /\ At(d, h, w)
  /\ cut[i] <= h /\ h + Len(w) <= pos + len
  /\ \A k \in i + 1..Len(A) : A[k].type \in Locators => h + Len(w) <= pos + A[k].offset

\* A field between two certificates is where it was, less what has been cut before it.
LEMMA FieldCopied ==
  ASSUME CertificateIds, NEW d \in Bytes, NEW pos \in Nat, NEW len \in Nat,
         pos + len <= Len(d), NEW A \in Seq(Annotations), NEW cut, Cuts(pos, len, A, cut),
         NEW r, Adjusts(d, pos, A, r),
         NEW i, NEW h, NEW w, Between(d, pos, len, A, cut, i, h, w)
  PROVE  At(Payload(d, pos, len, A, r), h - pos - r[i].removed, w)
<1> DEFINE n == Len(A)
           P == Payload(d, pos, len, A, r)
           m(j) == Len(r[j].out)
<1>0. /\ i \in 0..n /\ i \in Nat /\ h \in Nat /\ w \in Bytes /\ At(d, h, w)
      /\ cut[i] <= h /\ h + Len(w) <= pos + len
      /\ \A k \in i + 1..n : A[k].type \in Locators => h + Len(w) <= pos + A[k].offset
  BY DEF Between
<1>1. /\ n \in Nat /\ Len(w) \in Nat /\ Len(d) \in Nat
      /\ \A j \in 0..n : /\ r[j].out \in Bytes /\ r[j].removed \in Nat /\ m(j) \in Nat
                         /\ m(j) + r[j].removed = cut[j] - pos
      /\ \A j \in 0..n : cut[j] \in Nat /\ cut[j] <= pos + len
      /\ \A j \in 1..n : OutAfter(d, pos, A, cut, r, j) /\ A[j] \in Annotations
  <2>1. \A j \in 0..n : AdjustedTo(d, pos, A, cut, r, j)
    BY AdjustedStates
  <2>2. \A j \in 0..n : cut[j] \in Nat /\ cut[j] <= pos + len
    BY CutsInOrder
  <2>3. \A j \in 0..n : r[j].out \in Bytes /\ r[j].removed \in Nat /\ m(j) + r[j].removed = cut[j] - pos
    BY <2>1 DEF AdjustedTo
  <2>4. \A j \in 0..n : m(j) \in Nat
    BY <2>3, BytesShape
  <2>5. Len(w) \in Nat /\ Len(d) \in Nat /\ n \in Nat
    BY <1>0, BytesShape
  <2>6. \A j \in 1..n : A[j] \in Annotations
    OBVIOUS
  <2> QED BY <2>2, <2>3, <2>4, <2>5, <2>6, OutSteps
<1>2. /\ P \in Bytes /\ At(P, m(n), Slice(d, cut[n], pos + len))
      /\ \A j \in 0..n : At(P, 0, r[j].out)
  BY PayloadStarts DEF Starts
<1>3. PICK e \in Nat : e = h + Len(w) /\ e <= pos + len /\ e <= Len(d) /\ h <= e
  <2>1. PICK c \in Nat, b \in Nat : c = Len(w) /\ b = Len(d)
    BY <1>1
  <2>2. h \in Nat /\ h + c <= pos + len /\ pos + len <= b
    BY <1>0, <2>1
  <2>3. h + c \in Nat /\ h + c <= b /\ h <= h + c
    BY <2>2
  <2> QED BY <2>1, <2>2, <2>3
<1>4. PICK f \in Nat : f = pos + len /\ f <= Len(d)
  BY <1>1
<1> HIDE DEF P, n, m
<1> DEFINE T == {k \in 0..n : n - k >= i /\ cut[n - k] <= e =>
                                 At(P, m(n - k), Slice(d, cut[n - k], e))}
<1>5. 0 \in T
  <2>1. n - 0 = n /\ 0 \in 0..n /\ n \in 0..n
    BY <1>1
  <2>2. ASSUME cut[n] <= e PROVE At(P, m(n), Slice(d, cut[n], e))
    <3>1. PICK g \in Nat : g = cut[n]
      BY <1>1, <2>1
    <3>2. g <= e /\ e <= f /\ f <= Len(d) /\ At(P, m(n), Slice(d, g, f))
      BY <1>2, <1>3, <1>4, <2>2, <3>1
    <3>3. At(P, m(n), Slice(d, g, e))
      BY <1>2, <3>2, AtSlice
    <3> QED BY <3>1, <3>3
  <2> QED BY <2>1, <2>2
<1>6. ASSUME NEW k \in 1..n, k - 1 \in T PROVE k \in T
  <2> DEFINE j == n - (k - 1)
  <2>1. j \in 1..n /\ j \in 0..n /\ j - 1 \in 0..n /\ j - 1 = n - k /\ k \in 0..n /\ j \in Nat
    BY <1>1
  <2>2. j >= i /\ cut[j] <= e => At(P, m(j), Slice(d, cut[j], e))
    BY <1>6, <2>1
  <2> HIDE DEF j
  <2>3. ASSUME j - 1 >= i, cut[j - 1] <= e PROVE At(P, m(j - 1), Slice(d, cut[j - 1], e))
    <3>0. i \in Nat /\ j >= i /\ j \in i + 1..n
      BY <1>0, <1>1, <2>1, <2>3
    <3>1. CASE A[j].type \notin Locators
      <4>1. cut[j] = cut[j - 1]
        BY <2>1, <3>1 DEF Cuts, n
      <4>2. r[j].out = r[j - 1].out
        BY <1>1, <2>1, <3>1 DEF OutAfter
      <4>3. m(j) = m(j - 1)
        BY <4>2 DEF m
      <4> QED BY <2>2, <2>3, <3>0, <4>1, <4>3
    <3>2. CASE A[j].type \in Locators
      <4>1. cut[j - 1] <= pos + A[j].offset /\ cut[j] = pos + A[j].offset + A[j].desc
        BY <2>1, <3>2 DEF Cuts, n
      <4>2. PICK o, c, g, l \in Nat : o = A[j].offset /\ c = A[j].desc /\ g = cut[j - 1] /\ l = cut[j]
        <5>1. A[j] \in Annotations
          BY <1>1, <2>1, Zenon
        <5>2. A[j].offset \in Nat /\ A[j].desc \in Nat
          BY <5>1, AnnotationFields
        <5>3. cut[j - 1] \in Nat /\ cut[j] \in Nat
          BY <1>1, <2>1, Zenon
        <5> QED BY <5>2, <5>3, Zenon
      <4>3. e <= pos + o
        <5>1. h + Len(w) <= pos + A[j].offset
          BY <1>0, <3>0, <3>2
        <5> QED BY <1>3, <4>2, <5>1
      <4>4. PICK b \in Nat : b = pos + o
        OBVIOUS
      <4>5. g <= e /\ e <= b /\ b <= Len(d)
        <5>1. g <= e /\ l = pos + o + c /\ l <= pos + len
          BY <1>1, <2>1, <2>3, <4>1, <4>2
        <5>2. f = pos + len /\ f <= Len(d) /\ Len(d) \in Nat
          BY <1>1, <1>4
        <5>3. b <= f
          BY <4>4, <5>1, <5>2
        <5> QED BY <4>3, <4>4, <5>1, <5>2, <5>3
      <4>6. PICK y \in Bytes, z \in Bytes : y = r[j - 1].out /\ z = Slice(d, g, b)
        <5>1. g <= b
          BY <4>5
        <5> QED BY <1>1, <2>1, <4>5, <5>1, SliceShape
      <4>7. r[j].out = y \o z
        BY <1>1, <2>1, <3>2, <4>2, <4>4, <4>6 DEF OutAfter
      <4>8. At(P, m(j - 1), z)
        <5>1. At(P, 0, y \o z)
          BY <1>2, <2>1, <4>7
        <5>2. At(P, 0 + Len(y), z)
          BY <1>2, <5>1, AtConcat
        <5>3. 0 + Len(y) = m(j - 1)
          BY <1>1, <2>1, <4>6 DEF m
        <5> QED BY <5>2, <5>3
      <4>9. At(P, m(j - 1), Slice(d, g, e))
        <5>1. P \in Bytes /\ At(P, m(j - 1), Slice(d, g, b))
          BY <1>2, <4>6, <4>8, Zenon
        <5> QED BY <4>5, <5>1, AtSlice
      <4> QED BY <4>2, <4>9
    <3> QED BY <3>1, <3>2
  <2> QED BY <2>1, <2>3
<1>7. \A k \in 0..n : k \in T
  <2> HIDE DEF T
  <2> QED BY <1>1, <1>5, <1>6, IntervalInduction
<1>8. PICK g \in Nat, q \in Nat, k \in Nat :
        g = cut[i] /\ q = m(i) /\ k = r[i].removed /\ q + k = g - pos /\ g <= h
  <2> QED BY <1>0, <1>1
<1>9. At(P, q, Slice(d, g, e))
  <2>1. n - i \in 0..n /\ n - (n - i) = i /\ i >= i
    <3>1. n \in Nat /\ i \in 0..n
      BY <1>0, <1>1
    <3> QED BY <3>1
  <2>2. cut[i] <= e
    <3>1. h \in Nat /\ h <= e
      BY <1>0, <1>3
    <3>2. g <= h /\ g = cut[i]
      BY <1>8
    <3>3. g <= e
      BY <3>1, <3>2
    <3> QED BY <3>2, <3>3
  <2> QED BY <1>7, <1>8, <2>1, <2>2
<1>10. At(P, q + (h - g), Slice(d, h, e))
  BY <1>0, <1>2, <1>3, <1>8, <1>9, AtSlice
<1>11. Slice(d, h, e) = w
  BY <1>0, <1>3, SliceAt
<1>12. q + (h - g) = h - pos - k
  <2>1. h \in Nat
    BY <1>0
  <2>2. g \in Nat /\ q \in Nat /\ k \in Nat /\ q + k = g - pos
    BY <1>8
  <2> QED BY <2>1, <2>2
<1> QED BY <1>8, <1>10, <1>11, <1>12 DEF P

-----------------------------------------------------------------------------
(* The certificates are put back.                                          *)

\* Up to a the message has been put together, up to b the payload goes on with it.
PutBack(d, g, base, a, b, c, q, x, k) ==
  /\ Slice(x, 0, b - base) = Slice(d, base, b)
  /\ Slice(x, b - base, Len(x)) = Slice(g, k, Len(g))
  /\ Slice(d, base, b) \o Slice(d, b, c) \o Slice(g, k, Len(g))
       = Slice(d, base, c) \o Slice(g, k, Len(g))

\* If both hold up to a, they do up to the end of the certificate between b and c.
LEMMA CertificatePutBack ==
  ASSUME NEW d \in Bytes, NEW g \in Bytes, NEW base \in Nat, NEW a \in Nat, NEW b \in Nat,
         NEW c \in Nat, base <= a, a <= b, b <= c, c <= Len(d),
         NEW q \in Nat, At(g, q, Slice(d, a, b)), NEW k \in Nat, k = q + (b - a),
         NEW x, x = Slice(d, base, a) \o Slice(g, q, Len(g))
  PROVE  PutBack(d, g, base, a, b, c, q, x, k)
<1>1. Len(d) \in Nat /\ base <= b /\ base <= c /\ a <= Len(d) /\ b <= Len(d)
  BY BytesShape
<1>2. PICK u, v, w, z \in Bytes :
        /\ u = Slice(d, base, a) /\ v = Slice(d, a, b) /\ w = Slice(d, base, b) /\ z = Slice(d, b, c)
        /\ Len(v) = b - a /\ Len(w) = b - base
  BY <1>1, SliceShape
<1>3. u \o v = w /\ w \o z = Slice(d, base, c)
  <2>1. u \o v = w
    <3>1. Slice(d, base, a) \o Slice(d, a, b) = Slice(d, base, b)
      BY <1>1, SliceJoin
    <3> QED BY <1>2, <3>1
  <2>2. w \o z = Slice(d, base, c)
    <3>1. Slice(d, base, b) \o Slice(d, b, c) = Slice(d, base, c)
      <4>1. base <= b /\ b <= c /\ c <= Len(d)
        BY <1>1
      <4> QED BY <4>1, SliceJoin, SMTT(30)
    <3> QED BY <1>2, <3>1
  <2> QED BY <2>1, <2>2
<1>4. k <= Len(g) /\ q <= k /\ Len(g) \in Nat /\ Slice(g, q, k) = v
  <2>1. At(g, q, v) /\ Len(g) \in Nat
    BY <1>2, BytesShape
  <2>2. q + Len(v) = k
    BY <1>2
  <2>3. q + Len(v) <= Len(g)
    BY <2>1 DEF At
  <2>4. Slice(g, q, q + Len(v)) = v
    BY <1>2, <2>1, SliceAt
  <2>5. q <= k
    BY DEF PutBack
  <2> QED BY <2>1, <2>2, <2>3, <2>4, <2>5
<1>5. PICK y \in Bytes, l \in Nat : y = Slice(g, k, l) /\ l = Len(g)
  <2>1. PICK l \in Nat : l = Len(g)
    BY <1>4
  <2>2. k <= l /\ l <= Len(g)
    BY <1>4, <2>1
  <2> QED BY <2>1, <2>2, SliceShape
<1>6. Slice(g, q, Len(g)) = v \o y
  <2>1. k <= l /\ l <= Len(g) /\ q <= k
    BY <1>4, <1>5
  <2>2. Slice(g, q, k) \o Slice(g, k, l) = Slice(g, q, l)
    BY <2>1, SliceJoin
  <2> QED BY <1>4, <1>5, <2>2
<1>7. x = w \o y
  <2>1. (u \o v) \o y = u \o (v \o y)
    <3>1. u \in Bytes /\ v \in Bytes /\ y \in Bytes
      BY <1>2, <1>5
    <3>2. Associates(u, v, y)
      BY <3>1, MessagesAssociate, Zenon
    <3> QED BY <3>2, Zenon DEF Associates
  <2> QED BY <1>2, <1>3, <1>6, <2>1
<1>8. Slice(x, 0, b - base) = w /\ Slice(x, b - base, Len(x)) = y
  <2>1. Slice(w \o y, 0, Len(w)) = w /\ Slice(w \o y, Len(w), Len(w \o y)) = y
    BY SliceConcat
  <2> QED BY <1>2, <1>7, <2>1
<1>9. w \o z \o y = Slice(d, base, c) \o y
  BY <1>3
<1> QED BY <1>2, <1>5, <1>8, <1>9 DEF PutBack

\* The card has the certificates that are left out.
Restorable(d, pos, A) ==
  \A i \in 1..Len(A) : A[i].type \in Locators =>
    LET w == Slice(d, pos + A[i].offset, pos + A[i].offset + A[i].desc)
    IN  GetCertificateId(w) \in Positions /\ idCache[GetCertificateId(w)] = w

\* What the card has after the first i annotations.
Expanded(d, pos, cut, r, g, i) ==
  [bytes |-> Slice(d, pos, cut[i]) \o Slice(g, Len(r[i].out), Len(g)),
   grown |-> r[i].removed]

\* One that is put back.
LEMMA ExpandSteps ==
  ASSUME CertificateIds, NEW d \in Bytes, NEW pos \in Nat, NEW len \in Nat, len \in Positions,
         pos + len <= Len(d), NEW A \in Seq(Annotations), NEW cut, Cuts(pos, len, A, cut),
         NEW r, Adjusts(d, pos, A, r), Restorable(d, pos, A), NEW i \in 1..Len(A),
         NEW P, P = Payload(d, pos, len, A, r)
  PROVE  ExpandOne(Expanded(d, pos, cut, r, P, i - 1), r[Len(A)].list[i])
           = Expanded(d, pos, cut, r, P, i)
<1> DEFINE n == Len(A)
           a == A[i]
           b == r[n].list[i]
           x == Slice(d, pos, cut[i - 1]) \o Slice(P, Len(r[i - 1].out), Len(P))
           acc == [bytes |-> x, grown |-> r[i - 1].removed]
<1>1. n \in Nat /\ i \in 0..n /\ i - 1 \in 0..n /\ n \in 0..n /\ a \in Annotations /\ Len(d) \in Nat
  BY BytesShape
<1>2. AdjustedTo(d, pos, A, cut, r, i - 1) /\ AdjustedTo(d, pos, A, cut, r, i) /\ AdjustedTo(d, pos, A, cut, r, n)
  BY <1>1, AdjustedStates
<1>3. b = Changed(d, pos, r[i - 1].removed, a)
  BY <1>2 DEF AdjustedTo
<1>4. OutAfter(d, pos, A, cut, r, i)
  BY OutSteps
<1>5. P \in Bytes /\ At(P, 0, r[i].out)
  BY <1>1, PayloadStarts DEF Starts
<1>6. b.type = a.type
  <2>1. b = a \/ b.type = a.type
    <3>1. \A o, e : [type |-> a.type, offset |-> o, desc |-> e].type = a.type
      OBVIOUS
    <3> QED BY <1>3 DEF Changed
  <2> QED BY <2>1
<1>7. ASSUME a.type \notin Locators
      PROVE  ExpandOne(acc, b) = [bytes |-> Slice(d, pos, cut[i]) \o Slice(P, Len(r[i].out), Len(P)),
                                  grown |-> r[i].removed]
  <2>1. ExpandOne(acc, b) = acc
    BY <1>6, <1>7, Zenon DEF ExpandOne
  <2>2. cut[i] = cut[i - 1] /\ r[i].out = r[i - 1].out /\ r[i].removed = r[i - 1].removed
    BY <1>4, <1>7 DEF OutAfter, Cuts
  <2> QED BY <2>1, <2>2
<1>8. ASSUME a.type \in Locators
      PROVE  ExpandOne(acc, b) = [bytes |-> Slice(d, pos, cut[i]) \o Slice(P, Len(r[i].out), Len(P)),
                                  grown |-> r[i].removed]
  <2>1. PICK o, e, f, c, m : /\ o = a.offset /\ e = a.desc /\ f = cut[i - 1] /\ c = cut[i]
                             /\ m = r[i - 1].removed
    OBVIOUS
  <2>2. /\ o \in Nat /\ e \in Nat /\ f \in Nat /\ c \in Nat /\ m \in Nat
        /\ pos <= f /\ c <= pos + len /\ f <= pos + o /\ c = pos + o + e
        /\ o \in Positions /\ e \in Positions
    <3>1. a.offset \in Nat /\ a.desc \in Nat /\ a.offset \in Positions /\ a.desc \in Positions
      BY <1>1, AnnotationFields
    <3>2. cut[i - 1] \in Nat /\ cut[i] \in Nat /\ pos <= cut[i - 1] /\ cut[i] <= pos + len
      BY <1>1, CutsInOrder
    <3>3. cut[i - 1] <= pos + a.offset /\ cut[i] = pos + a.offset + a.desc
      BY <1>8 DEF Cuts
    <3>4. r[i - 1].removed \in Nat
      BY <1>2 DEF AdjustedTo
    <3> QED BY <2>1, <3>1, <3>2, <3>3, <3>4
  <2>3. PICK h \in Nat : h = pos + o /\ f <= h /\ h <= c /\ c <= Len(d) /\ pos <= h /\ h - pos = o
    <3>1. Len(d) \in Nat /\ pos + len <= Len(d)
      BY <1>1
    <3> QED BY <2>2, <3>1
  <2> DEFINE w == Slice(d, h, c)
             id == GetCertificateId(w)
  <2>4. id \in Positions /\ idCache[id] = w
    <3>1. /\ GetCertificateId(Slice(d, pos + a.offset, pos + a.offset + a.desc)) \in Positions
          /\ idCache[GetCertificateId(Slice(d, pos + a.offset, pos + a.offset + a.desc))]
               = Slice(d, pos + a.offset, pos + a.offset + a.desc)
      BY <1>8 DEF Restorable
    <3> QED BY <2>1, <2>2, <2>3, <3>1
  <2>5. w \in Bytes /\ Len(w) = e
    <3>1. w \in Bytes /\ Len(w) = c - h
      BY <2>2, <2>3, SliceShape
    <3>2. c - h = e
      BY <2>2, <2>3
    <3> QED BY <3>1, <3>2
  <2>6. PICK y, z, q : /\ y = r[i - 1].out /\ z = Slice(d, f, h) /\ q = Len(y)
    OBVIOUS
  <2>7. /\ y \in Bytes /\ z \in Bytes /\ q \in Nat /\ q + m = f - pos /\ r[i].out = y \o z
        /\ Len(z) = h - f
    <3>1. y \in Bytes /\ q + m = f - pos
      BY <1>2, <2>1, <2>6 DEF AdjustedTo
    <3>2. q \in Nat
      BY <2>6, <3>1, BytesShape
    <3>3. z \in Bytes /\ Len(z) = h - f
      <4>1. h <= Len(d)
        BY <1>1, <2>2, <2>3
      <4> QED BY <2>2, <2>3, <2>6, <4>1, SliceShape
    <3>4. r[i].out = y \o z
      BY <1>4, <1>8, <2>1, <2>3, <2>6 DEF OutAfter
    <3> QED BY <3>1, <3>2, <3>3, <3>4
  <2>8. PICK k \in Nat : k = q + (h - f) /\ Len(r[i].out) = k
    <3>1. Len(y \o z) = Len(y) + Len(z)
      BY <2>7, BytesConcat
    <3>2. Len(r[i].out) = q + (h - f)
      BY <2>6, <2>7, <3>1
    <3>3. q + (h - f) \in Nat
      BY <2>2, <2>3, <2>7
    <3> QED BY <3>2, <3>3
  <2>9. At(P, q, Slice(d, f, h))
    <3>1. At(P, 0, y \o z)
      BY <1>5, <2>7
    <3>2. At(P, 0 + Len(y), z)
      BY <1>5, <2>7, <3>1, AtConcat
    <3>3. 0 + Len(y) = q
      BY <2>6, <2>7
    <3> QED BY <2>6, <3>2, <3>3
  <2>10. x = Slice(d, pos, f) \o Slice(P, q, Len(P))
    BY <2>1, <2>6
  <2> HIDE DEF x
  <2>11. PutBack(d, P, pos, f, h, c, q, x, k)
    BY <1>5, <2>2, <2>3, <2>7, <2>8, <2>9, <2>10, CertificatePutBack
  <2>12. b.offset = o - m /\ b.desc = id /\ b.offset + m = o
    <3> DEFINE id2 == GetCertificateId(Slice(d, pos + a.offset, pos + Uint16(a.offset + a.desc)))
    <3>0. a.type # "none"
      BY <1>8 DEF Locators
    <3>1. b = [type |-> a.type, offset |-> Uint16(a.offset - r[i - 1].removed), desc |-> Uint16(id2)]
      BY <1>3, <1>8, <3>0, Zenon DEF Changed
    <3>2. b.offset = Uint16(o - m) /\ b.desc = Uint16(id2)
      BY <2>1, <3>1
    <3>3. Uint16(o + e) = o + e /\ Uint16(o - m) = o - m
      <4>1. m <= f - pos
        BY <2>2, <2>7
      <4>2. f - pos <= o /\ o + e <= len /\ o <= len
        BY <2>2
      <4>3. len <= 65535
        BY PositionsAreNumbers
      <4>4. PICK s \in Nat, t \in Nat : s = o + e /\ t = o - m /\ s <= 65535 /\ t <= 65535
        BY <2>2, <4>1, <4>2, <4>3
      <4>5. s % 65536 = s /\ t % 65536 = t
        BY <4>4
      <4> QED BY <4>4, <4>5 DEF Uint16
    <3>4. id2 = id
      <4>1. pos + (o + e) = c
        BY <2>2
      <4> QED BY <2>1, <2>3, <3>3, <4>1
    <3>5. Uint16(id) = id
      <4>1. id \in Nat /\ id <= 65535
        <5>1. \A s \in Positions : s \in Nat /\ s <= 65535
          BY PositionsAreNumbers
        <5> HIDE DEF id
        <5> QED BY <2>4, <5>1
      <4> HIDE DEF id
      <4>2. id % 65536 = id
        BY <4>1
      <4> QED BY <4>2 DEF Uint16
    <3>6. (o - m) + m = o
      BY <2>2
    <3> HIDE DEF id, id2, b
    <3> QED BY <3>2, <3>3, <3>4, <3>5, <3>6
  <2>13. /\ acc.bytes = x /\ acc.grown = m /\ b.type \in Locators
    BY <1>6, <1>8, <2>1
  <2> HIDE DEF acc, b
  <2>14. ExpandOne(acc, b) = [bytes |-> Slice(x, 0, o) \o w \o Slice(x, o, Len(x)), grown |-> m + e]
    <3>1. ExpandOne(acc, b)
            = [bytes |-> Slice(acc.bytes, 0, b.offset + acc.grown) \o idCache[b.desc]
                           \o Slice(acc.bytes, b.offset + acc.grown, Len(acc.bytes)),
               grown |-> acc.grown + Len(idCache[b.desc])]
      BY <2>13, Zenon DEF ExpandOne
    <3> HIDE DEF w, id
    <3> QED BY <2>4, <2>5, <2>12, <2>13, <3>1
  <2>15. Slice(x, 0, o) \o w \o Slice(x, o, Len(x)) = Slice(d, pos, c) \o Slice(P, k, Len(P))
    BY <2>3, <2>11 DEF PutBack
  <2>16. r[i].removed = m + e
    BY <1>4, <1>8, <2>1 DEF OutAfter
  <2> HIDE DEF w
  <2> QED BY <2>1, <2>8, <2>14, <2>15, <2>16
<1>9. ExpandOne(acc, b) = [bytes |-> Slice(d, pos, cut[i]) \o Slice(P, Len(r[i].out), Len(P)),
                           grown |-> r[i].removed]
  BY <1>7, <1>8
<1> QED BY <1>9, Zenon DEF Expanded

\* With all of them the message is what it was.
THEOREM CertificatesRestored ==
  ASSUME CertificateIds, NEW d \in Bytes, NEW pos \in Nat, NEW len \in Nat, len \in Positions,
         pos + len <= Len(d), NEW A \in Seq(Annotations), NEW cut, Cuts(pos, len, A, cut),
         Restorable(d, pos, A)
  PROVE  Expand(AdjustDataBasedOnLocator(d, pos, len, A)) = Slice(d, pos, pos + len)
<1> DEFINE Q == AdjustDataBasedOnLocator(d, pos, len, A)
           n == Len(A)
<1>1. PICK r : /\ Adjusts(d, pos, A, r)
               /\ Q = [annotations |-> r[n].list,
                       payload     |-> r[n].out \o Slice(d, r[n].start, pos + len)]
  BY AdjustSteps DEF AdjustsTo
<1> DEFINE L == r[n].list
           P == Payload(d, pos, len, A, r)
           E(i) == Expanded(d, pos, cut, r, P, i)
           Body(f, i) == IF i = 0 THEN [bytes |-> Q.payload, grown |-> 0]
                         ELSE ExpandOne(f[i - 1], Q.annotations[i])
           Unfolds(f) == f = [i \in 0..Len(Q.annotations) |-> Body(f, i)]
<1>2. /\ n \in Nat /\ Len(d) \in Nat
      /\ \A i \in 0..n : AdjustedTo(d, pos, A, cut, r, i)
      /\ \A i \in 0..n : cut[i] \in Nat /\ pos <= cut[i] /\ cut[i] <= pos + len
      /\ cut[0] = pos /\ r[0] = [out |-> <<>>, start |-> pos, removed |-> 0, list |-> <<>>]
  <2>1. \A i \in 0..n : AdjustedTo(d, pos, A, cut, r, i)
    BY <1>1, AdjustedStates
  <2>2. \A i \in 0..n : cut[i] \in Nat /\ pos <= cut[i] /\ cut[i] <= pos + len
    BY CutsInOrder
  <2>3. cut[0] = pos /\ r[0] = [out |-> <<>>, start |-> pos, removed |-> 0, list |-> <<>>]
    BY <1>1 DEF Cuts, Adjusts
  <2>4. n \in Nat /\ Len(d) \in Nat
    BY BytesShape
  <2> QED BY <2>1, <2>2, <2>3, <2>4
<1>3. Q.payload = P /\ Q.annotations = L /\ Len(L) = n
  <2>1. n \in 0..n
    BY <1>2
  <2>2. AdjustedTo(d, pos, A, cut, r, n)
    BY <1>2, <2>1
  <2>3. Len(L) = n /\ r[n].start = cut[n]
    BY <2>2 DEF AdjustedTo
  <2>4. P = r[n].out \o Slice(d, r[n].start, pos + len)
    BY DEF Payload
  <2> HIDE DEF Q, P
  <2> QED BY <1>1, <2>3, <2>4
<1>4. P \in Bytes /\ At(P, Len(r[n].out), Slice(d, cut[n], pos + len))
  BY <1>1, PayloadStarts DEF Starts
<1>5. \A i \in 1..n : E(i) = ExpandOne(E(i - 1), L[i])
  <2> SUFFICES ASSUME NEW i \in 1..n PROVE E(i) = ExpandOne(E(i - 1), L[i])
    OBVIOUS
  <2>1. PICK g : g = P
    OBVIOUS
  <2>2. ExpandOne(Expanded(d, pos, cut, r, g, i - 1), r[Len(A)].list[i])
          = Expanded(d, pos, cut, r, g, i)
    BY <1>1, <2>1, ExpandSteps
  <2> HIDE DEF P
  <2> QED BY <2>1, <2>2
<1>6. E(0) = [bytes |-> P, grown |-> 0]
  <2>1. Slice(d, pos, cut[0]) = <<>>
    <3>1. pos <= Len(d) /\ pos <= pos
      BY <1>2
    <3>2. Slice(d, pos, pos) \in Bytes /\ Len(Slice(d, pos, pos)) = pos - pos
      BY <1>2, <3>1, SliceShape
    <3>3. Len(Slice(d, pos, pos)) = 0
      BY <3>2
    <3> QED BY <1>2, <3>2, <3>3, EmptyBytes
  <2>2. r[0].out = <<>> /\ r[0].removed = 0 /\ Len(<<>>) = 0
    BY <1>2, EmptyBytes
  <2> HIDE DEF P
  <2>3. Slice(P, 0, Len(P)) = P
    BY <1>4, SliceConcat
  <2>4. <<>> \o P = P
    BY <1>4, EmptyBytes
  <2>5. E(0) = [bytes |-> Slice(d, pos, cut[0]) \o Slice(P, Len(r[0].out), Len(P)),
                grown |-> r[0].removed]
    BY DEF Expanded
  <2> HIDE DEF E
  <2> QED BY <2>1, <2>2, <2>3, <2>4, <2>5, Zenon
<1>7. E(n).bytes = Slice(d, pos, pos + len)
  <2>0. n \in 0..n
    BY <1>2
  <2>1. PICK c \in Nat, e \in Nat, y \in Bytes :
          c = cut[n] /\ e = pos + len /\ y = r[n].out /\ pos <= c /\ c <= e /\ e <= Len(d)
    <3>1. cut[n] \in Nat /\ pos <= cut[n] /\ cut[n] <= pos + len
      BY <1>2, <2>0
    <3>2. r[n].out \in Bytes
      BY <1>2, <2>0 DEF AdjustedTo
    <3> QED BY <3>1, <3>2
  <2>2. P = y \o Slice(d, c, e)
    <3>1. r[n].start = cut[n]
      BY <1>2, <2>0 DEF AdjustedTo
    <3> QED BY <2>1, <3>1 DEF Payload
  <2>3. Slice(d, c, e) \in Bytes
    BY <2>1, SliceShape
  <2> HIDE DEF P
  <2>4. Slice(P, Len(y), Len(P)) = Slice(d, c, e)
    BY <2>2, <2>3, SliceConcat
  <2>5. Slice(d, pos, c) \o Slice(d, c, e) = Slice(d, pos, e)
    <3>1. pos <= c /\ c <= e /\ e <= Len(d)
      BY <2>1
    <3> QED BY <3>1, SliceJoin, SMTT(30)
  <2>6. E(n).bytes = Slice(d, pos, cut[n]) \o Slice(P, Len(r[n].out), Len(P))
    BY DEF Expanded
  <2> QED BY <2>1, <2>4, <2>5, <2>6
<1> HIDE DEF E
<1> DEFINE e == [i \in 0..n |-> E(i)]
<1>8. Unfolds(e)
  <2>1. ASSUME NEW i \in 0..n PROVE e[i] = Body(e, i)
    <3>1. CASE i = 0
      BY <1>3, <1>6, <3>1
    <3>2. CASE i # 0
      <4>1. i \in 1..n /\ i - 1 \in 0..n
        BY <1>2, <3>2
      <4>2. e[i] = E(i) /\ e[i - 1] = E(i - 1)
        BY <4>1
      <4>3. e[i] = ExpandOne(e[i - 1], Q.annotations[i])
        BY <1>3, <1>5, <4>1, <4>2
      <4> QED BY <3>2, <4>3, Zenon
    <3> QED BY <3>1, <3>2
  <2>2. e = [i \in 0..n |-> e[i]]
    OBVIOUS
  <2> HIDE DEF Body, e, Q
  <2>3. e = [i \in 0..n |-> Body(e, i)]
    BY <2>1, <2>2, Zenon
  <2>4. Len(Q.annotations) = n
    BY <1>3
  <2> QED BY <2>3, <2>4
<1> DEFINE v == CHOOSE g : Unfolds(g)
<1>9. Unfolds(v)
  <2> HIDE DEF Unfolds
  <2> QED BY <1>8
<1>10. Expand(Q) = v[Len(Q.annotations)].bytes
  BY DEF Expand, FoldUp
<1> HIDE DEF v
<1>11. \A i \in 0..n : v[i] = Body(v, i)
  <2>1. Len(Q.annotations) = n
    BY <1>3
  <2> HIDE DEF Body, Q
  <2> QED BY <1>9, <2>1, Zenon
<1> DEFINE T == {i \in 0..n : v[i] = E(i)}
<1>12. 0 \in T
  <2>1. 0 \in 0..n
    BY <1>2
  <2>2. v[0] = [bytes |-> Q.payload, grown |-> 0]
    BY <1>11, <2>1, Zenon
  <2> QED BY <1>3, <1>6, <2>1, <2>2
<1>13. ASSUME NEW i \in 1..n, i - 1 \in T PROVE i \in T
  <2>1. i \in 0..n /\ i # 0
    BY <1>2
  <2>2. v[i] = ExpandOne(v[i - 1], Q.annotations[i])
    BY <1>11, <2>1, Zenon
  <2>3. v[i - 1] = E(i - 1)
    BY <1>13
  <2>4. v[i] = E(i)
    BY <1>3, <1>5, <2>2, <2>3
  <2> QED BY <2>1, <2>4
<1>14. \A i \in 0..n : i \in T
  <2> HIDE DEF T, n
  <2> QED BY <1>2, <1>12, <1>13, IntervalInduction
<1>15. v[n] = E(n)
  <2>1. n \in 0..n
    BY <1>2
  <2> QED BY <1>14, <2>1
<1>16. Expand(Q) = E(n).bytes
  BY <1>3, <1>10, <1>15
<1> QED BY <1>7, <1>16

-----------------------------------------------------------------------------
(* The fields with a name are found.                                       *)

\* What the card reads where an annotation says that it is.
Hits(a, g, w) == a.offset + a.desc <= Len(g) /\ Slice(g, a.offset, a.offset + a.desc) = w

\* The annotation j is for the field w, which no certificate overlaps.
Pointed(d, pos, len, A, cut, j, w) ==
  \E h : /\ A[j].type \in Named /\ A[j].offset = h - pos /\ A[j].desc = Len(w)
         /\ Between(d, pos, len, A, cut, j - 1, h, w)

\* Where no certificate overlaps a field, the corrected offset is where the field is.
LEMMA AnnotationHits ==
  ASSUME CertificateIds, NEW d \in Bytes, NEW pos \in Nat, NEW len \in Nat,
         pos + len <= Len(d), NEW A \in Seq(Annotations), NEW cut, Cuts(pos, len, A, cut),
         NEW r, Adjusts(d, pos, A, r),
         NEW j \in 1..Len(A), NEW w, Pointed(d, pos, len, A, cut, j, w)
  PROVE  Hits(r[Len(A)].list[j], Payload(d, pos, len, A, r), w)
<1> DEFINE n == Len(A)
           P == Payload(d, pos, len, A, r)
           b == r[n].list[j]
           a == A[j]
<1>1. PICK h : /\ a.type \in Named /\ a.offset = h - pos /\ a.desc = Len(w)
               /\ Between(d, pos, len, A, cut, j - 1, h, w)
  BY DEF Pointed
<1>2. h \in Nat /\ w \in Bytes
  BY <1>1 DEF Between
<1>3. n \in 0..n /\ j - 1 \in 0..n /\ a \in Annotations
  OBVIOUS
<1>4. AdjustedTo(d, pos, A, cut, r, n) /\ AdjustedTo(d, pos, A, cut, r, j - 1)
  BY <1>3, AdjustedStates
<1>5. b = Changed(d, pos, r[j - 1].removed, a) /\ r[j - 1].removed \in Nat
  BY <1>4 DEF AdjustedTo
<1>6. P \in Bytes /\ Len(P) \in Nat
  BY PayloadStarts, BytesShape DEF Starts
<1>7. At(P, h - pos - r[j - 1].removed, w)
  BY <1>1, FieldCopied
<1> HIDE DEF P, b, a, n
<1>8. PICK m \in Nat, o \in Nat, l \in Nat :
        m = r[j - 1].removed /\ o = a.offset /\ l = Len(w) /\ o = h - pos /\ o <= 65535
  <2>1. Len(w) \in Nat
    BY <1>2, BytesShape
  <2>2. a.offset \in Nat /\ a.offset <= 65535
    BY <1>3, AnnotationFields
  <2> QED BY <1>1, <1>5, <2>1, <2>2
<1>9. PICK q \in Nat : q = o - m /\ q <= 65535 /\ At(P, q, w) /\ q + l <= Len(P)
  <2>1. At(P, o - m, w)
    BY <1>7, <1>8
  <2>2. o - m \in Nat /\ (o - m) + l <= Len(P)
    BY <1>8, <2>1 DEF At
  <2>3. o - m <= 65535
    BY <1>8
  <2> QED BY <2>1, <2>2, <2>3
<1>10. b.offset = q /\ b.desc = l
  <2>1. a.type # "none" /\ a.type \notin Locators
    BY <1>1 DEF Named, Locators
  <2>2. b = [type |-> a.type, offset |-> Uint16(a.offset - r[j - 1].removed), desc |-> a.desc]
    BY <1>5, <2>1, Zenon DEF Changed
  <2>3. b.offset = Uint16(q) /\ b.desc = l
    BY <1>1, <1>8, <1>9, <2>2
  <2>4. q % 65536 = q
    BY <1>9
  <2> QED BY <2>3, <2>4 DEF Uint16
<1>11. Slice(P, q, q + l) = w
  BY <1>2, <1>6, <1>8, <1>9, SliceAt
<1>12. Hits(b, P, w)
  BY <1>9, <1>10, <1>11 DEF Hits
<1> QED BY <1>12 DEF b, P, n

\* Annotations keep their types, and those without a certificate what else they say.
Kept(A, list) ==
  /\ list \in Seq(Annotations) /\ Len(list) = Len(A)
  /\ \A j \in 1..Len(A) : /\ list[j].type = A[j].type
                          /\ A[j].type \notin Locators => list[j].desc = A[j].desc

\* The types are what the card goes by.
LEMMA AnnotationKept ==
  ASSUME CertificateIds, NEW d \in Bytes, NEW pos \in Nat, NEW len \in Nat,
         pos + len <= Len(d), NEW A \in Seq(Annotations), NEW cut, Cuts(pos, len, A, cut),
         NEW r, Adjusts(d, pos, A, r)
  PROVE  Kept(A, r[Len(A)].list)
<1>1. Len(A) \in 0..Len(A)
  OBVIOUS
<1>2. AdjustedTo(d, pos, A, cut, r, Len(A))
  BY <1>1, AdjustedStates
<1>3. ASSUME NEW j \in 1..Len(A)
      PROVE  /\ r[Len(A)].list[j].type = A[j].type
             /\ A[j].type \notin Locators => r[Len(A)].list[j].desc = A[j].desc
  <2> DEFINE a == A[j]
             b == r[Len(A)].list[j]
  <2>1. b = Changed(d, pos, r[j - 1].removed, a)
    BY <1>2 DEF AdjustedTo
  <2>2. CASE a.type = "none"
    BY <2>1, <2>2 DEF Changed
  <2>3. CASE a.type # "none" /\ a.type \notin Locators
    <3>1. b = [type |-> a.type, offset |-> Uint16(a.offset - r[j - 1].removed), desc |-> a.desc]
      BY <2>1, <2>3, Zenon DEF Changed
    <3> QED BY <3>1
  <2>4. CASE a.type # "none" /\ a.type \in Locators
    <3>1. b = [type |-> a.type, offset |-> Uint16(a.offset - r[j - 1].removed),
               desc |-> Uint16(GetCertificateId(
                          Slice(d, pos + a.offset, pos + Uint16(a.offset + a.desc))))]
      BY <2>1, <2>4, Zenon DEF Changed
    <3> QED BY <2>4, <3>1
  <2> QED BY <2>2, <2>3, <2>4
<1> QED BY <1>2, <1>3 DEF AdjustedTo, Kept

-----------------------------------------------------------------------------
(* A transaction.                                                          *)

\* The caches have a certificate.
Cached(c) ==
  GetCertificateId(IdOf(c)) \in Positions /\ idCache[GetCertificateId(IdOf(c))] = IdOf(c)
AllCached(t) ==
  Cached(t.creator) /\ \A j \in 1..Len(t.endorsers) : Cached(t.endorsers[j])

\* What holds of the annotations of a transaction, wherever it is.
TxPacked(d, p, n, t, A, cut) ==
  /\ A \in Seq(Annotations) /\ Len(A) = 17 /\ Cuts(p, n, A, cut)
  /\ A[2].type = "CHAINCODE_NAME" /\ Pointed(d, p, n, A, cut, 2, t.chaincode)
  /\ A[7].type = "RW_SET" /\ A[8].type = "ENDORSER"
  /\ Len(t.endorsers) <= MAX_ENDORSER_NUM =>
       Pointed(d, p, n, A, cut, 7, t.results) /\ A[8].desc = Len(t.endorsers)
  /\ A[17].type = "TX_SIG" /\ Pointed(d, p, n, A, cut, 17, t.signature)
  /\ \A j \in 1..17 : j \notin {2, 7, 8, 17} => A[j].type \notin Named \union {"ENDORSER"}
  /\ AllCached(t) => Restorable(d, p, A)
HasTxPacked(d, p, n, t, A) == \E cut : TxPacked(d, p, n, t, A, cut)

\* What fits into sixteen bits is not changed.
Fitted(p, n, y, l) == y \in Nat /\ l \in Nat /\ p <= y /\ y + l <= p + n
Exact(type, p, y, l) == Annotation(type, y - p, l) = [type |-> type, offset |-> y - p, desc |-> l]

\* The offset and the size in an annotation are the ones that were computed.
LEMMA AnnotationExact ==
  ASSUME NEW type, NEW p \in Nat, NEW n \in Positions, NEW y, NEW l, Fitted(p, n, y, l)
  PROVE  Exact(type, p, y, l)
<1>1. n \in Nat /\ n <= 65535 /\ y \in Nat /\ l \in Nat /\ p <= y /\ y + l <= p + n
  BY DEF Positions, Fitted
<1>2. PICK o \in Nat : o = y - p /\ o <= n /\ l <= n
  BY <1>1
<1>3. o <= 65535 /\ l <= 65535
  BY <1>1, <1>2
<1>4. o % 65536 = o /\ l % 65536 = l
  BY <1>1, <1>3
<1> QED BY <1>2, <1>4 DEF Annotation, Uint16, Exact

\* Which annotations of a transaction stand for certificates, and where these are: the
\* creator's at c and at h, those of m endorsers at E, of the lengths L.
TxLocators(A, p, c, g, h, m, E, L) ==
  /\ A \in Seq(Annotations) /\ Len(A) = 17 /\ m \in 1..8
  /\ \A j \in 1..17 : A[j].type \in Locators => j = 3 \/ j = 5 \/ j - 8 \in 1..m
  /\ A[3].type \in Locators /\ p + A[3].offset = c /\ A[3].desc = g
  /\ A[5].type \in Locators /\ p + A[5].offset = h /\ A[5].desc = g
  /\ E \in [1..m -> Nat] /\ L \in [1..m -> Nat]
  /\ \A j \in 1..m : /\ A[8 + j].type \in Locators
                     /\ p + A[8 + j].offset = E[j] /\ A[8 + j].desc = L[j]
EndorsersOrdered(v, q, m, E, L) ==
  \A j \in 1..m : /\ v <= E[j] /\ E[j] + L[j] <= q
                  /\ j > 1 => E[j - 1] + L[j - 1] <= E[j]
CutAt(p, c, g, h, m, E, L) ==
  [i \in 0..17 |-> IF i <= 2 THEN p ELSE IF i <= 4 THEN c + g ELSE IF i <= 8 THEN h + g
                   ELSE IF i <= 8 + m THEN E[i - 8] + L[i - 8] ELSE E[m] + L[m]]

\* They are in order.
LEMMA TransactionCuts ==
  ASSUME NEW p \in Nat, NEW n \in Nat, NEW c \in Nat, NEW g \in Nat, NEW h \in Nat,
         NEW v \in Nat, NEW q \in Nat, p <= c, c + g <= h, h + g <= v, q <= p + n,
         NEW m, NEW E, NEW L, EndorsersOrdered(v, q, m, E, L),
         NEW A, TxLocators(A, p, c, g, h, m, E, L)
  PROVE  Cuts(p, n, A, CutAt(p, c, g, h, m, E, L))
<1> DEFINE cut == CutAt(p, c, g, h, m, E, L)
           F(j) == E[j] + L[j]
<1>1. /\ m \in 1..8 /\ \A j \in 1..m : E[j] \in Nat /\ L[j] \in Nat /\ F(j) \in Nat
      /\ \A j \in 1..m : v <= E[j] /\ F(j) <= q /\ F(j) = E[j] + L[j] /\ (j > 1 => F(j - 1) <= E[j])
  <2>1. m \in 1..8 /\ \A j \in 1..m : E[j] \in Nat /\ L[j] \in Nat
    BY DEF TxLocators
  <2>2. \A j \in 1..m : F(j) \in Nat
    BY <2>1
  <2>3. \A j \in 1..m : v <= E[j] /\ F(j) <= q /\ F(j) = E[j] + L[j] /\ (j > 1 => F(j - 1) <= E[j])
    BY DEF EndorsersOrdered
  <2> QED BY <2>1, <2>2, <2>3
<1>2. /\ cut = [i \in 0..17 |-> IF i <= 2 THEN p ELSE IF i <= 4 THEN c + g ELSE IF i <= 8 THEN h + g
                   ELSE IF i <= 8 + m THEN F(i - 8) ELSE F(m)]
  BY DEF CutAt
<1> HIDE DEF cut, F
<1>3. /\ \A i \in 0..2 : cut[i] = p
      /\ \A i \in 3..4 : cut[i] = c + g
      /\ \A i \in 5..8 : cut[i] = h + g
      /\ \A i \in 9..17 : cut[i] = IF i <= 8 + m THEN F(i - 8) ELSE F(m)
  BY <1>2
<1>4. /\ \A i \in 1..m : cut[8 + i] = F(i)
      /\ \A i \in 8 + m..17 : cut[i] = F(m)
  BY <1>1, <1>3
<1>5. cut \in [0..17 -> Nat]
  <2>1. c + g \in Nat /\ h + g \in Nat /\ F(m) \in Nat
    BY <1>1
  <2>2. \A i \in 9..17 : i <= 8 + m => i - 8 \in 1..m
    BY <1>1
  <2>3. \A i \in 0..17 : cut[i] \in Nat
    BY <1>1, <1>3, <2>1, <2>2
  <2> QED BY <1>2, <2>3
<1>6. /\ Len(A) = 17
      /\ \A j \in 1..17 : A[j].type \in Locators => j = 3 \/ j = 5 \/ j - 8 \in 1..m
      /\ A[3].type \in Locators /\ p + A[3].offset = c /\ A[3].desc = g
      /\ A[5].type \in Locators /\ p + A[5].offset = h /\ A[5].desc = g
      /\ \A j \in 1..m : /\ A[8 + j].type \in Locators
                         /\ p + A[8 + j].offset = E[j] /\ A[8 + j].desc = L[j]
  BY DEF TxLocators
<1>7. ASSUME NEW j \in 1..17
      PROVE  IF A[j].type \in Locators
             THEN cut[j - 1] <= p + A[j].offset /\ cut[j] = p + A[j].offset + A[j].desc
             ELSE cut[j] = cut[j - 1]
  <2>1. CASE j = 3
    <3>1. cut[j - 1] = p /\ cut[j] = c + g
      BY <1>3, <2>1
    <3> QED BY <1>6, <2>1, <3>1
  <2>2. CASE j = 5
    <3>1. cut[j - 1] = c + g /\ cut[j] = h + g
      BY <1>3, <2>2
    <3> QED BY <1>6, <2>2, <3>1
  <2>3. CASE j - 8 \in 1..m
    <3>1. PICK i \in 1..m : j = 8 + i
      BY <2>3
    <3>2. /\ A[j].type \in Locators /\ p + A[j].offset = E[i] /\ A[j].desc = L[i]
          /\ cut[j] = F(i) /\ F(i) = E[i] + L[i]
      BY <1>1, <1>4, <1>6, <3>1
    <3>3. cut[j - 1] <= E[i]
      <4>1. CASE i = 1
        <5>1. cut[j - 1] = h + g /\ v <= E[i] /\ E[i] \in Nat
          BY <1>1, <1>3, <3>1, <4>1
        <5> QED BY <5>1
      <4>2. CASE i > 1
        <5>1. i - 1 \in 1..m /\ j - 1 = 8 + (i - 1)
          BY <1>1, <3>1, <4>2
        <5>2. cut[j - 1] = F(i - 1)
          BY <1>4, <5>1
        <5> QED BY <1>1, <4>2, <5>2
      <4> QED BY <1>1, <4>1, <4>2
    <3> QED BY <3>2, <3>3
  <2>4. CASE j # 3 /\ j # 5 /\ j - 8 \notin 1..m
    <3>1. A[j].type \notin Locators
      BY <1>6, <2>4
    <3>2. cut[j] = cut[j - 1]
      <4>1. CASE j <= 2
        BY <1>3, <4>1
      <4>2. CASE j = 4
        BY <1>3, <4>2
      <4>3. CASE j \in 6..8
        BY <1>3, <4>3
      <4>4. CASE j \in 9 + m..17
        BY <1>1, <1>4, <4>4
      <4> QED BY <1>1, <2>4, <4>1, <4>2, <4>3, <4>4
    <3> QED BY <3>1, <3>2
  <2> QED BY <2>1, <2>2, <2>3, <2>4
<1>8. cut[0] = p /\ cut[17] <= p + n
  <2>1. m \in 1..m
    BY <1>1
  <2>2. cut[17] = F(m) /\ F(m) <= q /\ F(m) \in Nat
    BY <1>1, <1>4, <2>1
  <2> QED BY <1>3, <2>2
<1>9. Cuts(p, n, A, cut)
  BY <1>5, <1>6, <1>7, <1>8 DEF Cuts
<1> QED BY <1>9 DEF cut

\* Where the certificates of the endorsers that are listed are in a transaction, and
\* how long they are.
EndorserPlaces(t, s) == [j \in 1..Listed(t) |-> IdPlace(s[j - 1], t.endorsers[j])]
EndorserSizes(t) == [j \in 1..Listed(t) |-> Len(IdOf(t.endorsers[j]))]

\* The order of all the fields; v is where the endorsements start.
TxOrder(p, n, t, x, v) ==
  /\ x.name \in Nat /\ x.creator \in Nat /\ x.caller \in Nat /\ x.results \in Nat /\ x.sig \in Nat
  /\ Len(t.chaincode) \in Nat /\ Len(IdOf(t.creator)) \in Nat /\ Len(t.results) \in Nat
  /\ Len(t.signature) \in Nat /\ v \in Nat
  /\ p <= x.name /\ x.name + Len(t.chaincode) <= x.creator
  /\ x.creator + Len(IdOf(t.creator)) <= x.caller
  /\ x.caller + Len(IdOf(t.creator)) <= x.results
  /\ x.results + Len(t.results) = v /\ v <= x.sig
  /\ x.sig + Len(t.signature) = p + n

\* How many endorsers are listed.
LEMMA ListedEndorsers ==
  ASSUME NEW t \in Transaction
  PROVE  /\ Len(t.endorsers) \in Nat /\ Listed(t) \in 1..8 /\ Listed(t) <= Len(t.endorsers)
         /\ Len(t.endorsers) <= MAX_ENDORSER_NUM => Listed(t) = Len(t.endorsers)
         /\ \A j \in 1..Listed(t) : j \in 1..Len(t.endorsers)
<1> DEFINE k == Len(t.endorsers)
           m == Listed(t)
<1>1. k \in Nat /\ k > 0
  BY TransactionShape
<1>2. m = IF k <= 8 THEN k ELSE 8
  BY DEF Listed, MAX_ENDORSER_NUM
<1> HIDE DEF k, m
<1>3. m \in 1..8 /\ m <= k /\ (k <= 8 => m = k)
  <2>1. CASE k <= 8
    BY <1>1, <1>2, <2>1
  <2>2. CASE ~(k <= 8)
    BY <1>1, <1>2, <2>2
  <2> QED BY <2>1, <2>2
<1>4. \A j \in 1..m : j \in 1..k
  BY <1>1, <1>3
<1> QED BY <1>1, <1>3, <1>4 DEF k, m, MAX_ENDORSER_NUM

\* The certificates of the endorsers are in order.
LEMMA EndorsersInOrder ==
  ASSUME NEW d \in Bytes, NEW n \in Nat, NEW t \in Transaction, NEW x, x.sig \in Nat, NEW s,
         EndorsersInside(d, n, t, x, s)
  PROVE  /\ EndorsersOrdered(s[0], x.sig, Listed(t), EndorserPlaces(t, s), EndorserSizes(t))
         /\ s[0] \in Nat /\ s[0] <= x.sig
<1> DEFINE k == Len(t.endorsers)
           m == Listed(t)
           e(j) == IdPlace(s[j - 1], t.endorsers[j])
           l(j) == Len(IdOf(t.endorsers[j]))
           f(j) == EndOf(s[j - 1], t.endorsers[j])
<1>1. /\ k \in Nat /\ m \in 1..8 /\ m <= k /\ \A j \in 1..m : j \in 1..k
  BY ListedEndorsers
<1>2. /\ \A j \in 1..k : /\ e(j) \in Nat /\ f(j) \in Nat /\ l(j) \in Nat
                         /\ s[j - 1] \in Nat /\ s[j] \in Nat /\ s[j - 1] <= e(j) /\ f(j) <= s[j]
                         /\ s[0] <= s[j - 1] /\ s[j] <= s[k]
      /\ s[k] <= x.sig
  BY DEF EndorsersInside
<1>3. \A j \in 1..k : f(j) = e(j) + l(j)
  BY DEF EndOf
<1>4. /\ EndorserPlaces(t, s) = [j \in 1..m |-> e(j)] /\ EndorserSizes(t) = [j \in 1..m |-> l(j)]
  BY DEF EndorserPlaces, EndorserSizes
<1> HIDE DEF e, f, l, k, m
<1>5. 1 \in 1..k /\ 1 - 1 = 0 /\ k \in 1..k
  BY <1>1
<1>6. PICK a, i, o \in Nat : a = s[0] /\ i = s[k] /\ o = x.sig /\ i <= o
  BY <1>2, <1>5
<1>7. ASSUME NEW j \in 1..m
      PROVE  /\ s[0] <= e(j) /\ e(j) + l(j) <= x.sig
             /\ j > 1 => e(j - 1) + l(j - 1) <= e(j)
  <2>1. j \in 1..k
    BY <1>1
  <2>2. PICK b, c, g, h \in Nat : /\ b = s[j - 1] /\ c = e(j) /\ g = f(j) /\ h = s[j]
                                  /\ a <= b /\ b <= c /\ g <= h /\ h <= i
    BY <1>2, <1>6, <2>1
  <2>3. a <= c /\ g <= o
    <3>1. a <= b /\ b <= c /\ g <= h /\ h <= i /\ i <= o
      BY <1>6, <2>2
    <3> QED BY <1>6, <2>2, <3>1
  <2>4. j > 1 => f(j - 1) <= e(j) /\ f(j - 1) = e(j - 1) + l(j - 1)
    <3> SUFFICES ASSUME j > 1 PROVE f(j - 1) <= e(j) /\ f(j - 1) = e(j - 1) + l(j - 1)
      OBVIOUS
    <3>1. j - 1 \in 1..k
      BY <1>1, <2>1
    <3>2. PICK y \in Nat : y = f(j - 1) /\ y <= b
      BY <1>2, <2>2, <3>1
    <3>3. y <= c
      BY <2>2, <3>2
    <3> QED BY <1>3, <2>2, <3>1, <3>2, <3>3
  <2>5. g = e(j) + l(j)
    BY <1>3, <2>1, <2>2
  <2> QED BY <1>6, <2>2, <2>3, <2>4, <2>5
<1>8. s[0] \in Nat /\ s[0] <= x.sig
  <2>1. 1 \in 1..m
    BY <1>1
  <2>2. PICK c, y \in Nat : c = e(1) /\ y = l(1) /\ a <= c /\ c + y <= o
    BY <1>2, <1>5, <1>6, <1>7, <2>1
  <2>3. a <= o
    BY <1>6, <2>2
  <2> QED BY <1>6, <2>3
<1>9. \A j \in 1..m : j > 1 => j - 1 \in 1..m
  BY <1>1
<1>10. EndorsersOrdered(s[0], x.sig, m, EndorserPlaces(t, s), EndorserSizes(t))
  <2>1. \A j \in 1..m : EndorserPlaces(t, s)[j] = e(j) /\ EndorserSizes(t)[j] = l(j)
    BY <1>4
  <2> QED BY <1>7, <1>9, <2>1 DEF EndorsersOrdered
<1> QED BY <1>8, <1>10 DEF m

\* All the fields of a transaction are in order.
LEMMA TransactionOrder ==
  ASSUME NEW d, NEW p, NEW n, NEW t \in Transaction,
         NEW x \in [sig : Nat, name : Nat, creator : Nat, caller : Nat, results : Nat, outer : Nat],
         TxPlaces(d, p, n, t, x), p \in Nat, NEW v \in Nat,
         v = x.results + Len(t.results), v <= x.sig
  PROVE  TxOrder(p, n, t, x, v)
<1>1. /\ x.sig \in Nat /\ x.name \in Nat /\ x.creator \in Nat /\ x.caller \in Nat
      /\ x.results \in Nat
  OBVIOUS
<1>2. /\ Len(IdOf(t.creator)) \in Nat /\ Len(t.chaincode) \in Nat /\ Len(t.results) \in Nat
      /\ Len(t.signature) \in Nat
  <2>1. t.chaincode \in Bytes /\ t.results \in Bytes /\ t.signature \in Bytes /\ IdOf(t.creator) \in Bytes
    BY TransactionShape, CertificateShape
  <2> QED BY <2>1, BytesShape
<1>3. /\ p < x.name /\ x.name + Len(t.chaincode) <= x.creator
      /\ x.creator + Len(IdOf(t.creator)) <= x.caller
      /\ x.caller + Len(IdOf(t.creator)) <= x.results
      /\ x.sig + Len(t.signature) = p + n
  BY DEF TxPlaces
<1>4. p <= x.name
  BY <1>1, <1>3
<1> QED BY <1>1, <1>2, <1>3, <1>4 DEF TxOrder

\* A chain of positions.
LEMMA InsideChain ==
  ASSUME NEW p \in Nat, NEW n \in Nat, NEW a \in Nat, NEW b \in Nat, NEW c \in Nat, NEW g \in Nat,
         NEW h \in Nat, NEW i \in Nat, NEW o \in Nat, NEW q \in Nat, NEW z \in Nat,
         p <= a, a + b <= c, c + g <= h, h + g <= i, i + o <= q, q + z = p + n
  PROVE  /\ a + b <= p + n /\ p <= c /\ c + g <= p + n /\ p <= h /\ h + g <= p + n
         /\ p <= i /\ i + o <= p + n /\ p <= q /\ q + z <= p + n /\ q <= p + n
         /\ h + g <= i + o /\ p <= i + o /\ a + b <= h /\ a + b <= i + o
OBVIOUS

TxInside(p, n, t, x, v) ==
  /\ Fitted(p, n, x.name, Len(t.chaincode))
  /\ Fitted(p, n, x.creator, Len(IdOf(t.creator)))
  /\ Fitted(p, n, x.caller, Len(IdOf(t.creator)))
  /\ Fitted(p, n, x.results, Len(t.results))
  /\ Fitted(p, n, x.sig, Len(t.signature))
  /\ v \in Nat /\ p <= v /\ x.sig <= p + n /\ x.caller + Len(IdOf(t.creator)) <= v
  /\ x.name + Len(t.chaincode) <= x.caller /\ x.name + Len(t.chaincode) <= v

\* So they are all inside.
LEMMA TransactionInside ==
  ASSUME NEW p \in Nat, NEW n \in Nat, NEW t, NEW x, NEW v, TxOrder(p, n, t, x, v)
  PROVE  TxInside(p, n, t, x, v)
<1>1. PICK a, b, c, g, h, i, o, q, z \in Nat :
        /\ a = x.name /\ b = Len(t.chaincode) /\ c = x.creator /\ g = Len(IdOf(t.creator))
        /\ h = x.caller /\ i = x.results /\ o = Len(t.results) /\ q = x.sig /\ z = Len(t.signature)
  BY DEF TxOrder
<1>2. /\ p <= a /\ a + b <= c /\ c + g <= h /\ h + g <= i /\ i + o <= q /\ q + z = p + n /\ v = i + o
  BY <1>1 DEF TxOrder
<1>3. /\ a + b <= p + n /\ p <= c /\ c + g <= p + n /\ p <= h /\ h + g <= p + n
      /\ p <= i /\ i + o <= p + n /\ p <= q /\ q + z <= p + n /\ q <= p + n
      /\ h + g <= i + o /\ p <= i + o /\ a + b <= h /\ a + b <= i + o
  BY <1>2, InsideChain
<1>4. /\ Fitted(p, n, a, b) /\ Fitted(p, n, c, g) /\ Fitted(p, n, h, g)
      /\ Fitted(p, n, i, o) /\ Fitted(p, n, q, z)
  BY <1>2, <1>3 DEF Fitted
<1>5. v \in Nat /\ p <= v /\ h + g <= v /\ a + b <= v /\ a + b <= h /\ q <= p + n
  BY <1>2, <1>3
<1> QED BY <1>1, <1>4, <1>5, Zenon DEF TxInside

\* The positions of everything that has an annotation.
TxLayout(p, n, t, x, s) ==
  /\ TxOrder(p, n, t, x, s[0])
  /\ EndorsersOrdered(s[0], x.sig, Listed(t), EndorserPlaces(t, s), EndorserSizes(t))
  /\ EndorserPlaces(t, s) \in [1..Listed(t) -> Nat] /\ EndorserSizes(t) \in [1..Listed(t) -> Nat]

\* The annotations for the endorsers say where their certificates are.
CaAnnotated(A, p, t, s) ==
  \A j \in 1..Listed(t) :
    A[8 + j] = [type |-> "ENDORSER_CA", offset |-> EndorserPlaces(t, s)[j] - p,
                desc |-> EndorserSizes(t)[j]]

\* In a transaction whose positions fit into sixteen bits, they do.
LEMMA EndorsersAnnotated ==
  ASSUME NEW p \in Nat, NEW n \in Positions, NEW t, NEW x, NEW s, TxLayout(p, n, t, x, s),
         NEW A, TxAnnotations(A, p, t, x, s)
  PROVE  CaAnnotated(A, p, t, s)
<1> DEFINE m == Listed(t)
           E == EndorserPlaces(t, s)
           L == EndorserSizes(t)
           v == s[0]
<1>1. n \in Nat
  BY DEF Positions
<1>2. /\ E \in [1..m -> Nat] /\ L \in [1..m -> Nat]
      /\ \A j \in 1..m : v <= E[j] /\ E[j] + L[j] <= x.sig
      /\ x.sig \in Nat
  BY DEF TxLayout, EndorsersOrdered, TxOrder
<1>3. v \in Nat /\ p <= v /\ x.sig <= p + n
  BY <1>1, TransactionInside DEF TxLayout, TxInside
<1>4. \A j \in 1..m : A[8 + j] = CaAnnotation(p, t, s, j)
  BY DEF TxAnnotations
<1>5. \A j \in 1..m : E[j] = IdPlace(s[j - 1], t.endorsers[j]) /\ L[j] = Len(IdOf(t.endorsers[j]))
  BY DEF EndorserPlaces, EndorserSizes
<1> HIDE DEF m, E, L, v
<1>6. \A j \in 1..m : A[8 + j] = Annotation("ENDORSER_CA", E[j] - p, L[j])
  BY <1>4, <1>5 DEF CaAnnotation
<1>7. ASSUME NEW j \in 1..m
      PROVE  A[8 + j] = [type |-> "ENDORSER_CA", offset |-> E[j] - p, desc |-> L[j]]
  <2>1. PICK y, l, q \in Nat : y = E[j] /\ l = L[j] /\ q = x.sig /\ v <= y /\ y + l <= q
    BY <1>2
  <2>2. p <= v /\ q <= p + n
    BY <1>3, <2>1
  <2>3. Fitted(p, n, y, l)
    <3>1. p <= y
      BY <1>3, <2>1, <2>2
    <3>2. y + l <= p + n
      BY <1>1, <2>1, <2>2
    <3> QED BY <3>1, <3>2 DEF Fitted
  <2>4. Exact("ENDORSER_CA", p, y, l)
    BY <2>3, AnnotationExact
  <2>5. A[8 + j] = Annotation("ENDORSER_CA", E[j] - p, L[j])
    BY <1>6
  <2> QED BY <2>1, <2>4, <2>5, Zenon DEF Exact
<1> QED BY <1>7 DEF CaAnnotated, m, E, L

\* So do the others; those in between are for nothing that the card looks at.
Others(A) == \A j \in 1..17 : j \notin {2, 7, 8, 17} => A[j].type \notin Named \union {"ENDORSER"}
TxAnnotated(A, p, t, x) ==
  /\ A[2] = [type |-> "CHAINCODE_NAME", offset |-> x.name - p, desc |-> Len(t.chaincode)]
  /\ A[3] = [type |-> "CREATER_CA", offset |-> x.creator - p, desc |-> Len(IdOf(t.creator))]
  /\ A[5] = [type |-> "TX_CA", offset |-> x.caller - p, desc |-> Len(IdOf(t.creator))]
  /\ A[7].type = "RW_SET" /\ A[8].type = "ENDORSER"
  /\ Len(t.endorsers) <= MAX_ENDORSER_NUM =>
       /\ A[7] = [type |-> "RW_SET", offset |-> x.results - p, desc |-> Len(t.results)]
       /\ A[8].desc = Len(t.endorsers)
  /\ A[17] = [type |-> "TX_SIG", offset |-> x.sig - p, desc |-> Len(t.signature)]

\* The annotations of the other fields are exact as well.
LEMMA FieldsAnnotated ==
  ASSUME NEW p \in Nat, NEW n \in Positions, NEW t, NEW x, NEW s, TxLayout(p, n, t, x, s),
         NEW A, TxAnnotations(A, p, t, x, s)
  PROVE  TxAnnotated(A, p, t, x)
<1>1. TxInside(p, n, t, x, s[0])
  <2>1. n \in Nat
    BY DEF Positions
  <2> QED BY <2>1, TransactionInside DEF TxLayout
<1>2. Exact("CHAINCODE_NAME", p, x.name, Len(t.chaincode))
  <2>1. Fitted(p, n, x.name, Len(t.chaincode))
    BY <1>1 DEF TxInside
  <2> QED BY <2>1, AnnotationExact
<1>3. /\ Exact("CREATER_CA", p, x.creator, Len(IdOf(t.creator)))
      /\ Exact("TX_CA", p, x.caller, Len(IdOf(t.creator)))
  <2>1. Fitted(p, n, x.creator, Len(IdOf(t.creator))) /\ Fitted(p, n, x.caller, Len(IdOf(t.creator)))
    BY <1>1 DEF TxInside
  <2> QED BY <2>1, AnnotationExact
<1>4. Exact("RW_SET", p, x.results, Len(t.results)) /\ Exact("TX_SIG", p, x.sig, Len(t.signature))
  <2>1. Fitted(p, n, x.results, Len(t.results)) /\ Fitted(p, n, x.sig, Len(t.signature))
    BY <1>1 DEF TxInside
  <2> QED BY <2>1, AnnotationExact
<1> QED BY <1>2, <1>3, <1>4, Zenon DEF Exact, TxAnnotations, TxAnnotated

\* What every annotation of a transaction is for.
LEMMA WhatIsAnnotated ==
  ASSUME NEW p, NEW t, NEW x, NEW s, NEW A, TxAnnotations(A, p, t, x, s),
         CaAnnotated(A, p, t, s), Listed(t) \in 1..8
  PROVE  /\ \A j \in 1..17 : A[j].type \in Locators => j = 3 \/ j = 5 \/ j - 8 \in 1..Listed(t)
         /\ Others(A)
<1> DEFINE m == Listed(t)
<1>1. m \in 1..8 /\ \A j \in 1..m : A[8 + j].type = "ENDORSER_CA"
  <2>1. ASSUME NEW j \in 1..m PROVE A[8 + j].type = "ENDORSER_CA"
    <3>1. \E o, l : A[8 + j] = [type |-> "ENDORSER_CA", offset |-> o, desc |-> l]
      BY Zenon DEF CaAnnotated
    <3> QED BY <3>1
  <2> QED BY <2>1
<1>2. \A j \in m + 1..8 : A[8 + j].type = "none"
  <2>1. \A j \in m + 1..8 : A[8 + j] = NoAnnotation
    BY DEF TxAnnotations, MAX_ENDORSER_NUM
  <2>2. NoAnnotation.type = "none"
    BY DEF NoAnnotation, Annotation
  <2> QED BY <2>1, <2>2
<1>3. /\ A[1].type = "TX_START" /\ A[4].type = "TX_ACTION" /\ A[6].type = "ENDORSER_ACTION"
      /\ A[2].type = "CHAINCODE_NAME" /\ A[3].type = "CREATER_CA" /\ A[5].type = "TX_CA"
      /\ A[7].type = "RW_SET" /\ A[8].type = "ENDORSER" /\ A[17].type = "TX_SIG"
  <2>1. \A type, o, l : Annotation(type, o, l).type = type
    BY DEF Annotation
  <2>2. /\ \E o, l : A[2] = Annotation("CHAINCODE_NAME", o, l)
        /\ \E o, l : A[3] = Annotation("CREATER_CA", o, l)
        /\ \E o, l : A[5] = Annotation("TX_CA", o, l)
        /\ \E o, l : A[17] = Annotation("TX_SIG", o, l)
    BY Zenon DEF TxAnnotations
  <2>3. /\ A[1].type = "TX_START" /\ A[4].type = "TX_ACTION" /\ A[6].type = "ENDORSER_ACTION"
        /\ A[7].type = "RW_SET" /\ A[8].type = "ENDORSER"
    BY DEF TxAnnotations
  <2> QED BY <2>1, <2>2, <2>3
<1> HIDE DEF m
<1>4. ASSUME NEW j \in 1..17
      PROVE  \/ j \in {1, 2, 3, 4, 5, 6, 7, 8, 17}
             \/ j - 8 \in 1..m /\ A[j].type = "ENDORSER_CA"
             \/ A[j].type = "none"
  <2>1. CASE j \in 9..16
    <3>1. PICK i \in 1..8 : j = 8 + i /\ j - 8 = i
      <4>1. j - 8 \in 1..8 /\ j = 8 + (j - 8)
        BY <2>1
      <4> QED BY <4>1
    <3>2. i \in 1..m \/ i \in m + 1..8
      BY <1>1
    <3> QED BY <1>1, <1>2, <3>1, <3>2
  <2> QED BY <2>1
<1>5. \A j \in 1..17 : A[j].type \in Locators => j = 3 \/ j = 5 \/ j - 8 \in 1..m
  <2>1. /\ "TX_START" \notin Locators /\ "TX_ACTION" \notin Locators
        /\ "ENDORSER_ACTION" \notin Locators /\ "CHAINCODE_NAME" \notin Locators
        /\ "RW_SET" \notin Locators /\ "ENDORSER" \notin Locators
        /\ "TX_SIG" \notin Locators /\ "none" \notin Locators
    BY DEF Locators
  <2> HIDE DEF Locators
  <2> QED BY <1>3, <1>4, <2>1
<1>6. Others(A)
  <2> DEFINE W == Named \union {"ENDORSER"}
  <2>1. /\ "TX_START" \notin W /\ "TX_ACTION" \notin W /\ "ENDORSER_ACTION" \notin W
        /\ "CREATER_CA" \notin W /\ "TX_CA" \notin W /\ "ENDORSER_CA" \notin W /\ "none" \notin W
    BY DEF Named
  <2> HIDE DEF W
  <2>2. \A j \in 1..17 : j \notin {2, 7, 8, 17} => A[j].type \notin W
    BY <1>3, <1>4, <2>1
  <2> QED BY <2>2 DEF Others, W
<1> QED BY <1>5, <1>6 DEF m

\* One position after the other.
LEMMA NoFurther == \A a, b, c \in Nat : a <= b /\ b <= c => a <= c
OBVIOUS

\* Fields in front of the certificates, between the creator's and the endorsers', and
\* after all of them.
Apart(p, c, g, h, v, q, j, y, l) ==
  \/ j = 2 /\ p <= y /\ y + l <= c
  \/ j = 7 /\ h + g <= y /\ y + l <= v
  \/ j = 17 /\ q <= y
TxChain(p, n, c, g, h, v, q) ==
  /\ p \in Nat /\ n \in Nat /\ c \in Nat /\ g \in Nat /\ h \in Nat /\ v \in Nat /\ q \in Nat
  /\ p <= c /\ c + g <= h /\ h + g <= v /\ q <= p + n
Inside(d, p, n, y, w) == y \in Nat /\ w \in Bytes /\ At(d, y, w) /\ y + Len(w) <= p + n

\* Such a field is between two certificates that are cut one after the other.
LEMMA FieldBetween ==
  ASSUME NEW d, NEW p, NEW n, NEW c, NEW g, NEW h, NEW v, NEW q, TxChain(p, n, c, g, h, v, q),
         NEW m, NEW E, NEW L, EndorsersOrdered(v, q, m, E, L),
         NEW A, TxLocators(A, p, c, g, h, m, E, L),
         NEW j, NEW y, NEW w, Inside(d, p, n, y, w), Apart(p, c, g, h, v, q, j, y, Len(w))
  PROVE  Between(d, p, n, A, CutAt(p, c, g, h, m, E, L), j - 1, y, w)
<1> DEFINE cut == CutAt(p, c, g, h, m, E, L)
           F(i) == E[i] + L[i]
<1>1. /\ m \in 1..8 /\ \A i \in 1..m : E[i] \in Nat /\ L[i] \in Nat /\ F(i) \in Nat
      /\ \A i \in 1..m : v <= E[i] /\ F(i) <= q
  <2>1. m \in 1..8 /\ \A i \in 1..m : E[i] \in Nat /\ L[i] \in Nat
    BY DEF TxLocators
  <2>2. \A i \in 1..m : F(i) \in Nat
    BY <2>1
  <2>3. \A i \in 1..m : v <= E[i] /\ F(i) <= q
    BY DEF EndorsersOrdered
  <2> QED BY <2>1, <2>2, <2>3
<1>2. cut = [i \in 0..17 |-> IF i <= 2 THEN p ELSE IF i <= 4 THEN c + g ELSE IF i <= 8 THEN h + g
                   ELSE IF i <= 8 + m THEN F(i - 8) ELSE F(m)]
  BY DEF CutAt
<1>3. /\ Len(A) = 17
      /\ \A k \in 1..17 : A[k].type \in Locators => k = 3 \/ k = 5 \/ k - 8 \in 1..m
      /\ p + A[3].offset = c /\ p + A[5].offset = h
      /\ \A i \in 1..m : p + A[8 + i].offset = E[i]
  BY DEF TxLocators
<1> HIDE DEF cut, F
<1>4. PICK l \in Nat : l = Len(w)
  BY BytesShape DEF Inside
<1>0. /\ p \in Nat /\ c \in Nat /\ g \in Nat /\ h \in Nat /\ v \in Nat /\ q \in Nat /\ y \in Nat
      /\ c + g <= h /\ h + g <= v
  BY DEF TxChain, Inside
<1>5. cut[1] = p /\ cut[6] = h + g /\ cut[16] = F(m)
  <2>1. cut[16] = IF 16 <= 8 + m THEN F(16 - 8) ELSE F(m)
    BY <1>2
  <2>2. 16 <= 8 + m => m = 8
    BY <1>1
  <2> QED BY <1>2, <2>1, <2>2
<1>6. cut[j - 1] <= y
  <2>1. m \in 1..m
    BY <1>1
  <2>2. F(m) \in Nat /\ F(m) <= q
    BY <1>1, <2>1
  <2>3. CASE j = 2 /\ p <= y
    BY <1>0, <1>5, <2>3
  <2>4. CASE j = 7 /\ h + g <= y
    BY <1>0, <1>5, <2>4
  <2>5. CASE j = 17 /\ q <= y
    <3>1. F(m) <= y
      BY <1>0, <2>2, <2>5
    <3> QED BY <1>5, <2>5, <3>1
  <2> QED BY <2>3, <2>4, <2>5 DEF Apart
<1>7. ASSUME NEW k \in j..17, A[k].type \in Locators PROVE y + l <= p + A[k].offset
  <2>1. CASE j = 2 /\ y + l <= c
    <3>1. y + l <= h /\ y + l <= v
      BY <1>0, <1>4, <2>1
    <3>2. CASE k = 3
      BY <1>3, <2>1, <3>2
    <3>3. CASE k = 5
      BY <1>3, <3>1, <3>3
    <3>4. CASE k - 8 \in 1..m
      <4>1. PICK i \in 1..m : k = 8 + i
        BY <3>4
      <4>2. PICK z \in Nat : z = E[i] /\ v <= z
        BY <1>1, <4>1
      <4>3. y + l <= z
        <5>1. y + l \in Nat /\ v \in Nat
          BY <1>0, <1>4
        <5> QED BY <3>1, <4>2, <5>1, NoFurther, Zenon
      <4> QED BY <1>3, <4>1, <4>2, <4>3
    <3>5. k \in 1..17
      BY <2>1
    <3> QED BY <1>3, <1>7, <3>2, <3>3, <3>4, <3>5
  <2>2. CASE j = 7 /\ y + l <= v
    <3>1. k \in 1..17 /\ k # 3 /\ k # 5
      BY <2>2
    <3>2. k - 8 \in 1..m
      BY <1>3, <1>7, <3>1
    <3>3. PICK i \in 1..m : k = 8 + i
      BY <3>2
    <3>4. PICK z \in Nat : z = E[i] /\ v <= z
      BY <1>1, <3>3
    <3>5. y + l <= z
      <4>1. y + l \in Nat /\ v \in Nat
        BY <1>0, <1>4
      <4> QED BY <2>2, <3>4, <4>1, NoFurther, Zenon
    <3> QED BY <1>3, <3>3, <3>4, <3>5
  <2>3. CASE j = 17
    <3>1. k = 17 /\ k - 8 \notin 1..m
      BY <1>1, <2>3
    <3> QED BY <1>3, <1>7, <3>1
  <2> QED BY <1>4, <2>1, <2>2, <2>3 DEF Apart
<1>8. Between(d, p, n, A, cut, j - 1, y, w)
  <2>1. j - 1 \in 0..Len(A) /\ Len(A) = 17 /\ j - 1 + 1 = j
    BY <1>3 DEF Apart
  <2>2. y \in Nat /\ w \in Bytes /\ At(d, y, w) /\ y + l <= p + n
    BY <1>4 DEF Inside
  <2> QED BY <1>4, <1>6, <1>7, <2>1, <2>2, Zenon DEF Between
<1> QED BY <1>8 DEF cut

\* Certificates that the caches have can be put back.
LEMMA TransactionRestorable ==
  ASSUME NEW d \in Bytes, NEW p \in Nat, NEW c \in Nat, NEW h \in Nat, NEW t \in Transaction,
         NEW E, NEW L, NEW m, (\A j \in 1..m : j \in 1..Len(t.endorsers)),
         \A j \in 1..m : E[j] \in Nat /\ L[j] = Len(IdOf(t.endorsers[j])) /\ At(d, E[j], IdOf(t.endorsers[j])),
         NEW A, TxLocators(A, p, c, Len(IdOf(t.creator)), h, m, E, L),
         At(d, c, IdOf(t.creator)), At(d, h, IdOf(t.creator)), AllCached(t)
  PROVE  Restorable(d, p, A)
<1>1. ASSUME NEW w \in Certificate, NEW y \in Nat, At(d, y, IdOf(w))
      PROVE  Slice(d, y, y + Len(IdOf(w))) = IdOf(w)
  BY <1>1, CertificateShape, SliceAt
<1>2. /\ t.creator \in Certificate /\ \A j \in 1..m : t.endorsers[j] \in Certificate
      /\ Cached(t.creator) /\ \A j \in 1..m : Cached(t.endorsers[j])
  BY TransactionShape DEF AllCached
<1>3. /\ Len(A) = 17
      /\ \A k \in 1..17 : A[k].type \in Locators => k = 3 \/ k = 5 \/ k - 8 \in 1..m
      /\ p + A[3].offset = c /\ p + A[5].offset = h
      /\ A[3].desc = Len(IdOf(t.creator)) /\ A[5].desc = Len(IdOf(t.creator))
      /\ \A i \in 1..m : p + A[8 + i].offset = E[i] /\ A[8 + i].desc = L[i]
  BY DEF TxLocators
<1>4. ASSUME NEW k \in 1..17, A[k].type \in Locators
      PROVE  \E w : Cached(w) /\ Slice(d, p + A[k].offset, p + A[k].offset + A[k].desc) = IdOf(w)
  <2>1. CASE k = 3
    <3>1. Slice(d, c, c + Len(IdOf(t.creator))) = IdOf(t.creator)
      BY <1>1, <1>2
    <3> QED BY <1>2, <1>3, <2>1, <3>1, Zenon
  <2>2. CASE k = 5
    <3>1. Slice(d, h, h + Len(IdOf(t.creator))) = IdOf(t.creator)
      BY <1>1, <1>2
    <3> QED BY <1>2, <1>3, <2>2, <3>1, Zenon
  <2>3. CASE k - 8 \in 1..m
    <3>1. PICK i \in 1..m : k = 8 + i
      BY <2>3
    <3>2. Slice(d, E[i], E[i] + Len(IdOf(t.endorsers[i]))) = IdOf(t.endorsers[i])
      BY <1>1, <1>2
    <3>3. p + A[k].offset = E[i] /\ A[k].desc = Len(IdOf(t.endorsers[i])) /\ Cached(t.endorsers[i])
      BY <1>2, <1>3, <3>1
    <3> QED BY <3>2, <3>3, Zenon
  <2> QED BY <1>3, <1>4, <2>1, <2>2, <2>3
<1> QED BY <1>3, <1>4, Zenon DEF Restorable, Cached

\* All of it: how the annotations of a transaction point at its fields.
LEMMA TransactionPacked ==
  ASSUME NEW d \in Bytes, NEW p \in Nat, NEW n \in Positions, NEW t \in Transaction,
         NEW x \in [sig : Nat, name : Nat, creator : Nat, caller : Nat, results : Nat, outer : Nat],
         TxPlaces(d, p, n, t, x), NEW s, TxEndorsers(d, p, n, t, x, s),
         NEW A, TxAnnotations(A, p, t, x, s)
  PROVE  HasTxPacked(d, p, n, t, A)
<1> DEFINE m == Listed(t)
           E == EndorserPlaces(t, s)
           L == EndorserSizes(t)
           g == Len(IdOf(t.creator))
           v == s[0]
           cut == CutAt(p, x.creator, g, x.caller, m, E, L)
<1>1. n \in Nat
  BY PositionsAreNumbers
<1>2. EndorsersInside(d, n, t, x, s)
  BY <1>1, EndorsersAreInside
<1>3. EndorsersOrdered(v, x.sig, m, E, L) /\ v \in Nat /\ v <= x.sig
  <2>1. x.sig \in Nat
    OBVIOUS
  <2> QED BY <1>1, <1>2, <2>1, EndorsersInOrder
<1>4. TxOrder(p, n, t, x, v)
  <2>1. v = x.results + Len(t.results)
    BY <1>2 DEF EndorsersInside
  <2> QED BY <1>3, <2>1, TransactionOrder
<1>5. /\ \A j \in 1..m : j \in 1..Len(t.endorsers)
      /\ m \in 1..8
  BY ListedEndorsers
<1>6. \A j \in 1..m : /\ E[j] = IdPlace(s[j - 1], t.endorsers[j]) /\ L[j] = Len(IdOf(t.endorsers[j]))
                      /\ E[j] \in Nat /\ L[j] \in Nat /\ At(d, E[j], IdOf(t.endorsers[j]))
  <2>1. \A j \in 1..m : E[j] = IdPlace(s[j - 1], t.endorsers[j]) /\ L[j] = Len(IdOf(t.endorsers[j]))
    BY DEF EndorserPlaces, EndorserSizes
  <2> HIDE DEF E, L, m
  <2>2. \A j \in 1..Len(t.endorsers) :
          /\ IdPlace(s[j - 1], t.endorsers[j]) \in Nat /\ Len(IdOf(t.endorsers[j])) \in Nat
          /\ At(d, IdPlace(s[j - 1], t.endorsers[j]), IdOf(t.endorsers[j]))
    BY <1>2 DEF EndorsersInside
  <2> QED BY <1>5, <2>1, <2>2
<1>7. E \in [1..m -> Nat] /\ L \in [1..m -> Nat]
  <2>1. E = [j \in 1..m |-> E[j]] /\ L = [j \in 1..m |-> L[j]]
    BY DEF EndorserPlaces, EndorserSizes
  <2> HIDE DEF E, L, m
  <2> QED BY <1>6, <2>1
<1>8. TxLayout(p, n, t, x, s)
  BY <1>3, <1>4, <1>7 DEF TxLayout
<1>9. CaAnnotated(A, p, t, s) /\ TxAnnotated(A, p, t, x)
  BY <1>8, EndorsersAnnotated, FieldsAnnotated
<1>10. (\A j \in 1..17 : A[j].type \in Locators => j = 3 \/ j = 5 \/ j - 8 \in 1..m) /\ Others(A)
  BY <1>5, <1>9, WhatIsAnnotated
<1>11. TxLocators(A, p, x.creator, g, x.caller, m, E, L)
  <2>1. /\ A[3].type \in Locators /\ p + A[3].offset = x.creator /\ A[3].desc = g
        /\ A[5].type \in Locators /\ p + A[5].offset = x.caller /\ A[5].desc = g
    <3>1. /\ A[3].type = "CREATER_CA" /\ A[3].offset = x.creator - p /\ A[3].desc = g
          /\ A[5].type = "TX_CA" /\ A[5].offset = x.caller - p /\ A[5].desc = g
      BY <1>9 DEF TxAnnotated
    <3>2. p + (x.creator - p) = x.creator /\ p + (x.caller - p) = x.caller
      OBVIOUS
    <3> QED BY <3>1, <3>2 DEF Locators
  <2>2. \A j \in 1..m : /\ A[8 + j].type \in Locators
                        /\ p + A[8 + j].offset = E[j] /\ A[8 + j].desc = L[j]
    <3> SUFFICES ASSUME NEW j \in 1..m
                 PROVE  /\ A[8 + j].type \in Locators
                        /\ p + A[8 + j].offset = E[j] /\ A[8 + j].desc = L[j]
      OBVIOUS
    <3>1. A[8 + j] = [type |-> "ENDORSER_CA", offset |-> E[j] - p, desc |-> L[j]]
      BY <1>9 DEF CaAnnotated
    <3> HIDE DEF E, L, m
    <3>2. E[j] \in Nat /\ p + (E[j] - p) = E[j]
      BY <1>6
    <3>3. A[8 + j].type = "ENDORSER_CA" /\ A[8 + j].offset = E[j] - p /\ A[8 + j].desc = L[j]
      BY <3>1
    <3> QED BY <3>2, <3>3 DEF Locators
  <2>3. A \in Seq(Annotations) /\ Len(A) = 17
    BY DEF TxAnnotations
  <2> HIDE DEF E, L, m, g
  <2> QED BY <1>5, <1>7, <1>10, <2>1, <2>2, <2>3 DEF TxLocators
<1>12. TxInside(p, n, t, x, v)
  BY <1>1, <1>4, TransactionInside
<1>13. TxChain(p, n, x.creator, g, x.caller, v, x.sig)
  BY <1>1, <1>4, <1>12 DEF TxChain, TxOrder, TxInside, Fitted
<1> HIDE DEF m, E, L, g, v, cut
<1>14. Cuts(p, n, A, cut)
  <2>1. /\ n \in Nat /\ x.creator \in Nat /\ g \in Nat /\ x.caller \in Nat /\ v \in Nat /\ x.sig \in Nat
        /\ p <= x.creator /\ x.creator + g <= x.caller /\ x.caller + g <= v /\ x.sig <= p + n
    BY <1>13 DEF TxChain
  <2> QED BY <1>3, <1>11, <2>1, TransactionCuts DEF cut
<1>15. /\ Inside(d, p, n, x.name, t.chaincode) /\ Inside(d, p, n, x.results, t.results)
       /\ Inside(d, p, n, x.sig, t.signature)
  <2>1. At(d, x.name, t.chaincode) /\ At(d, x.results, t.results) /\ At(d, x.sig, t.signature)
    BY DEF TxPlaces, Leads
  <2>2. t.chaincode \in Bytes /\ t.results \in Bytes /\ t.signature \in Bytes
    BY TransactionShape
  <2>3. /\ x.name \in Nat /\ x.name + Len(t.chaincode) <= p + n
        /\ x.results \in Nat /\ x.results + Len(t.results) <= p + n
        /\ x.sig \in Nat /\ x.sig + Len(t.signature) <= p + n
    BY <1>12 DEF TxInside, Fitted
  <2> QED BY <2>1, <2>2, <2>3 DEF Inside
<1>16. /\ Apart(p, x.creator, g, x.caller, v, x.sig, 2, x.name, Len(t.chaincode))
       /\ Apart(p, x.creator, g, x.caller, v, x.sig, 7, x.results, Len(t.results))
       /\ Apart(p, x.creator, g, x.caller, v, x.sig, 17, x.sig, Len(t.signature))
  <2>1. p <= x.name /\ x.name + Len(t.chaincode) <= x.creator
    BY <1>4 DEF TxOrder
  <2>2. x.caller + g <= x.results /\ x.results + Len(t.results) <= v
    BY <1>4 DEF TxOrder, g
  <2>3. x.sig <= x.sig
    OBVIOUS
  <2> QED BY <2>1, <2>2, <2>3 DEF Apart
<1>17. /\ Between(d, p, n, A, cut, 2 - 1, x.name, t.chaincode)
       /\ Between(d, p, n, A, cut, 7 - 1, x.results, t.results)
       /\ Between(d, p, n, A, cut, 17 - 1, x.sig, t.signature)
  BY <1>3, <1>11, <1>13, <1>15, <1>16, FieldBetween, Zenon DEF cut
<1>18. /\ Pointed(d, p, n, A, cut, 2, t.chaincode)
       /\ Pointed(d, p, n, A, cut, 17, t.signature)
       /\ Len(t.endorsers) <= MAX_ENDORSER_NUM => Pointed(d, p, n, A, cut, 7, t.results)
  <2>1. /\ A[2].type \in Named /\ A[2].offset = x.name - p /\ A[2].desc = Len(t.chaincode)
        /\ A[17].type \in Named /\ A[17].offset = x.sig - p /\ A[17].desc = Len(t.signature)
    BY <1>9 DEF TxAnnotated, Named
  <2>2. Len(t.endorsers) <= MAX_ENDORSER_NUM =>
          A[7].type \in Named /\ A[7].offset = x.results - p /\ A[7].desc = Len(t.results)
    <3> SUFFICES ASSUME Len(t.endorsers) <= MAX_ENDORSER_NUM
                 PROVE  A[7].type \in Named /\ A[7].offset = x.results - p /\ A[7].desc = Len(t.results)
      OBVIOUS
    <3>1. \E o, l : /\ A[7] = [type |-> "RW_SET", offset |-> o, desc |-> l]
                   /\ o = x.results - p /\ l = Len(t.results)
      BY <1>9, Zenon DEF TxAnnotated
    <3> QED BY <3>1 DEF Named
  <2> QED BY <1>17, <2>1, <2>2, Zenon DEF Pointed
<1>19. AllCached(t) => Restorable(d, p, A)
  <2>1. At(d, x.creator, IdOf(t.creator)) /\ At(d, x.caller, IdOf(t.creator))
    BY DEF TxPlaces, Leads
  <2>2. x.creator \in Nat /\ x.caller \in Nat
    OBVIOUS
  <2>3. \A j \in 1..m : /\ E[j] \in Nat /\ L[j] = Len(IdOf(t.endorsers[j]))
                        /\ At(d, E[j], IdOf(t.endorsers[j]))
    BY <1>6
  <2> QED BY <1>5, <1>11, <2>1, <2>2, <2>3, TransactionRestorable DEF g
<1>20. /\ A \in Seq(Annotations) /\ Len(A) = 17 /\ A[2].type = "CHAINCODE_NAME"
       /\ A[7].type = "RW_SET" /\ A[8].type = "ENDORSER" /\ A[17].type = "TX_SIG"
       /\ Len(t.endorsers) <= MAX_ENDORSER_NUM => A[8].desc = Len(t.endorsers)
  <2>1. A \in Seq(Annotations) /\ Len(A) = 17
    BY DEF TxAnnotations
  <2> QED BY <1>9, <2>1 DEF TxAnnotated
<1>21. TxPacked(d, p, n, t, A, cut)
  BY <1>10, <1>14, <1>18, <1>19, <1>20, Zenon DEF TxPacked, Others
<1> QED BY <1>21 DEF HasTxPacked

\* What the card can do with the packet of a transaction.
TxAnnotationHits(a, g, t) ==
  /\ a.type = "CHAINCODE_NAME" => Hits(a, g, t.chaincode)
  /\ a.type = "RW_SET" => Hits(a, g, t.results) \/ Len(t.endorsers) > MAX_ENDORSER_NUM
  /\ a.type = "TX_SIG" => Hits(a, g, t.signature)
  /\ a.type = "ENDORSER" => a.desc = Len(t.endorsers) \/ Len(t.endorsers) > MAX_ENDORSER_NUM
  /\ a.type \notin {"BLOCK_ID", "ORDERER_SIG"}
TxSent(packet, t) ==
  /\ \E l \in Nat : DOMAIN packet.annotations = 1..l
  /\ \A a \in Range(packet.annotations) : TxAnnotationHits(a, packet.payload, t)
  /\ AllCached(t) => Expand(packet) = Field(1, Envelope(t))

\* A transaction of at most 65535 bytes is sent so that the card finds its fields, and
\* with its certificates in the cache it is put together again.
THEOREM TransactionSent ==
  ASSUME CertificateIds, NEW d \in Bytes, NEW p \in Nat, NEW n \in Positions, NEW t \in Transaction,
         n = Len(Field(1, Envelope(t))), At(d, p, Field(1, Envelope(t)))
  PROVE  TxSent(SendTransaction(d, p, n), t)
<1> DEFINE A == GenerateTransactionAnnotation(p, n, d)
           Q == AdjustDataBasedOnLocator(d, p, n, A)
           k == Len(t.endorsers)
<1>1. n \in Nat /\ p + n <= Len(d)
  <2>1. n \in Nat
    BY PositionsAreNumbers
  <2> QED BY <2>1 DEF At
<1>2. PICK x \in [sig : Nat, name : Nat, creator : Nat, caller : Nat, results : Nat, outer : Nat] :
        TxPlaces(d, p, n, t, x)
  BY TxPlacesExist DEF TxPlacesKnown
<1>3. PICK s : TxEndorsers(d, p, n, t, x, s)
  <2>1. x.outer \in Nat /\ Leads(d, p, n, <<1, 1, 2, 1, 2, 2>>, x.outer, EndorsedPart(t))
    BY <1>2 DEF TxPlaces
  <2> QED BY <1>1, <2>1, EndorsersPlaced DEF HasTxEndorsers
<1>4. TxAnnotations(A, p, t, x, s)
  BY <1>1, <1>2, <1>3, TxAnnotationsMade
<1> HIDE DEF A
<1>5. PICK cut : TxPacked(d, p, n, t, A, cut)
  BY <1>2, <1>3, <1>4, TransactionPacked DEF HasTxPacked
<1>6. A \in Seq(Annotations) /\ Len(A) = 17 /\ Cuts(p, n, A, cut)
  BY <1>5 DEF TxPacked
<1>7. PICK r : /\ Adjusts(d, p, A, r)
               /\ Q = [annotations |-> r[Len(A)].list,
                       payload     |-> r[Len(A)].out \o Slice(d, r[Len(A)].start, p + n)]
  <2>1. AdjustsTo(d, p, n, A, Q)
    BY <1>6, AdjustSteps
  <2> HIDE DEF Q
  <2> QED BY <2>1, Zenon DEF AdjustsTo
<1> DEFINE L == r[Len(A)].list
           P == Payload(d, p, n, A, r)
<1>8. Q.annotations = L /\ Q.payload = P
  <2>1. Q = [annotations |-> L, payload |-> P]
    BY <1>7, Zenon DEF Payload
  <2> HIDE DEF Q, L, P
  <2> QED BY <2>1
<1>9. L \in Seq(Annotations) /\ Len(L) = 17
  <2>1. Len(A) \in 0..Len(A)
    BY <1>6
  <2>2. AdjustedTo(d, p, A, cut, r, Len(A))
    BY <1>1, <1>6, <1>7, <2>1, AdjustedStates
  <2> QED BY <1>6, <2>2 DEF AdjustedTo
<1>10. DOMAIN L = 1..17
  <2> HIDE DEF L
  <2> QED BY <1>9
<1> HIDE DEF L, P, Q, k
<1>11. ASSUME NEW j \in 1..17 PROVE TxAnnotationHits(L[j], P, t)
  <2>1. L[j].type = A[j].type /\ (A[j].type \notin Locators => L[j].desc = A[j].desc)
    <3>1. j \in 1..Len(A)
      BY <1>6
    <3>2. Kept(A, L)
      BY <1>1, <1>6, <1>7, AnnotationKept DEF L
    <3> QED BY <3>1, <3>2 DEF Kept
  <2>2. ASSUME NEW w, Pointed(d, p, n, A, cut, j, w) PROVE Hits(L[j], P, w)
    <3>1. j \in 1..Len(A)
      BY <1>6
    <3> QED BY <1>1, <1>6, <1>7, <2>2, <3>1, AnnotationHits DEF L, P
  <2>3. /\ A[2].type = "CHAINCODE_NAME" /\ Pointed(d, p, n, A, cut, 2, t.chaincode)
        /\ A[7].type = "RW_SET" /\ A[8].type = "ENDORSER"
        /\ k <= MAX_ENDORSER_NUM => Pointed(d, p, n, A, cut, 7, t.results) /\ A[8].desc = k
        /\ A[17].type = "TX_SIG" /\ Pointed(d, p, n, A, cut, 17, t.signature)
    BY <1>5 DEF TxPacked, k
  <2>4. k <= MAX_ENDORSER_NUM \/ k > MAX_ENDORSER_NUM
    <3>1. k \in Nat
      BY TransactionShape DEF k
    <3> QED BY <3>1 DEF MAX_ENDORSER_NUM
  <2>5. CASE j = 2
    <3>1. L[j].type = "CHAINCODE_NAME" /\ Hits(L[j], P, t.chaincode)
      BY <2>1, <2>2, <2>3, <2>5
    <3> QED BY <3>1 DEF TxAnnotationHits
  <2>6. CASE j = 7
    <3>1. L[j].type = "RW_SET" /\ (Hits(L[j], P, t.results) \/ k > MAX_ENDORSER_NUM)
      BY <2>1, <2>2, <2>3, <2>4, <2>6
    <3> QED BY <3>1 DEF TxAnnotationHits, k
  <2>7. CASE j = 8
    <3>1. L[j].type = "ENDORSER" /\ (L[j].desc = k \/ k > MAX_ENDORSER_NUM)
      <4>1. "ENDORSER" \notin Locators
        BY DEF Locators
      <4> QED BY <2>1, <2>3, <2>4, <2>7, <4>1
    <3> QED BY <3>1 DEF TxAnnotationHits, k
  <2>8. CASE j = 17
    <3>1. L[j].type = "TX_SIG" /\ Hits(L[j], P, t.signature)
      BY <2>1, <2>2, <2>3, <2>8
    <3> QED BY <3>1 DEF TxAnnotationHits
  <2>9. CASE j \notin {2, 7, 8, 17}
    <3>1. L[j].type \notin Named \union {"ENDORSER"}
      BY <1>5, <2>1, <2>9 DEF TxPacked
    <3> QED BY <3>1 DEF TxAnnotationHits, Named
  <2> QED BY <2>5, <2>6, <2>7, <2>8, <2>9
<1>12. \A a \in Range(Q.annotations) : TxAnnotationHits(a, Q.payload, t)
  BY <1>8, <1>10, <1>11 DEF Range
<1>13. AllCached(t) => Expand(Q) = Field(1, Envelope(t))
  <2> SUFFICES ASSUME AllCached(t) PROVE Expand(Q) = Field(1, Envelope(t))
    OBVIOUS
  <2>1. Restorable(d, p, A)
    BY <1>5 DEF TxPacked
  <2>2. Expand(Q) = Slice(d, p, p + n)
    <3>1. n \in Positions
      OBVIOUS
    <3> QED BY <1>1, <1>6, <2>1, <3>1, CertificatesRestored, Zenon DEF Q
  <2>3. Field(1, Envelope(t)) \in Bytes
    BY PartsShape
  <2>4. Slice(d, p, p + n) = Field(1, Envelope(t))
    BY <2>3, SliceAt
  <2> QED BY <2>2, <2>4
<1>14. 17 \in Nat /\ DOMAIN Q.annotations = 1..17
  BY <1>8, <1>10
<1>15. TxSent(Q, t)
  BY <1>12, <1>13, <1>14 DEF TxSent
<1> QED BY <1>15, Zenon DEF SendTransaction, A, Q

-----------------------------------------------------------------------------
(* The metadata.                                                           *)

\* A block, as the assumption has it.
LEMMA BlockShape ==
  ASSUME NEW b \in Blocks
  PROVE  /\ b.number \in Nat /\ b.number > 0 /\ Len(Varint(b.number)) <= 10
         /\ b.txs \in Seq(Transaction) /\ b.orderer \in Certificate
         /\ b.signature \in Bytes
<1>1. /\ b.number \in Nat \ {0} /\ Len(Varint(b.number)) <= 10
      /\ b.txs \in Seq(Transaction) /\ b.orderer \in Certificate
      /\ b.signature \in Filled
  BY BlocksAssumption
<1>2. b.signature \in Bytes
  BY <1>1 DEF Filled, Bytes, Byte
<1>3. b.number \in Nat /\ b.number > 0
  BY <1>1
<1> QED BY <1>1, <1>2, <1>3

\* The parts of the metadata.
SignPart(b) == Field(1, SignedBy(IdOf(b.orderer))) \o Field(2, b.signature)
SignedPart(b) == Field(1, <<11>>) \o Field(2, SignPart(b))

\* They are messages.
LEMMA MetadataShape ==
  ASSUME NEW b \in Blocks
  PROVE  /\ 1 \in FieldNumbers /\ 2 \in FieldNumbers /\ 3 \in FieldNumbers
         /\ <<7>> \in Bytes /\ <<11>> \in Bytes /\ <<12>> \in Bytes
         /\ Field(2, <<7>>) \in Bytes /\ Field(1, <<12>>) \in Bytes
         /\ IdOf(b.orderer) \in Bytes /\ SignedBy(IdOf(b.orderer)) \in Bytes
         /\ b.signature \in Bytes /\ SignPart(b) \in Bytes /\ SignedPart(b) \in Bytes
         /\ Metadata(b) \in Bytes /\ Field(3, Metadata(b)) \in Bytes
         /\ Metadata(b) = Field(1, SignedPart(b)) \o Field(1, <<12>>)
<1>1. 1 \in FieldNumbers /\ 2 \in FieldNumbers /\ 3 \in FieldNumbers
  BY DEF FieldNumbers
<1>2. <<7>> \in Bytes /\ <<11>> \in Bytes /\ <<12>> \in Bytes
  BY OneByte DEF Byte
<1>3. IdOf(b.orderer) \in Bytes /\ b.signature \in Bytes
  BY BlockShape, CertificateShape
<1>4. Field(2, <<7>>) \in Bytes /\ Field(1, <<12>>) \in Bytes
  BY <1>1, <1>2, FieldShape
<1>5. SignedBy(IdOf(b.orderer)) \in Bytes
  BY <1>1, <1>2, <1>3, TwoFields DEF SignedBy
<1>6. SignPart(b) \in Bytes
  BY <1>1, <1>3, <1>5, TwoFields DEF SignPart
<1>7. SignedPart(b) \in Bytes
  BY <1>1, <1>2, <1>6, TwoFields DEF SignedPart
<1>8. Metadata(b) = Field(1, SignedPart(b)) \o Field(1, <<12>>)
  BY DEF Metadata, SignedPart, SignPart, SignedBy, IdOf
<1>9. Metadata(b) \in Bytes
  BY <1>1, <1>2, <1>7, <1>8, TwoFields
<1>10. Field(3, Metadata(b)) \in Bytes
  BY <1>1, <1>9, FieldShape
<1> QED BY <1>1, <1>2, <1>3, <1>4, <1>5, <1>6, <1>7, <1>8, <1>9, <1>10

\* The paths of its annotations.
LEMMA MetadataPaths ==
  /\ Append(<<>>, 3) = <<3>>
  /\ Append(<<3>>, 1) = <<3, 1>>
  /\ Append(<<3, 1>>, 2) = <<3, 1, 2>>
  /\ Append(<<3, 1, 2>>, 1) = <<3, 1, 2, 1>>
  /\ Append(<<3, 1, 2>>, 2) = <<3, 1, 2, 2>>
  /\ Append(<<3, 1, 2, 1>>, 1) = <<3, 1, 2, 1, 1>>
<1>1. Append(<<>>, 3) = <<3>>
  <2> DEFINE path == <<>>
             long == <<3>>
  <2>1. /\ path \in Seq(Nat) /\ long \in Seq(Nat) /\ Len(path) = 0 /\ Len(long) = 0 + 1
        /\ long[0 + 1] = 3 /\ \A j \in 1..0 : long[j] = path[j]
    OBVIOUS
  <2> HIDE DEF path, long
  <2>2. Append(path, 3) = long
    BY <2>1, LongerPath
  <2> QED BY <2>2 DEF path, long
<1>2. Append(<<3>>, 1) = <<3, 1>>
  <2> DEFINE path == <<3>>
             long == <<3, 1>>
  <2>1. /\ path \in Seq(Nat) /\ long \in Seq(Nat) /\ Len(path) = 1 /\ Len(long) = 1 + 1
        /\ long[1 + 1] = 1 /\ \A j \in 1..1 : long[j] = path[j]
    OBVIOUS
  <2> HIDE DEF path, long
  <2>2. Append(path, 1) = long
    BY <2>1, LongerPath
  <2> QED BY <2>2 DEF path, long
<1>3. Append(<<3, 1>>, 2) = <<3, 1, 2>>
  <2> DEFINE path == <<3, 1>>
             long == <<3, 1, 2>>
  <2>1. /\ path \in Seq(Nat) /\ long \in Seq(Nat) /\ Len(path) = 2 /\ Len(long) = 2 + 1
        /\ long[2 + 1] = 2 /\ \A j \in 1..2 : long[j] = path[j]
    OBVIOUS
  <2> HIDE DEF path, long
  <2>2. Append(path, 2) = long
    BY <2>1, LongerPath
  <2> QED BY <2>2 DEF path, long
<1>4. Append(<<3, 1, 2>>, 1) = <<3, 1, 2, 1>>
  <2> DEFINE path == <<3, 1, 2>>
             long == <<3, 1, 2, 1>>
  <2>1. /\ path \in Seq(Nat) /\ long \in Seq(Nat) /\ Len(path) = 3 /\ Len(long) = 3 + 1
        /\ long[3 + 1] = 1 /\ \A j \in 1..3 : long[j] = path[j]
    OBVIOUS
  <2> HIDE DEF path, long
  <2>2. Append(path, 1) = long
    BY <2>1, LongerPath
  <2> QED BY <2>2 DEF path, long
<1>5. Append(<<3, 1, 2>>, 2) = <<3, 1, 2, 2>>
  <2> DEFINE path == <<3, 1, 2>>
             long == <<3, 1, 2, 2>>
  <2>1. /\ path \in Seq(Nat) /\ long \in Seq(Nat) /\ Len(path) = 3 /\ Len(long) = 3 + 1
        /\ long[3 + 1] = 2 /\ \A j \in 1..3 : long[j] = path[j]
    OBVIOUS
  <2> HIDE DEF path, long
  <2>2. Append(path, 2) = long
    BY <2>1, LongerPath
  <2> QED BY <2>2 DEF path, long
<1>6. Append(<<3, 1, 2, 1>>, 1) = <<3, 1, 2, 1, 1>>
  <2> DEFINE path == <<3, 1, 2, 1>>
             long == <<3, 1, 2, 1, 1>>
  <2>1. /\ path \in Seq(Nat) /\ long \in Seq(Nat) /\ Len(path) = 4 /\ Len(long) = 4 + 1
        /\ long[4 + 1] = 1 /\ \A j \in 1..4 : long[j] = path[j]
    OBVIOUS
  <2> HIDE DEF path, long
  <2>2. Append(path, 1) = long
    BY <2>1, LongerPath
  <2> QED BY <2>2 DEF path, long
<1> QED BY <1>1, <1>2, <1>3, <1>4, <1>5, <1>6

\* Where the orderer's certificate (at y) and its signature (at z) are.
MetaPlaces(d, p, n, b, y, z) ==
  /\ Leads(d, p, n, <<3, 1, 2, 1, 1>>, y, IdOf(b.orderer))
  /\ Leads(d, p, n, <<3, 1, 2, 2>>, z, b.signature)
  /\ p <= y /\ y + Len(IdOf(b.orderer)) <= z /\ z + Len(b.signature) <= p + n
MetaPlacesKnown(d, p, n, b) == \E y, z \in Nat : MetaPlaces(d, p, n, b, y, z)

\* The code finds both.
LEMMA MetaPlacesExist ==
  ASSUME NEW d \in Bytes, NEW p \in Nat, NEW b \in Blocks, NEW n,
         n = Len(Field(3, Metadata(b))), At(d, p, Field(3, Metadata(b)))
  PROVE  MetaPlacesKnown(d, p, n, b)
<1>0. n \in Nat
  BY MetadataShape, BytesShape
<1> DEFINE id == IdOf(b.orderer)
           cs == SignedBy(id)
<1>1. /\ 1 \in FieldNumbers /\ 2 \in FieldNumbers /\ 3 \in FieldNumbers
      /\ <<7>> \in Bytes /\ <<11>> \in Bytes /\ <<12>> \in Bytes
      /\ Field(2, <<7>>) \in Bytes /\ Field(1, <<12>>) \in Bytes
      /\ id \in Bytes /\ cs \in Bytes
      /\ b.signature \in Bytes /\ SignPart(b) \in Bytes /\ SignedPart(b) \in Bytes
      /\ Metadata(b) \in Bytes /\ Field(3, Metadata(b)) \in Bytes
      /\ Metadata(b) = Field(1, SignedPart(b)) \o Field(1, <<12>>)
      /\ SignedPart(b) = Field(1, <<11>>) \o Field(2, SignPart(b))
      /\ SignPart(b) = Field(1, cs) \o Field(2, b.signature)
      /\ cs = Field(1, id) \o Field(2, <<7>>)
      /\ n \in Nat /\ p \in Nat /\ d \in Bytes
  BY <1>0, MetadataShape DEF SignedPart, SignPart, SignedBy
<1>2. Leads(d, p, n, <<>>, p, Field(3, Metadata(b)))
  <2>1. ProtoGetFieldPos(d, p, n, <<>>) = [pos |-> p, len |-> n]
    BY <1>1, PathEmpty
  <2>2. <<>> \in Seq(Nat)
    OBVIOUS
  <2> QED BY <1>1, <2>1, <2>2 DEF Leads
<1> HIDE DEF id, cs
<1>3. PICK met \in Nat :
        IsPlace(d, p, n, <<3>>, Metadata(b), met, p, p + Len(Field(3, Metadata(b))))
  <2>1. HasPlace(d, p, n, Append(<<>>, 3), Metadata(b), p, p + Len(Field(3, Metadata(b))))
    BY <1>1, <1>2, OnlyPlace
  <2>2. Append(<<>>, 3) = <<3>>
    BY MetadataPaths
  <2> QED BY <2>1, <2>2 DEF HasPlace
<1>4. PICK sgd \in Nat :
        IsPlace(d, p, n, <<3, 1>>, SignedPart(b), sgd, met, met + Len(Field(1, SignedPart(b))))
  <2>1. HasPlace(d, p, n, Append(<<3>>, 1), SignedPart(b), met, met + Len(Field(1, SignedPart(b))))
    BY <1>1, <1>3, FirstPlace DEF IsPlace
  <2>2. Append(<<3>>, 1) = <<3, 1>>
    BY MetadataPaths
  <2> QED BY <2>1, <2>2 DEF HasPlace
<1>5. PICK sgn \in Nat :
        IsPlace(d, p, n, <<3, 1, 2>>, SignPart(b), sgn,
                sgd + Len(Field(1, <<11>>)), sgd + Len(SignedPart(b)))
  <2>1. HasPlace(d, p, n, Append(<<3, 1>>, 2), SignPart(b),
                 sgd + Len(Field(1, <<11>>)), sgd + Len(SignedPart(b)))
    <3>1. Leads(d, p, n, <<3, 1>>, sgd, SignedPart(b))
      BY <1>4 DEF IsPlace
    <3>2. 2 # 1 /\ 2 \in Nat
      OBVIOUS
    <3> QED BY <1>1, <3>1, <3>2, SecondPlace
  <2>2. Append(<<3, 1>>, 2) = <<3, 1, 2>>
    BY MetadataPaths
  <2> QED BY <2>1, <2>2 DEF HasPlace
<1>6. PICK cre \in Nat :
        IsPlace(d, p, n, <<3, 1, 2, 1>>, cs, cre, sgn, sgn + Len(Field(1, cs)))
  <2>1. HasPlace(d, p, n, Append(<<3, 1, 2>>, 1), cs, sgn, sgn + Len(Field(1, cs)))
    <3>1. Leads(d, p, n, <<3, 1, 2>>, sgn, SignPart(b))
      BY <1>5 DEF IsPlace
    <3>2. Field(2, b.signature) \in Bytes
      BY <1>1, FieldShape
    <3> QED BY <1>1, <3>1, <3>2, FirstPlace
  <2>2. Append(<<3, 1, 2>>, 1) = <<3, 1, 2, 1>>
    BY MetadataPaths
  <2> QED BY <2>1, <2>2 DEF HasPlace
<1>7. PICK y \in Nat :
        IsPlace(d, p, n, <<3, 1, 2, 1, 1>>, id, y, cre, cre + Len(Field(1, id)))
  <2>1. HasPlace(d, p, n, Append(<<3, 1, 2, 1>>, 1), id, cre, cre + Len(Field(1, id)))
    BY <1>1, <1>6, FirstPlace DEF IsPlace
  <2>2. Append(<<3, 1, 2, 1>>, 1) = <<3, 1, 2, 1, 1>>
    BY MetadataPaths
  <2> QED BY <2>1, <2>2 DEF HasPlace
<1>8. PICK z \in Nat :
        IsPlace(d, p, n, <<3, 1, 2, 2>>, b.signature, z,
                sgn + Len(Field(1, cs)), sgn + Len(SignPart(b)))
  <2>1. HasPlace(d, p, n, Append(<<3, 1, 2>>, 2), b.signature,
                 sgn + Len(Field(1, cs)), sgn + Len(SignPart(b)))
    <3>1. Leads(d, p, n, <<3, 1, 2>>, sgn, SignPart(b))
      BY <1>5 DEF IsPlace
    <3>2. 2 # 1 /\ 2 \in Nat
      OBVIOUS
    <3> QED BY <1>1, <3>1, <3>2, SecondPlace
  <2>2. Append(<<3, 1, 2>>, 2) = <<3, 1, 2, 2>>
    BY MetadataPaths
  <2> QED BY <2>1, <2>2 DEF HasPlace
<1>9. PICK i, k, l, o, u, v, w, x \in Nat :
        /\ i = Len(id) /\ k = Len(Field(1, id)) /\ l = Len(Field(1, cs)) /\ o = Len(b.signature)
        /\ u = Len(SignPart(b)) /\ v = Len(SignedPart(b)) /\ w = Len(Field(1, <<11>>))
        /\ x = Len(Field(1, SignedPart(b)))
  BY <1>1, FieldShape, BytesShape
<1>10. k <= Len(cs) /\ Len(cs) \in Nat
  <2>1. Len(cs) = Len(Field(1, id)) + Len(Field(2, <<7>>))
    BY <1>1, FieldShape, BytesConcat
  <2>2. Len(Field(2, <<7>>)) \in Nat
    BY <1>1, BytesShape
  <2> QED BY <1>9, <2>1, <2>2
<1>11. PICK q \in Nat, m \in Nat, h \in Nat :
         q = Len(cs) /\ k <= q /\ m = Len(Metadata(b)) /\ x <= m /\ h = Len(Field(1, <<12>>))
  <2>1. Len(Metadata(b)) = Len(Field(1, SignedPart(b))) + Len(Field(1, <<12>>))
    BY <1>1, FieldShape, BytesConcat
  <2>2. Len(Field(1, <<12>>)) \in Nat
    BY <1>1, BytesShape
  <2>3. PICK q, h \in Nat : q = Len(cs) /\ h = Len(Field(1, <<12>>)) /\ k <= q
    BY <1>10, <2>2
  <2>4. Len(Metadata(b)) = x + h
    BY <1>9, <2>1, <2>3
  <2>5. x + h \in Nat /\ x <= x + h
    <3>1. \A a, c \in Nat : a + c \in Nat /\ a <= a + c
      OBVIOUS
    <3>2. x \in Nat /\ h \in Nat
      BY <1>9, <2>3
    <3> QED BY <3>1, <3>2, Zenon
  <2> QED BY <2>3, <2>4, <2>5
<1>12. /\ p < met /\ met + m = p + n
       /\ met < sgd /\ sgd + v = met + x
       /\ sgd + w < sgn /\ sgn + u = sgd + v
       /\ sgn < cre /\ cre + q = sgn + l
       /\ cre < y /\ y + i = cre + k
       /\ sgn + l < z /\ z + o = sgn + u
  BY <1>3, <1>4, <1>5, <1>6, <1>7, <1>8, <1>9, <1>11 DEF IsPlace
<1>13. p <= y /\ y + i <= z /\ z + o <= p + n
  <2>1. p <= y
    BY <1>12
  <2>2. y + i <= z
    <3>1. cre + k <= cre + q
      BY <1>11
    <3>2. y + i <= sgn + l
      BY <1>12, <3>1
    <3> QED BY <1>12, <3>2
  <2>3. z + o <= p + n
    <3>1. z + o = met + x
      BY <1>12
    <3> QED BY <1>0, <1>11, <1>12, <3>1
  <2> QED BY <2>1, <2>2, <2>3
<1>14. MetaPlaces(d, p, n, b, y, z)
  BY <1>7, <1>8, <1>9, <1>13 DEF IsPlace, MetaPlaces, id
<1> QED BY <1>14 DEF MetaPlacesKnown

\* The two annotations.
MetaAnnotations(A, p, b, y, z) ==
  /\ A \in Seq(Annotations) /\ Len(A) = 2
  /\ A[1] = Annotation("ORDERER_CA", y - p, Len(IdOf(b.orderer)))
  /\ A[2] = Annotation("ORDERER_SIG", z - p, Len(b.signature))

\* They are what the code makes of the message.
LEMMA MetaAnnotationsMade ==
  ASSUME NEW d, NEW p \in Nat, NEW n \in Nat, NEW b \in Blocks, NEW y, NEW z,
         y \in Nat, z \in Nat, MetaPlaces(d, p, n, b, y, z)
  PROVE  MetaAnnotations(GenerateBlockMetaAnnotation(p, n, d), p, b, y, z)
<1> DEFINE at(i) == ProtoGetFieldPos(d, p, n, MetadataAnnotations[i].path)
           f == [i \in 1..2 |-> Annotation(MetadataAnnotations[i].type, at(i).pos - p, at(i).len)]
<1>1. GenerateBlockMetaAnnotation(p, n, d) = f
  <2>1. DOMAIN MetadataAnnotations = 1..2
    BY DEF MetadataAnnotations
  <2> QED BY <2>1, Zenon DEF GenerateBlockMetaAnnotation, GenerateAnnotations
<1>2. /\ MetadataAnnotations[1] = [type |-> "ORDERER_CA", path |-> <<3, 1, 2, 1, 1>>]
      /\ MetadataAnnotations[2] = [type |-> "ORDERER_SIG", path |-> <<3, 1, 2, 2>>]
  BY DEF MetadataAnnotations
<1>3. /\ at(1) = [pos |-> y, len |-> Len(IdOf(b.orderer))]
      /\ at(2) = [pos |-> z, len |-> Len(b.signature)]
  BY <1>2 DEF MetaPlaces, Leads
<1> HIDE DEF at
<1>4. /\ f[1] = Annotation("ORDERER_CA", y - p, Len(IdOf(b.orderer)))
      /\ f[2] = Annotation("ORDERER_SIG", z - p, Len(b.signature))
  <2>1. MetadataAnnotations[1].type = "ORDERER_CA" /\ MetadataAnnotations[2].type = "ORDERER_SIG"
    BY <1>2
  <2>2. /\ at(1).pos = y /\ at(1).len = Len(IdOf(b.orderer))
        /\ at(2).pos = z /\ at(2).len = Len(b.signature)
    BY <1>3
  <2>3. /\ f[1] = Annotation(MetadataAnnotations[1].type, at(1).pos - p, at(1).len)
        /\ f[2] = Annotation(MetadataAnnotations[2].type, at(2).pos - p, at(2).len)
    OBVIOUS
  <2> QED BY <2>1, <2>2, <2>3
<1>5. f[1] \in Annotations /\ f[2] \in Annotations
  <2>1. "ORDERER_CA" \in Types /\ "ORDERER_SIG" \in Types
    BY DEF Types, Locators, Named
  <2>2. Len(IdOf(b.orderer)) \in Int /\ Len(b.signature) \in Int /\ y - p \in Int /\ z - p \in Int
    <3>1. Len(IdOf(b.orderer)) \in Nat /\ Len(b.signature) \in Nat
      BY MetadataShape, BytesShape
    <3> QED BY <3>1
  <2> QED BY <1>4, <2>1, <2>2, AnnotationMade
<1>6. f \in [1..2 -> Annotations]
  BY <1>5
<1> HIDE DEF f
<1>7. f \in Seq(Annotations) /\ Len(f) = 2
  <2>1. 2 \in Nat
    OBVIOUS
  <2> QED BY <1>6, <2>1, FunctionIsSeq
<1> QED BY <1>1, <1>4, <1>7 DEF MetaAnnotations

\* The certificate is cut out, and then comes the signature.
LEMMA MetadataPacked ==
  ASSUME NEW d \in Bytes, NEW p \in Nat, NEW n \in Positions, NEW b \in Blocks,
         NEW y \in Nat, NEW z \in Nat, MetaPlaces(d, p, n, b, y, z),
         NEW A, MetaAnnotations(A, p, b, y, z)
  PROVE  \E cut : /\ Cuts(p, n, A, cut) /\ Pointed(d, p, n, A, cut, 2, b.signature)
                  /\ Cached(b.orderer) => Restorable(d, p, A)
<1> DEFINE id == IdOf(b.orderer)
           cut == [i \in 0..2 |-> IF i = 0 THEN p ELSE y + Len(id)]
<1>1. /\ n \in Nat /\ Len(id) \in Nat /\ Len(b.signature) \in Nat
      /\ id \in Bytes /\ b.signature \in Bytes
  <2>1. n \in Nat
    BY PositionsAreNumbers
  <2>2. id \in Bytes /\ b.signature \in Bytes
    BY MetadataShape, Zenon
  <2> QED BY <2>1, <2>2, BytesShape, Zenon
<1>2. /\ p <= y /\ y + Len(id) <= z /\ z + Len(b.signature) <= p + n
      /\ At(d, y, id) /\ At(d, z, b.signature)
  BY DEF MetaPlaces, Leads
<1> HIDE DEF id
<1>3. PICK i, j \in Nat : i = Len(id) /\ j = Len(b.signature)
  BY <1>1
<1>4. p <= y /\ y + i <= z /\ z + j <= p + n
  BY <1>2, <1>3
<1>5. y + i <= p + n /\ p <= z
  BY <1>1, <1>4
<1>6. Exact("ORDERER_CA", p, y, i) /\ Exact("ORDERER_SIG", p, z, j)
  <2>1. Fitted(p, n, y, i) /\ Fitted(p, n, z, j)
    BY <1>4, <1>5 DEF Fitted
  <2> QED BY <2>1, AnnotationExact
<1>7. /\ A[1] = [type |-> "ORDERER_CA", offset |-> y - p, desc |-> i]
      /\ A[2] = [type |-> "ORDERER_SIG", offset |-> z - p, desc |-> j]
  BY <1>3, <1>6, Zenon DEF Exact, MetaAnnotations, id
<1>8. /\ A[1].type \in Locators /\ p + A[1].offset = y /\ A[1].desc = i
      /\ A[2].type \notin Locators /\ A[2].type \in Named /\ A[2].offset = z - p /\ A[2].desc = j
  <2>1. /\ A[1].type = "ORDERER_CA" /\ A[1].offset = y - p /\ A[1].desc = i
        /\ A[2].type = "ORDERER_SIG" /\ A[2].offset = z - p /\ A[2].desc = j
    BY <1>7
  <2>2. p + (y - p) = y
    OBVIOUS
  <2>3. "ORDERER_CA" \in Locators /\ "ORDERER_SIG" \notin Locators /\ "ORDERER_SIG" \in Named
    BY DEF Locators, Named
  <2> QED BY <2>1, <2>2, <2>3
<1>9. Len(A) = 2 /\ A \in Seq(Annotations)
  BY DEF MetaAnnotations
<1>10. cut \in [0..2 -> Nat] /\ cut[0] = p /\ cut[1] = y + i /\ cut[2] = y + i
  BY <1>3
<1> HIDE DEF cut
<1>11. Cuts(p, n, A, cut)
  <2>1. ASSUME NEW k \in 1..2
        PROVE  IF A[k].type \in Locators
               THEN cut[k - 1] <= p + A[k].offset /\ cut[k] = p + A[k].offset + A[k].desc
               ELSE cut[k] = cut[k - 1]
    <3>1. CASE k = 1
      <4>1. cut[k - 1] = p /\ cut[k] = y + i
        BY <1>10, <3>1
      <4> QED BY <1>4, <1>8, <3>1, <4>1
    <3>2. CASE k = 2
      <4>1. cut[k] = cut[k - 1]
        BY <1>10, <3>2
      <4> QED BY <1>8, <3>2, <4>1
    <3> QED BY <3>1, <3>2
  <2> QED BY <1>5, <1>9, <1>10, <2>1 DEF Cuts
<1>12. Between(d, p, n, A, cut, 1, z, b.signature)
  <2>1. 1 \in 0..Len(A) /\ cut[1] <= z /\ z + Len(b.signature) <= p + n
    BY <1>3, <1>4, <1>9, <1>10
  <2>2. ASSUME NEW k \in 1 + 1..Len(A) PROVE A[k].type \notin Locators
    <3>1. k = 2
      BY <1>9
    <3> QED BY <1>8, <3>1
  <2> QED BY <1>1, <1>2, <2>1, <2>2 DEF Between
<1>13. Pointed(d, p, n, A, cut, 2, b.signature)
  <2>1. 2 - 1 = 1
    OBVIOUS
  <2> QED BY <1>3, <1>8, <1>12, <2>1 DEF Pointed
<1>14. Cached(b.orderer) => Restorable(d, p, A)
  <2> SUFFICES ASSUME Cached(b.orderer), NEW k \in 1..2, A[k].type \in Locators
               PROVE  Slice(d, p + A[k].offset, p + A[k].offset + A[k].desc) = id
    <3>1. Cached(b.orderer) => GetCertificateId(id) \in Positions /\ idCache[GetCertificateId(id)] = id
      BY DEF Cached, id
    <3> QED BY <1>9, <3>1, Zenon DEF Restorable
  <2>1. k = 1
    BY <1>8
  <2>2. Slice(d, y, y + i) = id
    BY <1>1, <1>2, <1>3, SliceAt
  <2> QED BY <1>8, <2>1, <2>2
<1> QED BY <1>11, <1>13, <1>14

\* What the card can do with the packet of the metadata.
MetaAnnotationHits(a, g, b) ==
  /\ a.type = "ORDERER_SIG" => Hits(a, g, b.signature)
  /\ a.type \notin {"BLOCK_ID", "CHAINCODE_NAME", "RW_SET", "TX_SIG", "ENDORSER"}
MetaSent(packet, b) ==
  /\ \E l \in Nat : DOMAIN packet.annotations = 1..l
  /\ \A a \in Range(packet.annotations) : MetaAnnotationHits(a, packet.payload, b)
  /\ Cached(b.orderer) => Expand(packet) = Field(3, Metadata(b))

\* It can check it and put it together again.
LEMMA MetadataSent ==
  ASSUME CertificateIds, NEW d \in Bytes, NEW p \in Nat, NEW n \in Positions, NEW b \in Blocks,
         n = Len(Field(3, Metadata(b))), At(d, p, Field(3, Metadata(b)))
  PROVE  MetaSent(SendBlockMeta(d, p, n), b)
<1> DEFINE A == GenerateBlockMetaAnnotation(p, n, d)
           Q == AdjustDataBasedOnLocator(d, p, n, A)
<1>1. n \in Nat /\ p + n <= Len(d)
  <2>1. n \in Nat
    BY PositionsAreNumbers
  <2> QED BY <2>1 DEF At
<1>2. PICK y \in Nat, z \in Nat : MetaPlaces(d, p, n, b, y, z)
  BY MetaPlacesExist DEF MetaPlacesKnown
<1>3. MetaAnnotations(A, p, b, y, z)
  BY <1>1, <1>2, MetaAnnotationsMade
<1> HIDE DEF A
<1>4. PICK cut : /\ Cuts(p, n, A, cut) /\ Pointed(d, p, n, A, cut, 2, b.signature)
                 /\ Cached(b.orderer) => Restorable(d, p, A)
  BY <1>2, <1>3, MetadataPacked
<1>5. A \in Seq(Annotations) /\ Len(A) = 2 /\ A[1].type = "ORDERER_CA" /\ A[2].type = "ORDERER_SIG"
  <2>1. \A type, o, l : Annotation(type, o, l).type = type
    BY DEF Annotation
  <2> QED BY <1>3, <2>1 DEF MetaAnnotations
<1>6. PICK r : /\ Adjusts(d, p, A, r)
               /\ Q = [annotations |-> r[Len(A)].list,
                       payload     |-> r[Len(A)].out \o Slice(d, r[Len(A)].start, p + n)]
  <2>1. AdjustsTo(d, p, n, A, Q)
    BY <1>5, AdjustSteps
  <2> HIDE DEF Q
  <2> QED BY <2>1, Zenon DEF AdjustsTo
<1> DEFINE L == r[Len(A)].list
           P == Payload(d, p, n, A, r)
<1>7. Q.annotations = L /\ Q.payload = P
  <2>1. Q = [annotations |-> L, payload |-> P]
    BY <1>6, Zenon DEF Payload
  <2> HIDE DEF Q, L, P
  <2> QED BY <2>1
<1>8. Kept(A, L)
  BY <1>1, <1>4, <1>5, <1>6, AnnotationKept
<1> HIDE DEF L, P, Q
<1>9. DOMAIN L = 1..2 /\ L[1].type = "ORDERER_CA" /\ L[2].type = "ORDERER_SIG"
  BY <1>5, <1>8 DEF Kept
<1>10. Hits(L[2], P, b.signature)
  <2>1. 2 \in 1..Len(A)
    BY <1>5
  <2> QED BY <1>1, <1>4, <1>5, <1>6, <2>1, AnnotationHits DEF L, P
<1>11. \A a \in Range(Q.annotations) : MetaAnnotationHits(a, Q.payload, b)
  <2>1. \A k \in 1..2 : k = 1 \/ k = 2
    OBVIOUS
  <2>2. MetaAnnotationHits(L[1], P, b) /\ MetaAnnotationHits(L[2], P, b)
    BY <1>9, <1>10 DEF MetaAnnotationHits
  <2> QED BY <1>7, <1>9, <2>1, <2>2, Zenon DEF Range
<1>12. Cached(b.orderer) => Expand(Q) = Field(3, Metadata(b))
  <2> SUFFICES ASSUME Cached(b.orderer) PROVE Expand(Q) = Field(3, Metadata(b))
    OBVIOUS
  <2>1. Restorable(d, p, A)
    BY <1>4
  <2>2. Expand(Q) = Slice(d, p, p + n)
    <3>1. n \in Positions
      OBVIOUS
    <3> QED BY <1>1, <1>4, <1>5, <2>1, <3>1, CertificatesRestored, Zenon DEF Q
  <2>3. Field(3, Metadata(b)) \in Bytes
    BY MetadataShape
  <2>4. Slice(d, p, p + n) = Field(3, Metadata(b))
    BY <2>3, SliceAt
  <2> QED BY <2>2, <2>4
<1>13. 2 \in Nat /\ DOMAIN Q.annotations = 1..2
  BY <1>7, <1>9
<1>14. MetaSent(Q, b)
  BY <1>11, <1>12, <1>13 DEF MetaSent
<1> QED BY <1>14, Zenon DEF SendBlockMeta, A, Q

-----------------------------------------------------------------------------
(* The parts of a block.                                                   *)

BlockHead(b) == VarintField(1, b.number) \o Field(2, <<13>>) \o Field(3, <<14>>)
TxFields(b) == [i \in DOMAIN b.txs |-> Field(1, Envelope(b.txs[i]))]
BlockBody(b) == FlattenSeq(TxFields(b))

\* A field of one byte takes three.
LEMMA OneByteField ==
  ASSUME NEW f \in FieldNumbers, NEW k \in Byte
  PROVE  Field(f, <<k>>) \in Bytes /\ Len(Field(f, <<k>>)) = 3
<1>1. <<k>> \in Bytes /\ Len(<<k>>) = 1
  BY OneByte
<1>2. Varint(1) = <<1>>
  <2>1. 1 \in Nat /\ 1 < 128
    OBVIOUS
  <2> QED BY <2>1, VarintSteps
<1> DEFINE w == <<k>>
<1>3. w \in Bytes /\ Len(w) = 1
  BY <1>1
<1> HIDE DEF w
<1>4. HeadSize(w) = 2
  <2>1. Len(<<1>>) = 1
    OBVIOUS
  <2>2. Len(Varint(Len(w))) = 1
    BY <1>2, <1>3, <2>1, Zenon
  <2>3. 1 + 1 = 2
    OBVIOUS
  <2> QED BY <2>2, <2>3, Zenon DEF HeadSize
<1>5. Field(f, w) \in Bytes /\ Len(Field(f, w)) = 3
  <2>1. Field(f, w) \in Bytes /\ Len(Field(f, w)) = HeadSize(w) + Len(w)
    BY <1>3, FieldShape
  <2>2. 2 + 1 = 3
    OBVIOUS
  <2> QED BY <1>3, <1>4, <2>1, <2>2, Zenon
<1> QED BY <1>5 DEF w

\* The header of a block, whose length takes one byte.
LEMMA BlockHeadShape ==
  ASSUME NEW b \in Blocks
  PROVE  /\ VarintField(1, b.number) \in Bytes /\ Varint(b.number) \in Bytes
         /\ Len(Varint(b.number)) \in 0..10
         /\ Len(VarintField(1, b.number)) = 1 + Len(Varint(b.number))
         /\ BlockHead(b) \in Bytes /\ Len(BlockHead(b)) = 7 + Len(Varint(b.number))
         /\ HeadSize(BlockHead(b)) = 2
<1> DEFINE v == Varint(b.number)
           u == VarintField(1, b.number)
<1>1. v \in Bytes /\ Len(v) \in Nat /\ Len(v) <= 10
  <2>1. b.number \in Nat /\ Len(v) <= 10
    BY BlockShape
  <2>2. v \in Bytes
    BY <2>1, VarintSteps
  <2> QED BY <2>1, <2>2, BytesShape
<1>2. u \in Bytes /\ Len(u) = 1 + Len(v)
  <2>1. <<8>> \in Bytes /\ Len(<<8>>) = 1
    BY OneByte DEF Byte
  <2>2. u = <<8>> \o v
    BY DEF VarintField
  <2> HIDE DEF u, v
  <2> QED BY <1>1, <2>1, <2>2, BytesConcat
<1> HIDE DEF u, v
<1> DEFINE f == Field(2, <<13>>)
           g == Field(3, <<14>>)
<1>3. f \in Bytes /\ Len(f) = 3 /\ g \in Bytes /\ Len(g) = 3
  <2>1. 2 \in FieldNumbers /\ 3 \in FieldNumbers /\ 13 \in Byte /\ 14 \in Byte
    BY DEF FieldNumbers, Byte
  <2> QED BY <2>1, OneByteField
<1>4. BlockHead(b) = (u \o f) \o g
  BY DEF BlockHead, u
<1> HIDE DEF f, g
<1>5. BlockHead(b) \in Bytes /\ Len(BlockHead(b)) = 7 + Len(v)
  <2>1. u \o f \in Bytes /\ Len(u \o f) = 1 + Len(v) + 3
    BY <1>1, <1>2, <1>3, BytesConcat
  <2>2. (u \o f) \o g \in Bytes /\ Len((u \o f) \o g) = (1 + Len(v) + 3) + 3
    BY <1>3, <2>1, BytesConcat
  <2> QED BY <1>1, <1>4, <2>2
<1>6. HeadSize(BlockHead(b)) = 2
  <2> DEFINE k == Len(BlockHead(b))
  <2>1. \A l \in Nat : l <= 10 => 7 + l \in Nat /\ 7 + l < 128 /\ 7 + l \in Byte
    BY DEF Byte
  <2>2. k = 7 + Len(v)
    BY <1>5
  <2> HIDE DEF k
  <2>3. k \in Nat /\ k < 128 /\ k \in Byte
    BY <1>1, <2>1, <2>2, Zenon
  <2>4. Varint(k) = <<k>>
    BY <2>3, VarintSteps
  <2>5. Len(Varint(k)) = 1
    BY <2>3, <2>4, OneByte
  <2> QED BY <2>5 DEF HeadSize, k
<1>7. Len(v) \in 0..10
  <2>1. \A l \in Nat : l <= 10 => l \in 0..10
    OBVIOUS
  <2> QED BY <1>1, <2>1, Zenon
<1> QED BY <1>1, <1>2, <1>5, <1>6, <1>7 DEF u, v

\* All of its parts are bytes.
LEMMA BlockPartsShape ==
  ASSUME NEW b \in Blocks
  PROVE  /\ 1 \in FieldNumbers /\ 2 \in FieldNumbers /\ 3 \in FieldNumbers
         /\ Len(b.txs) \in Nat /\ DOMAIN b.txs = 1..Len(b.txs)
         /\ \A i \in 1..Len(b.txs) : b.txs[i] \in Transaction
         /\ TxFields(b) \in Seq(Bytes) /\ Len(TxFields(b)) = Len(b.txs)
         /\ \A i \in 1..Len(b.txs) :
              /\ TxFields(b)[i] = Field(1, Envelope(b.txs[i])) /\ Envelope(b.txs[i]) \in Bytes
              /\ Len(TxFields(b)[i]) \in Nat /\ Len(TxFields(b)[i]) > 0
         /\ BlockBody(b) \in Bytes
         /\ Metadata(b) \in Bytes /\ Field(3, Metadata(b)) \in Bytes
         /\ Field(1, BlockHead(b)) \in Bytes /\ Field(2, BlockBody(b)) \in Bytes
         /\ Field(1, BlockHead(b)) \o Field(2, BlockBody(b)) \in Bytes
         /\ Marshal(b) \in Bytes
         /\ Marshal(b) = (Field(1, BlockHead(b)) \o Field(2, BlockBody(b))) \o Field(3, Metadata(b))
<1>1. 1 \in FieldNumbers /\ 2 \in FieldNumbers /\ 3 \in FieldNumbers
  BY DEF FieldNumbers
<1>2. /\ b.txs \in Seq(Transaction) /\ Len(b.txs) \in Nat /\ DOMAIN b.txs = 1..Len(b.txs)
      /\ \A i \in 1..Len(b.txs) : b.txs[i] \in Transaction
  BY BlockShape
<1>3. \A i \in 1..Len(b.txs) :
        /\ Envelope(b.txs[i]) \in Bytes
        /\ Field(1, Envelope(b.txs[i])) \in Bytes
        /\ Len(Field(1, Envelope(b.txs[i]))) \in Nat /\ Len(Field(1, Envelope(b.txs[i]))) > 0
  <2> TAKE i \in 1..Len(b.txs)
  <2>1. Envelope(b.txs[i]) \in Bytes
    BY <1>2, PartsShape
  <2> QED BY <1>1, <2>1, FieldShape
<1>4. TxFields(b) = [i \in 1..Len(b.txs) |-> Field(1, Envelope(b.txs[i]))]
  BY <1>2 DEF TxFields
<1>5. TxFields(b) \in Seq(Bytes) /\ Len(TxFields(b)) = Len(b.txs)
  <2>1. TxFields(b) \in [1..Len(b.txs) -> Bytes]
    BY <1>3, <1>4
  <2> QED BY <1>2, <2>1, FunctionIsSeq
<1>6. \A i \in 1..Len(b.txs) :
        /\ TxFields(b)[i] = Field(1, Envelope(b.txs[i])) /\ Envelope(b.txs[i]) \in Bytes
        /\ Len(TxFields(b)[i]) \in Nat /\ Len(TxFields(b)[i]) > 0
  BY <1>3, <1>4
<1>7. BlockBody(b) \in Bytes
  BY <1>5, FlatBytes DEF BlockBody
<1>8. Metadata(b) \in Bytes /\ Field(3, Metadata(b)) \in Bytes
  BY MetadataShape
<1>9. Field(1, BlockHead(b)) \in Bytes /\ Field(2, BlockBody(b)) \in Bytes
  <2>1. BlockHead(b) \in Bytes
    BY BlockHeadShape
  <2> QED BY <1>1, <1>7, <2>1, FieldShape
<1>10. Field(1, BlockHead(b)) \o Field(2, BlockBody(b)) \in Bytes
  BY <1>9, BytesConcat
<1>11. Marshal(b) = (Field(1, BlockHead(b)) \o Field(2, BlockBody(b))) \o Field(3, Metadata(b))
  BY DEF Marshal, BlockHead, BlockBody, TxFields
<1>12. Marshal(b) \in Bytes
  BY <1>8, <1>10, <1>11, BytesConcat
<1> QED BY <1>1, <1>2, <1>5, <1>6, <1>7, <1>8, <1>9, <1>10, <1>11, <1>12

\* Where the parts of a block d are, as the code reads it: the second field starts at h and
\* its content at p, the third field starts at e and takes n bytes, up to the end.
BlockPlaces(d, b, h, p, e, n) ==
  /\ h \in Nat /\ p \in Nat /\ e \in Nat /\ n \in Nat
  /\ LET header == ProtoGetFieldLength(d, 0)
         body   == ProtoGetFieldLength(d, h)
         meta   == ProtoGetFieldLength(d, e)
     IN  /\ header.pos = 2 /\ header.len = Len(BlockHead(b)) /\ header.pos + header.len = h
         /\ body.pos = p /\ body.pos + body.len = e
         /\ meta.pos + meta.len - e = n
  /\ h <= p /\ p + Len(BlockBody(b)) = e /\ e + n = Len(d) /\ n = Len(Field(3, Metadata(b)))
  /\ At(d, 2, BlockHead(b)) /\ At(d, p, BlockBody(b)) /\ At(d, e, Field(3, Metadata(b)))
BlockPlacesKnown(d, b) == \E h, p, e, n \in Nat : BlockPlaces(d, b, h, p, e, n)

\* It finds them all.
LEMMA BlockRead ==
  ASSUME NEW b \in Blocks
  PROVE  BlockPlacesKnown(Marshal(b), b)
<1> DEFINE d == Marshal(b)
           u == BlockHead(b)
           v == BlockBody(b)
           w == Metadata(b)
           fu == Field(1, u)
           fv == Field(2, v)
           fw == Field(3, w)
<1>1. /\ u \in Bytes /\ v \in Bytes /\ w \in Bytes /\ d \in Bytes
      /\ fu \in Bytes /\ fv \in Bytes /\ fw \in Bytes /\ fu \o fv \in Bytes
      /\ 1 \in FieldNumbers /\ 2 \in FieldNumbers /\ 3 \in FieldNumbers
      /\ d = (fu \o fv) \o fw /\ HeadSize(u) = 2
  BY BlockHeadShape, BlockPartsShape
<1>2. /\ Len(fu) = 2 + Len(u) /\ Len(fv) = HeadSize(v) + Len(v) /\ Len(fw) = HeadSize(w) + Len(w)
      /\ Len(u) \in Nat /\ Len(v) \in Nat /\ Len(w) \in Nat /\ HeadSize(v) \in Nat /\ HeadSize(w) \in Nat
      /\ Len(fu) \in Nat /\ Len(fv) \in Nat /\ Len(fw) \in Nat
  BY <1>1, FieldShape
<1> HIDE DEF d, u, v, w, fu, fv, fw
<1>3. /\ At(d, 0, fu) /\ At(d, Len(fu), fv) /\ At(d, Len(fu) + Len(fv), fw)
      /\ Len(d) = Len(fu) + Len(fv) + Len(fw)
  <2>1. At(d, 0, (fu \o fv) \o fw)
    BY <1>1, AtWhole
  <2>2. At(d, 0, fu \o fv) /\ At(d, 0 + Len(fu \o fv), fw)
    BY <1>1, <2>1, AtConcat
  <2>3. At(d, 0, fu) /\ At(d, 0 + Len(fu), fv)
    BY <1>1, <2>2, AtConcat
  <2>4. Len(fu \o fv) = Len(fu) + Len(fv) /\ Len(d) = Len(fu \o fv) + Len(fw)
    BY <1>1, BytesConcat
  <2>5. \A i \in Nat : 0 + i = i
    OBVIOUS
  <2>6. Len(fu) + Len(fv) \in Nat
    BY <1>2
  <2> QED BY <1>2, <2>2, <2>3, <2>4, <2>5, <2>6, Zenon
<1>4. PICK h \in Nat : h = Len(fu)
  BY <1>2
<1>5. PICK e \in Nat : e = h + Len(fv)
  BY <1>2, <1>4
<1>6. PICK p \in Nat : p = h + HeadSize(v)
  BY <1>2, <1>4
<1>7. PICK n \in Nat : n = Len(fw)
  BY <1>2
<1>8. At(d, 0, fu) /\ At(d, h, fv) /\ At(d, e, fw)
  BY <1>3, <1>4, <1>5
<1>9. /\ ProtoGetFieldLength(d, 0).pos = 2 /\ ProtoGetFieldLength(d, 0).len = Len(u)
      /\ At(d, 2, u)
  <2>1. /\ ProtoGetFieldLength(d, 0) = [field |-> 1, len |-> Len(u), pos |-> 0 + HeadSize(u)]
        /\ At(d, 0 + HeadSize(u), u)
    BY <1>1, <1>8, GetFieldReads DEF fu
  <2>2. 0 + 2 = 2
    OBVIOUS
  <2>3. ProtoGetFieldLength(d, 0) = [field |-> 1, len |-> Len(u), pos |-> 2] /\ At(d, 2, u)
    BY <1>1, <2>1, <2>2, Zenon
  <2> QED BY <2>3
<1>10. /\ ProtoGetFieldLength(d, h).pos = p /\ ProtoGetFieldLength(d, h).len = Len(v)
       /\ At(d, p, v)
  <2>1. /\ ProtoGetFieldLength(d, h) = [field |-> 2, len |-> Len(v), pos |-> h + HeadSize(v)]
        /\ At(d, h + HeadSize(v), v)
    BY <1>1, <1>8, GetFieldReads DEF fv
  <2>2. ProtoGetFieldLength(d, h) = [field |-> 2, len |-> Len(v), pos |-> p] /\ At(d, p, v)
    BY <1>6, <2>1
  <2> QED BY <2>2
<1>11. ProtoGetFieldLength(d, e).pos = e + HeadSize(w) /\ ProtoGetFieldLength(d, e).len = Len(w)
  <2>1. ProtoGetFieldLength(d, e) = [field |-> 3, len |-> Len(w), pos |-> e + HeadSize(w)]
    BY <1>1, <1>8, GetFieldReads DEF fw
  <2> QED BY <2>1
<1>12. /\ 2 + Len(u) = h /\ p + Len(v) = e /\ (e + HeadSize(w)) + Len(w) - e = n
       /\ h <= p /\ e + n = Len(d)
  <2>1. \A i, j, k \in Nat : (i + j) + k = i + (j + k) /\ (i + j) + k - i = j + k /\ i <= i + j
    OBVIOUS
  <2>2. 2 + Len(u) = h /\ e + n = Len(d)
    BY <1>2, <1>3, <1>4, <1>5, <1>7, Zenon
  <2>3. p + Len(v) = e
    <3>1. PICK i, j \in Nat : i = HeadSize(v) /\ j = Len(v)
      BY <1>2
    <3>2. e = h + (i + j) /\ p = h + i
      BY <1>2, <1>5, <1>6, <3>1
    <3>3. p + j = e
      BY <3>2
    <3> QED BY <3>1, <3>3
  <2>4. (e + HeadSize(w)) + Len(w) - e = n
    <3>1. PICK i, j \in Nat : i = HeadSize(w) /\ j = Len(w)
      BY <1>2
    <3>2. (e + i) + j - e = i + j
      BY <2>1
    <3>3. n = i + j
      BY <1>2, <1>7, <3>1
    <3> QED BY <3>1, <3>2, <3>3
  <2>5. h <= p
    BY <1>2, <1>6, <2>1, Zenon
  <2> QED BY <2>2, <2>3, <2>4, <2>5
<1>13. BlockPlaces(d, b, h, p, e, n)
  BY <1>7, <1>8, <1>9, <1>10, <1>11, <1>12 DEF BlockPlaces, u, v, w, fw
<1>14. BlockPlacesKnown(d, b)
  BY <1>13, Zenon DEF BlockPlacesKnown
<1> QED BY <1>14 DEF d

-----------------------------------------------------------------------------
(* The transactions of a block.                                            *)

NextField(d, p) == ProtoGetFieldLength(d, p).pos + ProtoGetFieldLength(d, p).len
TxPlace == [pos : Nat, len : Int]

\* Fields are looked at one after the other, to the end.
ListsFrom(d, end, from) ==
  \A p \in Nat :
    from[p] = IF p >= end THEN <<>>
              ELSE <<[pos |-> p, len |-> NextField(d, p) - p]>> \o from[NextField(d, p)]
ListsTransactions(d, pos, end, list) == \E from : ListsFrom(d, end, from) /\ list = from[pos]

\* The loop is run to its end.
LEMMA TransactionSteps ==
  ASSUME NEW d \in Bytes, NEW pos \in Nat, NEW end \in Nat
  PROVE  ListsTransactions(d, pos, end, Transactions(d, pos, end))
<1> DEFINE R == Seq(TxPlace)
           Body(f, p) ==
             LET x    == ProtoGetFieldLength(d, p)
                 next == x.pos + x.len
             IN  IF p >= end THEN <<>> ELSE <<[pos |-> p, len |-> next - p]>> \o f[next]
           Unfolds(f) == f = [p \in Nat |-> Body(f, p)]
           G == [p \in Nat |-> [f \in [Nat -> R] |-> Body(f, p)]]
<1>1. ASSUME NEW p \in Nat
      PROVE  NextField(d, p) \in Nat /\ NextField(d, p) > p
  <2>1. ProtoGetFieldLength(d, p) \in ReadField /\ ProtoGetFieldLength(d, p).pos > p
    BY GetFieldProgress
  <2>2. ProtoGetFieldLength(d, p).pos \in Nat /\ ProtoGetFieldLength(d, p).len \in Nat
    BY <2>1 DEF ReadField
  <2> QED BY <2>1, <2>2 DEF NextField
<1>2. ASSUME NEW p, NEW f
      PROVE  Body(f, p) = IF p >= end THEN <<>>
                          ELSE <<[pos |-> p, len |-> NextField(d, p) - p]>> \o f[NextField(d, p)]
  BY Zenon DEF NextField
<1> HIDE DEF Body
<1>3. ASSUME NEW p \in Nat, NEW f \in [Nat -> R]
      PROVE  Body(f, p) \in R
  <2>1. PICK q \in Nat : q = NextField(d, p)
    BY <1>1
  <2>2. f[q] \in R /\ <<[pos |-> p, len |-> q - p]>> \in R /\ <<>> \in R
    <3>1. [pos |-> p, len |-> q - p] \in TxPlace
      BY DEF TxPlace
    <3> QED BY <3>1
  <2>3. <<[pos |-> p, len |-> q - p]>> \o f[q] \in R
    BY <2>2, ConcatProperties
  <2> HIDE DEF R
  <2> QED BY <1>2, <2>1, <2>2, <2>3
<1>4. <<>> \in R
  OBVIOUS
<1> HIDE DEF R
<1>5. G \in Equations(R)
  BY <1>3 DEF Equations
<1>6. ASSUME NEW i \in Nat, NEW f \in [Nat -> R], NEW g \in [Nat -> R],
             \A j \in Nat : i < j /\ i < end => f[j] = g[j]
      PROVE  G[i][f] = G[i][g]
  <2>1. Body(f, i) = Body(g, i)
    <3>1. CASE i >= end
      BY <1>2, <3>1
    <3>2. CASE ~(i >= end)
      <4>1. f[NextField(d, i)] = g[NextField(d, i)]
        BY <1>1, <1>6, <3>2
      <4> QED BY <1>2, <3>2, <4>1
    <3> QED BY <3>1, <3>2
  <2> QED BY <2>1
<1>7. PICK f \in [Nat -> R] : Solves(f, G)
  <2> HIDE DEF G
  <2> QED BY <1>4, <1>5, <1>6, DownwardRecursion
<1>8. Unfolds(f)
  <2>1. \A k \in Nat : f[k] = Body(f, k)
    BY <1>7 DEF Solves
  <2>2. f = [k \in Nat |-> f[k]]
    BY <1>7
  <2> QED BY <2>1, <2>2, Zenon
<1> DEFINE v == CHOOSE g : Unfolds(g)
<1>9. Unfolds(v)
  <2> HIDE DEF Unfolds
  <2> QED BY <1>8
<1>10. Transactions(d, pos, end) = v[pos]
  BY Zenon DEF Transactions, Body
<1> HIDE DEF v
<1>11. \A p \in Nat : v[p] = Body(v, p)
  BY <1>9, Zenon
<1>12. ListsFrom(d, end, v)
  BY <1>2, <1>11, Zenon DEF ListsFrom
<1> QED BY <1>10, <1>12, Zenon DEF ListsTransactions

\* A sequence with one element more at its start.
LEMMA PrependNext ==
  ASSUME NEW S, NEW m \in Nat, NEW f \in [1..m + 1 -> S]
  PROVE  <<f[1]>> \o [j \in 1..m |-> f[1 + j]] = f
<1> DEFINE u == <<f[1]>>
           v == [j \in 1..m |-> f[1 + j]]
<1>1. m + 1 \in Nat /\ 1 \in 1..m + 1 /\ \A j \in 1..m : 1 + j \in 1..m + 1
  OBVIOUS
<1>2. f \in Seq(S) /\ Len(f) = m + 1
  BY <1>1, FunctionIsSeq
<1>3. u \in Seq(S) /\ Len(u) = 1 /\ u[1] = f[1]
  BY <1>1
<1>4. v \in Seq(S) /\ Len(v) = m /\ \A j \in 1..m : v[j] = f[1 + j]
  <2>1. v \in [1..m -> S]
    BY <1>1
  <2> QED BY <2>1, FunctionIsSeq
<1> HIDE DEF u, v
<1>5. /\ u \o v \in Seq(S) /\ Len(u \o v) = Len(u) + Len(v)
      /\ \A i \in 1..Len(u) + Len(v) : (u \o v)[i] = IF i <= Len(u) THEN u[i] ELSE v[i - Len(u)]
  BY <1>3, <1>4, ConcatProperties
<1>6. Len(u \o v) = m + 1 /\ \A i \in 1..m + 1 : (u \o v)[i] = f[i]
  <2>1. Len(u \o v) = m + 1
    BY <1>3, <1>4, <1>5
  <2> SUFFICES ASSUME NEW i \in 1..m + 1 PROVE (u \o v)[i] = f[i]
    BY <2>1
  <2>2. i \in 1..Len(u) + Len(v)
    BY <1>3, <1>4
  <2>3. CASE i = 1
    BY <1>3, <1>5, <2>2, <2>3
  <2>4. CASE i # 1
    <3>1. i - 1 \in 1..m /\ 1 + (i - 1) = i /\ ~(i <= 1)
      BY <2>4
    <3>2. v[i - 1] = f[i]
      BY <1>4, <3>1
    <3> QED BY <1>3, <1>5, <2>2, <3>1, <3>2
  <2> QED BY <2>3, <2>4
<1>7. u \o v = f
  BY <1>2, <1>5, <1>6, SeqEqual
<1> QED BY <1>7 DEF u, v

\* What it finds: one transaction after the other.
TxAt(b, s, i) == [pos |-> s[i - 1], len |-> Len(Field(1, Envelope(b.txs[i])))]
BlockTxs(b, s) == [i \in 1..Len(b.txs) |-> TxAt(b, s, i)]

\* getTransactions gives the place of every transaction of a block.
LEMMA TransactionsListed ==
  ASSUME NEW d \in Bytes, NEW p, NEW b \in Blocks, NEW s, LaidOut(d, p, TxFields(b), s),
         NEW end, end = s[Len(b.txs)]
  PROVE  Transactions(d, p, end) = BlockTxs(b, s)
<1> DEFINE n == Len(b.txs)
           E(i) == TxAt(b, s, i)
           rest(m) == [j \in 1..m |-> E(n - m + j)]
<1>1. /\ n \in Nat /\ Len(TxFields(b)) = n
      /\ \A i \in 1..n : /\ TxFields(b)[i] = Field(1, Envelope(b.txs[i])) /\ Envelope(b.txs[i]) \in Bytes
                         /\ Len(Field(1, Envelope(b.txs[i]))) \in Nat
                         /\ Len(Field(1, Envelope(b.txs[i]))) > 0
      /\ TxFields(b) \in Seq(Bytes) /\ 1 \in FieldNumbers
  BY BlockPartsShape
<1> HIDE DEF n
<1>2. /\ s \in [0..n -> Nat] /\ s[0] = p
      /\ \A i \in 1..n : /\ At(d, s[i - 1], Field(1, Envelope(b.txs[i])))
                         /\ s[i] = s[i - 1] + Len(Field(1, Envelope(b.txs[i])))
  BY <1>1, Zenon DEF LaidOut
<1>3. p \in Nat /\ end \in Nat /\ end = s[n] /\ \A i \in 0..n : s[i] \in Nat
  <2>1. 0 \in 0..n /\ n \in 0..n
    BY <1>1
  <2> QED BY <1>2, <2>1 DEF n
<1>4. \A i \in 0..n : i < n => s[i] < end
  <2>1. \A i \in 0..n : \A j \in 0..n : i < j => s[i] < s[j]
    <3>1. \A i \in 1..Len(TxFields(b)) : Len(TxFields(b)[i]) > 0
      BY <1>1
    <3> QED BY <1>1, <3>1, LaidOutInOrder
  <2>2. n \in 0..n
    BY <1>1
  <2> QED BY <1>3, <2>1, <2>2
<1>5. PICK from : ListsFrom(d, end, from) /\ Transactions(d, p, end) = from[p]
  BY <1>3, TransactionSteps, Zenon DEF ListsTransactions
<1>6. from[end] = <<>>
  <2>1. from[end] = IF end >= end THEN <<>>
                    ELSE <<[pos |-> end, len |-> NextField(d, end) - end]>> \o from[NextField(d, end)]
    BY <1>3, <1>5 DEF ListsFrom
  <2>2. end >= end
    BY <1>3
  <2> QED BY <2>1, <2>2
<1>7. ASSUME NEW i \in 1..n
      PROVE  /\ E(i) \in TxPlace
             /\ from[s[i - 1]] = <<E(i)>> \o from[s[i]]
  <2> DEFINE w == Envelope(b.txs[i])
             l == Len(Field(1, w))
             q == s[i - 1]
  <2>1. i - 1 \in 0..n /\ i - 1 < n
    BY <1>1
  <2>2. q \in Nat /\ w \in Bytes /\ l \in Nat /\ At(d, q, Field(1, w)) /\ s[i] = q + l
    BY <1>1, <1>2, <1>3, <2>1
  <2>3. q < end
    BY <1>4, <2>1
  <2> HIDE DEF w, q
  <2>4. NextField(d, q) = q + l
    <3>1. ProtoGetFieldLength(d, q) = [field |-> 1, len |-> Len(w), pos |-> q + HeadSize(w)]
      BY <1>1, <2>2, GetFieldReads
    <3>2. ProtoGetFieldLength(d, q).pos = q + HeadSize(w) /\ ProtoGetFieldLength(d, q).len = Len(w)
      BY <3>1
    <3>3. l = HeadSize(w) + Len(w) /\ HeadSize(w) \in Nat /\ Len(w) \in Nat
      BY <1>1, <2>2, FieldShape
    <3>4. \A x, y \in Nat : (q + x) + y = q + (x + y)
      BY <2>2
    <3> HIDE DEF l
    <3>5. (q + HeadSize(w)) + Len(w) = q + l
      BY <3>3, <3>4, Zenon
    <3> QED BY <3>2, <3>5, Zenon DEF NextField
  <2> HIDE DEF l
  <2>5. E(i) = [pos |-> q, len |-> l]
    BY DEF TxAt, q, l, w
  <2>6. (q + l) - q = l /\ ~(q >= end)
    BY <1>3, <2>2, <2>3
  <2>7. from[q] = IF q >= end THEN <<>>
                  ELSE <<[pos |-> q, len |-> NextField(d, q) - q]>> \o from[NextField(d, q)]
    BY <1>5, <2>2, Zenon DEF ListsFrom
  <2>8. from[q] = <<E(i)>> \o from[s[i]]
    BY <2>2, <2>4, <2>5, <2>6, <2>7, Zenon
  <2>9. E(i) \in TxPlace
    <3>1. [pos |-> q, len |-> l] \in TxPlace
      BY <2>2 DEF TxPlace
    <3> QED BY <2>5, <3>1, Zenon
  <2> QED BY <2>8, <2>9 DEF q
<1> HIDE DEF E
<1> DEFINE T == {m \in 0..n : from[s[n - m]] = rest(m)}
<1>8. 0 \in T
  <2>1. n - 0 = n /\ 0 \in 0..n
    BY <1>1
  <2>2. rest(0) = <<>>
    OBVIOUS
  <2> HIDE DEF rest
  <2> QED BY <1>3, <1>6, <2>1, <2>2
<1>9. ASSUME NEW m \in 1..n, m - 1 \in T PROVE m \in T
  <2> DEFINE i == n - m + 1
             f == [j \in 1..(m - 1) + 1 |-> E(n - m + j)]
  <2>1. i \in 1..n /\ i - 1 = n - m /\ n - (m - 1) = i /\ (m - 1) + 1 = m /\ m - 1 \in Nat /\ m \in 0..n
    BY <1>1
  <2>2. from[s[i]] = rest(m - 1)
    BY <1>9, <2>1
  <2>3. rest(m - 1) = [j \in 1..m - 1 |-> f[1 + j]]
    <3>1. \A j \in 1..m - 1 : n - (m - 1) + j = n - m + (1 + j) /\ 1 + j \in 1..(m - 1) + 1
      BY <1>1
    <3> QED BY <3>1
  <2>4. f \in [1..(m - 1) + 1 -> TxPlace]
    <3>1. \A j \in 1..(m - 1) + 1 : n - m + j \in 1..n
      BY <1>1
    <3> QED BY <1>7, <3>1
  <2>5. <<f[1]>> \o [j \in 1..m - 1 |-> f[1 + j]] = f
    <3> HIDE DEF f
    <3> QED BY <2>1, <2>4, PrependNext
  <2>6. f[1] = E(i) /\ f = rest(m)
    <3>1. 1 \in 1..(m - 1) + 1
      BY <2>1
    <3> QED BY <2>1, <3>1
  <2>7. from[s[n - m]] = <<E(i)>> \o from[s[i]]
    <3> HIDE DEF i
    <3>1. from[s[i - 1]] = <<E(i)>> \o from[s[i]]
      BY <1>7, <2>1
    <3> QED BY <2>1, <3>1
  <2> HIDE DEF f, rest, i
  <2>8. from[s[n - m]] = rest(m)
    BY <2>2, <2>3, <2>5, <2>6, <2>7
  <2> QED BY <2>1, <2>8
<1>10. n \in T
  <2>1. \A m \in 0..n : m \in T
    <3> HIDE DEF T
    <3> QED BY <1>1, <1>8, <1>9, IntervalInduction
  <2>2. n \in 0..n
    BY <1>1
  <2> HIDE DEF T
  <2> QED BY <2>1, <2>2
<1>11. from[p] = rest(n)
  <2>1. n - n = 0
    BY <1>1
  <2>2. from[s[n - n]] = rest(n)
    BY <1>10
  <2> HIDE DEF rest
  <2> QED BY <1>2, <2>1, <2>2
<1>12. rest(n) = BlockTxs(b, s)
  <2>1. \A j \in 1..n : n - n + j = j
    BY <1>1
  <2> QED BY <2>1, Zenon DEF BlockTxs, n, E
<1> HIDE DEF rest
<1> QED BY <1>5, <1>11, <1>12

-----------------------------------------------------------------------------
(* The header of a block.                                                  *)

\* The last byte of a varint is the first one below 128.
EndsVarint(v) ==
  Len(v) \in Nat /\ Len(v) > 0 /\ v[Len(v)] < 128 /\ \A i \in 1..Len(v) - 1 : v[i] >= 128

\* Every varint ends so.
LEMMA VarintEnds == \A n \in Nat : EndsVarint(Varint(n))
<1> DEFINE T == {n \in Nat : EndsVarint(Varint(n))}
<1>1. ASSUME NEW n \in Nat, \A m \in Nat : m < n => m \in T PROVE n \in T
  <2>1. CASE n < 128
    <3>1. Varint(n) = <<n>>
      BY <2>1, VarintSteps
    <3>2. Len(<<n>>) = 1 /\ <<n>>[1] = n /\ 1 \in Nat /\ 1 > 0
      OBVIOUS
    <3>3. \A i \in 1..1 - 1 : <<n>>[i] >= 128
      OBVIOUS
    <3>4. EndsVarint(<<n>>)
      BY <2>1, <3>2, <3>3, Zenon DEF EndsVarint
    <3> QED BY <3>1, <3>4
  <2>2. CASE ~(n < 128)
    <3> DEFINE k == n \div 128
               u == <<128 + (n % 128)>>
               v == Varint(k)
    <3>1. k \in Nat /\ k < n /\ 128 + (n % 128) \in Byte /\ 128 + (n % 128) >= 128
      BY <2>2, Div128 DEF Byte
    <3>2. u \in Bytes /\ Len(u) = 1 /\ u[1] >= 128
      BY <3>1, OneByte
    <3>3. v \in Bytes /\ Len(v) \in Nat /\ EndsVarint(v)
      <4>1. k \in T /\ v \in Bytes
        <5> HIDE DEF k
        <5> QED BY <1>1, <3>1, VarintSteps
      <4> QED BY <4>1, BytesShape
    <3>4. Varint(n) = u \o v
      BY <2>2, VarintSteps
    <3> HIDE DEF u, v, k
    <3>5. PICK l \in Nat : l = Len(v) /\ l > 0 /\ v[l] < 128 /\ \A i \in 1..l - 1 : v[i] >= 128
      BY <3>3 DEF EndsVarint
    <3> DEFINE w == u \o v
    <3>6. Len(w) = 1 + l
      BY <3>2, <3>3, <3>5, BytesConcat
    <3>7. w[1] = u[1] /\ \A i \in 1..l : w[1 + i] = v[i]
      <4>1. \A i \in 1..Len(u) + Len(v) : w[i] = IF i <= Len(u) THEN u[i] ELSE v[i - Len(u)]
        BY <3>2, <3>3, ConcatProperties DEF Bytes
      <4> HIDE DEF w
      <4>2. \A i \in 1..1 + l : w[i] = IF i <= 1 THEN u[i] ELSE v[i - 1]
        BY <3>2, <3>5, <4>1
      <4>3. 1 \in 1..1 + l /\ 1 <= 1
        OBVIOUS
      <4>4. \A i \in 1..l : 1 + i \in 1..1 + l /\ ~(1 + i <= 1) /\ 1 + i - 1 = i
        OBVIOUS
      <4>5. w[1] = u[1]
        BY <4>2, <4>3
      <4>6. ASSUME NEW i \in 1..l PROVE w[1 + i] = v[i]
        BY <4>2, <4>4
      <4> QED BY <4>5, <4>6
    <3> HIDE DEF w
    <3>8. w[1 + l] < 128 /\ \A i \in 1..1 + l - 1 : w[i] >= 128
      <4>1. l \in 1..l
        BY <3>5
      <4>2. ASSUME NEW i \in 1..1 + l - 1 PROVE w[i] >= 128
        <5>1. CASE i = 1
          BY <3>2, <3>7, <5>1
        <5>2. CASE i # 1
          <6>1. i - 1 \in 1..l - 1 /\ i - 1 \in 1..l /\ 1 + (i - 1) = i
            BY <5>2
          <6> QED BY <3>5, <3>7, <6>1
        <5> QED BY <5>1, <5>2
      <4> QED BY <3>5, <3>7, <4>1, <4>2
    <3>9. 1 + l \in Nat /\ 1 + l > 0
      OBVIOUS
    <3>10. EndsVarint(w)
      BY <3>6, <3>8, <3>9 DEF EndsVarint
    <3> QED BY <3>4, <3>10 DEF w
  <2> QED BY <2>1, <2>2
<1>2. \A n \in Nat : n \in T
  <2> HIDE DEF T
  <2> QED BY <1>1, StrongInduction
<1> QED BY <1>2

\* The code finds the last byte of the number, which starts at 3.
LastByte(d, from) ==
  CHOOSE q \in from..63 : d[q + 1] < 128 /\ \A r \in from..q - 1 : d[r + 1] >= 128

\* It is the last byte of the varint that starts at 3, if that has up to ten bytes.
LEMMA LastByteFound ==
  ASSUME NEW d, NEW v \in Bytes, EndsVarint(v), Len(v) <= 10, At(d, 3, v)
  PROVE  LastByte(d, 3) - 3 + 1 = Len(v)
<1>1. PICK l \in Nat : l = Len(v) /\ l > 0 /\ l <= 10 /\ v[l] < 128 /\ \A i \in 1..l - 1 : v[i] >= 128
  BY DEF EndsVarint
<1>2. \A i \in 1..l : d[3 + i] = v[i] /\ v[i] \in Nat
  <2>1. \A i \in 1..l : d[3 + i] = v[i]
    BY <1>1, Zenon DEF At
  <2>2. \A i \in 1..l : v[i] \in Byte
    BY <1>1, BytesShape, Zenon
  <2>3. \A k \in Byte : k \in Nat
    BY DEF Byte
  <2> QED BY <2>1, <2>2, <2>3, Zenon
<1> DEFINE P(q) == d[q + 1] < 128 /\ \A r \in 3..q - 1 : d[r + 1] >= 128
<1>3. l + 2 \in 3..63 /\ P(l + 2)
  <2>1. l + 2 \in 3..63 /\ (l + 2) + 1 = 3 + l /\ l \in 1..l
    <3>1. \A k \in Nat : k > 0 /\ k <= 10 => k + 2 \in 3..63 /\ (k + 2) + 1 = 3 + k /\ k \in 1..k
      OBVIOUS
    <3> QED BY <1>1, <3>1, Zenon
  <2>2. d[(l + 2) + 1] < 128
    BY <1>1, <1>2, <2>1
  <2>3. ASSUME NEW r \in 3..(l + 2) - 1 PROVE d[r + 1] >= 128
    <3>1. r - 2 \in 1..l - 1 /\ r - 2 \in 1..l /\ 3 + (r - 2) = r + 1
      OBVIOUS
    <3> QED BY <1>1, <1>2, <3>1
  <2> QED BY <2>1, <2>2, <2>3
<1>4. ASSUME NEW q \in 3..63, P(q) PROVE q = l + 2
  <2>1. CASE q < l + 2
    <3>1. q - 2 \in 1..l - 1 /\ q - 2 \in 1..l /\ 3 + (q - 2) = q + 1
      BY <2>1
    <3>2. d[q + 1] = v[q - 2] /\ v[q - 2] >= 128 /\ v[q - 2] \in Nat
      BY <1>1, <1>2, <3>1
    <3>3. v[q - 2] < 128
      BY <1>4, <3>2
    <3>4. \A x \in Nat : ~(x >= 128 /\ x < 128)
      OBVIOUS
    <3> QED BY <3>2, <3>3, <3>4, Zenon
  <2>2. CASE l + 2 < q
    <3>1. l + 2 \in 3..q - 1 /\ (l + 2) + 1 = 3 + l /\ l \in 1..l
      BY <1>1, <2>2
    <3>2. d[3 + l] >= 128
      BY <1>4, <3>1
    <3>3. d[3 + l] = v[l] /\ v[l] \in Nat
      BY <1>2, <3>1
    <3>4. \A x \in Nat : ~(x >= 128 /\ x < 128)
      OBVIOUS
    <3> QED BY <1>1, <3>2, <3>3, <3>4, Zenon
  <2> QED BY <2>1, <2>2
<1>5. LastByte(d, 3) = l + 2
  <2> HIDE DEF P
  <2>1. LastByte(d, 3) = CHOOSE q \in 3..63 : P(q)
    BY Zenon DEF LastByte, P
  <2>2. (CHOOSE q \in 3..63 : P(q)) \in 3..63 /\ P(CHOOSE q \in 3..63 : P(q))
    BY <1>3, Zenon
  <2> QED BY <1>4, <2>1, <2>2, Zenon
<1>6. (l + 2) - 3 + 1 = l
  OBVIOUS
<1> QED BY <1>1, <1>5, <1>6

\* Where the number of a block is, after the tag.
NumberAt(d, b) ==
  /\ At(d, 3, Varint(b.number))
  /\ ProtoGetFieldPos(d, 0, ProtoGetFieldLength(d, 0).len, <<1>>).pos + 1 = 3

\* The header of a block starts with it.
LEMMA NumberFound ==
  ASSUME NEW d \in Bytes, NEW b \in Blocks, NEW h, NEW p, NEW e, NEW n, BlockPlaces(d, b, h, p, e, n),
         At(d, 0, Field(1, BlockHead(b)))
  PROVE  NumberAt(d, b)
<1> DEFINE u == VarintField(1, b.number)
           v == Varint(b.number)
           f == Field(2, <<13>>)
           g == Field(3, <<14>>)
           m == Len(BlockHead(b))
<1>1. /\ u \in Bytes /\ v \in Bytes /\ BlockHead(b) \in Bytes /\ HeadSize(BlockHead(b)) = 2
      /\ f \in Bytes /\ g \in Bytes /\ 1 \in FieldNumbers /\ b.number \in Nat
      /\ ProtoGetFieldLength(d, 0).len = m /\ At(d, 2, BlockHead(b))
      /\ Len(v) \in 0..10 /\ m = 7 + Len(v)
  <2>1. 1 \in FieldNumbers /\ 2 \in FieldNumbers /\ 3 \in FieldNumbers /\ 13 \in Byte /\ 14 \in Byte
    BY DEF FieldNumbers, Byte
  <2>2. f \in Bytes /\ g \in Bytes
    BY <2>1, OneByteField
  <2>3. ProtoGetFieldLength(d, 0).len = m /\ At(d, 2, BlockHead(b))
    BY Zenon DEF BlockPlaces
  <2> QED BY <2>1, <2>2, <2>3, BlockHeadShape, BlockShape
<1>2. BlockHead(b) = (u \o f) \o g
  BY DEF BlockHead
<1>3. At(d, 3, v)
  <2> HIDE DEF u, v, f, g
  <2>1. u \o f \in Bytes
    BY <1>1, BytesConcat
  <2>2. At(d, 2, u \o f)
    BY <1>1, <1>2, <2>1, AtConcat
  <2>3. At(d, 2, u)
    BY <1>1, <2>2, AtConcat
  <2>4. 2 \in Nat /\ 2 + 1 = 3
    OBVIOUS
  <2>5. At(d, 2 + 1, v)
    BY <1>1, <2>3, <2>4, VarintFieldReads DEF u, v
  <2> QED BY <2>4, <2>5
<1>4. m \in Nat /\ m > 0
  <2>1. \A k \in 0..10 : 7 + k \in Nat /\ 7 + k > 0
    OBVIOUS
  <2> HIDE DEF m, v
  <2> QED BY <1>1, <2>1, Zenon
<1> HIDE DEF u, v, f, g, m
<1>5. ProtoSearchFieldPos(d, 0, m, 1) = [pos |-> 0 + HeadSize(BlockHead(b)), len |-> Len(BlockHead(b))]
  <2>1. 0 \in Nat
    OBVIOUS
  <2> QED BY <1>1, <1>4, <2>1, SearchFirst
<1>6. ProtoGetFieldPos(d, 0, m, <<1>>) = ProtoSearchFieldPos(d, 0, m, 1)
  <2> DEFINE path == <<1>>
  <2>1. Len(path) = 1 /\ path[1] = 1 /\ Len(path) \in Nat /\ 1 \in 1..Len(path) /\ 1 - 1 = 0 /\ 0 \in Nat
    OBVIOUS
  <2> HIDE DEF path
  <2>2. PathEndsAt(d, 0, m, path, ProtoGetFieldPos(d, 0, m, path))
    BY <1>4, <2>1, PathSteps
  <2>3. PICK at : FollowsPath(d, 0, m, path, at) /\ ProtoGetFieldPos(d, 0, m, path) = at[Len(path)]
    BY <2>2 DEF PathEndsAt
  <2>4. at[0].pos = 0 /\ at[0].len = m
    <3>1. at[0] = [pos |-> 0, len |-> m]
      BY <2>3 DEF FollowsPath
    <3> QED BY <3>1
  <2>5. at[1] = IF at[0].pos = -1 THEN at[0] ELSE ProtoSearchFieldPos(d, at[0].pos, at[0].len, path[1])
    BY <2>1, <2>3, Zenon DEF FollowsPath
  <2>6. 0 # -1
    OBVIOUS
  <2>7. at[1] = ProtoSearchFieldPos(d, 0, m, 1)
    BY <2>1, <2>4, <2>5, <2>6, Zenon
  <2> QED BY <2>1, <2>3, <2>7 DEF path
<1>7. ProtoGetFieldPos(d, 0, m, <<1>>).pos + 1 = 3
  <2>1. ProtoGetFieldPos(d, 0, m, <<1>>).pos = 0 + HeadSize(BlockHead(b))
    BY <1>5, <1>6
  <2>2. 0 + 2 + 1 = 3
    OBVIOUS
  <2> QED BY <1>1, <2>1, <2>2, Zenon
<1> QED BY <1>1, <1>3, <1>7, Zenon DEF NumberAt, v

\* What the card can do with the packet of the header.
HeaderAnnotationHits(a, g, b) ==
  /\ a.type = "BLOCK_ID" => Hits(a, g, Varint(b.number))
  /\ a.type \notin {"CHAINCODE_NAME", "RW_SET", "TX_SIG", "ORDERER_SIG", "ENDORSER"}
HeaderSent(packet, d, p, b) ==
  /\ packet.payload = Slice(d, 0, p)
  /\ \A a \in Range(packet.annotations) : HeaderAnnotationHits(a, packet.payload, b)

\* It can read the number in it.
LEMMA BlockHeaderSent ==
  ASSUME NEW d \in Bytes, NEW b \in Blocks, NEW h, NEW p, NEW e, NEW n, BlockPlaces(d, b, h, p, e, n),
         At(d, 0, Field(1, BlockHead(b))), NEW txs
  PROVE  HeaderSent(SendBlockHeader(d, p, txs), d, p, b)
<1> DEFINE v == Varint(b.number)
           l == Len(v)
           number == ProtoGetFieldPos(d, 0, ProtoGetFieldLength(d, 0).len, <<1>>).pos + 1
           Of(type) ==
             CASE type = "BLOCKHEADER"   -> Annotation(type, 0, p)
               [] type = "TRANSACTION"   -> Annotation(type, Len(txs), 0)
               [] type = "BLOCKMETADATA" -> Annotation(type, 1, 0)
               [] type = "BLOCK_ID"      -> Annotation(type, number, LastByte(d, number) - number + 1)
           A == GenerateBlockAnnotation(p, txs, d)
           P == Slice(d, 0, p)
<1>1. A = [i \in DOMAIN BlockHeaderAnnotations |-> Of(BlockHeaderAnnotations[i])]
  BY Zenon DEF GenerateBlockAnnotation, LastByte
<1>2. number = 3 /\ At(d, 3, v)
  BY NumberFound, Zenon DEF NumberAt
<1>3. v \in Bytes /\ l \in 0..10 /\ EndsVarint(v)
  BY BlockHeadShape, BlockShape, VarintEnds
<1> HIDE DEF number, v
<1>4. LastByte(d, number) - number + 1 = l
  <2>1. \A k \in 0..10 : k <= 10
    OBVIOUS
  <2>2. l <= 10
    BY <1>3, <2>1, Zenon
  <2> QED BY <1>2, <1>3, <2>2, LastByteFound
<1>5. /\ DOMAIN BlockHeaderAnnotations = 1..4
      /\ BlockHeaderAnnotations[1] = "BLOCKHEADER" /\ BlockHeaderAnnotations[2] = "TRANSACTION"
      /\ BlockHeaderAnnotations[3] = "BLOCKMETADATA" /\ BlockHeaderAnnotations[4] = "BLOCK_ID"
  BY DEF BlockHeaderAnnotations
<1>6. \A type, o, k : Annotation(type, o, k).type = type
  BY DEF Annotation
<1>7. /\ Of("BLOCKHEADER").type = "BLOCKHEADER" /\ Of("TRANSACTION").type = "TRANSACTION"
      /\ Of("BLOCKMETADATA").type = "BLOCKMETADATA" /\ Of("BLOCK_ID") = Annotation("BLOCK_ID", 3, l)
  <2>1. Of("BLOCKHEADER") = Annotation("BLOCKHEADER", 0, p)
    OBVIOUS
  <2>2. Of("TRANSACTION") = Annotation("TRANSACTION", Len(txs), 0)
    OBVIOUS
  <2>3. Of("BLOCKMETADATA") = Annotation("BLOCKMETADATA", 1, 0)
    OBVIOUS
  <2>4. Of("BLOCK_ID") = Annotation("BLOCK_ID", number, LastByte(d, number) - number + 1)
    OBVIOUS
  <2> HIDE DEF Of, l
  <2>5. Of("BLOCK_ID") = Annotation("BLOCK_ID", 3, l)
    BY <1>2, <1>4, <2>4
  <2>6. Of("BLOCKHEADER").type = "BLOCKHEADER"
    BY <1>6, <2>1
  <2>7. Of("TRANSACTION").type = "TRANSACTION"
    BY <1>6, <2>2
  <2>8. Of("BLOCKMETADATA").type = "BLOCKMETADATA"
    BY <1>6, <2>3
  <2> QED BY <2>5, <2>6, <2>7, <2>8
<1> HIDE DEF Of, A, P
<1>8. /\ DOMAIN A = 1..4
      /\ A[1].type = "BLOCKHEADER" /\ A[2].type = "TRANSACTION" /\ A[3].type = "BLOCKMETADATA"
      /\ A[4] = Annotation("BLOCK_ID", 3, l)
  <2>1. DOMAIN A = 1..4
    BY <1>1, <1>5
  <2>2. \A i \in 1..4 : A[i] = Of(BlockHeaderAnnotations[i])
    BY <1>1, <1>5
  <2>3. 1 \in 1..4 /\ 2 \in 1..4 /\ 3 \in 1..4 /\ 4 \in 1..4
    OBVIOUS
  <2> QED BY <1>5, <1>7, <2>1, <2>2, <2>3, Zenon
<1>9. A[4].type = "BLOCK_ID" /\ A[4].offset = 3 /\ A[4].desc = l
  <2>1. \A k \in 0..10 : k \in Positions /\ k \in Int
    BY DEF Positions
  <2>2. 3 \in Positions /\ 3 \in Int /\ l \in Positions /\ l \in Int
    <3>1. 3 \in 0..10
      OBVIOUS
    <3> QED BY <1>3, <2>1, <3>1, Zenon
  <2> HIDE DEF l
  <2>3. /\ Annotation("BLOCK_ID", 3, l) = [type |-> "BLOCK_ID", offset |-> 3 % 65536, desc |-> l % 65536]
        /\ 3 % 65536 = 3 /\ l % 65536 = l
    <3> DEFINE o == 3
    <3> HIDE DEF o
    <3> o \in Int /\ l \in Int /\ o \in Positions /\ l \in Positions
      BY <2>2 DEF o
    <3> DEFINE t == "BLOCK_ID"
    <3> HIDE DEF t
    <3>1. /\ Annotation(t, o, l) = [type |-> t, offset |-> o % 65536, desc |-> l % 65536]
          /\ o % 65536 = o /\ l % 65536 = l
      BY AnnotationShape
    <3> QED BY <3>1 DEF o, t
  <2> QED BY <1>8, <2>3
<1>10. Hits(A[4], P, v)
  <2>1. p \in Nat /\ p <= Len(d) /\ 3 + l <= p
    <3>1. /\ h \in Nat /\ p \in Nat /\ h <= p /\ e \in Nat /\ n \in Nat /\ e + n = Len(d)
          /\ p + Len(BlockBody(b)) = e
          /\ ProtoGetFieldLength(d, 0).pos = 2 /\ ProtoGetFieldLength(d, 0).len = Len(BlockHead(b))
          /\ ProtoGetFieldLength(d, 0).pos + ProtoGetFieldLength(d, 0).len = h
      BY Zenon DEF BlockPlaces
    <3>2. h = 2 + (7 + l)
      BY <3>1, BlockHeadShape, Zenon DEF v
    <3>3. Len(BlockBody(b)) \in Nat /\ Len(d) \in Nat
      BY BlockPartsShape, BytesShape
    <3>4. \A k \in 0..10 : \A x \in Nat : 2 + (7 + k) <= x => 3 + k <= x
      OBVIOUS
    <3>5. \A x, y, z \in Nat : x <= (x + y) + z
      OBVIOUS
    <3>6. 3 + l <= p
      BY <1>3, <3>1, <3>2, <3>4, Zenon
    <3>7. p <= (p + Len(BlockBody(b))) + n
      BY <3>1, <3>3, <3>5, Zenon
    <3> QED BY <3>1, <3>6, <3>7, Zenon
  <2>2. Len(P) = p
    BY <2>1, SliceShape, SMTT(30) DEF P
  <2>3. P \in Bytes /\ At(P, 0, P)
    BY <2>1, SliceShape, AtWhole DEF P
  <2>4. At(P, 3, v)
    <3>1. /\ \A i \in 1..p : P[i] = d[0 + i]
          /\ \A i \in 1..l : d[3 + i] = v[i]
      BY <1>2, <2>1, SliceShape DEF P, At
    <3>2. ASSUME NEW i \in 1..l PROVE P[3 + i] = v[i]
      <4>1. 3 + i \in 1..p /\ 0 + (3 + i) = 3 + i
        BY <1>3, <2>1
      <4> QED BY <3>1, <4>1
    <3> QED BY <2>1, <2>2, <3>2 DEF At
  <2>5. Slice(P, 3, 3 + l) = v
    BY <1>3, <2>3, <2>4, SliceAt
  <2> QED BY <1>9, <2>1, <2>2, <2>5, Zenon DEF Hits
<1>11. \A a \in Range(A) : HeaderAnnotationHits(a, P, b)
  <2>1. \A k \in 1..4 : k = 1 \/ k = 2 \/ k = 3 \/ k = 4
    OBVIOUS
  <2>2. /\ HeaderAnnotationHits(A[1], P, b) /\ HeaderAnnotationHits(A[2], P, b)
        /\ HeaderAnnotationHits(A[3], P, b) /\ HeaderAnnotationHits(A[4], P, b)
    BY <1>8, <1>9, <1>10 DEF HeaderAnnotationHits, v
  <2> QED BY <1>8, <2>1, <2>2, Zenon DEF Range
<1>12. SendBlockHeader(d, p, txs) = [annotations |-> A, payload |-> P]
  BY Zenon DEF SendBlockHeader, A, P
<1>13. SendBlockHeader(d, p, txs).annotations = A /\ SendBlockHeader(d, p, txs).payload = P
  BY <1>12
<1> QED BY <1>11, <1>13, Zenon DEF HeaderSent, P

-----------------------------------------------------------------------------
(* The packets of a block.                                                 *)

\* A first element, a sequence and a last one.
Enclosed(a, g, c, z) ==
  /\ DOMAIN z = 1..Len(g) + 2 /\ Len(z) = Len(g) + 2
  /\ z[1] = a /\ z[Len(g) + 2] = c /\ \A i \in 1..Len(g) : z[i + 1] = g[i]

\* Joining them gives a sequence with these elements.
LEMMA SequenceEnclosed ==
  ASSUME NEW S, NEW a \in S, NEW c \in S, NEW g \in Seq(S)
  PROVE  Enclosed(a, g, c, <<a>> \o g \o <<c>>)
<1> DEFINE u == <<a>>
           w == <<c>>
           n == Len(g)
<1>1. u \in Seq(S) /\ Len(u) = 1 /\ u[1] = a /\ w \in Seq(S) /\ Len(w) = 1 /\ w[1] = c /\ n \in Nat
  OBVIOUS
<1> HIDE DEF u, w, n
<1> DEFINE v == u \o g
<1>2. /\ v \in Seq(S) /\ Len(v) = 1 + n
      /\ \A i \in 1..1 + n : v[i] = IF i <= 1 THEN u[i] ELSE g[i - 1]
  <2>1. /\ u \o g \in Seq(S) /\ Len(u \o g) = Len(u) + Len(g)
        /\ \A i \in 1..Len(u) + Len(g) : (u \o g)[i] = IF i <= Len(u) THEN u[i] ELSE g[i - Len(u)]
    BY <1>1, ConcatProperties
  <2>2. /\ v \in Seq(S) /\ Len(v) = Len(u) + Len(g)
        /\ \A i \in 1..Len(u) + Len(g) : v[i] = IF i <= Len(u) THEN u[i] ELSE g[i - Len(u)]
    BY <2>1
  <2> HIDE DEF v
  <2> QED BY <1>1, <2>2 DEF n
<1> HIDE DEF v
<1> DEFINE z == v \o w
<1>3. /\ z \in Seq(S) /\ Len(z) = 1 + n + 1
      /\ \A i \in 1..1 + n + 1 : z[i] = IF i <= 1 + n THEN v[i] ELSE w[i - (1 + n)]
  <2>1. /\ v \o w \in Seq(S) /\ Len(v \o w) = Len(v) + Len(w)
        /\ \A i \in 1..Len(v) + Len(w) : (v \o w)[i] = IF i <= Len(v) THEN v[i] ELSE w[i - Len(v)]
    BY <1>1, <1>2, ConcatProperties
  <2>2. /\ z \in Seq(S) /\ Len(z) = Len(v) + Len(w)
        /\ \A i \in 1..Len(v) + Len(w) : z[i] = IF i <= Len(v) THEN v[i] ELSE w[i - Len(v)]
    BY <2>1
  <2> HIDE DEF z
  <2> QED BY <1>1, <1>2, <2>2
<1> HIDE DEF z
<1>4. DOMAIN z = 1..n + 2 /\ Len(z) = n + 2
  <2>1. 1 + n + 1 = n + 2
    BY <1>1
  <2> QED BY <1>3, <2>1
<1>5. z[1] = a
  <2>1. 1 \in 1..1 + n + 1 /\ 1 \in 1..1 + n /\ 1 <= 1 + n /\ 1 <= 1
    BY <1>1
  <2> QED BY <1>1, <1>2, <1>3, <2>1
<1>6. z[n + 2] = c
  <2>1. n + 2 \in 1..1 + n + 1 /\ ~(n + 2 <= 1 + n) /\ n + 2 - (1 + n) = 1
    BY <1>1
  <2> QED BY <1>1, <1>3, <2>1
<1>7. ASSUME NEW i \in 1..n PROVE z[i + 1] = g[i]
  <2>1. /\ i + 1 \in 1..1 + n + 1 /\ i + 1 \in 1..1 + n /\ i + 1 <= 1 + n /\ ~(i + 1 <= 1)
        /\ i + 1 - 1 = i
    BY <1>1
  <2> QED BY <1>2, <1>3, <2>1
<1>8. Enclosed(a, g, c, z)
  BY <1>4, <1>5, <1>6, <1>7 DEF Enclosed, n
<1> QED BY <1>8 DEF z, v, u, w

\* What the card gets for a block d.
BlockSent(ps, d, b, p) ==
  /\ DOMAIN ps = 1..Len(b.txs) + 2 /\ Len(ps) = Len(b.txs) + 2
  /\ HeaderSent(ps[1], d, p, b)
  /\ \A i \in 1..Len(b.txs) : FitsTransaction(b.txs[i]) => TxSent(ps[i + 1], b.txs[i])
  /\ FitsMetadata(b) => MetaSent(ps[Len(b.txs) + 2], b)
BlockParted(d, b, p, e) ==
  /\ p \in Nat /\ e \in Nat /\ p <= e /\ e <= Len(d)
  /\ At(d, p, BlockBody(b)) /\ p + Len(BlockBody(b)) = e
  /\ At(d, e, Field(3, Metadata(b))) /\ e + Len(Field(3, Metadata(b))) = Len(d)
BlockSentWhole(ps, d, b) == \E p, e : BlockSent(ps, d, b, p) /\ BlockParted(d, b, p, e)

\* The packets are made of the parts that the code finds.
PacketsOf(d, b, p, e, n, s) ==
  <<SendBlockHeader(d, p, BlockTxs(b, s))>>
    \o [i \in 1..Len(b.txs) |-> SendTransaction(d, s[i - 1], Len(Field(1, Envelope(b.txs[i]))))]
    \o <<SendBlockMeta(d, e, n)>>

\* generateBlockPackets makes the packets of a block from the places of its parts.
LEMMA BlockPacketsMade ==
  ASSUME NEW b \in Blocks, NEW d, d = Marshal(b), NEW h, NEW p, NEW e, NEW n,
         BlockPlaces(d, b, h, p, e, n),
         NEW s, LaidOut(d, p, TxFields(b), s), s[Len(b.txs)] = e
  PROVE  BlockPackets(d) = PacketsOf(d, b, p, e, n, s)
<1> DEFINE header == ProtoGetFieldLength(d, 0)
           body   == ProtoGetFieldLength(d, header.pos + header.len)
           end    == body.pos + body.len
           meta   == ProtoGetFieldLength(d, end)
           txs    == Transactions(d, body.pos, end)
           N      == Len(b.txs)
<1>1. header.pos + header.len = h /\ body.pos = p /\ end = e /\ meta.pos + meta.len - end = n
  <2>1. header.pos + header.len = h
    BY Zenon DEF BlockPlaces
  <2>2. ProtoGetFieldLength(d, h).pos = p /\ ProtoGetFieldLength(d, h).pos + ProtoGetFieldLength(d, h).len = e
    BY Zenon DEF BlockPlaces
  <2>3. ProtoGetFieldLength(d, e).pos + ProtoGetFieldLength(d, e).len - e = n
    BY Zenon DEF BlockPlaces
  <2> HIDE DEF header
  <2>4. body.pos = p /\ end = e
    BY <2>1, <2>2, Zenon
  <2> HIDE DEF body, end
  <2>5. meta.pos + meta.len - end = n
    BY <2>3, <2>4, Zenon
  <2> QED BY <2>1, <2>4, <2>5
<1>2. BlockPackets(d) = <<SendBlockHeader(d, body.pos, txs)>>
        \o [i \in DOMAIN txs |-> SendTransaction(d, txs[i].pos, txs[i].len)]
        \o <<SendBlockMeta(d, end, meta.pos + meta.len - end)>>
  BY Zenon DEF BlockPackets
<1>3. txs = BlockTxs(b, s)
  <2>1. d \in Bytes
    BY BlockPartsShape
  <2>2. Transactions(d, p, e) = BlockTxs(b, s)
    BY <2>1, TransactionsListed
  <2> HIDE DEF body, end
  <2> QED BY <1>1, <2>2, Zenon
<1>4. /\ DOMAIN BlockTxs(b, s) = 1..N
      /\ \A i \in 1..N : /\ BlockTxs(b, s)[i].pos = s[i - 1]
                         /\ BlockTxs(b, s)[i].len = Len(Field(1, Envelope(b.txs[i])))
  BY DEF BlockTxs, TxAt
<1> HIDE DEF txs, body, end, meta, N
<1>5. [i \in DOMAIN txs |-> SendTransaction(d, txs[i].pos, txs[i].len)]
        = [i \in 1..N |-> SendTransaction(d, s[i - 1], Len(Field(1, Envelope(b.txs[i]))))]
  BY <1>3, <1>4, Zenon
<1>6. PacketsOf(d, b, p, e, n, s) =
        <<SendBlockHeader(d, p, BlockTxs(b, s))>>
          \o [i \in 1..N |-> SendTransaction(d, s[i - 1], Len(Field(1, Envelope(b.txs[i]))))]
          \o <<SendBlockMeta(d, e, n)>>
  BY Zenon DEF PacketsOf, N
<1>7. /\ SendBlockHeader(d, body.pos, txs) = SendBlockHeader(d, p, BlockTxs(b, s))
      /\ SendBlockMeta(d, end, meta.pos + meta.len - end) = SendBlockMeta(d, e, n)
  BY <1>1, <1>3, Zenon
<1> DEFINE H == SendBlockHeader(d, p, BlockTxs(b, s))
           T == [i \in 1..N |-> SendTransaction(d, s[i - 1], Len(Field(1, Envelope(b.txs[i]))))]
           M == SendBlockMeta(d, e, n)
<1>8. BlockPackets(d) = <<H>> \o T \o <<M>>
  BY <1>2, <1>5, <1>7, Zenon
<1>9. PacketsOf(d, b, p, e, n, s) = <<H>> \o T \o <<M>>
  BY <1>6
<1> HIDE DEF H, T, M
<1> QED BY <1>8, <1>9, Zenon

\* The card can use all of them, if they fit.
LEMMA BlockIsSent ==
  ASSUME CertificateIds, NEW b \in Blocks
  PROVE  BlockSentWhole(BlockPackets(Marshal(b)), Marshal(b), b)
<1> DEFINE d == Marshal(b)
           N == Len(b.txs)
           fw == Field(3, Metadata(b))
<1>1. /\ d \in Bytes /\ N \in Nat /\ TxFields(b) \in Seq(Bytes) /\ Len(TxFields(b)) = N
      /\ \A i \in 1..N : b.txs[i] \in Transaction /\ TxFields(b)[i] = Field(1, Envelope(b.txs[i]))
      /\ BlockBody(b) \in Bytes /\ fw \in Bytes
  BY BlockPartsShape
<1>2. PICK h \in Nat, p \in Nat, e \in Nat, n \in Nat : BlockPlaces(d, b, h, p, e, n)
  BY BlockRead, Zenon DEF BlockPlacesKnown
<1>3. At(d, 0, Field(1, BlockHead(b)))
  <2> DEFINE u == Field(1, BlockHead(b))
             v == Field(2, BlockBody(b))
  <2>1. u \in Bytes /\ v \in Bytes /\ u \o v \in Bytes /\ d = (u \o v) \o fw
    BY BlockPartsShape
  <2> HIDE DEF u, v, d, fw
  <2>2. At(d, 0, (u \o v) \o fw)
    BY <1>1, <2>1, AtWhole
  <2>3. At(d, 0, u \o v)
    BY <1>1, <2>1, <2>2, AtConcat
  <2>4. At(d, 0, u)
    BY <1>1, <2>1, <2>3, AtConcat
  <2> QED BY <2>4 DEF u
<1> HIDE DEF d
<1>4. /\ At(d, p, BlockBody(b)) /\ p + Len(BlockBody(b)) = e /\ At(d, e, fw) /\ e + n = Len(d)
      /\ n = Len(fw)
  BY <1>2, Zenon DEF BlockPlaces
<1>5. PICK s : LaidOut(d, p, TxFields(b), s) /\ s[N] = e
  <2>1. IsLaidOut(d, p, TxFields(b))
    BY <1>1, <1>4, FlatLaidOut DEF BlockBody
  <2> QED BY <1>1, <1>4, <2>1, Zenon DEF IsLaidOut, BlockBody
<1> HIDE DEF fw
<1> DEFINE H == SendBlockHeader(d, p, BlockTxs(b, s))
           T == [i \in 1..N |-> SendTransaction(d, s[i - 1], Len(Field(1, Envelope(b.txs[i]))))]
           M == SendBlockMeta(d, e, n)
           S == {H, M} \union {T[i] : i \in 1..N}
           ps == BlockPackets(d)
<1>6. ps = <<H>> \o T \o <<M>>
  <2>1. PacketsOf(d, b, p, e, n, s) = <<H>> \o T \o <<M>>
    BY Zenon DEF PacketsOf
  <2>2. ps = PacketsOf(d, b, p, e, n, s)
    BY <1>2, <1>5, BlockPacketsMade DEF d
  <2> HIDE DEF H, T, M, ps
  <2> QED BY <2>1, <2>2, Zenon
<1>7. Enclosed(H, T, M, ps) /\ Len(T) = N
  <2>1. T \in Seq(S) /\ Len(T) = N /\ H \in S /\ M \in S
    <3> HIDE DEF H, M
    <3>1. T \in [1..N -> S]
      OBVIOUS
    <3> HIDE DEF T, S
    <3>2. T \in Seq(S) /\ Len(T) = N
      BY <1>1, <3>1, FunctionIsSeq
    <3> QED BY <3>2 DEF S
  <2> HIDE DEF H, M, T, S, ps
  <2>2. Enclosed(H, T, M, <<H>> \o T \o <<M>>)
    BY <2>1, SequenceEnclosed
  <2> QED BY <1>6, <2>1, <2>2
<1>8. \A i \in 1..N : T[i] = SendTransaction(d, s[i - 1], Len(Field(1, Envelope(b.txs[i]))))
  OBVIOUS
<1> HIDE DEF H, T, S, ps
<1>9. /\ DOMAIN ps = 1..N + 2 /\ Len(ps) = N + 2
      /\ ps[1] = H /\ ps[N + 2] = M /\ \A i \in 1..N : ps[i + 1] = T[i]
  <2> HIDE DEF M, N
  <2> QED BY <1>7, Zenon DEF Enclosed
<1>10. HeaderSent(H, d, p, b)
  BY <1>1, <1>2, <1>3, BlockHeaderSent DEF H
<1>11. ASSUME NEW i \in 1..N, FitsTransaction(b.txs[i]) PROVE TxSent(T[i], b.txs[i])
  <2>1. i - 1 \in 0..N
    BY <1>1
  <2>2. s[i - 1] \in Nat /\ At(d, s[i - 1], Field(1, Envelope(b.txs[i])))
    BY <1>1, <1>5, <2>1, Zenon DEF LaidOut
  <2> DEFINE t == b.txs[i]
             l == Len(Field(1, Envelope(t)))
  <2>3. t \in Transaction /\ l \in Positions
    BY <1>1, <1>11 DEF FitsTransaction
  <2>4. At(d, s[i - 1], Field(1, Envelope(t))) /\ T[i] = SendTransaction(d, s[i - 1], l)
    BY <1>8, <2>2
  <2> HIDE DEF t
  <2>5. TxSent(SendTransaction(d, s[i - 1], l), t)
    BY <1>1, <2>2, <2>3, <2>4, TransactionSent
  <2> QED BY <2>4, <2>5 DEF t
<1>12. FitsMetadata(b) => MetaSent(M, b)
  <2> SUFFICES ASSUME FitsMetadata(b) PROVE MetaSent(M, b)
    OBVIOUS
  <2>1. n \in Positions
    BY <1>4 DEF FitsMetadata, fw
  <2> QED BY <1>1, <1>4, <2>1, MetadataSent DEF fw
<1>13. BlockSent(ps, d, b, p)
  BY <1>9, <1>10, <1>11, <1>12 DEF BlockSent
<1>14. BlockParted(d, b, p, e)
  <2>1. \A x, y, z \in Nat : (x + y = z => x <= z)
    OBVIOUS
  <2>2. p <= e /\ e <= Len(d)
    BY <1>1, <1>4, <2>1, BytesShape
  <2> QED BY <1>4, <2>2, Zenon DEF BlockParted, fw
<1> QED BY <1>13, <1>14, Zenon DEF BlockSentWhole, ps, d

-----------------------------------------------------------------------------
(* The certificates that are known.                                        *)

\* Two or three bytes, one after the other.
LEMMA BytesListed ==
  ASSUME NEW a \in Byte, NEW b \in Byte, NEW c \in Byte
  PROVE  /\ <<a>> \o <<b>> = <<a, b>> /\ <<a>> \o <<b, c>> = <<a, b, c>>
         /\ <<a>> \in Bytes /\ <<b>> \in Bytes /\ <<c>> \in Bytes
<1> HIDE DEF Byte
<1>1. /\ <<a>> \in Seq(Byte) /\ <<b>> \in Seq(Byte) /\ <<c>> \in Seq(Byte)
      /\ <<b, c>> \in Seq(Byte) /\ <<a, b>> \in Seq(Byte) /\ <<a, b, c>> \in Seq(Byte)
  OBVIOUS
<1>2. <<a>> \o <<b>> = <<a, b>>
  <2> DEFINE z == <<a>> \o <<b>>
  <2>1. /\ z \in Seq(Byte) /\ Len(z) = 1 + 1
        /\ \A i \in 1..1 + 1 : z[i] = IF i <= 1 THEN <<a>>[i] ELSE <<b>>[i - 1]
    BY <1>1, ConcatProperties
  <2> HIDE DEF z
  <2>2. Len(z) = 2 /\ z[1] = a /\ z[2] = b
    BY <2>1
  <2>3. z = <<a, b>>
    BY <1>1, <2>1, <2>2, SeqEqual
  <2> QED BY <2>3 DEF z
<1>3. <<a>> \o <<b, c>> = <<a, b, c>>
  <2> DEFINE z == <<a>> \o <<b, c>>
  <2>1. /\ z \in Seq(Byte) /\ Len(z) = 1 + 2
        /\ \A i \in 1..1 + 2 : z[i] = IF i <= 1 THEN <<a>>[i] ELSE <<b, c>>[i - 1]
    BY <1>1, ConcatProperties
  <2> HIDE DEF z
  <2>2. Len(z) = 3 /\ z[1] = a /\ z[2] = b /\ z[3] = c
    BY <2>1
  <2>3. z = <<a, b, c>>
    BY <1>1, <2>1, <2>2, SeqEqual
  <2> QED BY <2>3 DEF z
<1> QED BY <1>1, <1>2, <1>3 DEF Bytes

\* A certificate whose lengths take two bytes and one is serialized as protobuf has it.
Sized(c) == Len(c.ca) \in TwoBytes /\ Len(c.name) < 128

\* SerializeCertificate writes the tag, the lengths, the name and the certificate as
\* the identity of the transaction has them.
LEMMA CertificateSerialized ==
  ASSUME NEW c \in Certificate, Sized(c)
  PROVE  SerializeCertificate(c.name, c.ca) = IdOf(c)
<1> DEFINE u == c.name
           w == c.ca
           l == Len(u)
           k == Len(w)
           lo == (k % 128) + 128
           hi == k \div 128
<1>1. u \in Bytes /\ w \in Bytes /\ l \in Nat /\ k \in Nat
  BY CertificateShape, BytesShape
<1>2. l \in Byte /\ l < 128 /\ Uint8(l) = l
  <2>1. \A i \in Nat : i < 128 => i \in Byte /\ i % 256 = i
    BY DEF Byte
  <2>2. l < 128
    BY DEF Sized
  <2> HIDE DEF l
  <2> QED BY <1>1, <2>1, <2>2 DEF Uint8
<1>3. /\ k >= 128 /\ lo \in Byte /\ 128 + (k % 128) = lo
      /\ hi \in Byte /\ hi \in Nat /\ hi < 128 /\ Uint8(hi) = hi
  <2>1. \A i \in TwoBytes :
          /\ i >= 128 /\ (i % 128) + 128 \in 0..255 /\ 128 + (i % 128) = (i % 128) + 128
          /\ i \div 128 \in 0..255 /\ i \div 128 \in Nat /\ i \div 128 < 128
          /\ (i \div 128) % 256 = i \div 128
    BY DEF TwoBytes
  <2>2. k \in TwoBytes
    BY DEF Sized
  <2> HIDE DEF k
  <2>3. /\ lo \in Byte /\ hi \in Byte /\ k >= 128 /\ 128 + (k % 128) = lo
        /\ hi \in Nat /\ hi < 128 /\ hi % 256 = hi
    BY <2>1, <2>2, Zenon DEF Byte
  <2> QED BY <2>3, Zenon DEF Uint8
<1> HIDE DEF l, k, lo, hi, u, w
<1>4. Varint(l) = <<l>>
  BY <1>1, <1>2, VarintSteps
<1>5. Varint(k) = <<lo>> \o <<hi>>
  <2>1. Varint(k) = <<128 + (k % 128)>> \o Varint(k \div 128)
    <3>1. ~(k < 128)
      BY <1>1, <1>3
    <3> QED BY <1>1, <3>1, VarintSteps
  <2>2. Varint(hi) = <<hi>>
    BY <1>3, VarintSteps
  <2> QED BY <1>3, <2>1, <2>2 DEF hi
<1>6. /\ <<10>> \o <<l>> = <<10, l>> /\ <<18>> \o (<<lo>> \o <<hi>>) = <<18, lo, hi>>
      /\ <<10>> \in Bytes /\ <<l>> \in Bytes /\ <<18>> \in Bytes /\ <<lo>> \in Bytes /\ <<hi>> \in Bytes
  <2> DEFINE ten == 10
             eighteen == 18
  <2>1. ten \in Byte /\ eighteen \in Byte
    BY DEF Byte
  <2> HIDE DEF ten, eighteen
  <2>2. /\ <<ten>> \o <<l>> = <<ten, l>> /\ <<ten>> \in Bytes /\ <<l>> \in Bytes
        /\ <<lo>> \o <<hi>> = <<lo, hi>> /\ <<lo>> \in Bytes /\ <<hi>> \in Bytes
        /\ <<eighteen>> \o <<lo, hi>> = <<eighteen, lo, hi>> /\ <<eighteen>> \in Bytes
    <3>1. l \in Byte /\ lo \in Byte /\ hi \in Byte
      BY <1>2, <1>3
    <3>2. <<ten>> \o <<l>> = <<ten, l>> /\ <<ten>> \in Bytes /\ <<l>> \in Bytes
      BY <2>1, <3>1, BytesListed, Zenon
    <3>3. /\ <<eighteen>> \o <<lo, hi>> = <<eighteen, lo, hi>> /\ <<eighteen>> \in Bytes
          /\ <<lo>> \in Bytes /\ <<hi>> \in Bytes
      BY <2>1, <3>1, BytesListed, Zenon
    <3>4. <<lo>> \o <<hi>> = <<lo, hi>>
      BY <3>1, BytesListed, Zenon
    <3> QED BY <3>2, <3>3, <3>4
  <2>3. <<eighteen>> \o (<<lo>> \o <<hi>>) = <<eighteen, lo, hi>>
    BY <2>2, Zenon
  <2> QED BY <2>2, <2>3 DEF ten, eighteen
<1> DEFINE a == <<10>> \o <<l>>
           t == <<18>> \o (<<lo>> \o <<hi>>)
<1>7. a \in Bytes /\ t \in Bytes
  <2>1. <<lo>> \o <<hi>> \in Bytes
    BY <1>6, BytesConcat
  <2> QED BY <1>6, <2>1, BytesConcat
<1>8. Field(1, u) = a \o u
  <2>1. 8 * 1 + 2 = 10
    OBVIOUS
  <2>2. Field(1, u) = <<8 * 1 + 2>> \o Varint(Len(u)) \o u
    BY DEF Field
  <2> QED BY <1>4, <2>1, <2>2 DEF l
<1>9. Field(2, w) = t \o w
  <2>1. 8 * 2 + 2 = 18
    OBVIOUS
  <2>2. Field(2, w) = <<8 * 2 + 2>> \o Varint(Len(w)) \o w
    BY DEF Field
  <2> QED BY <1>5, <2>1, <2>2 DEF k
<1>10. SerializeCertificate(u, w) = ((a \o u) \o t) \o w
  <2>1. SerializeCertificate(u, w) = <<10, l>> \o u \o <<18, lo, hi>> \o w
    BY <1>2, <1>3, Zenon DEF SerializeCertificate, l, k, lo, hi
  <2> QED BY <1>6, <2>1, Zenon
<1>11. IdOf(c) = (a \o u) \o (t \o w)
  BY <1>8, <1>9, Zenon DEF IdOf, Identity, u, w
<1> HIDE DEF a, t
<1>12. ((a \o u) \o t) \o w = (a \o u) \o (t \o w)
  <2>1. a \o u \in Bytes
    BY <1>1, <1>7, BytesConcat
  <2> DEFINE x == a \o u
  <2> HIDE DEF x
  <2>2. x \in Bytes
    BY <2>1 DEF x
  <2>3. (x \o t) \o w = x \o (t \o w)
    BY <1>1, <1>7, <2>2, BytesAssociate
  <2> QED BY <2>3 DEF x
<1>13. SerializeCertificate(u, w) = IdOf(c)
  BY <1>10, <1>11, <1>12, Zenon
<1> QED BY <1>13 DEF u, w

\* Ids are numbers; what has none gets -1.
LEMMA IdsAreIntegers ==
  ASSUME CacheInv
  PROVE  CertificateIds
<1>1. file \in Files /\ TwoWays
  BY DEF CacheInv
<1>2. PICK k \in 0..Len(Table) : InstalledFrom(k)
  BY DEF CacheInv
<1>3. Len(Table) \in Nat /\ \A i \in 1..Len(Table) : Table[i].id \in Nat
  BY <1>1, TableShape
<1>4. \A id \in DOMAIN idCache : id \in Int
  <2> SUFFICES ASSUME NEW id \in DOMAIN idCache PROVE id \in Int
    OBVIOUS
  <2>1. PICK i \in 1..k : id = Table[i].id
    BY <1>2 DEF InstalledFrom
  <2>2. i \in 1..Len(Table)
    BY <1>2, <1>3
  <2> QED BY <1>3, <2>1, <2>2
<1>5. ASSUME NEW w PROVE GetCertificateId(w) \in Int
  <2>1. CASE w \in DOMAIN cache
    BY <1>1, <1>4, <2>1 DEF GetCertificateId, TwoWays
  <2>2. CASE w \notin DOMAIN cache
    BY <2>2 DEF GetCertificateId
  <2> QED BY <2>1, <2>2
<1> QED BY <1>5 DEF CertificateIds

\* Once the file has been gone through the caches have every known certificate, under an
\* id of sixteen bits.
LEMMA KnownIsCached ==
  ASSUME CacheInv, todo = <<>>, NoCollision, NEW c \in Certificate, Known(c)
  PROVE  Cached(c) /\ IdOf(c) \in DOMAIN cache
<1>1. file \in Files /\ TwoWays
  BY DEF CacheInv
<1>2. PICK k \in 0..Len(Table) : InstalledFrom(k)
  BY DEF CacheInv
<1>3. Len(Table) \in Nat /\ DOMAIN Table = 1..Len(Table)
  BY <1>1, TableShape
<1>4. Len(file) <= 16 /\ \A i \in 1..Len(Table) : Table[i].id \in Positions
  <2>1. Len(file) <= 16 /\ \A e \in Range(Table) : e.id \in Positions
    BY DEF NoCollision, Table
  <2>2. \A i \in 1..Len(Table) : Table[i] \in Range(Table)
    BY <1>3 DEF Range
  <2> QED BY <2>1, <2>2
<1>5. PICK i \in DOMAIN Table : Table[i].name = c.name /\ Table[i].ca = c.ca
  BY Zenon DEF Known, Table
<1>6. SerializeCertificate(c.name, c.ca) = IdOf(c)
  <2>1. Sized(c)
    BY Zenon DEF Known, Sized
  <2> QED BY <2>1, CertificateSerialized
<1>7. IdOf(c) \in DOMAIN cache
  <2>1. CachesAgree
    BY CachesFollow
  <2>2. Readable(Table[i])
    BY <1>5, CertificateShape DEF Readable
  <2>3. SerializeCertificate(Table[i].name, Table[i].ca) \in DOMAIN cache
    BY <1>4, <1>5, <2>1, <2>2 DEF CachesAgree, Table
  <2> QED BY <1>5, <1>6, <2>3
<1>8. GetCertificateId(IdOf(c)) = cache[IdOf(c)]
  BY <1>7 DEF GetCertificateId
<1>9. cache[IdOf(c)] \in DOMAIN idCache /\ idCache[cache[IdOf(c)]] = IdOf(c)
  BY <1>1, <1>7 DEF TwoWays
<1>10. cache[IdOf(c)] \in Positions
  <2>1. PICK j \in 1..k : cache[IdOf(c)] = Table[j].id
    BY <1>2, <1>9 DEF InstalledFrom
  <2>2. j \in 1..Len(Table)
    BY <1>2, <1>3
  <2> QED BY <1>4, <2>1, <2>2
<1> QED BY <1>7, <1>8, <1>9, <1>10 DEF Cached

-----------------------------------------------------------------------------
(* The block is put together again.                                        *)

\* One more part is flattened after the others.
LEMMA FlattenAppend ==
  ASSUME NEW s \in Seq(Bytes), NEW w \in Bytes
  PROVE  FlattenSeq(Append(s, w)) = FlattenSeq(s) \o w
<1> DEFINE n == Len(s)
           t == Append(s, w)
<1>1. n \in Nat /\ \A i \in 1..n : s[i] \in Bytes
  OBVIOUS
<1>2. t \in Seq(Bytes) /\ Len(t) = n + 1 /\ t[n + 1] = w /\ \A i \in 1..n : t[i] = s[i]
  BY AppendProperties
<1> HIDE DEF n, t
<1>3. PICK g : /\ g \in [1..Len(t) -> Seq(Byte)]
               /\ g[1] = t[1]
               /\ \A i \in 2..Len(t) : g[i] = g[i - 1] \o t[i]
               /\ FlattenSeq(t) = g[Len(t)]
  <2>1. t \in Seq(Seq(Byte)) /\ Len(t) > 0
    BY <1>1, <1>2 DEF Bytes
  <2> QED BY <2>1, FlattenSteps
<1>4. CASE n = 0
  <2>1. FlattenSeq(t) = w
    <3>1. Len(t) = 1
      BY <1>2, <1>4
    <3>2. t[1] = w
      BY <1>2, <1>4
    <3> QED BY <1>3, <3>1, <3>2
  <2>2. FlattenSeq(s) = <<>>
    <3>1. FlattenSeq(s) = s
      BY <1>4 DEF FlattenSeq, n
    <3>2. s = <<>>
      BY <1>4 DEF n
    <3> QED BY <3>1, <3>2
  <2>3. <<>> \o w = w
    BY EmptyBytes
  <2> QED BY <2>1, <2>2, <2>3 DEF t
<1>5. CASE n > 0
  <2>1. PICK h : /\ h \in [1..n -> Seq(Byte)]
                 /\ h[1] = s[1]
                 /\ \A i \in 2..n : h[i] = h[i - 1] \o s[i]
                 /\ FlattenSeq(s) = h[n]
    <3>1. s \in Seq(Seq(Byte))
      BY DEF Bytes
    <3> QED BY <1>5, <3>1, FlattenSteps DEF n
  <2> DEFINE T == {k \in 0..n - 1 : g[k + 1] = h[k + 1]}
  <2>2. 0 \in T
    <3>1. 1 \in 1..n /\ 0 \in 0..n - 1 /\ 0 + 1 = 1
      BY <1>1, <1>5
    <3> QED BY <1>2, <1>3, <2>1, <3>1
  <2>3. ASSUME NEW k \in 1..n - 1, k - 1 \in T PROVE k \in T
    <3>1. /\ k + 1 \in 2..n /\ k + 1 \in 2..n + 1 /\ k + 1 \in 1..n /\ (k + 1) - 1 = k /\ (k - 1) + 1 = k
          /\ k \in 0..n - 1
      BY <1>1, <1>5
    <3>2. g[k] = h[k]
      BY <2>3, <3>1
    <3>3. g[k + 1] = g[k] \o t[k + 1]
      BY <1>2, <1>3, <3>1
    <3>4. h[k + 1] = h[k] \o s[k + 1]
      BY <2>1, <3>1
    <3>5. g[k + 1] = h[k + 1]
      BY <1>2, <3>1, <3>2, <3>3, <3>4
    <3> QED BY <3>1, <3>5
  <2>4. n - 1 \in T
    <3>1. n - 1 \in Nat /\ n - 1 \in 0..n - 1
      BY <1>1, <1>5
    <3>2. \A k \in 0..n - 1 : k \in T
      <4> HIDE DEF T
      <4> QED BY <2>2, <2>3, <3>1, IntervalInduction
    <3> HIDE DEF T
    <3> QED BY <3>1, <3>2
  <2>5. g[n] = h[n]
    <3>1. (n - 1) + 1 = n
      BY <1>1
    <3> QED BY <2>4, <3>1
  <2>6. g[n + 1] = g[n] \o t[n + 1]
    <3>1. n + 1 \in 2..Len(t) /\ (n + 1) - 1 = n
      BY <1>1, <1>2, <1>5
    <3> QED BY <1>3, <3>1
  <2> QED BY <1>2, <1>3, <2>1, <2>5, <2>6 DEF t
<1> QED BY <1>1, <1>4, <1>5

\* The card puts a packet together with the ids that it has been told.
PutOne(ids, acc, a) ==
  LET at == a.offset + acc.grown
  IN  IF a.type \notin Locators THEN acc
      ELSE [bytes |-> Slice(acc.bytes, 0, at) \o ids[a.desc]
                        \o Slice(acc.bytes, at, Len(acc.bytes)),
            grown |-> acc.grown + Len(ids[a.desc])]
PutTogether(ids, packet) ==
  LET after[i \in 0..Len(packet.annotations)] ==
        IF i = 0 THEN [bytes |-> packet.payload, grown |-> 0]
        ELSE PutOne(ids, after[i - 1], packet.annotations[i])
  IN  after[Len(packet.annotations)].bytes
Rebuilt(ids, ps) ==
  ps[1].payload \o FlattenSeq([i \in 1..Len(ps) - 1 |-> PutTogether(ids, ps[i + 1])])

\* That is what the model says of it.
LEMMA ExpandPutsTogether ==
  ASSUME NEW packet
  PROVE  Expand(packet) = PutTogether(idCache, packet)
BY Zenon DEF Expand, FoldUp, ExpandOne, PutTogether, PutOne

\* If the caches have every certificate of a block that fits, it comes back whole.
LEMMA BlockRebuilt ==
  ASSUME CertificateIds, NEW b \in Blocks, Fits(b),
         \A c \in Certificates(b) : Cached(c)
  PROVE  Rebuilt(idCache, BlockPackets(Marshal(b))) = Marshal(b)
<1> DEFINE d == Marshal(b)
           ps == BlockPackets(d)
           N == Len(b.txs)
           w == Field(3, Metadata(b))
           q == [i \in 1..Len(ps) - 1 |-> PutTogether(idCache, ps[i + 1])]
<1>1. /\ d \in Bytes /\ N \in Nat /\ TxFields(b) \in Seq(Bytes) /\ Len(TxFields(b)) = N
      /\ \A i \in 1..N : b.txs[i] \in Transaction /\ TxFields(b)[i] = Field(1, Envelope(b.txs[i]))
      /\ BlockBody(b) \in Bytes /\ w \in Bytes /\ DOMAIN b.txs = 1..N
  BY BlockPartsShape
<1> HIDE DEF d
<1>2. PICK p, e : BlockSent(ps, d, b, p) /\ BlockParted(d, b, p, e)
  BY BlockIsSent, Zenon DEF BlockSentWhole, d
<1>3. /\ Len(ps) = N + 2 /\ ps[1].payload = Slice(d, 0, p)
      /\ \A i \in 1..N : FitsTransaction(b.txs[i]) => TxSent(ps[i + 1], b.txs[i])
      /\ FitsMetadata(b) => MetaSent(ps[N + 2], b)
  BY <1>2, Zenon DEF BlockSent, HeaderSent
<1>4. FitsMetadata(b) /\ \A i \in 1..N : FitsTransaction(b.txs[i])
  <2>1. FitsMetadata(b) /\ \A t \in Range(b.txs) : FitsTransaction(t)
    BY DEF Fits
  <2>2. \A i \in 1..N : b.txs[i] \in Range(b.txs)
    BY <1>1 DEF Range
  <2> QED BY <2>1, <2>2
<1>5. Cached(b.orderer) /\ \A i \in 1..N : AllCached(b.txs[i])
  <2>1. b.orderer \in Certificates(b)
    BY DEF Certificates
  <2>2. ASSUME NEW i \in 1..N PROVE AllCached(b.txs[i])
    <3> DEFINE t == b.txs[i]
    <3>1. t \in Range(b.txs)
      BY <1>1 DEF Range
    <3>2. t \in Transaction
      BY <1>1
    <3> HIDE DEF t
    <3>3. \A c \in {t.creator} \union Range(t.endorsers) : c \in Certificates(b)
      BY <3>1 DEF Certificates
    <3>4. \A j \in 1..Len(t.endorsers) : t.endorsers[j] \in Range(t.endorsers)
      <4>1. DOMAIN t.endorsers = 1..Len(t.endorsers)
        BY <3>2, TransactionShape
      <4> QED BY <4>1 DEF Range
    <3>5. t.creator \in Certificates(b) /\ \A j \in 1..Len(t.endorsers) : t.endorsers[j] \in Certificates(b)
      BY <3>3, <3>4
    <3>6. AllCached(t)
      BY <3>5 DEF AllCached
    <3> QED BY <3>6 DEF t
  <2> QED BY <2>1, <2>2
<1> HIDE DEF ps
<1>6. PutTogether(idCache, ps[N + 2]) = w
  <2>1. Expand(ps[N + 2]) = w
    BY <1>3, <1>4, <1>5 DEF MetaSent
  <2> QED BY <2>1, ExpandPutsTogether
<1>7. ASSUME NEW i \in 1..N PROVE PutTogether(idCache, ps[i + 1]) = TxFields(b)[i]
  <2>1. Expand(ps[i + 1]) = Field(1, Envelope(b.txs[i]))
    BY <1>3, <1>4, <1>5 DEF TxSent
  <2> QED BY <1>1, <2>1, ExpandPutsTogether
<1> HIDE DEF N, w
<1>8. q = Append(TxFields(b), w)
  <2> DEFINE a == Append(TxFields(b), w)
  <2>1. a \in Seq(Bytes) /\ Len(a) = N + 1 /\ a[N + 1] = w /\ \A i \in 1..N : a[i] = TxFields(b)[i]
    BY <1>1, AppendProperties
  <2> HIDE DEF a
  <2>2. Len(ps) - 1 = N + 1
    BY <1>1, <1>3
  <2>3. \A i \in 1..N + 1 : PutTogether(idCache, ps[i + 1]) = a[i]
    <3> TAKE i \in 1..N + 1
    <3>1. CASE i \in 1..N
      BY <1>7, <2>1, <3>1
    <3>2. CASE i = N + 1
      <4>1. (N + 1) + 1 = N + 2
        BY <1>1
      <4> QED BY <1>6, <2>1, <3>2, <4>1
    <3> QED BY <1>1, <3>1, <3>2
  <2>4. a = [i \in 1..N + 1 |-> a[i]]
    <3>1. DOMAIN a = 1..N + 1
      BY <2>1, LenProperties
    <3>2. a = [i \in DOMAIN a |-> a[i]]
      BY <2>1
    <3> QED BY <3>1, <3>2
  <2>5. q = a
    BY <2>2, <2>3, <2>4, Zenon
  <2> QED BY <2>5 DEF a
<1>9. FlattenSeq(q) = BlockBody(b) \o w
  BY <1>1, <1>8, FlattenAppend DEF BlockBody
<1>10. Slice(d, 0, p) \o (BlockBody(b) \o w) = d
  <2>1. /\ p \in Nat /\ e \in Nat /\ p <= e /\ e <= Len(d)
        /\ At(d, p, BlockBody(b)) /\ p + Len(BlockBody(b)) = e
        /\ At(d, e, w) /\ e + Len(w) = Len(d)
    BY <1>2, Zenon DEF BlockParted, w
  <2>2. BlockBody(b) = Slice(d, p, e)
    BY <1>1, <2>1, SliceAt
  <2>3. w = Slice(d, e, Len(d))
    BY <1>1, <2>1, SliceAt
  <2>4. 0 \in Nat /\ Len(d) \in Nat /\ 0 <= p /\ Len(d) <= Len(d) /\ p <= Len(d)
    <3>1. Len(d) \in Nat
      BY <1>1, BytesShape
    <3> QED BY <2>1, <3>1
  <2>5. Slice(d, p, e) \o Slice(d, e, Len(d)) = Slice(d, p, Len(d))
    <3>1. d \in Bytes
      BY <1>1
    <3> QED BY <2>1, <2>4, <3>1, SliceJoin, Zenon
  <2>6. Slice(d, 0, p) \o Slice(d, p, Len(d)) = Slice(d, 0, Len(d))
    <3>1. d \in Bytes
      BY <1>1
    <3> QED BY <2>1, <2>4, <3>1, SliceJoin, Zenon
  <2>7. Slice(d, 0, Len(d)) = d
    BY <1>1, SliceConcat
  <2> QED BY <2>2, <2>3, <2>5, <2>6, <2>7, Zenon
<1>11. Rebuilt(idCache, ps) = ps[1].payload \o FlattenSeq(q)
  BY Zenon DEF Rebuilt
<1> HIDE DEF q
<1>12. Rebuilt(idCache, ps) = d
  BY <1>3, <1>9, <1>10, <1>11, Zenon
<1> QED BY <1>12 DEF ps, d

\* What the annotations of the packets say of a block.
PacketsHit(ps, b) ==
  Fits(b) => \A i \in DOMAIN ps : \A a \in Range(ps[i].annotations) :
    LET endorsers == IF i \in 2..Len(ps)-1 THEN Len(b.txs[i - 1].endorsers) ELSE 0
    IN  /\ a.type \in Named =>
             \/ a.type = "RW_SET" /\ endorsers > MAX_ENDORSER_NUM
             \/ /\ a.offset + a.desc <= Len(ps[i].payload)
                /\ Slice(ps[i].payload, a.offset, a.offset + a.desc) = FieldOf(b, i, a.type)
        /\ a.type = "ENDORSER" => a.desc = endorsers \/ endorsers > MAX_ENDORSER_NUM

\* They are right.
LEMMA BlockHit ==
  ASSUME CertificateIds, NEW b \in Blocks
  PROVE  PacketsHit(BlockPackets(Marshal(b)), b)
<1> DEFINE ps == BlockPackets(Marshal(b))
           N == Len(b.txs)
           count(i) == IF i \in 2..Len(ps)-1 THEN Len(b.txs[i - 1].endorsers) ELSE 0
           right(i, a) ==
             /\ a.type \in Named =>
                  \/ a.type = "RW_SET" /\ count(i) > MAX_ENDORSER_NUM
                  \/ Hits(a, ps[i].payload, FieldOf(b, i, a.type))
             /\ a.type = "ENDORSER" => a.desc = count(i) \/ count(i) > MAX_ENDORSER_NUM
<1>1. N \in Nat /\ DOMAIN b.txs = 1..N
  BY BlockPartsShape
<1>2. PICK p, e : BlockSent(ps, Marshal(b), b, p)
  BY BlockIsSent, Zenon DEF BlockSentWhole
<1>3. /\ DOMAIN ps = 1..N + 2 /\ Len(ps) = N + 2
      /\ \A a \in Range(ps[1].annotations) : HeaderAnnotationHits(a, ps[1].payload, b)
      /\ \A i \in 1..N : FitsTransaction(b.txs[i]) => TxSent(ps[i + 1], b.txs[i])
      /\ FitsMetadata(b) => MetaSent(ps[N + 2], b)
  BY <1>2, Zenon DEF BlockSent, HeaderSent
<1> HIDE DEF ps
<1>4. ASSUME Fits(b), NEW i \in DOMAIN ps, NEW a \in Range(ps[i].annotations)
      PROVE  right(i, a)
  <2> DEFINE g == ps[i].payload
  <2>1. FitsMetadata(b) /\ \A k \in 1..N : FitsTransaction(b.txs[k])
    <3>1. FitsMetadata(b) /\ \A t \in Range(b.txs) : FitsTransaction(t)
      BY <1>4 DEF Fits
    <3>2. \A k \in 1..N : b.txs[k] \in Range(b.txs)
      BY <1>1 DEF Range
    <3> QED BY <3>1, <3>2
  <2> HIDE DEF N
  <2>2. CASE i = 1
    <3>1. HeaderAnnotationHits(a, g, b)
      BY <1>3, <1>4, <2>2
    <3> QED BY <3>1 DEF HeaderAnnotationHits, Named, FieldOf
  <2>3. CASE i = N + 2
    <3>1. MetaAnnotationHits(a, g, b)
      <4>1. MetaSent(ps[i], b)
        BY <1>3, <2>1, <2>3
      <4> QED BY <1>4, <4>1 DEF MetaSent
    <3> QED BY <3>1 DEF MetaAnnotationHits, Named, FieldOf
  <2>4. CASE i \in 2..N + 1
    <3>1. /\ i - 1 \in 1..N /\ (i - 1) + 1 = i
          /\ count(i) = Len(b.txs[i - 1].endorsers)
      <4>1. i - 1 \in 1..N /\ (i - 1) + 1 = i
        BY <1>1, <2>4
      <4>2. i \in 2..Len(ps) - 1
        BY <1>1, <1>3, <2>4
      <4> QED BY <4>1, <4>2
    <3> DEFINE t == b.txs[i - 1]
    <3>2. TxAnnotationHits(a, g, t)
      <4>1. TxSent(ps[(i - 1) + 1], b.txs[i - 1])
        BY <1>3, <2>1, <3>1
      <4>2. TxSent(ps[i], t)
        BY <3>1, <4>1
      <4> HIDE DEF t
      <4> QED BY <1>4, <4>2 DEF TxSent
    <3>3. /\ FieldOf(b, i, "CHAINCODE_NAME") = t.chaincode /\ FieldOf(b, i, "RW_SET") = t.results
          /\ FieldOf(b, i, "TX_SIG") = t.signature
      BY DEF FieldOf
    <3>4. count(i) = Len(t.endorsers)
      BY <3>1
    <3> HIDE DEF t, g, count
    <3> QED BY <3>2, <3>3, <3>4 DEF TxAnnotationHits, Named, g
  <2>5. i = 1 \/ i = N + 2 \/ i \in 2..N + 1
    <3>1. i \in 1..N + 2
      BY <1>3
    <3> QED BY <1>1, <3>1
  <2> QED BY <2>2, <2>3, <2>4, <2>5
<1>5. Fits(b) => \A i \in DOMAIN ps : \A a \in Range(ps[i].annotations) : right(i, a)
  <2> HIDE DEF right
  <2> QED BY <1>4
<1>6. PacketsHit(ps, b)
  BY <1>5, Zenon DEF PacketsHit, Hits
<1> QED BY <1>6 DEF ps

-----------------------------------------------------------------------------
(* What has been sent.                                                     *)

\* A certificate is one that the cache has for a file, the file has no collisions, and the
\* card has been told of a certificate: what RebuildsBlock says of a state, said of the
\* values of its variables.
KnownIn(f, c) ==
  /\ Len(c.ca) \in TwoBytes /\ Len(c.name) < 128
  /\ \E i \in DOMAIN LoadIdentityTable(f) :
       LoadIdentityTable(f)[i].name = c.name /\ LoadIdentityTable(f)[i].ca = c.ca
CollisionFree(f) == Len(f) <= 16 /\ \A e \in Range(LoadIdentityTable(f)) : e.id \in Positions
Told(us, c) == \E u \in us : u.payload = IdOf(c)
RebuiltFrom(f, ids, us, b, ps) ==
  CollisionFree(f) /\ Fits(b) /\ (\A c \in Certificates(b) : KnownIn(f, c)) =>
    Rebuilt(ids, ps) = Marshal(b) /\ \A c \in Certificates(b) : Told(us, c)

\* Before the block there are no packets, and after the installation the card has been told
\* of everything in the cache.
SentInv ==
  /\ pc \in {"install", "send", "sent"}
  /\ pc # "sent" => packets = <<>>
  /\ pc # "install" => todo = <<>> /\ \A sk \in DOMAIN cache : \E u \in updates : u.payload = sk
  /\ pc = "sent" => RebuiltFrom(file, idCache, updates, block, packets) /\ PacketsHit(packets, block)

\* Of what nothing changes.
LEMMA SentStays ==
  ASSUME SentInv, UNCHANGED vars
  PROVE  SentInv'
<1>1. /\ pc' = pc /\ packets' = packets /\ todo' = todo /\ cache' = cache /\ updates' = updates
      /\ file' = file /\ idCache' = idCache /\ block' = block
  BY DEF vars, caches
<1>2. pc' \in {"install", "send", "sent"} /\ (pc' # "sent" => packets' = <<>>)
  BY <1>1 DEF SentInv
<1>3. pc' # "install" =>
        todo' = <<>> /\ \A sk \in DOMAIN cache' : \E u \in updates' : u.payload = sk
  BY <1>1 DEF SentInv
<1>4. pc' = "sent" =>
        RebuiltFrom(file', idCache', updates', block', packets') /\ PacketsHit(packets', block')
  BY <1>1 DEF SentInv
<1> QED BY <1>2, <1>3, <1>4 DEF SentInv

\* The certificates of a block.
LEMMA BlockCertificates ==
  ASSUME NEW b \in Blocks, NEW c \in Certificates(b)
  PROVE  c \in Certificate
<1>1. /\ b.orderer \in Certificate /\ DOMAIN b.txs = 1..Len(b.txs)
      /\ \A i \in 1..Len(b.txs) : b.txs[i] \in Transaction
  BY BlockShape, BlockPartsShape
<1>2. CASE c = b.orderer
  BY <1>1, <1>2
<1>3. ASSUME NEW t \in Range(b.txs), c \in {t.creator} \union Range(t.endorsers)
      PROVE  c \in Certificate
  <2>1. t \in Transaction
    BY <1>1, <1>3 DEF Range
  <2>2. /\ t.creator \in Certificate /\ DOMAIN t.endorsers = 1..Len(t.endorsers)
        /\ \A i \in 1..Len(t.endorsers) : t.endorsers[i] \in Certificate
    BY <2>1, TransactionShape
  <2> QED BY <1>3, <2>2 DEF Range
<1> QED BY <1>2, <1>3 DEF Certificates

\* A block that is sent.
LEMMA SendBlockSends ==
  ASSUME CacheInv, SentInv, NEW b \in Blocks, SendBlock(b)
  PROVE  SentInv'
<1>1. /\ pc = "send" /\ pc' = "sent" /\ block' = b /\ packets' = BlockPackets(Marshal(b))
      /\ file' = file /\ todo' = todo /\ cache' = cache /\ idCache' = idCache /\ updates' = updates
  BY DEF SendBlock, caches
<1>2. todo = <<>> /\ \A sk \in DOMAIN cache : \E u \in updates : u.payload = sk
  BY <1>1 DEF SentInv
<1>3. CertificateIds
  BY IdsAreIntegers
<1>4. PacketsHit(BlockPackets(Marshal(b)), b)
  BY <1>3, BlockHit
<1>5. RebuiltFrom(file, idCache, updates, b, BlockPackets(Marshal(b)))
  <2> SUFFICES ASSUME CollisionFree(file), Fits(b), \A c \in Certificates(b) : KnownIn(file, c)
               PROVE  /\ Rebuilt(idCache, BlockPackets(Marshal(b))) = Marshal(b)
                      /\ \A c \in Certificates(b) : Told(updates, c)
    BY DEF RebuiltFrom
  <2>1. ASSUME NEW c \in Certificates(b)
        PROVE  Cached(c) /\ IdOf(c) \in DOMAIN cache
    <3>1. c \in Certificate
      BY BlockCertificates
    <3>2. Known(c)
      <4>1. KnownIn(file, c)
        OBVIOUS
      <4> QED BY <4>1 DEF Known, KnownIn
    <3>3. NoCollision
      BY DEF NoCollision, CollisionFree
    <3> QED BY <1>2, <3>1, <3>2, <3>3, KnownIsCached
  <2>2. Rebuilt(idCache, BlockPackets(Marshal(b))) = Marshal(b)
    BY <1>3, <2>1, BlockRebuilt
  <2>3. \A c \in Certificates(b) : Told(updates, c)
    BY <1>2, <2>1 DEF Told
  <2> QED BY <2>2, <2>3
<1>6. RebuiltFrom(file', idCache', updates', block', packets') /\ PacketsHit(packets', block')
  BY <1>1, <1>4, <1>5
<1>7. todo' = <<>> /\ \A sk \in DOMAIN cache' : \E u \in updates' : u.payload = sk
  BY <1>1, <1>2
<1> QED BY <1>1, <1>6, <1>7 DEF SentInv

\* Every step keeps it so.
LEMMA StepSent ==
  ASSUME CacheInv, SentInv, [Next]_vars
  PROVE  SentInv'
<1>1. CASE InstallCertificateFile
  BY <1>1 DEF InstallCertificateFile, SentInv
<1>2. CASE UpdateRemoteCertificateCache
  <2>1. /\ pc' = "send" /\ todo = <<>> /\ todo' = todo /\ cache' = cache
        /\ packets' = packets /\ pc = "install"
    BY <1>2 DEF UpdateRemoteCertificateCache, caches
  <2>2. ASSUME NEW sk \in DOMAIN cache PROVE \E u \in updates' : u.payload = sk
    <3>1. CacheUpdate(cache[sk], sk) \in updates'
      BY <1>2, Zenon DEF UpdateRemoteCertificateCache
    <3>2. CacheUpdate(cache[sk], sk).payload = sk
      BY DEF CacheUpdate
    <3> QED BY <3>1, <3>2
  <2>3. packets = <<>>
    BY <2>1 DEF SentInv
  <2> QED BY <2>1, <2>2, <2>3 DEF SentInv
<1>3. ASSUME NEW b \in Blocks, SendBlock(b) PROVE SentInv'
  BY <1>3, SendBlockSends
<1>4. CASE UNCHANGED vars
  BY <1>4, SentStays
<1> QED BY <1>1, <1>2, <1>3, <1>4 DEF Next

\* At first nothing has been sent.
LEMMA InitSent == Init => SentInv
BY DEF Init, SentInv

\* The inductive invariant of what is sent.
THEOREM SentInvariant == Spec => [](CacheInv /\ SentInv)
<1>1. Init => CacheInv /\ SentInv
  BY InitCaches, InitSent
<1>2. CacheInv /\ SentInv /\ [Next]_vars => (CacheInv /\ SentInv)'
  BY StepCaches, StepSent
<1> QED BY <1>1, <1>2, PTL DEF Spec

\* From the packets the card can put every block together again that fits and whose
\* certificates are known, and has been told of these: for every configuration file and
\* every block, with any number of transactions and endorsers and fields of any size.
THEOREM RebuildsBlockCorrect == Spec => []RebuildsBlock
<1>1. SentInv => RebuildsBlock
  <2> SUFFICES ASSUME SentInv, pc = "sent", NoCollision, Fits(block),
                      \A c \in Certificates(block) : Known(c)
               PROVE  /\ packets[1].payload
                           \o FlattenSeq([i \in 1..Len(packets)-1 |-> Expand(packets[i + 1])])
                           = Marshal(block)
                      /\ \A c \in Certificates(block) :
                           \E u \in updates : u.payload = Identity(c.name, c.ca)
    BY DEF RebuildsBlock
  <2>1. RebuiltFrom(file, idCache, updates, block, packets)
    BY DEF SentInv
  <2>2. CollisionFree(file) /\ \A c \in Certificates(block) : KnownIn(file, c)
    BY Zenon DEF NoCollision, CollisionFree, Known, KnownIn
  <2>3. /\ Rebuilt(idCache, packets) = Marshal(block)
        /\ \A c \in Certificates(block) : Told(updates, c)
    BY <2>1, <2>2 DEF RebuiltFrom
  <2>4. packets[1].payload \o FlattenSeq([i \in 1..Len(packets)-1 |-> Expand(packets[i + 1])])
          = Rebuilt(idCache, packets)
    BY ExpandPutsTogether, Zenon DEF Rebuilt
  <2> QED BY <2>3, <2>4, Zenon DEF Told, IdOf
<1> QED BY <1>1, SentInvariant, PTL

\* The card finds the number of the block, the names of the chaincodes, the results and the
\* signatures where the annotations say that they are, and the number of the endorsers is
\* right, up to eight of them: in every block that fits, known certificates or not.
THEOREM AnnotationsHitCorrect == Spec => []AnnotationsHit
<1>1. SentInv => AnnotationsHit
  <2> SUFFICES ASSUME SentInv PROVE AnnotationsHit
    OBVIOUS
  <2>1. CASE pc = "sent"
    <3>1. PacketsHit(packets, block)
      BY <2>1 DEF SentInv
    <3> QED BY <3>1, Zenon DEF PacketsHit, AnnotationsHit
  <2>2. CASE pc # "sent"
    <3>1. packets = <<>>
      BY <2>2 DEF SentInv
    <3>2. DOMAIN packets = {}
      BY <3>1
    <3> QED BY <3>2 DEF AnnotationsHit
  <2> QED BY <2>1, <2>2
<1> QED BY <1>1, SentInvariant, PTL
=============================================================================
