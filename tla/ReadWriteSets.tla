--------------------------- MODULE ReadWriteSets ---------------------------
(***************************************************************************)
(* States, and the read and write sets of transactions. A state gives each *)
(* key its version, NoVersion if it has no value; a version is the number  *)
(* of a block and an index in it. A transaction is a record:               *)
(*   reads    the version it read of some keys                             *)
(*   scan     a range query: its start, its end, whether the iterator was  *)
(*            exhausted (if not, the end is the last key that was seen)    *)
(*   results  the versions of the keys the query found                     *)
(*   puts, deletes   the keys it writes                                    *)
(***************************************************************************)
EXTENDS Integers, Sequences

CONSTANT NumKeys
ASSUME NumKeysAssumption == NumKeys \in Nat \ {0}

\* Numbered in the order of range queries.
Keys == 1..NumKeys

NoVersion == <<>>

\* The keys a range query has looked at, and what it finds in a state.
ScannedKeys(q) ==
  {key \in Keys : q.start <= key /\ IF q.exhausted THEN key < q.end ELSE key <= q.end}
Found(q, s) ==
  [key \in {x \in ScannedKeys(q) : s[x] # NoVersion} |-> s[key]]

\* All the transaction has read is as it was.
ReadsCurrent(tx, s) ==
  /\ \A key \in DOMAIN tx.reads : tx.reads[key] = s[key]
  /\ tx.results = Found(tx.scan, s)

\* The state the transaction's writes leave.
Written(tx, s, v) ==
  [key \in Keys |-> IF key \in tx.puts THEN v
                    ELSE IF key \in tx.deletes THEN NoVersion ELSE s[key]]

\* The states after each number of transactions of block n, accepted as ok says.
StatesAfter(s, n, txs, ok) ==
  LET after[i \in 0..Len(txs)] ==
        IF i = 0 THEN s
        ELSE IF ok[i] THEN Written(txs[i], after[i - 1], <<n, i - 1>>)
        ELSE after[i - 1]
  IN after
=============================================================================
