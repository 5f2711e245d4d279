----------------------------- MODULE MultiMaps -----------------------------
(***************************************************************************)
(* The encrypted multi-maps a table is turned into before it is stored:    *)
(* DataMapper::*MultiMapConstruct build a RowMultiMap (an index mapped to  *)
(* a vector of values) and EncryptManager::setup flattens it into an       *)
(* EncryptedMultiMap (an encrypted key mapped to one value).               *)
(*                                                                         *)
(* A table is a record [name, types, rows]: types maps a column number to  *)
(* its declared type, rows maps a row number to its cells; both count from *)
(* 0, as in the code.  Cryptography is symbolic.  The PRF F(index) is      *)
(* modelled by the index itself and the hash H(F(index),i) that becomes    *)
(* the SQL key by the pair <<index, i>>: both are injective as far as the  *)
(* code relies on them.  A ciphertext is its plaintext tagged with the     *)
(* scheme that produced it.                                                *)
(***************************************************************************)
EXTENDS Integers, FiniteSets

CONSTANT Numerals        \* the texts that stoi and the encryptor accept: integers
                         \* below the plain modulus and not negative

Rows(t) == DOMAIN t.rows
Cols(t) == DOMAIN t.types

(***************************************************************************)
(* The tables fileReader yields from a rectangular file: as many cells in  *)
(* every row as there are declared types.                                  *)
(***************************************************************************)
IsTable(t) ==
  /\ IsFiniteSet(Rows(t)) /\ Rows(t) = 0 .. (Cardinality(Rows(t)) - 1)
  /\ IsFiniteSet(Cols(t)) /\ Cols(t) = 0 .. (Cardinality(Cols(t)) - 1)
  /\ \A r \in Rows(t) : DOMAIN t.rows[r] = Cols(t)

(***************************************************************************)
(* Only the cells of string and int columns are encrypted; the constructors *)
(* push nothing for a column of any other type.                            *)
(***************************************************************************)
Encrypted(t, c) == t.types[c] \in {"string", "int"}

Encrypt(t, r, c) ==
  IF t.types[c] = "int" THEN <<"bfv", t.rows[r][c]>> ELSE <<"aes", t.rows[r][c]>>

(***************************************************************************)
(* Building the multi-maps throws, or reads inData[0] of an empty vector,  *)
(* when the table has no row or an int column holds something else than a *)
(* small enough number: the process dies before anything is sent to the    *)
(* database.                                                               *)
(***************************************************************************)
Unbuildable(t) ==
  \/ Rows(t) = {}
  \/ \E r \in Rows(t), c \in Cols(t) : t.types[c] = "int" /\ t.rows[r][c] \notin Numerals

(***************************************************************************)
(* push_back in ascending order over a set S of row or column numbers puts *)
(* s at the position that counts the elements of S below it.               *)
(***************************************************************************)
Rank(S, s) == Cardinality({q \in S : q < s})

Ascending(S) == [k \in {Rank(S, s) : s \in S} |-> CHOOSE s \in S : Rank(S, s) = k]

(***************************************************************************)
(* mmr: "table,row" -> the encrypted cells of the row.                     *)
(***************************************************************************)
RowVector(t, r) ==
  LET kept == Ascending({c \in Cols(t) : Encrypted(t, c)})
  IN  [k \in DOMAIN kept |-> Encrypt(t, r, kept[k])]

RowMM(t) == [idx \in {<<t.name, r>> : r \in Rows(t)} |-> RowVector(t, idx[2])]

(***************************************************************************)
(* mmc: "table,column" -> the encrypted cells of the column.               *)
(***************************************************************************)
ColVector(t, c) ==
  [r \in {r \in Rows(t) : Encrypted(t, c)} |-> Encrypt(t, r, c)]

ColMM(t) == [idx \in {<<t.name, c>> : c \in Cols(t)} |-> ColVector(t, idx[2])]

(***************************************************************************)
(* mmv: "table,column,text" -> the PRF of "table,row" for every row whose  *)
(* cell is that text, in row order.  That PRF is the token of the row in   *)
(* mmr, so a posting is modelled by the row's mmr index.                   *)
(***************************************************************************)
Postings(name, S) ==
  LET hits == Ascending(S) IN [k \in DOMAIN hits |-> <<name, hits[k]>>]

\* The bug of overwriting the vector of a known text: only the last row stays.
LastRowWith(t, c, text) ==
  {r \in Rows(t) : t.rows[r][c] = text /\ \A q \in Rows(t) : t.rows[q][c] = text => q <= r}

RowsWith(t, c, text) == {r \in Rows(t) : t.rows[r][c] = text}

ValueMM(t) ==
  [idx \in {<<t.name, c, t.rows[r][c]>> : c \in Cols(t), r \in Rows(t)} |->
     Postings(t.name, RowsWith(t, idx[2], idx[3]))]

(***************************************************************************)
(* mmjoin: "table1,row1" -> the postings of the rows of table2 whose cell  *)
(* c2 equals cell c1 of row1.                                              *)
(***************************************************************************)
JoinMM(t1, t2, c1, c2) ==
  LET partners(r1) == RowsWith(t2, c2, t1.rows[r1][c1])
  IN  [idx \in {<<t1.name, r1>> : r1 \in {r \in Rows(t1) : partners(r) # {}}} |->
         Postings(t2.name, partners(idx[2]))]

\* The bug of counting the values of an index from 1.
SetupFromOne(mm) ==
  [k \in UNION {{<<idx, i + 1>> : i \in DOMAIN mm[idx]} : idx \in DOMAIN mm} |-> mm[k[1]][k[2] - 1]]

(***************************************************************************)
(* EncryptManager::setup: one entry per index and counter.                 *)
(***************************************************************************)
Setup(mm) ==
  [k \in UNION {{<<idx, i>> : i \in DOMAIN mm[idx]} : idx \in DOMAIN mm} |-> mm[k[1]][k[2]]]

(***************************************************************************)
(* How the server reads a stored index: from counter 0 until the first key *)
(* that is missing (the loop of sum_by_row).                               *)
(***************************************************************************)
Walk(store, idx) ==
  LET stored(i) == <<idx, i>> \in DOMAIN store
  IN  [i \in {k[2] : k \in {q \in DOMAIN store : q[1] = idx /\ \A j \in 0 .. q[2] : stored(j)}} |->
         store[<<idx, i>>]]
=============================================================================
