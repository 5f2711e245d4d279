---------------------------- MODULE MapBuilder ----------------------------
(***************************************************************************)
(* The loops of DataMapper::*MultiMapConstruct and EncryptManager::setup,  *)
(* which MultiMaps describes by what they build.  All four constructors    *)
(* have an outer and an inner loop:                                        *)
(*                                                                         *)
(*            outer             inner             per cell                 *)
(*   mmr      rows              columns           push to the row's vector *)
(*   mmc      columns           rows              push to the column's     *)
(*   mmv      columns           rows              add the row's token      *)
(*   mmjoin   rows of table     rows of partner   add the partner's token  *)
(*                                                                         *)
(* An index is added once per row or column in mmr and mmc, and once per   *)
(* cell in the other two, where add appends.                               *)
(***************************************************************************)
EXTENDS MultiMaps, Sequences

CONSTANTS
  Tables,     \* the tables to build from
  Partners    \* the second tables of a join, empty for no join

ASSUME BuilderAssumption == \A t \in Tables \cup Partners : IsTable(t) /\ ~Unbuildable(t)

VARIABLES
  target,     \* the multi-map under construction
  table, partner,
  outer, inner,
  vec,        \* the vector of the row or column in hand
  mmap,       \* the RowMultiMap
  todo,       \* setup: the keys of mmap not yet visited
  emm,        \* the EncryptedMultiMap, KVmap
  keys        \* and its list of keys

vars == <<target, table, partner, outer, inner, vec, mmap, todo, emm, keys>>

NoEntries == [k \in {} |-> k]

(***************************************************************************)
(* Vectors are functions from 0, as in the code.                           *)
(***************************************************************************)
Size(v) == Cardinality(DOMAIN v)

PushBack(v, x) == [i \in DOMAIN v \cup {Size(v)} |-> IF i = Size(v) THEN x ELSE v[i]]

JoinVectors(v, w) ==
  [i \in 0 .. (Size(v) + Size(w) - 1) |-> IF i < Size(v) THEN v[i] ELSE w[i - Size(v)]]

\* The bug of putting the new vector in front of the one that is there.
AddInFront(mm, idx, v) ==
  [k \in DOMAIN mm \cup {idx} |->
     IF k # idx THEN mm[k] ELSE IF idx \in DOMAIN mm THEN JoinVectors(v, mm[idx]) ELSE v]

\* The bug of replacing it.
AddOver(mm, idx, v) == [k \in DOMAIN mm \cup {idx} |-> IF k = idx THEN v ELSE mm[k]]

(***************************************************************************)
(* RowMultiMap::add: a known index has its vector extended.                *)
(***************************************************************************)
Add(mm, idx, v) ==
  [k \in DOMAIN mm \cup {idx} |->
     IF k # idx THEN mm[k] ELSE IF idx \in DOMAIN mm THEN JoinVectors(mm[idx], v) ELSE v]

Single(x) == PushBack(NoEntries, x)

OuterSize == IF target \in {"mmr", "mmjoin"} THEN Size(table.rows) ELSE Size(table.rows[0])
InnerSize ==
  CASE target = "mmr" -> Size(table.rows[0])
    [] target = "mmjoin" -> Size(partner.rows)
    [] OTHER -> Size(table.rows)

Init ==
  /\ table \in Tables
  /\ \/ target \in {"mmr", "mmc", "mmv"} /\ partner = table
     \/ target = "mmjoin" /\ partner \in Partners
  /\ outer = 0 /\ inner = 0 /\ vec = NoEntries /\ mmap = NoEntries
  /\ todo = {} /\ emm = NoEntries /\ keys = <<>>

Visit ==
  /\ outer < OuterSize /\ inner < InnerSize
  /\ inner' = inner + 1
  /\ UNCHANGED <<target, table, partner, outer, todo, emm, keys>>

PushCell(r, c) ==
  /\ vec' = IF Encrypted(table, c) THEN PushBack(vec, Encrypt(table, r, c)) ELSE vec
  /\ UNCHANGED mmap

AddToken(idx, name, r) == mmap' = Add(mmap, idx, Single(<<name, r>>)) /\ UNCHANGED vec

rowMultiMapConstruct == target = "mmr" /\ Visit /\ PushCell(outer, inner)

colMultiMapConstruct == target = "mmc" /\ Visit /\ PushCell(inner, outer)

valueMultiMapConstruct ==
  /\ target = "mmv" /\ Visit
  /\ AddToken(<<table.name, outer, table.rows[inner][outer]>>, table.name, inner)

(***************************************************************************)
(* The join columns are those of checkAndCreateJoinMM.                     *)
(***************************************************************************)
joinMultiMapConstruct ==
  /\ target = "mmjoin" /\ Visit
  /\ IF table.rows[outer][0] = partner.rows[inner][2]
     THEN AddToken(<<table.name, outer>>, partner.name, inner)
     ELSE UNCHANGED <<mmap, vec>>

(***************************************************************************)
(* The inner loop is over: mmr and mmc add their vector, and after the     *)
(* last turn of the outer loop setup begins.                               *)
(***************************************************************************)
EndInner ==
  /\ outer < OuterSize /\ inner = InnerSize
  /\ outer' = outer + 1 /\ inner' = 0 /\ vec' = NoEntries
  /\ mmap' = IF target \in {"mmr", "mmc"} THEN Add(mmap, <<table.name, outer>>, vec) ELSE mmap
  /\ todo' = IF outer' = OuterSize THEN DOMAIN mmap' ELSE {}
  /\ UNCHANGED <<target, table, partner, emm, keys>>

(***************************************************************************)
(* setup: the vector of one key, element by element.  The order of keys is *)
(* that of their strings, here any.  KVmap.insert leaves a key that is     *)
(* there as it is, keys.push_back takes it again.                          *)
(***************************************************************************)
Insert(e, k, value) == [q \in DOMAIN e \cup {k} |-> IF q \in DOMAIN e THEN e[q] ELSE value]

\* The bug of an inner loop that goes on counting from the key before.
setupCountingOn ==
  /\ outer = OuterSize /\ todo # {}
  /\ LET idx == CHOOSE x \in todo : TRUE
     IN  IF inner < Size(mmap[idx])
         THEN /\ emm' = Insert(emm, <<idx, inner>>, mmap[idx][inner])
              /\ keys' = Append(keys, <<idx, inner>>)
              /\ inner' = inner + 1 /\ UNCHANGED todo
         ELSE todo' = todo \ {idx} /\ UNCHANGED <<emm, keys, inner>>
  /\ UNCHANGED <<target, table, partner, outer, vec, mmap>>

setup ==
  /\ outer = OuterSize /\ todo # {}
  /\ LET idx == CHOOSE x \in todo : TRUE
         i == inner
     IN  IF i < Size(mmap[idx])
         THEN /\ emm' = Insert(emm, <<idx, i>>, mmap[idx][i])
              /\ keys' = Append(keys, <<idx, i>>)
              /\ inner' = inner + 1 /\ UNCHANGED todo
         ELSE todo' = todo \ {idx} /\ inner' = 0 /\ UNCHANGED <<emm, keys>>
  /\ UNCHANGED <<target, table, partner, outer, vec, mmap>>

Next ==
  \/ rowMultiMapConstruct \/ colMultiMapConstruct
  \/ valueMultiMapConstruct \/ joinMultiMapConstruct
  \/ EndInner
  \/ setup

Spec == Init /\ [][Next]_vars
-----------------------------------------------------------------------------
Wanted ==
  CASE target = "mmr" -> RowMM(table)
    [] target = "mmc" -> ColMM(table)
    [] target = "mmv" -> ValueMM(table)
    [] target = "mmjoin" -> JoinMM(table, partner, 0, 2)

(***************************************************************************)
(* The constructors build the multi-maps that MultiMaps describes, also    *)
(* when values repeat within a column and when columns are skipped.        *)
(***************************************************************************)
MapsBuilt == outer = OuterSize => mmap = Wanted

(***************************************************************************)
(* At any time a vector has reached exactly a prefix of what it will be:   *)
(* no loop order puts a value at the place of another one.                 *)
(***************************************************************************)
PrefixesOnly ==
  \A idx \in DOMAIN mmap :
    /\ idx \in DOMAIN Wanted /\ DOMAIN mmap[idx] = 0 .. (Size(mmap[idx]) - 1)
    /\ \A i \in DOMAIN mmap[idx] : i \in DOMAIN Wanted[idx] /\ mmap[idx][i] = Wanted[idx][i]

(***************************************************************************)
(* setup ends with one entry per element of the multi-map, and lists each  *)
(* key once: insertEMM, which goes through the list, stores every entry    *)
(* and none twice.                                                         *)
(***************************************************************************)
EntriesBuilt ==
  outer = OuterSize /\ todo = {} =>
    emm = Setup(Wanted) /\ Len(keys) = Cardinality(DOMAIN emm)
      /\ {keys[i] : i \in DOMAIN keys} = DOMAIN emm
=============================================================================
