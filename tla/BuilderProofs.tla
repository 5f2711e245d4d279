--------------------------- MODULE BuilderProofs ---------------------------
(***************************************************************************)
(* The loops of MapBuilder build the multi-maps that MultiMaps describes,  *)
(* and setup their entries, for every table: the invariants of MapBuilder  *)
(* for tables of any size.                                                 *)
(***************************************************************************)
EXTENDS MapBuilder, MultiMapProofs, SequenceTheorems

(***************************************************************************)
(* What the loops have built so far: the cells visited, the rows of a text *)
(* and the partners of a row among them, the whole rows or columns before  *)
(* the outer loop's, and the vector in hand.                               *)
(***************************************************************************)
Visited(o, i) == o < outer \/ (o = outer /\ i < inner)

RowsWithSoFar(c, text) == {r \in RowsWith(table, c, text) : Visited(c, r)}

PartnersSoFar(r1) == {r \in RowsWith(partner, 2, table.rows[r1][0]) : Visited(r1, r)}

MapSoFar ==
  CASE target = "mmr" ->
         [idx \in {<<table.name, r>> : r \in 0 .. (outer - 1)} |-> RowVector(table, idx[2])]
    [] target = "mmc" ->
         [idx \in {<<table.name, c>> : c \in 0 .. (outer - 1)} |-> ColVector(table, idx[2])]
    [] target = "mmv" ->
         [idx \in UNION {{<<table.name, c, table.rows[r][c]>> : r \in {r \in Rows(table) : Visited(c, r)}}
                           : c \in Cols(table)} |->
            Postings(table.name, RowsWithSoFar(idx[2], idx[3]))]
    [] target = "mmjoin" ->
         [idx \in {<<table.name, r1>> : r1 \in {r \in Rows(table) : PartnersSoFar(r) # {}}} |->
            Postings(partner.name, PartnersSoFar(idx[2]))]

ColumnsSoFar == {c \in 0 .. (inner - 1) : Encrypted(table, c)}

VectorSoFar ==
  CASE target = "mmr" ->
         [k \in DOMAIN Ascending(ColumnsSoFar) |-> Encrypt(table, outer, Ascending(ColumnsSoFar)[k])]
    [] target = "mmc" ->
         [r \in {r \in 0 .. (inner - 1) : Encrypted(table, outer)} |-> Encrypt(table, r, outer)]
    [] OTHER -> NoEntries

(***************************************************************************)
(* The entries setup has made: those of the indexes it is done with, and   *)
(* of the one in hand those with smaller counters.                         *)
(***************************************************************************)
InHand == CHOOSE x \in todo : TRUE

EntriesSoFar ==
  {k \in DOMAIN Setup(mmap) : k[1] \notin todo \/ (k[1] = InHand /\ k[2] < inner)}

(***************************************************************************)
(* The inductive invariant.                                                *)
(***************************************************************************)
Chosen ==
  /\ table \in Tables
  /\ \/ target \in {"mmr", "mmc", "mmv"} /\ partner = table
     \/ target = "mmjoin" /\ partner \in Partners

InLoops ==
  outer < OuterSize =>
    /\ inner \in 0 .. InnerSize
    /\ vec = VectorSoFar
    /\ todo = {} /\ emm = NoEntries /\ keys = <<>>

InSetup ==
  outer = OuterSize =>
    /\ todo \subseteq DOMAIN mmap
    /\ inner \in Nat
    /\ IF todo = {} THEN inner = 0 ELSE inner <= Size(mmap[InHand])
    /\ emm = [k \in EntriesSoFar |-> mmap[k[1]][k[2]]]
    /\ IsFiniteSet(EntriesSoFar)
    /\ keys \in Seq(EntriesSoFar) /\ Len(keys) = Cardinality(EntriesSoFar)
    /\ {keys[i] : i \in DOMAIN keys} = EntriesSoFar

BuilderInv ==
  /\ Chosen
  /\ outer \in 0 .. OuterSize
  /\ mmap = MapSoFar
  /\ InLoops
  /\ InSetup
-----------------------------------------------------------------------------
(***************************************************************************)
(* The sizes of a table are those of its vectors of rows and of cells.     *)
(***************************************************************************)
LEMMA TableSizes ==
  ASSUME NEW t \in Tables \cup Partners
  PROVE  /\ IsTable(t)
         /\ Size(t.rows) \in Nat \ {0} /\ Rows(t) = 0 .. (Size(t.rows) - 1)
         /\ Size(t.rows[0]) \in Nat /\ Cols(t) = 0 .. (Size(t.rows[0]) - 1)
<1>1. IsTable(t) /\ Rows(t) # {}
  BY BuilderAssumption DEF Unbuildable
<1>2. /\ IsFiniteSet(Rows(t)) /\ Rows(t) = 0 .. (Cardinality(Rows(t)) - 1)
      /\ IsFiniteSet(Cols(t)) /\ Cols(t) = 0 .. (Cardinality(Cols(t)) - 1)
      /\ \A r \in Rows(t) : DOMAIN t.rows[r] = Cols(t)
  BY <1>1 DEF IsTable
<1>3. Cardinality(Rows(t)) \in Nat \ {0} /\ Cardinality(Cols(t)) \in Nat
  BY <1>1, <1>2, FS_CardinalityType, FS_EmptySet
<1>4. 0 \in Rows(t)
  BY <1>2, <1>3
<1>5. Size(t.rows) = Cardinality(Rows(t)) /\ Size(t.rows[0]) = Cardinality(Cols(t))
  BY <1>2, <1>4 DEF Size, Rows
<1> QED BY <1>1, <1>2, <1>3, <1>5

(***************************************************************************)
(* A vector of n elements with one more.                                   *)
(***************************************************************************)
Longer(v, n, x) == [i \in 0 .. n |-> IF i = n THEN x ELSE v[i]]

(***************************************************************************)
(* push_back on a vector of n elements makes it a longer one.              *)
(***************************************************************************)
LEMMA PushBackIs ==
  ASSUME NEW n \in Nat, NEW v, DOMAIN v = 0 .. (n - 1), NEW x
  PROVE  Size(v) = n /\ PushBack(v, x) = Longer(v, n, x)
<1>1. Size(v) = n
  BY FS_Interval DEF Size
<1>2. (0 .. (n - 1)) \cup {n} = 0 .. n
  OBVIOUS
<1> QED BY <1>1, <1>2 DEF PushBack, Longer

(***************************************************************************)
(* Joining a vector of one element to another is pushing this element.     *)
(***************************************************************************)
LEMMA JoinSingle ==
  ASSUME NEW n \in Nat, NEW v, DOMAIN v = 0 .. (n - 1), NEW x
  PROVE  JoinVectors(v, Single(x)) = Longer(v, n, x)
<1>1. DOMAIN NoEntries = 0 .. (0 - 1)
  BY DEF NoEntries
<1>2. Single(x) = Longer(NoEntries, 0, x)
  BY <1>1, PushBackIs DEF Single
<1>3. DOMAIN Single(x) = 0 .. (1 - 1) /\ Single(x)[0] = x
  BY <1>2 DEF Longer
<1> HIDE DEF Single
<1>4. Size(Single(x)) = 1 /\ Size(v) = n
  BY <1>3, PushBackIs
<1>5. JoinVectors(v, Single(x)) = [i \in 0 .. (n + 1 - 1) |-> IF i < n THEN v[i] ELSE Single(x)[i - n]]
  BY <1>4 DEF JoinVectors
<1>6. \A i \in 0 .. n : (IF i < n THEN v[i] ELSE Single(x)[i - n]) = IF i = n THEN x ELSE v[i]
  BY <1>3
<1> QED BY <1>5, <1>6 DEF Longer

(***************************************************************************)
(* The postings of a set are as many as its elements, and one more row     *)
(* behind the others is one more posting.                                  *)
(***************************************************************************)
LEMMA PostingsGrow ==
  ASSUME NEW name, NEW S \in SUBSET Nat, IsFiniteSet(S), NEW r \in Nat, \A s \in S : s < r
  PROVE  /\ Cardinality(S) \in Nat
         /\ DOMAIN Postings(name, S) = 0 .. (Cardinality(S) - 1)
         /\ Postings(name, S \cup {r}) = Longer(Postings(name, S), Cardinality(S), <<name, r>>)
<1>1. Cardinality(S) \in Nat /\ DOMAIN Ascending(S) = 0 .. (Cardinality(S) - 1)
  BY AscendingIs
<1>2. DOMAIN Postings(name, S) = 0 .. (Cardinality(S) - 1)
  BY <1>1 DEF Postings
<1>3. Ascending(S \cup {r}) = Longer(Ascending(S), Cardinality(S), r)
  BY AscendingAppend DEF Longer
<1>4. DOMAIN Ascending(S \cup {r}) = 0 .. Cardinality(S)
  BY <1>3 DEF Longer
<1>5. ASSUME NEW k \in 0 .. Cardinality(S)
      PROVE  <<name, Ascending(S \cup {r})[k]>> = Longer(Postings(name, S), Cardinality(S), <<name, r>>)[k]
  <2>1. CASE k = Cardinality(S)
    BY <1>3, <2>1 DEF Longer
  <2>2. CASE k # Cardinality(S)
    <3>1. k \in DOMAIN Ascending(S)
      BY <1>1, <2>2
    <3> QED BY <1>3, <2>2, <3>1 DEF Longer, Postings
  <2> QED BY <2>1, <2>2
<1> QED BY <1>1, <1>2, <1>4, <1>5 DEF Postings, Longer

(***************************************************************************)
(* A map with another vector for an index.                                 *)
(***************************************************************************)
Updated(mm, idx, v) == [k \in DOMAIN mm \cup {idx} |-> IF k = idx THEN v ELSE mm[k]]

(***************************************************************************)
(* Adding the token of a row to the postings of an index, or to an index   *)
(* that has none yet, if the row comes after those listed.                 *)
(***************************************************************************)
Listing(mm, idx, name, S, r) ==
  /\ S \in SUBSET Nat /\ IsFiniteSet(S) /\ r \in Nat /\ \A s \in S : s < r
  /\ idx \in DOMAIN mm => mm[idx] = Postings(name, S)
  /\ idx \notin DOMAIN mm => S = {}

\* A row is added to those listed.
LEMMA AddPosting ==
  ASSUME NEW mm, NEW idx, NEW name, NEW S, NEW r, Listing(mm, idx, name, S, r)
  PROVE  Add(mm, idx, Single(<<name, r>>)) = Updated(mm, idx, Postings(name, S \cup {r}))
<1> USE DEF Listing
<1>1. /\ Cardinality(S) \in Nat
      /\ DOMAIN Postings(name, S) = 0 .. (Cardinality(S) - 1)
      /\ Postings(name, S \cup {r}) = Longer(Postings(name, S), Cardinality(S), <<name, r>>)
  BY PostingsGrow
<1>2. CASE idx \in DOMAIN mm
  <2>1. JoinVectors(mm[idx], Single(<<name, r>>)) = Postings(name, S \cup {r})
    BY <1>1, <1>2, JoinSingle
  <2> QED BY <1>2, <2>1 DEF Add, Updated
<1>3. CASE idx \notin DOMAIN mm
  <2>1. DOMAIN NoEntries = 0 .. (0 - 1) /\ Cardinality(S) = 0
    <3>1. DOMAIN NoEntries = 0 .. (0 - 1)
      BY DEF NoEntries
    <3>2. Cardinality(S) = 0
      BY <1>3, FS_EmptySet
    <3> QED BY <3>1, <3>2
  <2>2. Single(<<name, r>>) = Longer(NoEntries, 0, <<name, r>>)
    BY <2>1, PushBackIs DEF Single
  <2>3. \A v, w, x : Longer(v, 0, x) = Longer(w, 0, x)
    <3>1. \A i \in 0 .. 0 : i = 0
      OBVIOUS
    <3> QED BY <3>1 DEF Longer
  <2>4. Single(<<name, r>>) = Postings(name, S \cup {r})
    BY <1>1, <2>1, <2>2, <2>3
  <2> QED BY <1>3, <2>4 DEF Add, Updated
<1> QED BY <1>2, <1>3
-----------------------------------------------------------------------------
(***************************************************************************)
(* At the end of the loops the maps are the wanted ones.                   *)
(***************************************************************************)
LEMMA MapAtEnd ==
  ASSUME Chosen, outer = OuterSize
  PROVE  MapSoFar = Wanted
<1>1. /\ Size(table.rows) \in Nat \ {0} /\ Rows(table) = 0 .. (Size(table.rows) - 1)
      /\ Size(table.rows[0]) \in Nat /\ Cols(table) = 0 .. (Size(table.rows[0]) - 1)
  BY TableSizes DEF Chosen
<1>2. CASE target = "mmr"
  BY <1>1, <1>2 DEF MapSoFar, Wanted, RowMM, OuterSize
<1>3. CASE target = "mmc"
  BY <1>1, <1>3 DEF MapSoFar, Wanted, ColMM, OuterSize
<1>4. CASE target = "mmv"
  <2>1. \A c \in Cols(table) : \A r : Visited(c, r)
    BY <1>1, <1>4 DEF OuterSize, Visited
  <2>2. \A c \in Cols(table) : \A text : RowsWithSoFar(c, text) = RowsWith(table, c, text)
    BY <2>1 DEF RowsWithSoFar
  <2>3. UNION {{<<table.name, c, table.rows[r][c]>> : r \in {r \in Rows(table) : Visited(c, r)}}
                 : c \in Cols(table)}
          = {<<table.name, c, table.rows[r][c]>> : c \in Cols(table), r \in Rows(table)}
    BY <2>1
  <2>4. \A idx \in {<<table.name, c, table.rows[r][c]>> : c \in Cols(table), r \in Rows(table)} :
          idx[2] \in Cols(table)
    OBVIOUS
  <2> QED BY <1>4, <2>2, <2>3, <2>4 DEF MapSoFar, Wanted, ValueMM
<1>5. CASE target = "mmjoin"
  <2>1. \A r1 \in Rows(table) : \A r : Visited(r1, r)
    BY <1>1, <1>5 DEF OuterSize, Visited
  <2>2. \A r1 \in Rows(table) : PartnersSoFar(r1) = RowsWith(partner, 2, table.rows[r1][0])
    BY <2>1 DEF PartnersSoFar
  <2>3. \A idx \in {<<table.name, r1>> : r1 \in {r \in Rows(table) : PartnersSoFar(r) # {}}} :
          idx[2] \in Rows(table)
    OBVIOUS
  <2>4. {r \in Rows(table) : PartnersSoFar(r) # {}}
          = {r \in Rows(table) : RowsWith(partner, 2, table.rows[r][0]) # {}}
    BY <2>2
  <2> QED BY <1>5, <2>2, <2>3, <2>4 DEF MapSoFar, Wanted, JoinMM
<1> QED BY <1>2, <1>3, <1>4, <1>5 DEF Chosen

\* The same after a step.
LEMMA MapAtEndNext == Chosen' /\ (outer = OuterSize)' => (MapSoFar = Wanted)'
<1>1. Chosen /\ outer = OuterSize => MapSoFar = Wanted
  BY MapAtEnd
<1> QED BY <1>1, PTL

(***************************************************************************)
(* The positions of a wanted vector are 0, 1, 2, ... below its size.       *)
(***************************************************************************)
Counted(v) == Size(v) \in Nat /\ DOMAIN v = 0 .. (Size(v) - 1)

(***************************************************************************)
(* A vector numbered below some n is counted, n being its size.            *)
(***************************************************************************)
LEMMA CountedIf ==
  ASSUME NEW v, NEW n \in Nat, DOMAIN v = 0 .. (n - 1)
  PROVE  Counted(v)
<1>1. Size(v) = n
  BY PushBackIs
<1> QED BY <1>1 DEF Counted

(***************************************************************************)
(* Postings of finitely many rows are counted.                             *)
(***************************************************************************)
LEMMA PostingsCounted ==
  ASSUME NEW name, NEW S \in SUBSET Nat, IsFiniteSet(S)
  PROVE  Counted(Postings(name, S))
<1>1. Cardinality(S) \in Nat /\ DOMAIN Postings(name, S) = 0 .. (Cardinality(S) - 1)
  BY AscendingIs DEF Postings
<1> QED BY <1>1, CountedIf

(***************************************************************************)
(* Every vector MultiMaps describes is counted.                            *)
(***************************************************************************)
LEMMA WantedCounted ==
  ASSUME Chosen, NEW idx \in DOMAIN Wanted
  PROVE  Counted(Wanted[idx])
<1>1. IsTable(table) /\ IsTable(partner) /\ table \in Tables
  BY TableSizes DEF Chosen
<1>2. /\ Rows(table) \in SUBSET Nat /\ IsFiniteSet(Rows(table))
      /\ Cols(table) \in SUBSET Nat /\ IsFiniteSet(Cols(table))
      /\ Rows(partner) \in SUBSET Nat /\ IsFiniteSet(Rows(partner))
  BY <1>1, TableDomains
<1>3. CASE target = "mmr"
  <2> DEFINE S == {c \in Cols(table) : Encrypted(table, c)}
  <2>1. Wanted[idx] = RowVector(table, idx[2])
    BY <1>3 DEF Wanted, RowMM
  <2>2. S \in SUBSET Nat /\ IsFiniteSet(S)
    BY <1>2, FS_Subset
  <2>3. DOMAIN RowVector(table, idx[2]) = DOMAIN Ascending(S)
    BY DEF RowVector
  <2> HIDE DEF S
  <2>4. Cardinality(S) \in Nat /\ DOMAIN Ascending(S) = 0 .. (Cardinality(S) - 1)
    BY <2>2, AscendingIs
  <2> QED BY <2>1, <2>3, <2>4, CountedIf
<1>4. CASE target = "mmc"
  <2>1. Wanted[idx] = ColVector(table, idx[2])
    BY <1>4 DEF Wanted, ColMM
  <2>2. /\ Size(table.rows) \in Nat
        /\ DOMAIN ColVector(table, idx[2]) = {r \in 0 .. (Size(table.rows) - 1) : Encrypted(table, idx[2])}
    BY <1>1, TableSizes DEF ColVector
  <2>3. CASE Encrypted(table, idx[2])
    BY <2>1, <2>2, <2>3, CountedIf
  <2>4. CASE ~Encrypted(table, idx[2])
    <3>1. DOMAIN ColVector(table, idx[2]) = 0 .. (0 - 1)
      BY <2>2, <2>4
    <3> QED BY <2>1, <3>1, CountedIf
  <2> QED BY <2>3, <2>4
<1>5. CASE target = "mmv"
  <2>1. Wanted[idx] = Postings(table.name, RowsWith(table, idx[2], idx[3]))
    BY <1>5 DEF Wanted, ValueMM
  <2>2. RowsWith(table, idx[2], idx[3]) \in SUBSET Nat /\ IsFiniteSet(RowsWith(table, idx[2], idx[3]))
    BY <1>2, FS_Subset DEF RowsWith
  <2> QED BY <2>1, <2>2, PostingsCounted
<1>6. CASE target = "mmjoin"
  <2> DEFINE S == RowsWith(partner, 2, table.rows[idx[2]][0])
  <2>1. Wanted[idx] = Postings(partner.name, S)
    BY <1>6 DEF Wanted, JoinMM
  <2>2. S \in SUBSET Nat /\ IsFiniteSet(S)
    BY <1>2, FS_Subset DEF RowsWith
  <2> QED BY <2>1, <2>2, PostingsCounted
<1> QED BY <1>3, <1>4, <1>5, <1>6 DEF Chosen
-----------------------------------------------------------------------------
(***************************************************************************)
(* A visit keeps what was chosen and stays within the loops.               *)
(***************************************************************************)
LEMMA VisitStays ==
  ASSUME BuilderInv, Visit
  PROVE  /\ outer \in Nat /\ inner \in Nat /\ inner' = inner + 1
         /\ Chosen' /\ OuterSize' = OuterSize /\ InnerSize' = InnerSize
         /\ outer' \in 0 .. OuterSize /\ outer < OuterSize /\ inner < InnerSize
         /\ inner' \in 0 .. InnerSize
         /\ todo' = {} /\ emm' = NoEntries /\ keys' = <<>>
         /\ UNCHANGED <<target, table, partner, outer>>
<1>1. UNCHANGED <<target, table, partner, outer>> /\ outer < OuterSize /\ inner < InnerSize
  BY DEF Visit
<1>2. OuterSize' = OuterSize /\ InnerSize' = InnerSize /\ Chosen'
  BY <1>1 DEF OuterSize, InnerSize, Chosen, BuilderInv
<1>3. InnerSize \in Nat /\ OuterSize \in Nat
  BY TableSizes DEF InnerSize, OuterSize, BuilderInv, Chosen
<1> QED BY <1>1, <1>2, <1>3 DEF Visit, BuilderInv, InLoops

(***************************************************************************)
(* rowMultiMapConstruct pushes the next encrypted cell of the row.         *)
(***************************************************************************)
LEMMA RowStep ==
  ASSUME BuilderInv, rowMultiMapConstruct
  PROVE  mmap' = MapSoFar' /\ vec' = VectorSoFar'
<1>1. /\ target = "mmr" /\ Visit /\ PushCell(outer, inner)
      /\ outer \in Nat /\ inner \in Nat /\ inner' = inner + 1
      /\ UNCHANGED <<target, table, partner, outer>>
  BY VisitStays DEF rowMultiMapConstruct
<1>2. mmap' = mmap /\ vec = VectorSoFar /\ mmap = MapSoFar
  BY <1>1 DEF PushCell, BuilderInv, InLoops, Visit
<1>3. MapSoFar' = MapSoFar
  BY <1>1 DEF MapSoFar
<1>4. ColumnsSoFar \in SUBSET Nat /\ IsFiniteSet(ColumnsSoFar) /\ \A c \in ColumnsSoFar : c < inner
  <2>1. IsFiniteSet(0 .. (inner - 1)) /\ \A c \in 0 .. (inner - 1) : c \in Nat /\ c < inner
    BY <1>1, FS_Interval
  <2> QED BY <2>1, FS_Subset DEF ColumnsSoFar
<1>5. ColumnsSoFar' = IF Encrypted(table, inner) THEN ColumnsSoFar \cup {inner} ELSE ColumnsSoFar
  <2>1. 0 .. (inner' - 1) = (0 .. (inner - 1)) \cup {inner}
    BY <1>1
  <2> QED BY <1>1, <2>1 DEF ColumnsSoFar
<1> DEFINE S == ColumnsSoFar
           cells(T) == [k \in DOMAIN Ascending(T) |-> Encrypt(table, outer, Ascending(T)[k])]
<1>6. vec = cells(S) /\ VectorSoFar' = cells(ColumnsSoFar')
  BY <1>1, <1>2 DEF VectorSoFar
<1>7. CASE Encrypted(table, inner)
  <2> HIDE DEF S
  <2>1. Cardinality(S) \in Nat /\ DOMAIN Ascending(S) = 0 .. (Cardinality(S) - 1)
    BY <1>4, AscendingIs DEF S
  <2>2. Ascending(S \cup {inner}) = Longer(Ascending(S), Cardinality(S), inner)
    BY <1>1, <1>4, AscendingAppend DEF S, Longer
  <2>3. DOMAIN Ascending(S \cup {inner}) = 0 .. Cardinality(S)
    BY <2>2 DEF Longer
  <2>4. \A k \in 0 .. Cardinality(S) :
          Encrypt(table, outer, Ascending(S \cup {inner})[k])
            = Longer(cells(S), Cardinality(S), Encrypt(table, outer, inner))[k]
    BY <2>1, <2>2 DEF Longer
  <2>5. cells(S \cup {inner}) = Longer(cells(S), Cardinality(S), Encrypt(table, outer, inner))
    BY <2>3, <2>4 DEF Longer
  <2>6. PushBack(cells(S), Encrypt(table, outer, inner))
          = Longer(cells(S), Cardinality(S), Encrypt(table, outer, inner))
    BY <2>1, PushBackIs
  <2> QED BY <1>1, <1>2, <1>3, <1>5, <1>6, <1>7, <2>5, <2>6 DEF PushCell, S
<1>8. CASE ~Encrypted(table, inner)
  BY <1>1, <1>2, <1>3, <1>5, <1>6, <1>8 DEF PushCell
<1> QED BY <1>7, <1>8

(***************************************************************************)
(* colMultiMapConstruct pushes the next cell of an encrypted column.       *)
(***************************************************************************)
LEMMA ColumnStep ==
  ASSUME BuilderInv, colMultiMapConstruct
  PROVE  mmap' = MapSoFar' /\ vec' = VectorSoFar'
<1>1. /\ target = "mmc" /\ Visit /\ PushCell(inner, outer)
      /\ outer \in Nat /\ inner \in Nat /\ inner' = inner + 1
      /\ UNCHANGED <<target, table, partner, outer>>
  BY VisitStays DEF colMultiMapConstruct
<1>2. mmap' = mmap /\ vec = VectorSoFar /\ mmap = MapSoFar
  BY <1>1 DEF PushCell, BuilderInv, InLoops, Visit
<1>3. MapSoFar' = MapSoFar
  BY <1>1 DEF MapSoFar
<1>4. vec = [r \in {r \in 0 .. (inner - 1) : Encrypted(table, outer)} |-> Encrypt(table, r, outer)]
  BY <1>1, <1>2 DEF VectorSoFar
<1>5. VectorSoFar' = [r \in {r \in 0 .. inner : Encrypted(table, outer)} |-> Encrypt(table, r, outer)]
  <2>1. inner' - 1 = inner
    BY <1>1
  <2> QED BY <1>1, <2>1 DEF VectorSoFar
<1>6. CASE Encrypted(table, outer)
  <2>1. PushBack(vec, Encrypt(table, inner, outer)) = Longer(vec, inner, Encrypt(table, inner, outer))
    BY <1>1, <1>4, <1>6, PushBackIs
  <2>2. Longer(vec, inner, Encrypt(table, inner, outer)) = [r \in 0 .. inner |-> Encrypt(table, r, outer)]
    BY <1>1, <1>4, <1>6 DEF Longer
  <2> QED BY <1>1, <1>2, <1>3, <1>5, <1>6, <2>1, <2>2 DEF PushCell
<1>7. CASE ~Encrypted(table, outer)
  BY <1>1, <1>2, <1>3, <1>4, <1>5, <1>7 DEF PushCell
<1> QED BY <1>6, <1>7
(***************************************************************************)
(* Visiting the next cell adds nothing but that cell to those visited.     *)
(***************************************************************************)
LEMMA NextVisited ==
  ASSUME outer \in Nat, inner \in Nat, outer' = outer, inner' = inner + 1,
         NEW o \in Nat, NEW i \in Nat
  PROVE  Visited(o, i)' <=> Visited(o, i) \/ (o = outer /\ i = inner)
BY DEF Visited

(***************************************************************************)
(* valueMultiMapConstruct adds the row to those of its text.               *)
(***************************************************************************)
LEMMA ValueStep ==
  ASSUME BuilderInv, valueMultiMapConstruct
  PROVE  mmap' = MapSoFar' /\ vec' = VectorSoFar'
<1> DEFINE name == table.name
           text == table.rows[inner][outer]
           idx == <<name, outer, text>>
           S == RowsWithSoFar(outer, text)
<1>1. /\ target = "mmv" /\ Visit /\ AddToken(idx, name, inner)
      /\ outer \in Nat /\ inner \in Nat /\ inner' = inner + 1
      /\ outer < OuterSize /\ inner < InnerSize
      /\ UNCHANGED <<target, table, partner, outer>>
  BY VisitStays DEF valueMultiMapConstruct
<1>2. /\ mmap = MapSoFar /\ vec = NoEntries /\ vec' = NoEntries /\ VectorSoFar' = NoEntries
      /\ mmap' = Add(mmap, idx, Single(<<name, inner>>))
  BY <1>1 DEF AddToken, BuilderInv, InLoops, VectorSoFar
<1>3. inner \in Rows(table) /\ outer \in Cols(table)
  <2>1. /\ Rows(table) = 0 .. (Size(table.rows) - 1) /\ Size(table.rows) \in Nat
        /\ Cols(table) = 0 .. (Size(table.rows[0]) - 1) /\ Size(table.rows[0]) \in Nat
    BY TableSizes DEF BuilderInv, Chosen
  <2> QED BY <1>1, <2>1 DEF OuterSize, InnerSize
<1>4. Rows(table) \in SUBSET Nat /\ IsFiniteSet(Rows(table)) /\ Cols(table) \in SUBSET Nat
  BY TableSizes, TableDomains DEF BuilderInv, Chosen
<1>5. \A c \in Cols(table), r \in Rows(table) :
        Visited(c, r)' <=> Visited(c, r) \/ (c = outer /\ r = inner)
  BY <1>1, <1>4, NextVisited
<1>6. S \in SUBSET Nat /\ IsFiniteSet(S) /\ \A r \in S : r < inner
  <2>1. S \subseteq Rows(table) /\ \A r \in S : Visited(outer, r)
    BY DEF RowsWithSoFar, RowsWith
  <2>2. \A r \in Nat : Visited(outer, r) => r < inner
    BY <1>1 DEF Visited
  <2> HIDE DEF S
  <2> QED BY <1>4, <2>1, <2>2, FS_Subset
<1> DEFINE Keys == UNION {{<<name, c, table.rows[r][c]>> : r \in {r \in Rows(table) : Visited(c, r)}}
                            : c \in Cols(table)}
<1>7. mmap = [k \in Keys |-> Postings(name, RowsWithSoFar(k[2], k[3]))]
  BY <1>1, <1>2 DEF MapSoFar
<1>8. MapSoFar' = [k \in Keys \cup {idx} |-> Postings(name, RowsWithSoFar(k[2], k[3])')]
  <2> DEFINE Later == UNION {{<<name, c, table.rows[r][c]>> : r \in {r \in Rows(table) : Visited(c, r)'}}
                               : c \in Cols(table)}
  <2>1. MapSoFar' = [k \in Later |-> Postings(name, RowsWithSoFar(k[2], k[3])')]
    BY <1>1 DEF MapSoFar
  <2>2. Later = Keys \cup {idx}
    <3>1. \A k : k \in Later <=> \E c \in Cols(table), r \in Rows(table) :
                                   Visited(c, r)' /\ k = <<name, c, table.rows[r][c]>>
      OBVIOUS
    <3>2. \A k : k \in Keys <=> \E c \in Cols(table), r \in Rows(table) :
                                  Visited(c, r) /\ k = <<name, c, table.rows[r][c]>>
      OBVIOUS
    <3> HIDE DEF Later, Keys
    <3>3. \A k : k \in Later <=> k \in Keys \/ k = idx
      BY <1>3, <1>5, <3>1, <3>2
    <3> QED BY <3>3
  <2> HIDE DEF Later, Keys, idx
  <2> QED BY <2>1, <2>2
<1>9. ASSUME NEW c \in Cols(table), NEW x
      PROVE  RowsWithSoFar(c, x)' =
               IF c = outer /\ x = text THEN RowsWithSoFar(c, x) \cup {inner} ELSE RowsWithSoFar(c, x)
  <2>1. RowsWith(table, c, x)' = RowsWith(table, c, x) /\ RowsWith(table, c, x) \subseteq Rows(table)
    BY <1>1 DEF RowsWith, Rows
  <2>2. c = outer => (inner \in RowsWith(table, c, x) <=> x = text)
    BY <1>3 DEF RowsWith
  <2>3. \A r \in Rows(table) :
          r \in RowsWithSoFar(c, x)' <=>
            r \in RowsWithSoFar(c, x) \/ (r \in RowsWith(table, c, x) /\ c = outer /\ r = inner)
    BY <1>5, <2>1 DEF RowsWithSoFar
  <2>4. RowsWithSoFar(c, x)' \subseteq Rows(table) /\ RowsWithSoFar(c, x) \subseteq Rows(table)
    BY <2>1 DEF RowsWithSoFar
  <2> HIDE DEF text
  <2> QED BY <1>3, <2>2, <2>3, <2>4
<1>10. idx \in DOMAIN mmap => mmap[idx] = Postings(name, S)
  <2> HIDE DEF Keys
  <2> QED BY <1>7
<1>11. idx \notin DOMAIN mmap => S = {}
  <2> SUFFICES ASSUME NEW r \in S PROVE idx \in Keys
    BY <1>7
  <2>1. r \in Rows(table) /\ Visited(outer, r) /\ table.rows[r][outer] = text
    BY DEF RowsWithSoFar, RowsWith
  <2> QED BY <1>3, <2>1
<1>12. mmap' = Updated(mmap, idx, Postings(name, S \cup {inner}))
  <2>1. inner \in Nat
    BY <1>1
  <2> HIDE DEF S, idx, name, text, Keys
  <2>2. Listing(mmap, idx, name, S, inner)
    BY <2>1, <1>6, <1>10, <1>11 DEF Listing
  <2>3. Add(mmap, idx, Single(<<name, inner>>)) = Updated(mmap, idx, Postings(name, S \cup {inner}))
    BY <2>2, AddPosting
  <2> QED BY <1>2, <2>3
<1>13. ASSUME NEW k \in Keys \cup {idx}
       PROVE  Postings(name, RowsWithSoFar(k[2], k[3])')
                = IF k = idx THEN Postings(name, S \cup {inner}) ELSE mmap[k]
  <2>1. k[2] \in Cols(table) /\ k = <<name, k[2], k[3]>>
    BY <1>3
  <2>2. CASE k = idx
    <3>1. k[2] = outer /\ k[3] = text
      BY <2>2
    <3> HIDE DEF text, idx
    <3> QED BY <1>9, <2>1, <2>2, <3>1
  <2>3. CASE k # idx
    <3>1. ~(k[2] = outer /\ k[3] = text) /\ k \in Keys
      BY <2>1, <2>3
    <3> HIDE DEF text, idx, Keys
    <3> QED BY <1>7, <1>9, <2>1, <2>3, <3>1
  <2> QED BY <2>2, <2>3
<1> HIDE DEF Keys, idx, S
<1>14. DOMAIN mmap = Keys
  BY <1>7
<1> QED BY <1>2, <1>8, <1>12, <1>13, <1>14 DEF Updated

(***************************************************************************)
(* joinMultiMapConstruct adds the partner if the join columns agree.       *)
(***************************************************************************)
LEMMA JoinStep ==
  ASSUME BuilderInv, joinMultiMapConstruct
  PROVE  mmap' = MapSoFar' /\ vec' = VectorSoFar'
<1> DEFINE name == table.name
           idx == <<name, outer>>
           S == PartnersSoFar(outer)
           Match == table.rows[outer][0] = partner.rows[inner][2]
<1>1. /\ target = "mmjoin" /\ Visit
      /\ IF Match THEN AddToken(idx, partner.name, inner) ELSE UNCHANGED <<mmap, vec>>
      /\ outer \in Nat /\ inner \in Nat /\ inner' = inner + 1
      /\ outer < OuterSize /\ inner < InnerSize
      /\ UNCHANGED <<target, table, partner, outer>>
  BY VisitStays DEF joinMultiMapConstruct
<1>2. /\ mmap = MapSoFar /\ vec = NoEntries /\ vec' = NoEntries /\ VectorSoFar' = NoEntries
      /\ mmap' = IF Match THEN Add(mmap, idx, Single(<<partner.name, inner>>)) ELSE mmap
  BY <1>1 DEF AddToken, BuilderInv, InLoops, VectorSoFar
<1>3. outer \in Rows(table) /\ inner \in Rows(partner)
  <2>1. /\ Rows(table) = 0 .. (Size(table.rows) - 1) /\ Size(table.rows) \in Nat
        /\ Rows(partner) = 0 .. (Size(partner.rows) - 1) /\ Size(partner.rows) \in Nat
    BY <1>1, TableSizes DEF BuilderInv, Chosen
  <2> QED BY <1>1, <2>1 DEF OuterSize, InnerSize
<1>4. Rows(partner) \in SUBSET Nat /\ IsFiniteSet(Rows(partner)) /\ Rows(table) \in SUBSET Nat
  BY <1>1, TableSizes, TableDomains DEF BuilderInv, Chosen
<1>5. \A r1 \in Rows(table), r \in Rows(partner) :
        Visited(r1, r)' <=> Visited(r1, r) \/ (r1 = outer /\ r = inner)
  BY <1>1, <1>4, NextVisited
<1>6. S \in SUBSET Nat /\ IsFiniteSet(S) /\ \A r \in S : r < inner
  <2>1. S \subseteq Rows(partner) /\ \A r \in S : Visited(outer, r)
    BY DEF PartnersSoFar, RowsWith
  <2>2. \A r \in Nat : Visited(outer, r) => r < inner
    BY <1>1 DEF Visited
  <2> HIDE DEF S
  <2> QED BY <1>4, <2>1, <2>2, FS_Subset
<1>7. ASSUME NEW r1 \in Rows(table)
      PROVE  PartnersSoFar(r1)' =
               IF r1 = outer /\ Match THEN PartnersSoFar(r1) \cup {inner} ELSE PartnersSoFar(r1)
  <2> DEFINE W == RowsWith(partner, 2, table.rows[r1][0])
  <2>1. W' = W /\ W \subseteq Rows(partner)
    BY <1>1 DEF RowsWith, Rows
  <2>2. r1 = outer => (inner \in W <=> Match)
    BY <1>3 DEF RowsWith
  <2>3. PartnersSoFar(r1) = {r \in W : Visited(r1, r)} /\ PartnersSoFar(r1)' = {r \in W : Visited(r1, r)'}
    BY <2>1 DEF PartnersSoFar
  <2> HIDE DEF Match, W
  <2>4. \A r \in W : Visited(r1, r)' <=> Visited(r1, r) \/ (r1 = outer /\ r = inner)
    BY <1>5, <2>1
  <2>5. CASE r1 = outer /\ Match
    <3>1. \A r : r \in PartnersSoFar(r1)' <=> r \in PartnersSoFar(r1) \/ r = inner
      BY <2>2, <2>3, <2>4, <2>5
    <3> QED BY <3>1, <2>5
  <2>6. CASE ~(r1 = outer /\ Match)
    <3>1. \A r : r \in PartnersSoFar(r1)' <=> r \in PartnersSoFar(r1)
      BY <2>2, <2>3, <2>4, <2>6
    <3> QED BY <3>1, <2>6
  <2> QED BY <2>5, <2>6
<1> DEFINE Having == {r \in Rows(table) : PartnersSoFar(r) # {}}
           Later == {r \in Rows(table) : PartnersSoFar(r)' # {}}
<1>8. mmap = [k \in {<<name, r1>> : r1 \in Having} |-> Postings(partner.name, PartnersSoFar(k[2]))]
  BY <1>1, <1>2 DEF MapSoFar
<1>9. MapSoFar' = [k \in {<<name, r1>> : r1 \in Later} |-> Postings(partner.name, PartnersSoFar(k[2])')]
  BY <1>1 DEF MapSoFar
<1>10. CASE ~Match
  <2>1. \A r1 \in Rows(table) : PartnersSoFar(r1)' = PartnersSoFar(r1)
    BY <1>7, <1>10
  <2>2. Later = Having /\ \A k \in {<<name, r1>> : r1 \in Having} : k[2] \in Rows(table)
    BY <2>1
  <2> QED BY <1>2, <1>8, <1>9, <1>10, <2>1, <2>2
<1>11. CASE Match
  <2>1. Later = Having \cup {outer}
    <3> HIDE DEF Match
    <3>1. \A r1 \in Rows(table) : PartnersSoFar(r1)' # {} <=> PartnersSoFar(r1) # {} \/ r1 = outer
      BY <1>7, <1>11
    <3> QED BY <1>3, <3>1
  <2>2. {<<name, r1>> : r1 \in Later} = {<<name, r1>> : r1 \in Having} \cup {idx}
    BY <2>1
  <2> DEFINE Keys == {<<name, r1>> : r1 \in Having}
  <2>3. DOMAIN mmap = Keys
    BY <1>8
  <2>4. idx \in Keys <=> outer \in Having
    <3> HIDE DEF Having
    <3> QED OBVIOUS
  <2>5. idx \in DOMAIN mmap => mmap[idx] = Postings(partner.name, S)
    BY <1>8
  <2>6. idx \notin DOMAIN mmap => S = {}
    BY <1>3, <2>3, <2>4
  <2>7. mmap' = Updated(mmap, idx, Postings(partner.name, S \cup {inner}))
    <3>1. inner \in Nat
      BY <1>1
    <3> DEFINE p == partner.name
    <3> HIDE DEF S, idx, name, Keys, Having, Later, Match, p
    <3>2. Add(mmap, idx, Single(<<p, inner>>)) = Updated(mmap, idx, Postings(p, S \cup {inner}))
      <4>1. Listing(mmap, idx, p, S, inner)
        BY <3>1, <1>6, <2>5, <2>6 DEF p, Listing
      <4> QED BY <4>1, AddPosting
    <3> QED BY <1>2, <1>11, <3>2 DEF p
  <2>8. ASSUME NEW k \in Keys \cup {idx}
        PROVE  Postings(partner.name, PartnersSoFar(k[2])')
                 = IF k = idx THEN Postings(partner.name, S \cup {inner}) ELSE mmap[k]
    <3>1. k[2] \in Rows(table) /\ k = <<name, k[2]>>
      BY <1>3
    <3>2. CASE k = idx
      <4>1. k[2] = outer
        BY <3>2
      <4> HIDE DEF Match, idx
      <4> QED BY <1>7, <1>11, <3>1, <3>2, <4>1
    <3>3. CASE k # idx
      <4>1. k[2] # outer /\ k \in Keys
        BY <3>1, <3>3
      <4>2. PartnersSoFar(k[2])' = PartnersSoFar(k[2])
        BY <1>7, <3>1, <4>1
      <4> HIDE DEF Match, idx, Having
      <4> QED BY <1>8, <3>3, <4>1, <4>2
    <3> QED BY <3>2, <3>3
  <2> HIDE DEF Keys, idx, S, Later, Having
  <2>9. MapSoFar' = [k \in Keys \cup {idx} |-> Postings(partner.name, PartnersSoFar(k[2])')]
    BY <1>9, <2>2 DEF Keys
  <2> QED BY <1>2, <2>3, <2>7, <2>8, <2>9 DEF Updated
<1> QED BY <1>10, <1>11
-----------------------------------------------------------------------------
(***************************************************************************)
(* At the end of the inner loop the row or column in hand is complete.     *)
(***************************************************************************)
LEMMA RowOrColumnEnds ==
  ASSUME BuilderInv, EndInner
  PROVE  mmap' = MapSoFar'
<1>1. /\ outer \in Nat /\ outer < OuterSize /\ inner = InnerSize
      /\ outer' = outer + 1 /\ inner' = 0
      /\ UNCHANGED <<target, table, partner>>
      /\ vec = VectorSoFar /\ mmap = MapSoFar
      /\ mmap' = IF target \in {"mmr", "mmc"} THEN Add(mmap, <<table.name, outer>>, vec) ELSE mmap
  BY TableSizes DEF EndInner, BuilderInv, InLoops
<1>2. /\ Size(table.rows) \in Nat \ {0} /\ Rows(table) = 0 .. (Size(table.rows) - 1)
      /\ Size(table.rows[0]) \in Nat /\ Cols(table) = 0 .. (Size(table.rows[0]) - 1)
  BY TableSizes DEF BuilderInv, Chosen
<1>3. 0 .. (outer' - 1) = (0 .. (outer - 1)) \cup {outer} /\ outer \notin 0 .. (outer - 1)
  BY <1>1
<1> DEFINE idx == <<table.name, outer>>
<1>4. CASE target = "mmr"
  <2> DEFINE Keys == {<<table.name, r>> : r \in 0 .. (outer - 1)}
  <2>1. mmap = [k \in Keys |-> RowVector(table, k[2])]
    BY <1>1, <1>4 DEF MapSoFar
  <2>2. MapSoFar' = [k \in Keys \cup {idx} |-> RowVector(table, k[2])]
    <3>1. {<<table.name, r>> : r \in 0 .. (outer' - 1)} = Keys \cup {idx}
      BY <1>3
    <3> QED BY <1>1, <1>4, <3>1 DEF MapSoFar
  <2>3. vec = RowVector(table, outer)
    <3>1. ColumnsSoFar = {c \in Cols(table) : Encrypted(table, c)}
      BY <1>1, <1>2, <1>4 DEF ColumnsSoFar, InnerSize
    <3> QED BY <1>1, <1>4, <3>1 DEF VectorSoFar, RowVector
  <2>4. idx \notin Keys
    BY <1>3
  <2>5. DOMAIN mmap = Keys /\ mmap' = Add(mmap, idx, vec)
    BY <1>1, <1>4, <2>1
  <2>6. idx[2] = outer
    OBVIOUS
  <2> HIDE DEF Keys, idx
  <2> QED BY <2>1, <2>2, <2>3, <2>4, <2>5, <2>6 DEF Add
<1>5. CASE target = "mmc"
  <2> DEFINE Keys == {<<table.name, c>> : c \in 0 .. (outer - 1)}
  <2>1. mmap = [k \in Keys |-> ColVector(table, k[2])]
    BY <1>1, <1>5 DEF MapSoFar
  <2>2. MapSoFar' = [k \in Keys \cup {idx} |-> ColVector(table, k[2])]
    <3>1. {<<table.name, c>> : c \in 0 .. (outer' - 1)} = Keys \cup {idx}
      BY <1>3
    <3> QED BY <1>1, <1>5, <3>1 DEF MapSoFar
  <2>3. vec = ColVector(table, outer)
    <3>1. 0 .. (inner - 1) = Rows(table)
      BY <1>1, <1>2, <1>5 DEF InnerSize
    <3> QED BY <1>1, <1>5, <3>1 DEF VectorSoFar, ColVector
  <2>4. idx \notin Keys
    BY <1>3
  <2>5. DOMAIN mmap = Keys /\ mmap' = Add(mmap, idx, vec)
    BY <1>1, <1>5, <2>1
  <2>6. idx[2] = outer
    OBVIOUS
  <2> HIDE DEF Keys, idx
  <2> QED BY <2>1, <2>2, <2>3, <2>4, <2>5, <2>6 DEF Add
<1>6. CASE target = "mmv"
  <2>1. \A c \in Nat, r \in Rows(table) : Visited(c, r)' <=> Visited(c, r)
    BY <1>1, <1>2, <1>6 DEF Visited, InnerSize
  <2>2. Cols(table) \subseteq Nat
    BY <1>2
  <2>3. \A c \in Cols(table) : \A text : RowsWithSoFar(c, text)' = RowsWithSoFar(c, text)
    BY <1>1, <2>1, <2>2 DEF RowsWithSoFar, RowsWith, Rows
  <2> DEFINE Keys == UNION {{<<table.name, c, table.rows[r][c]>> : r \in {r \in Rows(table) : Visited(c, r)}}
                              : c \in Cols(table)}
             Later == UNION {{<<table.name, c, table.rows[r][c]>> : r \in {r \in Rows(table) : Visited(c, r)'}}
                               : c \in Cols(table)}
  <2>4. mmap = [k \in Keys |-> Postings(table.name, RowsWithSoFar(k[2], k[3]))]
    BY <1>1, <1>6 DEF MapSoFar
  <2>5. MapSoFar' = [k \in Later |-> Postings(table.name, RowsWithSoFar(k[2], k[3])')]
    BY <1>1, <1>6 DEF MapSoFar
  <2>6. Later = Keys
    BY <2>1, <2>2
  <2>7. \A k \in Keys : k[2] \in Cols(table)
    OBVIOUS
  <2> HIDE DEF Keys, Later
  <2> QED BY <1>1, <1>6, <2>3, <2>4, <2>5, <2>6, <2>7
<1>7. CASE target = "mmjoin"
  <2>1. Rows(partner) = 0 .. (Size(partner.rows) - 1) /\ Size(partner.rows) \in Nat
    BY <1>7, TableSizes DEF BuilderInv, Chosen
  <2>2. \A r1 \in Nat, r \in Rows(partner) : Visited(r1, r)' <=> Visited(r1, r)
    BY <1>1, <1>7, <2>1 DEF Visited, InnerSize
  <2>3. Rows(table) \subseteq Nat
    BY <1>2
  <2>4. \A r1 \in Rows(table) : PartnersSoFar(r1)' = PartnersSoFar(r1)
    BY <1>1, <2>2, <2>3 DEF PartnersSoFar, RowsWith, Rows
  <2> DEFINE Keys == {<<table.name, r1>> : r1 \in {r \in Rows(table) : PartnersSoFar(r) # {}}}
             Later == {<<table.name, r1>> : r1 \in {r \in Rows(table) : PartnersSoFar(r)' # {}}}
  <2>5. mmap = [k \in Keys |-> Postings(partner.name, PartnersSoFar(k[2]))]
    BY <1>1, <1>7 DEF MapSoFar
  <2>6. MapSoFar' = [k \in Later |-> Postings(partner.name, PartnersSoFar(k[2])')]
    BY <1>1, <1>7 DEF MapSoFar
  <2>7. Later = Keys
    BY <2>4
  <2>8. \A k \in Keys : k[2] \in Rows(table)
    OBVIOUS
  <2> HIDE DEF Keys, Later
  <2> QED BY <1>1, <1>7, <2>4, <2>5, <2>6, <2>7, <2>8
<1> QED BY <1>4, <1>5, <1>6, <1>7 DEF BuilderInv, Chosen

(***************************************************************************)
(* When the loops are over every vector is counted from 0: setup has an    *)
(* entry for each number below the size.                                   *)
(***************************************************************************)
LoopsOver == Chosen /\ outer = OuterSize /\ mmap = MapSoFar

AllCounted == \A idx \in DOMAIN mmap : Counted(mmap[idx])

\* At the end of the loops every entry is counted.
LEMMA CountedAtEnd == LoopsOver => AllCounted
BY MapAtEnd, WantedCounted DEF LoopsOver, AllCounted

\* The same after a step.
LEMMA CountedAtEndNext == LoopsOver' => AllCounted'
BY CountedAtEnd, PTL

(***************************************************************************)
(* setup starts with every index to visit and no entry made.               *)
(***************************************************************************)
LEMMA SetupBegins ==
  ASSUME AllCounted, todo = DOMAIN mmap, inner = 0, emm = NoEntries, keys = <<>>
  PROVE  InSetup
<1>1. ASSUME NEW k \in EntriesSoFar PROVE FALSE
  <2>1. k[1] \in DOMAIN mmap /\ k[2] \in DOMAIN mmap[k[1]] /\ (k[1] \notin todo \/ k[2] < inner)
    BY SetupEntry DEF EntriesSoFar
  <2>2. k[2] \in Nat
    BY <2>1 DEF AllCounted, Counted
  <2> QED BY <2>1, <2>2
<1>2. EntriesSoFar = {}
  BY <1>1
<1>3. todo # {} => inner <= Size(mmap[InHand])
  <2> SUFFICES ASSUME todo # {} PROVE inner <= Size(mmap[InHand])
    OBVIOUS
  <2>1. InHand \in DOMAIN mmap
    BY DEF InHand
  <2> QED BY <2>1 DEF AllCounted, Counted
<1>4. emm = [k \in EntriesSoFar |-> mmap[k[1]][k[2]]]
  BY <1>2 DEF NoEntries
<1>5. IsFiniteSet(EntriesSoFar) /\ Cardinality(EntriesSoFar) = 0
  BY <1>2, FS_EmptySet
<1>6. keys \in Seq(EntriesSoFar) /\ Len(keys) = 0 /\ {keys[i] : i \in DOMAIN keys} = {}
  OBVIOUS
<1> QED BY <1>2, <1>3, <1>4, <1>5, <1>6 DEF InSetup

\* The same after a step.
LEMMA SetupBeginsNext ==
  AllCounted' /\ (todo = DOMAIN mmap)' /\ (inner = 0)' /\ (emm = NoEntries)' /\ (keys = <<>>)' => InSetup'
<1>1. AllCounted /\ todo = DOMAIN mmap /\ inner = 0 /\ emm = NoEntries /\ keys = <<>> => InSetup
  BY SetupBegins
<1> QED BY <1>1, PTL

(***************************************************************************)
(* EndInner goes on with the next row or column, or with setup.            *)
(***************************************************************************)
LEMMA EndInnerStep ==
  ASSUME BuilderInv, EndInner
  PROVE  BuilderInv'
<1>1. /\ outer \in Nat /\ outer < OuterSize /\ outer' = outer + 1 /\ inner' = 0 /\ vec' = NoEntries
      /\ emm' = NoEntries /\ keys' = <<>>
      /\ todo' = IF outer' = OuterSize THEN DOMAIN mmap' ELSE {}
      /\ UNCHANGED <<target, table, partner>>
      /\ OuterSize \in Nat /\ InnerSize \in Nat
  BY TableSizes DEF EndInner, BuilderInv, InLoops, OuterSize, InnerSize, Chosen
<1>2. OuterSize' = OuterSize /\ InnerSize' = InnerSize /\ Chosen'
  BY <1>1 DEF OuterSize, InnerSize, Chosen, BuilderInv
<1>3. mmap' = MapSoFar' /\ outer' \in 0 .. OuterSize'
  BY <1>1, <1>2, RowOrColumnEnds
<1>4. InLoops'
  <2>1. ColumnsSoFar' = {} /\ 0 .. (inner' - 1) = {}
    BY <1>1 DEF ColumnsSoFar
  <2>2. Ascending({}) = [k \in {} |-> k]
    BY DEF Ascending, NoEntries
  <2>3. VectorSoFar' = NoEntries
    BY <1>1, <2>1, <2>2 DEF VectorSoFar, NoEntries
  <2> QED BY <1>1, <1>2, <2>3 DEF InLoops
<1>5. InSetup'
  <2>1. CASE outer' = OuterSize'
    <3>1. AllCounted'
      BY <1>2, <1>3, <2>1, CountedAtEndNext DEF LoopsOver
    <3> QED BY <1>1, <1>2, <2>1, <3>1, SetupBeginsNext DEF NoEntries
  <2>2. CASE outer' # OuterSize'
    BY <2>2 DEF InSetup
  <2> QED BY <2>1, <2>2
<1> QED BY <1>2, <1>3, <1>4, <1>5 DEF BuilderInv

(***************************************************************************)
(* The entry that setup makes next is one that was not made before, and    *)
(* no other one is made with it.                                           *)
(***************************************************************************)
LEMMA NextEntry ==
  ASSUME AllCounted, todo \subseteq DOMAIN mmap, todo # {}, inner \in Nat, inner < Size(mmap[InHand]),
         UNCHANGED <<todo, mmap>>, inner' = inner + 1
  PROVE  /\ <<InHand, inner>> \notin EntriesSoFar
         /\ EntriesSoFar' = EntriesSoFar \cup {<<InHand, inner>>}
         /\ InHand' = InHand
<1>1. InHand \in todo /\ InHand' = InHand
  BY DEF InHand
<1>2. \A i \in DOMAIN mmap[InHand] : i \in Nat
  BY <1>1 DEF AllCounted, Counted
<1>3. Setup(mmap)' = Setup(mmap)
  BY DEF Setup
<1> DEFINE D == DOMAIN Setup(mmap)
           x == InHand
<1>4. <<x, inner>> \in D
  BY <1>1 DEF Setup, AllCounted, Counted
<1>5. \A k \in D : k = <<k[1], k[2]>> /\ (k[1] = x => k[2] \in Nat)
  BY <1>2, SetupEntry
<1>6. EntriesSoFar = {k \in D : k[1] \notin todo \/ (k[1] = x /\ k[2] < inner)}
  BY DEF EntriesSoFar
<1>7. EntriesSoFar' = {k \in D : k[1] \notin todo \/ (k[1] = x /\ k[2] < inner + 1)}
  BY <1>1, <1>3 DEF EntriesSoFar
<1> HIDE DEF D, x
<1>8. ~(inner < inner)
  OBVIOUS
<1>9. \A k \in D : k[1] = x => (k[2] < inner + 1 <=> k[2] < inner \/ k[2] = inner)
  BY <1>5
<1>10. \A k \in D : k = <<x, inner>> <=> k[1] = x /\ k[2] = inner
  BY <1>5
<1>11. <<x, inner>> \notin EntriesSoFar
  <2>1. x \in todo
    BY <1>1 DEF x
  <2> QED BY <1>6, <1>8, <2>1
<1>12. \A k : k \in EntriesSoFar' <=> k \in EntriesSoFar \/ k = <<x, inner>>
  <2>1. \A k \in D : k \in EntriesSoFar' <=> k \in EntriesSoFar \/ k = <<x, inner>>
    BY <1>6, <1>7, <1>9, <1>10
  <2> QED BY <1>4, <1>6, <1>7, <2>1
<1>13. EntriesSoFar' = EntriesSoFar \cup {<<x, inner>>}
  BY <1>12
<1> QED BY <1>1, <1>11, <1>13 DEF x

(***************************************************************************)
(* An index whose vector is at its end has all its entries.                *)
(***************************************************************************)
LEMMA NextIndex ==
  ASSUME AllCounted, todo \subseteq DOMAIN mmap, todo # {}, inner = Size(mmap[InHand]),
         mmap' = mmap, todo' = todo \ {InHand}, inner' = 0
  PROVE  EntriesSoFar' = EntriesSoFar
<1>1. InHand \in todo /\ (todo' # {} => InHand' \in todo')
  BY DEF InHand
<1>2. Setup(mmap)' = Setup(mmap)
  BY DEF Setup
<1> DEFINE D == DOMAIN Setup(mmap)
           x == InHand
<1>3. ASSUME NEW k \in D
      PROVE  k[2] \in Nat /\ (k[1] = x => k[2] < inner)
  <2>1. k[1] \in DOMAIN mmap /\ k[2] \in DOMAIN mmap[k[1]]
    BY <1>3, SetupEntry
  <2>2. /\ DOMAIN mmap[k[1]] = 0 .. (Size(mmap[k[1]]) - 1) /\ Size(mmap[k[1]]) \in Nat
    BY <2>1 DEF AllCounted, Counted
  <2> QED BY <2>1, <2>2
<1>4. EntriesSoFar = {k \in D : k[1] \notin todo \/ (k[1] = x /\ k[2] < inner)}
  BY DEF EntriesSoFar
<1>5. EntriesSoFar' = {k \in D : k[1] \notin todo' \/ (k[1] = InHand' /\ k[2] < 0)}
  BY <1>2 DEF EntriesSoFar
<1>6. todo' = todo \ {x} /\ x \in todo
  BY <1>1
<1> HIDE DEF D, x
<1>7. \A k \in D : ~(k[2] < 0)
  BY <1>3
<1>8. \A k \in D : k \in EntriesSoFar' <=> k \in EntriesSoFar
  BY <1>3, <1>4, <1>5, <1>6, <1>7
<1> QED BY <1>4, <1>5, <1>8

(***************************************************************************)
(* setup makes an entry, or turns to the next index.                       *)
(***************************************************************************)
LEMMA SetupStep ==
  ASSUME BuilderInv, setup
  PROVE  BuilderInv'
<1> DEFINE x == InHand
           k == <<x, inner>>
<1>1. /\ outer = OuterSize /\ todo # {} /\ todo \subseteq DOMAIN mmap /\ inner \in Nat
      /\ inner <= Size(mmap[x])
      /\ IF inner < Size(mmap[x])
         THEN /\ emm' = Insert(emm, k, mmap[x][inner])
              /\ keys' = Append(keys, k)
              /\ inner' = inner + 1 /\ UNCHANGED todo
         ELSE todo' = todo \ {x} /\ inner' = 0 /\ UNCHANGED <<emm, keys>>
      /\ UNCHANGED <<target, table, partner, outer, vec, mmap>>
      /\ emm = [q \in EntriesSoFar |-> mmap[q[1]][q[2]]]
      /\ IsFiniteSet(EntriesSoFar)
      /\ keys \in Seq(EntriesSoFar) /\ Len(keys) = Cardinality(EntriesSoFar)
      /\ {keys[i] : i \in DOMAIN keys} = EntriesSoFar
  BY DEF setup, BuilderInv, InSetup, InHand
<1>2. AllCounted
  BY <1>1, CountedAtEnd DEF BuilderInv, LoopsOver
<1>3. OuterSize' = OuterSize /\ Chosen' /\ outer' \in 0 .. OuterSize' /\ ~(outer' < OuterSize')
  <2>1. OuterSize' = OuterSize /\ OuterSize \in Nat
    BY <1>1, TableSizes DEF OuterSize, BuilderInv, Chosen
  <2> QED BY <1>1, <2>1 DEF BuilderInv, Chosen
<1>4. mmap' = MapSoFar'
  <2>1. MapSoFar' = Wanted'
    <3>1. (outer = OuterSize)'
      BY <1>1, <1>3
    <3> QED BY <1>3, <3>1, MapAtEndNext
  <2>2. MapSoFar = Wanted /\ mmap = MapSoFar
    BY <1>1, MapAtEnd DEF BuilderInv
  <2>3. Wanted' = Wanted
    BY <1>1 DEF Wanted
  <2> QED BY <1>1, <2>1, <2>2, <2>3
<1>5. InLoops'
  BY <1>3 DEF InLoops
<1>6. InSetup'
  <2>1. CASE inner < Size(mmap[x])
    <3>1. k \notin EntriesSoFar /\ EntriesSoFar' = EntriesSoFar \cup {k} /\ x' = x
      BY <1>1, <1>2, <2>1, NextEntry
    <3>2. /\ emm' = Insert(emm, k, mmap[x][inner]) /\ keys' = Append(keys, k)
          /\ inner' = inner + 1 /\ todo' = todo
      BY <1>1, <2>1
    <3>3. Size(mmap[x]) \in Nat /\ inner' <= Size(mmap[x])
      <4>1. x \in DOMAIN mmap
        BY <1>1 DEF InHand
      <4>2. Size(mmap[x]) \in Nat
        BY <1>2, <4>1 DEF AllCounted, Counted
      <4> QED BY <1>1, <2>1, <3>2, <4>2
    <3>4. emm' = [q \in EntriesSoFar' |-> mmap'[q[1]][q[2]]]
      BY <1>1, <3>1, <3>2 DEF Insert
    <3>5. IsFiniteSet(EntriesSoFar') /\ Cardinality(EntriesSoFar') = Cardinality(EntriesSoFar) + 1
      BY <1>1, <3>1, FS_AddElement
    <3>6. keys' \in Seq(EntriesSoFar') /\ Len(keys') = Len(keys) + 1
      <4> HIDE DEF k
      <4> QED BY <1>1, <3>1, <3>2
    <3>7. {keys'[i] : i \in DOMAIN keys'} = EntriesSoFar'
      <4> HIDE DEF k
      <4>1. /\ DOMAIN keys = 1 .. Len(keys) /\ Len(keys) \in Nat
            /\ DOMAIN keys' = 1 .. (Len(keys) + 1)
            /\ keys'[Len(keys) + 1] = k
            /\ \A i \in DOMAIN keys : keys'[i] = keys[i]
        BY <1>1, <3>2
      <4>2. \A q : q \in {keys'[i] : i \in DOMAIN keys'} <=> q \in {keys[i] : i \in DOMAIN keys} \/ q = k
        BY <4>1
      <4> QED BY <1>1, <3>1, <4>2
    <3>8. todo' \subseteq DOMAIN mmap' /\ todo' # {}
      BY <1>1, <3>2
    <3>9. inner' \in Nat /\ inner' <= Size(mmap'[InHand'])
      BY <1>1, <3>1, <3>2, <3>3
    <3>10. Len(keys') = Cardinality(EntriesSoFar')
      BY <1>1, <3>5, <3>6
    <3> HIDE DEF k, x
    <3> QED BY <3>4, <3>5, <3>6, <3>7, <3>8, <3>9, <3>10 DEF InSetup, Size
  <2>2. CASE ~(inner < Size(mmap[x]))
    <3>1. todo' = todo \ {x} /\ inner' = 0 /\ UNCHANGED <<emm, keys>> /\ inner = Size(mmap[x])
      <4>1. x \in DOMAIN mmap
        BY <1>1 DEF InHand
      <4>2. Size(mmap[x]) \in Nat
        BY <1>2, <4>1 DEF AllCounted, Counted
      <4> QED BY <1>1, <2>2, <4>2
    <3>2. EntriesSoFar' = EntriesSoFar
      BY <1>1, <1>2, <3>1, NextIndex
    <3>3. ASSUME todo' # {} PROVE inner' <= Size(mmap[InHand'])
      <4>1. InHand' \in DOMAIN mmap
        BY <1>1, <3>1, <3>3 DEF InHand
      <4> QED BY <1>2, <3>1, <4>1 DEF AllCounted, Counted
    <3> QED BY <1>1, <3>1, <3>2, <3>3 DEF InSetup, Size
  <2> QED BY <2>1, <2>2
<1> QED BY <1>3, <1>4, <1>5, <1>6 DEF BuilderInv
-----------------------------------------------------------------------------
\* The invariant holds before the first row.
LEMMA BuilderInit == Init => BuilderInv
<1> SUFFICES ASSUME Init PROVE BuilderInv
  OBVIOUS
<1>1. /\ outer = 0 /\ inner = 0 /\ vec = NoEntries /\ mmap = NoEntries
      /\ todo = {} /\ emm = NoEntries /\ keys = <<>> /\ Chosen
  BY DEF Init, Chosen
<1>2. OuterSize \in Nat /\ InnerSize \in Nat
  BY <1>1, TableSizes DEF OuterSize, InnerSize, Chosen
<1>3. MapSoFar = NoEntries
  <2>1. 0 .. (outer - 1) = {}
    BY <1>1
  <2>2. Rows(table) \subseteq Nat /\ Cols(table) \subseteq Nat /\ Rows(partner) \subseteq Nat
    BY <1>1, TableSizes, TableDomains DEF Chosen
  <2>3. \A o \in Nat, i \in Nat : ~Visited(o, i)
    BY <1>1 DEF Visited
  <2>4. CASE target = "mmr"
    BY <2>1, <2>4 DEF MapSoFar, NoEntries
  <2>5. CASE target = "mmc"
    BY <2>1, <2>5 DEF MapSoFar, NoEntries
  <2>6. CASE target = "mmv"
    <3> DEFINE Keys == UNION {{<<table.name, c, table.rows[r][c]>> : r \in {r \in Rows(table) : Visited(c, r)}}
                                : c \in Cols(table)}
    <3>1. Keys = {}
      BY <2>2, <2>3
    <3>2. MapSoFar = [k \in Keys |-> Postings(table.name, RowsWithSoFar(k[2], k[3]))]
      BY <2>6 DEF MapSoFar
    <3> QED BY <3>1, <3>2 DEF NoEntries
  <2>7. CASE target = "mmjoin"
    <3>1. \A r \in Rows(table) : PartnersSoFar(r) = {}
      BY <2>2, <2>3 DEF PartnersSoFar, RowsWith
    <3> DEFINE Keys == {<<table.name, r1>> : r1 \in {r \in Rows(table) : PartnersSoFar(r) # {}}}
    <3>2. Keys = {}
      BY <3>1
    <3>3. MapSoFar = [k \in Keys |-> Postings(partner.name, PartnersSoFar(k[2]))]
      BY <2>7 DEF MapSoFar
    <3> QED BY <3>2, <3>3 DEF NoEntries
  <2> QED BY <1>1, <2>4, <2>5, <2>6, <2>7 DEF Chosen
<1>4. InLoops
  <2>1. ColumnsSoFar = {} /\ 0 .. (inner - 1) = {}
    BY <1>1 DEF ColumnsSoFar
  <2>2. Ascending({}) = NoEntries
    BY DEF Ascending, NoEntries
  <2>3. VectorSoFar = NoEntries
    BY <2>1, <2>2 DEF VectorSoFar, NoEntries
  <2> QED BY <1>1, <1>2, <2>3 DEF InLoops
<1>5. InSetup
  <2>1. todo = DOMAIN mmap /\ AllCounted
    BY <1>1 DEF NoEntries, AllCounted
  <2> QED BY <1>1, <2>1, SetupBegins
<1> QED BY <1>1, <1>2, <1>3, <1>4, <1>5 DEF BuilderInv

(***************************************************************************)
(* A visit is a step of one of the four constructors, and nothing else of  *)
(* the invariant depends on it.                                            *)
(***************************************************************************)
LEMMA VisitStep ==
  ASSUME BuilderInv, Visit, mmap' = MapSoFar' /\ vec' = VectorSoFar'
  PROVE  BuilderInv'
<1>1. /\ Chosen' /\ outer' \in 0 .. OuterSize' /\ outer' # OuterSize' /\ inner' \in 0 .. InnerSize'
      /\ todo' = {} /\ emm' = NoEntries /\ keys' = <<>>
  BY VisitStays
<1>2. InLoops' /\ InSetup'
  BY <1>1 DEF InLoops, InSetup, NoEntries
<1> QED BY <1>1, <1>2 DEF BuilderInv

(***************************************************************************)
(* A step that changes nothing keeps the invariant.                        *)
(***************************************************************************)
LEMMA BuilderStutters ==
  ASSUME BuilderInv, UNCHANGED vars
  PROVE  BuilderInv'
<1>1. UNCHANGED <<target, table, partner, outer, inner, vec, mmap, todo, emm, keys>>
  BY DEF vars
<1>2. OuterSize' = OuterSize /\ InnerSize' = InnerSize /\ Chosen'
  BY <1>1 DEF OuterSize, InnerSize, Chosen, BuilderInv
<1>3. MapSoFar' = MapSoFar
  BY <1>1 DEF MapSoFar, RowsWithSoFar, PartnersSoFar, Visited
<1>4. VectorSoFar' = VectorSoFar
  BY <1>1 DEF VectorSoFar, ColumnsSoFar
<1>5. EntriesSoFar' = EntriesSoFar /\ InHand' = InHand
  BY <1>1 DEF EntriesSoFar, InHand
<1> QED BY <1>1, <1>2, <1>3, <1>4, <1>5 DEF BuilderInv, InLoops, InSetup

(***************************************************************************)
(* Every step of the loops and of setup keeps the invariant.               *)
(***************************************************************************)
LEMMA BuilderNext == BuilderInv /\ [Next]_vars => BuilderInv'
<1> SUFFICES ASSUME BuilderInv, [Next]_vars PROVE BuilderInv'
  OBVIOUS
<1>1. CASE rowMultiMapConstruct
  BY <1>1, RowStep, VisitStep DEF rowMultiMapConstruct
<1>2. CASE colMultiMapConstruct
  BY <1>2, ColumnStep, VisitStep DEF colMultiMapConstruct
<1>3. CASE valueMultiMapConstruct
  BY <1>3, ValueStep, VisitStep DEF valueMultiMapConstruct
<1>4. CASE joinMultiMapConstruct
  BY <1>4, JoinStep, VisitStep DEF joinMultiMapConstruct
<1>5. CASE EndInner
  BY <1>5, EndInnerStep
<1>6. CASE setup
  BY <1>6, SetupStep
<1>7. CASE UNCHANGED vars
  BY <1>7, BuilderStutters
<1> QED BY <1>1, <1>2, <1>3, <1>4, <1>5, <1>6, <1>7 DEF Next

(***************************************************************************)
(* At any time the map holds what the cells visited so far amount to, and  *)
(* the entries made are those of the indexes visited so far.               *)
(***************************************************************************)
THEOREM BuilderInvariant == Spec => []BuilderInv
BY BuilderInit, BuilderNext, PTL DEF Spec

(***************************************************************************)
(* The four constructors build the multi-maps that MultiMaps describes:    *)
(* for tables of any number of rows, columns and partners, with repeated   *)
(* texts and with columns that are not encrypted.                          *)
(***************************************************************************)
THEOREM MapsAlwaysBuilt == Spec => []MapsBuilt
<1>1. BuilderInv => MapsBuilt
  BY MapAtEnd DEF BuilderInv, MapsBuilt
<1> QED BY <1>1, BuilderInvariant, PTL

(***************************************************************************)
(* The postings of the first elements of a set are the first postings.     *)
(***************************************************************************)
LEMMA PostingsPrefix ==
  ASSUME NEW name, NEW T \in SUBSET Nat, IsFiniteSet(T), NEW S \in SUBSET T,
         \A s \in S, q \in T \ S : s < q
  PROVE  /\ Counted(Postings(name, S))
         /\ \A i \in DOMAIN Postings(name, S) :
              i \in DOMAIN Postings(name, T) /\ Postings(name, S)[i] = Postings(name, T)[i]
<1>1. /\ IsFiniteSet(S) /\ S \in SUBSET Nat
      /\ \A k \in DOMAIN Ascending(S) : k \in DOMAIN Ascending(T) /\ Ascending(S)[k] = Ascending(T)[k]
  BY AscendingPrefix
<1>2. Counted(Postings(name, S))
  BY <1>1, PostingsCounted
<1> QED BY <1>1, <1>2 DEF Postings

(***************************************************************************)
(* A vector has at any time reached a prefix of what it will be, whatever  *)
(* the table.                                                              *)
(***************************************************************************)
THEOREM PrefixesAlways == Spec => []PrefixesOnly
<1>1. ASSUME BuilderInv, NEW idx \in DOMAIN mmap
      PROVE  /\ idx \in DOMAIN Wanted /\ Counted(mmap[idx])
             /\ \A i \in DOMAIN mmap[idx] : i \in DOMAIN Wanted[idx] /\ mmap[idx][i] = Wanted[idx][i]
  <2>1. Chosen /\ mmap = MapSoFar /\ outer \in 0 .. OuterSize
    BY <1>1 DEF BuilderInv
  <2>2. /\ Rows(table) = 0 .. (Size(table.rows) - 1) /\ Size(table.rows) \in Nat
        /\ Cols(table) = 0 .. (Size(table.rows[0]) - 1) /\ Size(table.rows[0]) \in Nat
        /\ Rows(table) \in SUBSET Nat /\ IsFiniteSet(Rows(table))
        /\ Rows(partner) \in SUBSET Nat /\ IsFiniteSet(Rows(partner))
    BY <2>1, TableSizes, TableDomains DEF Chosen
  <2>3. CASE target = "mmr"
    <3>1. idx \in DOMAIN Wanted /\ mmap[idx] = Wanted[idx]
      BY <1>1, <2>1, <2>2, <2>3 DEF MapSoFar, Wanted, RowMM, OuterSize
    <3> QED BY <2>1, <3>1, WantedCounted
  <2>4. CASE target = "mmc"
    <3>1. idx \in DOMAIN Wanted /\ mmap[idx] = Wanted[idx]
      BY <1>1, <2>1, <2>2, <2>4 DEF MapSoFar, Wanted, ColMM, OuterSize
    <3> QED BY <2>1, <3>1, WantedCounted
  <2>5. CASE target = "mmv"
    <3>1. PICK c \in Cols(table), r \in Rows(table) : idx = <<table.name, c, table.rows[r][c]>>
      BY <1>1, <2>1, <2>5 DEF MapSoFar
    <3> DEFINE text == table.rows[r][c]
               S == RowsWithSoFar(c, text)
               T == RowsWith(table, c, text)
    <3>2. mmap[idx] = Postings(table.name, S)
      BY <1>1, <2>1, <2>5, <3>1 DEF MapSoFar
    <3>3. idx \in DOMAIN Wanted /\ Wanted[idx] = Postings(table.name, T)
      BY <2>5, <3>1 DEF Wanted, ValueMM
    <3>4. T \in SUBSET Nat /\ IsFiniteSet(T) /\ S \in SUBSET T
      BY <2>2, FS_Subset DEF RowsWith, RowsWithSoFar
    <3>5. \A s \in S, q \in T \ S : s < q
      <4>1. \A s \in S, q \in T \ S : s \in Nat /\ q \in Nat /\ Visited(c, s) /\ ~Visited(c, q)
        BY <3>4 DEF RowsWithSoFar
      <4>2. c \in Nat /\ outer \in Nat
        BY <2>1, <2>2 DEF BuilderInv, OuterSize
      <4>3. \A s, q \in Nat : Visited(c, s) /\ ~Visited(c, q) => s < q
        <5>1. CASE outer = OuterSize
          BY <2>2, <2>5, <4>2, <5>1 DEF Visited, OuterSize
        <5>2. CASE outer # OuterSize
          <6>1. inner \in Nat
            BY <1>1, <2>1, <2>2, <2>5, <5>2 DEF BuilderInv, InLoops, InnerSize, OuterSize
          <6> QED BY <4>2, <6>1 DEF Visited
        <5> QED BY <5>1, <5>2
      <4> QED BY <4>1, <4>3
    <3> HIDE DEF S, T, text
    <3>6. /\ Counted(Postings(table.name, S))
          /\ \A i \in DOMAIN Postings(table.name, S) :
               i \in DOMAIN Postings(table.name, T) /\ Postings(table.name, S)[i] = Postings(table.name, T)[i]
      BY <3>4, <3>5, PostingsPrefix
    <3> QED BY <3>2, <3>3, <3>6
  <2>6. CASE target = "mmjoin"
    <3>1. PICK r1 \in Rows(table) : idx = <<table.name, r1>> /\ PartnersSoFar(r1) # {}
      BY <1>1, <2>1, <2>6 DEF MapSoFar
    <3> DEFINE S == PartnersSoFar(r1)
               T == RowsWith(partner, 2, table.rows[r1][0])
    <3>2. mmap[idx] = Postings(partner.name, S)
      BY <1>1, <2>1, <2>6, <3>1 DEF MapSoFar
    <3>3. T # {} /\ S \in SUBSET T
      BY <3>1 DEF PartnersSoFar
    <3>4. idx \in DOMAIN Wanted /\ Wanted[idx] = Postings(partner.name, T)
      BY <2>6, <3>1, <3>3 DEF Wanted, JoinMM
    <3>5. T \in SUBSET Nat /\ IsFiniteSet(T)
      BY <2>2, FS_Subset DEF RowsWith
    <3>6. \A s \in S, q \in T \ S : s < q
      <4>1. \A s \in S, q \in T \ S : s \in Nat /\ q \in Nat /\ Visited(r1, s) /\ ~Visited(r1, q)
        BY <3>3, <3>5 DEF PartnersSoFar
      <4>2. r1 \in Nat /\ outer \in Nat
        BY <2>1, <2>2 DEF BuilderInv, OuterSize
      <4>3. \A s, q \in Nat : Visited(r1, s) /\ ~Visited(r1, q) => s < q
        <5>1. CASE outer = OuterSize
          BY <2>2, <2>6, <4>2, <5>1 DEF Visited, OuterSize
        <5>2. CASE outer # OuterSize
          <6>1. InnerSize \in Nat /\ OuterSize \in Nat /\ outer < OuterSize
            BY <2>1, <2>2, <5>2, TableSizes DEF InnerSize, OuterSize, Chosen
          <6>2. inner \in Nat
            BY <1>1, <6>1 DEF BuilderInv, InLoops
          <6> QED BY <4>2, <6>2 DEF Visited
        <5> QED BY <5>1, <5>2
      <4> QED BY <4>1, <4>3
    <3> HIDE DEF S, T
    <3> QED BY <3>2, <3>3, <3>4, <3>5, <3>6, PostingsPrefix
  <2> QED BY <2>1, <2>3, <2>4, <2>5, <2>6 DEF Chosen
<1>2. BuilderInv => PrefixesOnly
  BY <1>1 DEF PrefixesOnly, Counted
<1> QED BY <1>2, BuilderInvariant, PTL

(***************************************************************************)
(* setup ends with one entry per element of the multi-map and with a list  *)
(* of keys that holds each of them once: nothing is stored twice and       *)
(* nothing is left out, whatever the size of the table.                    *)
(***************************************************************************)
THEOREM EntriesAlwaysBuilt == Spec => []EntriesBuilt
<1>1. ASSUME BuilderInv, outer = OuterSize, todo = {}
      PROVE  emm = Setup(Wanted) /\ Len(keys) = Cardinality(DOMAIN emm)
               /\ {keys[i] : i \in DOMAIN keys} = DOMAIN emm
  <2>1. mmap = Wanted
    BY <1>1, MapAtEnd DEF BuilderInv
  <2>2. EntriesSoFar = DOMAIN Setup(mmap)
    BY <1>1 DEF EntriesSoFar
  <2>3. /\ emm = [k \in EntriesSoFar |-> mmap[k[1]][k[2]]]
        /\ Len(keys) = Cardinality(EntriesSoFar)
        /\ {keys[i] : i \in DOMAIN keys} = EntriesSoFar
    BY <1>1 DEF BuilderInv, InSetup
  <2>4. DOMAIN emm = EntriesSoFar
    BY <2>3
  <2>5. emm = Setup(mmap)
    BY <2>2, <2>3 DEF Setup
  <2> QED BY <2>1, <2>3, <2>4, <2>5
<1>2. BuilderInv => EntriesBuilt
  BY <1>1 DEF EntriesBuilt
<1> QED BY <1>2, BuilderInvariant, PTL
=============================================================================
