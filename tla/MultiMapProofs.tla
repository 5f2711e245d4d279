--------------------------- MODULE MultiMapProofs ---------------------------
(***************************************************************************)
(* Facts about the multi-maps of MultiMaps: their counters run from 0      *)
(* without gaps, and the postings they hold name rows of the table.        *)
(***************************************************************************)
EXTENDS MultiMaps, FiniteSetTheorems, WellFoundedInduction, TLAPS

(***************************************************************************)
(* A nonempty finite set of numbers has a largest and a smallest element.  *)
(***************************************************************************)
LEMMA LargestElement ==
  ASSUME NEW S \in SUBSET Nat, IsFiniteSet(S), S # {}
  PROVE  \E m \in S : \A q \in S : q <= m
<1> DEFINE Above(p) == {q \in S : q > p}
           T == {Above(p) : p \in S}
<1>1. IsWellFoundedOn(StrictSubsetOrdering(S), FiniteSubsetsOf(S))
  BY FS_StrictSubsetOrderingWellFounded
<1>2. T \subseteq FiniteSubsetsOf(S) /\ T # {}
  <2>1. \A p \in S : Above(p) \in SUBSET S /\ IsFiniteSet(Above(p))
    BY FS_Subset
  <2> QED BY <2>1 DEF FiniteSubsetsOf
<1>3. PICK x \in T : \A y \in T : <<y, x>> \notin StrictSubsetOrdering(S)
  <2> HIDE DEF T
  <2> QED BY <1>1, <1>2, WFMin
<1>4. PICK m \in S : x = Above(m)
  OBVIOUS
<1>5. ASSUME NEW q \in S, q > m PROVE FALSE
  <2>1. Above(q) \subseteq Above(m) /\ q \in Above(m) /\ q \notin Above(q)
    <3>1. \A a \in S : a \in Nat
      OBVIOUS
    <3>2. \A a \in S : a > q => a > m
      BY <3>1, <1>5
    <3>3. ~(q > q)
      BY <3>1
    <3> QED BY <3>2, <3>3, <1>5
  <2>2. <<Above(q), x>> \in StrictSubsetOrdering(S)
    BY <2>1, <1>4 DEF StrictSubsetOrdering
  <2> QED BY <2>2, <1>3
<1> QED BY <1>5

(***************************************************************************)
(* A nonempty set of natural numbers has a smallest element.               *)
(***************************************************************************)
LEMMA SmallestElement ==
  ASSUME NEW S \in SUBSET Nat, IsFiniteSet(S), S # {}
  PROVE  \E m \in S : \A q \in S : m <= q
<1> DEFINE Below(p) == {q \in S : q < p}
           T == {Below(p) : p \in S}
<1>1. IsWellFoundedOn(StrictSubsetOrdering(S), FiniteSubsetsOf(S))
  BY FS_StrictSubsetOrderingWellFounded
<1>2. T \subseteq FiniteSubsetsOf(S) /\ T # {}
  <2>1. \A p \in S : Below(p) \in SUBSET S /\ IsFiniteSet(Below(p))
    BY FS_Subset
  <2> QED BY <2>1 DEF FiniteSubsetsOf
<1>3. PICK x \in T : \A y \in T : <<y, x>> \notin StrictSubsetOrdering(S)
  <2> HIDE DEF T
  <2> QED BY <1>1, <1>2, WFMin
<1>4. PICK m \in S : x = Below(m)
  OBVIOUS
<1>5. ASSUME NEW q \in S, q < m PROVE FALSE
  <2>1. Below(q) \subseteq Below(m) /\ q \in Below(m) /\ q \notin Below(q)
    <3>1. \A a \in S : a \in Nat
      OBVIOUS
    <3>2. \A a \in S : a < q => a < m
      BY <3>1, <1>5
    <3>3. ~(q < q)
      BY <3>1
    <3> QED BY <3>2, <3>3, <1>5
  <2>2. <<Below(q), x>> \in StrictSubsetOrdering(S)
    BY <2>1, <1>4 DEF StrictSubsetOrdering
  <2> QED BY <2>2, <1>3
<1> QED BY <1>5

(***************************************************************************)
(* The ranks of a finite set of numbers are 0, 1, 2, ... without a gap.    *)
(***************************************************************************)
LEMMA RankType ==
  ASSUME NEW S \in SUBSET Nat, IsFiniteSet(S), NEW s \in Nat
  PROVE  Rank(S, s) \in Nat
<1>1. IsFiniteSet({q \in S : q < s})
  BY FS_Subset
<1> QED BY <1>1, FS_CardinalityType DEF Rank

(***************************************************************************)
(* An element that is not first has one just before it.                    *)
(***************************************************************************)
LEMMA RankOfPredecessor ==
  ASSUME NEW S \in SUBSET Nat, IsFiniteSet(S), NEW s \in S, Rank(S, s) > 0
  PROVE  \E p \in S : p < s /\ Rank(S, p) = Rank(S, s) - 1
<1> DEFINE B == {q \in S : q < s}
<1>1. IsFiniteSet(B) /\ B \in SUBSET Nat
  BY FS_Subset
<1>2. B # {}
  BY FS_EmptySet DEF Rank
<1>3. PICK p \in B : \A q \in B : q <= p
  <2> HIDE DEF B
  <2> QED BY <1>1, <1>2, LargestElement
<1>4. {q \in S : q < p} = B \ {p}
  <2>1. p \in Nat /\ s \in Nat /\ p < s /\ \A q \in S : q \in Nat
    OBVIOUS
  <2>2. \A q \in S : q < p <=> q < s /\ q # p
    BY <2>1, <1>3
  <2> QED BY <2>2
<1>5. Cardinality(B \ {p}) = Cardinality(B) - 1
  <2> HIDE DEF B
  <2> QED BY <1>1, FS_RemoveElement
<1> QED BY <1>4, <1>5 DEF Rank

(***************************************************************************)
(* Every position below that of an element is taken.                       *)
(***************************************************************************)
LEMMA RanksHaveNoGap ==
  ASSUME NEW S \in SUBSET Nat, IsFiniteSet(S), NEW s \in S,
         NEW j \in Nat, j < Rank(S, s)
  PROVE  \E p \in S : Rank(S, p) = j
<1> DEFINE T == {p \in S : Rank(S, p) > j}
<1>1. IsFiniteSet(T) /\ T \in SUBSET Nat /\ T # {}
  BY FS_Subset
<1>2. PICK m \in T : \A q \in T : m <= q
  <2> HIDE DEF T
  <2> QED BY <1>1, SmallestElement
<1>3. \A p \in S : Rank(S, p) \in Nat
  BY RankType
<1>4. PICK p \in S : p < m /\ Rank(S, p) = Rank(S, m) - 1
  BY <1>2, <1>3, RankOfPredecessor
<1>5. p \notin T
  BY <1>2, <1>4
<1> QED BY <1>2, <1>3, <1>4, <1>5

(***************************************************************************)
(* push_back in ascending order leaves no position out, and puts only      *)
(* elements of the set there.                                              *)
(***************************************************************************)
LEMMA AscendingVector ==
  ASSUME NEW S \in SUBSET Nat, IsFiniteSet(S)
  PROVE  \A k \in DOMAIN Ascending(S) :
            /\ k \in Nat
            /\ Ascending(S)[k] \in S
            /\ 0 .. (k - 1) \subseteq DOMAIN Ascending(S)
<1>1. \A s \in S : Rank(S, s) \in Nat
  BY RankType
<1> SUFFICES ASSUME NEW s \in S
             PROVE  /\ Ascending(S)[Rank(S, s)] \in S
                    /\ 0 .. (Rank(S, s) - 1) \subseteq DOMAIN Ascending(S)
  <2>1. DOMAIN Ascending(S) = {Rank(S, s) : s \in S}
    BY DEF Ascending
  <2> QED BY <1>1, <2>1
<1>2. Ascending(S)[Rank(S, s)] \in S
  <2>1. (CHOOSE q \in S : Rank(S, q) = Rank(S, s)) \in S
    OBVIOUS
  <2> QED BY <2>1 DEF Ascending
<1>3. ASSUME NEW j \in 0 .. (Rank(S, s) - 1) PROVE j \in DOMAIN Ascending(S)
  <2>1. j \in Nat /\ j < Rank(S, s)
    BY <1>1
  <2>2. PICK p \in S : Rank(S, p) = j
    BY <2>1, RanksHaveNoGap
  <2> QED BY <2>2 DEF Ascending
<1> QED BY <1>2, <1>3

(***************************************************************************)
(* A larger element has a higher rank, and every rank is below the number  *)
(* of elements.                                                            *)
(***************************************************************************)
LEMMA RanksAscend ==
  ASSUME NEW S \in SUBSET Nat, IsFiniteSet(S), NEW s \in S
  PROVE  /\ Rank(S, s) < Cardinality(S)
         /\ \A p \in S : p < s => Rank(S, p) < Rank(S, s)
<1> DEFINE B(p) == {q \in S : q < p}
<1>1. \A p \in S : IsFiniteSet(B(p)) /\ B(p) \in SUBSET S /\ p \notin B(p)
  BY FS_Subset
<1>2. Rank(S, s) < Cardinality(S)
  <2>1. Cardinality(B(s)) <= Cardinality(S) /\ Cardinality(B(s)) # Cardinality(S)
    <3> HIDE DEF B
    <3> QED BY <1>1, FS_Subset
  <2>2. Cardinality(B(s)) \in Nat /\ Cardinality(S) \in Nat
    <3> HIDE DEF B
    <3> QED BY <1>1, FS_CardinalityType
  <2> QED BY <2>1, <2>2 DEF Rank
<1>3. ASSUME NEW p \in S, p < s PROVE Rank(S, p) < Rank(S, s)
  <2>1. B(p) \subseteq B(s) /\ p \in B(s) /\ p \notin B(p)
    <3>1. \A a \in S : a \in Nat
      OBVIOUS
    <3>2. \A a \in S : a < p => a < s
      BY <3>1, <1>3
    <3>3. p \notin B(p)
      BY <1>1
    <3> QED BY <3>2, <3>3, <1>3
  <2>2. IsFiniteSet(B(s)) /\ IsFiniteSet(B(p))
    BY <1>1
  <2>3. Cardinality(B(p)) <= Cardinality(B(s)) /\ Cardinality(B(p)) # Cardinality(B(s))
    <3> HIDE DEF B
    <3> QED BY <2>1, <2>2, FS_Subset
  <2>4. Cardinality(B(p)) \in Nat /\ Cardinality(B(s)) \in Nat
    <3> HIDE DEF B
    <3> QED BY <2>2, FS_CardinalityType
  <2> QED BY <2>3, <2>4 DEF Rank
<1> QED BY <1>2, <1>3

(***************************************************************************)
(* push_back in ascending order makes a vector as long as the set is       *)
(* large, in which every element has the position of its rank.             *)
(***************************************************************************)
LEMMA AscendingIs ==
  ASSUME NEW S \in SUBSET Nat, IsFiniteSet(S)
  PROVE  /\ Cardinality(S) \in Nat
         /\ DOMAIN Ascending(S) = 0 .. (Cardinality(S) - 1)
         /\ \A s \in S : Rank(S, s) \in Nat /\ Ascending(S)[Rank(S, s)] = s
<1>1. Cardinality(S) \in Nat
  BY FS_CardinalityType
<1>2. \A s \in S : Rank(S, s) \in 0 .. (Cardinality(S) - 1)
  BY <1>1, RankType, RanksAscend
<1>3. ASSUME NEW k \in 0 .. (Cardinality(S) - 1) PROVE \E s \in S : Rank(S, s) = k
  <2>1. S # {}
    BY <1>1, FS_EmptySet
  <2>2. PICK m \in S : \A q \in S : q <= m
    BY <2>1, LargestElement
  <2>3. {q \in S : q < m} = S \ {m}
    <3>1. \A q \in S : q \in Nat
      OBVIOUS
    <3>2. \A q \in S : q < m <=> q # m
      BY <2>2, <3>1
    <3> QED BY <3>2
  <2>4. Rank(S, m) = Cardinality(S) - 1
    BY <2>3, FS_RemoveElement DEF Rank
  <2>5. CASE k = Rank(S, m)
    BY <2>5
  <2>6. CASE k # Rank(S, m)
    <3>1. k \in Nat /\ k < Rank(S, m)
      BY <1>1, <2>4, <2>6
    <3> QED BY <3>1, RanksHaveNoGap
  <2> QED BY <2>5, <2>6
<1>4. ASSUME NEW s \in S PROVE Ascending(S)[Rank(S, s)] = s
  <2> DEFINE c == CHOOSE p \in S : Rank(S, p) = Rank(S, s)
  <2>1. c \in S /\ Rank(S, c) = Rank(S, s)
    OBVIOUS
  <2> HIDE DEF c
  <2>2. ~(c < s) /\ ~(s < c)
    <3>1. Rank(S, s) \in Nat /\ Rank(S, c) \in Nat
      BY <1>1, <1>2, <2>1
    <3>2. /\ c < s => Rank(S, c) < Rank(S, s)
          /\ s < c => Rank(S, s) < Rank(S, c)
      BY <2>1, RanksAscend
    <3> QED BY <2>1, <3>1, <3>2
  <2>3. c = s
    BY <2>1, <2>2
  <2> QED BY <2>3 DEF Ascending, c
<1>5. DOMAIN Ascending(S) = {Rank(S, s) : s \in S}
  BY DEF Ascending
<1> QED BY <1>1, <1>2, <1>3, <1>4, <1>5

(***************************************************************************)
(* Elements above all others leave the positions of these alone: the       *)
(* vector of a beginning of the set is a beginning of the vector.          *)
(***************************************************************************)
LEMMA AscendingPrefix ==
  ASSUME NEW T \in SUBSET Nat, IsFiniteSet(T), NEW S \in SUBSET T,
         \A s \in S, q \in T \ S : s < q
  PROVE  /\ IsFiniteSet(S) /\ S \in SUBSET Nat
         /\ \A s \in S : Rank(S, s) = Rank(T, s)
         /\ \A k \in DOMAIN Ascending(S) : k \in DOMAIN Ascending(T) /\ Ascending(S)[k] = Ascending(T)[k]
<1>1. IsFiniteSet(S) /\ S \in SUBSET Nat
  BY FS_Subset
<1>2. ASSUME NEW s \in S PROVE Rank(S, s) = Rank(T, s)
  <2>1. \A q \in T : q \in Nat /\ (q \notin S => s < q)
    OBVIOUS
  <2>2. \A q \in T : q < s => q \in S
    BY <2>1
  <2>3. {q \in S : q < s} = {q \in T : q < s}
    BY <2>2
  <2> QED BY <2>3 DEF Rank
<1>3. ASSUME NEW k \in DOMAIN Ascending(S)
      PROVE  k \in DOMAIN Ascending(T) /\ Ascending(S)[k] = Ascending(T)[k]
  <2>1. PICK s \in S : k = Rank(S, s)
    BY DEF Ascending
  <2>2. Ascending(S)[k] = s
    BY <1>1, <2>1, AscendingIs
  <2>3. s \in T /\ k = Rank(T, s)
    BY <1>2, <2>1
  <2>4. Ascending(T)[k] = s
    BY <2>3, AscendingIs
  <2> QED BY <2>2, <2>3, <2>4 DEF Ascending
<1> QED BY <1>1, <1>2, <1>3

(***************************************************************************)
(* An element above all others is pushed behind them.                      *)
(***************************************************************************)
LEMMA AscendingAppend ==
  ASSUME NEW S \in SUBSET Nat, IsFiniteSet(S), NEW n \in Nat, \A s \in S : s < n
  PROVE  Ascending(S \cup {n}) =
           [k \in 0 .. Cardinality(S) |-> IF k = Cardinality(S) THEN n ELSE Ascending(S)[k]]
<1> DEFINE T == S \cup {n}
<1>1. n \notin S
  <2>1. ~(n < n)
    OBVIOUS
  <2> QED BY <2>1
<1>2. T \in SUBSET Nat /\ IsFiniteSet(T) /\ Cardinality(T) = Cardinality(S) + 1
  BY <1>1, FS_AddElement
<1>3. S \in SUBSET T /\ \A s \in S, q \in T \ S : s < q
  OBVIOUS
<1>4. {q \in T : q < n} = S
  <2>1. ~(n < n)
    OBVIOUS
  <2> QED BY <2>1
<1>5. Rank(T, n) = Cardinality(S) /\ n \in T
  BY <1>4 DEF Rank
<1> HIDE DEF T
<1>6. Cardinality(S) \in Nat /\ DOMAIN Ascending(S) = 0 .. (Cardinality(S) - 1)
  BY AscendingIs
<1>7. DOMAIN Ascending(T) = 0 .. Cardinality(S)
  BY <1>2, <1>6, AscendingIs
<1>8. Ascending(T)[Cardinality(S)] = n
  BY <1>2, <1>5, AscendingIs
<1>9. \A k \in DOMAIN Ascending(S) : Ascending(S)[k] = Ascending(T)[k]
  BY <1>2, <1>3, AscendingPrefix
<1>10. \A k \in 0 .. Cardinality(S) :
         Ascending(T)[k] = IF k = Cardinality(S) THEN n ELSE Ascending(S)[k]
  BY <1>6, <1>8, <1>9
<1>11. Ascending(T) = [k \in DOMAIN Ascending(T) |-> Ascending(T)[k]]
  BY DEF Ascending
<1> QED BY <1>7, <1>10, <1>11 DEF T

-----------------------------------------------------------------------------
(***************************************************************************)
(* A vector is gapless if its positions are 0, 1, 2, ...                   *)
(***************************************************************************)
Gapless(vec) == \A k \in DOMAIN vec : k \in Nat /\ 0 .. (k - 1) \subseteq DOMAIN vec

(***************************************************************************)
(* What setup makes of a multi-map of gapless vectors.                     *)
(***************************************************************************)
LEMMA SetupEntry ==
  ASSUME NEW mm, NEW k \in DOMAIN Setup(mm)
  PROVE  /\ k = <<k[1], k[2]>>
         /\ k[1] \in DOMAIN mm
         /\ k[2] \in DOMAIN mm[k[1]]
         /\ Setup(mm)[k] = mm[k[1]][k[2]]
<1>1. DOMAIN Setup(mm) = UNION {{<<idx, i>> : i \in DOMAIN mm[idx]} : idx \in DOMAIN mm}
  BY DEF Setup
<1>2. PICK idx \in DOMAIN mm : k \in {<<idx, i>> : i \in DOMAIN mm[idx]}
  BY <1>1
<1>3. PICK i \in DOMAIN mm[idx] : k = <<idx, i>>
  BY <1>2
<1>4. Setup(mm)[k] = mm[k[1]][k[2]]
  BY <1>1 DEF Setup
<1> QED BY <1>3, <1>4

(***************************************************************************)
(* The counters below that of an entry are entries of the same index.      *)
(***************************************************************************)
LEMMA SetupGapless ==
  ASSUME NEW mm, \A idx \in DOMAIN mm : Gapless(mm[idx]), NEW k \in DOMAIN Setup(mm)
  PROVE  k[2] \in Nat /\ \A i \in 0 .. (k[2] - 1) : <<k[1], i>> \in DOMAIN Setup(mm)
<1>1. k[1] \in DOMAIN mm /\ k[2] \in DOMAIN mm[k[1]]
  BY SetupEntry
<1>2. k[2] \in Nat /\ 0 .. (k[2] - 1) \subseteq DOMAIN mm[k[1]]
  BY <1>1 DEF Gapless
<1>3. \A i \in DOMAIN mm[k[1]] : <<k[1], i>> \in DOMAIN Setup(mm)
  BY <1>1 DEF Setup
<1> QED BY <1>2, <1>3

(***************************************************************************)
(* Rows and columns are finite sets of numbers.                            *)
(***************************************************************************)
LEMMA TableDomains ==
  ASSUME NEW t, IsTable(t)
  PROVE  /\ Rows(t) \in SUBSET Nat /\ IsFiniteSet(Rows(t))
         /\ Cols(t) \in SUBSET Nat /\ IsFiniteSet(Cols(t))
<1>1. IsFiniteSet(Rows(t)) /\ Rows(t) = 0 .. (Cardinality(Rows(t)) - 1)
  BY DEF IsTable
<1>2. IsFiniteSet(Cols(t)) /\ Cols(t) = 0 .. (Cardinality(Cols(t)) - 1)
  BY DEF IsTable
<1>3. Cardinality(Rows(t)) \in Nat /\ Cardinality(Cols(t)) \in Nat
  BY <1>1, <1>2, FS_CardinalityType
<1>4. \A n \in Nat : 0 .. (n - 1) \in SUBSET Nat
  OBVIOUS
<1> QED BY <1>1, <1>2, <1>3, <1>4

(***************************************************************************)
(* The postings of a set of rows are gapless and name only these rows.     *)
(***************************************************************************)
LEMMA PostingsVector ==
  ASSUME NEW name, NEW S \in SUBSET Nat, IsFiniteSet(S)
  PROVE  /\ Gapless(Postings(name, S))
         /\ \A k \in DOMAIN Postings(name, S) :
              \E s \in S : Postings(name, S)[k] = <<name, s>>
<1>1. DOMAIN Postings(name, S) = DOMAIN Ascending(S)
  BY DEF Postings
<1>2. \A k \in DOMAIN Ascending(S) : Postings(name, S)[k] = <<name, Ascending(S)[k]>>
  BY DEF Postings
<1> QED BY <1>1, <1>2, AscendingVector DEF Gapless

(***************************************************************************)
(* The vectors of mmr are gapless, whichever columns are encrypted.        *)
(***************************************************************************)
LEMMA RowMMGapless ==
  ASSUME NEW t, IsTable(t), NEW idx \in DOMAIN RowMM(t)
  PROVE  Gapless(RowMM(t)[idx])
<1> DEFINE S == {c \in Cols(t) : Encrypted(t, c)}
<1>1. RowMM(t)[idx] = RowVector(t, idx[2])
  BY DEF RowMM
<1>2. S \in SUBSET Nat /\ IsFiniteSet(S)
  BY TableDomains, FS_Subset
<1>3. DOMAIN RowVector(t, idx[2]) = DOMAIN Ascending(S)
  BY DEF RowVector
<1>4. Gapless(Ascending(S))
  <2> HIDE DEF S
  <2> QED BY <1>2, AscendingVector DEF Gapless
<1> QED BY <1>1, <1>3, <1>4 DEF Gapless

(***************************************************************************)
(* The vectors of mmc are gapless: a column is pushed for every row or for *)
(* none.                                                                   *)
(***************************************************************************)
LEMMA ColMMGapless ==
  ASSUME NEW t, IsTable(t), NEW idx \in DOMAIN ColMM(t)
  PROVE  Gapless(ColMM(t)[idx])
<1>1. ColMM(t)[idx] = ColVector(t, idx[2])
  BY DEF ColMM
<1>2. PICK n \in Nat : Rows(t) = 0 .. (n - 1)
  BY FS_CardinalityType DEF IsTable
<1>3. DOMAIN ColVector(t, idx[2]) = {r \in Rows(t) : Encrypted(t, idx[2])}
  BY DEF ColVector
<1>4. DOMAIN ColVector(t, idx[2]) = {} \/ DOMAIN ColVector(t, idx[2]) = 0 .. (n - 1)
  BY <1>2, <1>3
<1>5. \A k \in 0 .. (n - 1) : k \in Nat /\ 0 .. (k - 1) \subseteq 0 .. (n - 1)
  BY <1>2
<1> QED BY <1>1, <1>4, <1>5 DEF Gapless

(***************************************************************************)
(* The vectors of mmv are gapless and name rows of the table.              *)
(***************************************************************************)
LEMMA ValueMMGapless ==
  ASSUME NEW t, IsTable(t), NEW idx \in DOMAIN ValueMM(t)
  PROVE  /\ Gapless(ValueMM(t)[idx])
         /\ \A k \in DOMAIN ValueMM(t)[idx] :
              \E r \in Rows(t) : ValueMM(t)[idx][k] = <<t.name, r>>
<1> DEFINE S == RowsWith(t, idx[2], idx[3])
<1>1. ValueMM(t)[idx] = Postings(t.name, S)
  BY DEF ValueMM
<1>2. S \subseteq Rows(t)
  BY DEF RowsWith
<1>3. S \in SUBSET Nat /\ IsFiniteSet(S)
  BY <1>2, TableDomains, FS_Subset
<1> HIDE DEF S
<1>4. /\ Gapless(Postings(t.name, S))
      /\ \A k \in DOMAIN Postings(t.name, S) : \E s \in S : Postings(t.name, S)[k] = <<t.name, s>>
  BY <1>3, PostingsVector
<1> QED BY <1>1, <1>2, <1>4

(***************************************************************************)
(* The vectors of the join multi-map are gapless and name rows of the      *)
(* second table.                                                           *)
(***************************************************************************)
LEMMA JoinMMGapless ==
  ASSUME NEW t1, NEW t2, NEW c1, NEW c2, IsTable(t2),
         NEW idx \in DOMAIN JoinMM(t1, t2, c1, c2)
  PROVE  /\ Gapless(JoinMM(t1, t2, c1, c2)[idx])
         /\ \A k \in DOMAIN JoinMM(t1, t2, c1, c2)[idx] :
              \E r \in Rows(t2) : JoinMM(t1, t2, c1, c2)[idx][k] = <<t2.name, r>>
<1> DEFINE S == RowsWith(t2, c2, t1.rows[idx[2]][c1])
<1>1. JoinMM(t1, t2, c1, c2)[idx] = Postings(t2.name, S)
  BY DEF JoinMM
<1>2. S \subseteq Rows(t2)
  BY DEF RowsWith
<1>3. S \in SUBSET Nat /\ IsFiniteSet(S)
  BY <1>2, TableDomains, FS_Subset
<1> HIDE DEF S
<1>4. /\ Gapless(Postings(t2.name, S))
      /\ \A k \in DOMAIN Postings(t2.name, S) : \E s \in S : Postings(t2.name, S)[k] = <<t2.name, s>>
  BY <1>3, PostingsVector
<1> QED BY <1>1, <1>2, <1>4
-----------------------------------------------------------------------------
(***************************************************************************)
(* Reading back: from the entries that setup makes of a multi-map of       *)
(* gapless vectors, the server's walk (the loop of sum_by_row) recovers    *)
(* the vector of each index whole, and finds nothing for any other index.  *)
(***************************************************************************)
THEOREM WalkReadsBack ==
  ASSUME NEW mm, NEW idx,
         \A x \in DOMAIN mm : Gapless(mm[x]) /\ mm[x] = [i \in DOMAIN mm[x] |-> mm[x][i]]
  PROVE  /\ idx \in DOMAIN mm => Walk(Setup(mm), idx) = mm[idx]
         /\ idx \notin DOMAIN mm => DOMAIN Walk(Setup(mm), idx) = {}
<1> DEFINE store == Setup(mm)
           reached == {k \in DOMAIN store : k[1] = idx /\ \A j \in 0 .. k[2] : <<idx, j>> \in DOMAIN store}
<1>1. Walk(store, idx) = [i \in {k[2] : k \in reached} |-> store[<<idx, i>>]]
  BY DEF Walk
<1>2. \A k \in DOMAIN store : k = <<k[1], k[2]>> /\ k[1] \in DOMAIN mm /\ k[2] \in DOMAIN mm[k[1]]
                              /\ store[k] = mm[k[1]][k[2]]
  BY SetupEntry
<1>3. \A x \in DOMAIN mm : \A i \in DOMAIN mm[x] : <<x, i>> \in DOMAIN store
  BY DEF Setup
<1> HIDE DEF store
<1>4. ASSUME idx \in DOMAIN mm PROVE Walk(store, idx) = mm[idx]
  <2>1. ASSUME NEW i \in DOMAIN mm[idx] PROVE <<idx, i>> \in reached
    <3>1. i \in Nat /\ 0 .. (i - 1) \subseteq DOMAIN mm[idx]
      BY <1>4, <2>1 DEF Gapless
    <3>2. \A j \in 0 .. i : j \in 0 .. (i - 1) \/ j = i
      BY <3>1
    <3>3. \A j \in 0 .. i : <<idx, j>> \in DOMAIN store
      BY <1>3, <1>4, <2>1, <3>1, <3>2
    <3> QED BY <1>3, <1>4, <2>1, <3>3
  <2>2. {k[2] : k \in reached} = DOMAIN mm[idx]
    <3>1. \A k \in reached : k[2] \in DOMAIN mm[idx]
      BY <1>2
    <3>2. \A i \in DOMAIN mm[idx] : \E k \in reached : k[2] = i
      <4>1. \A i \in DOMAIN mm[idx] : <<idx, i>>[2] = i
        OBVIOUS
      <4> QED BY <2>1, <4>1
    <3> QED BY <3>1, <3>2
  <2>3. \A i \in DOMAIN mm[idx] : store[<<idx, i>>] = mm[idx][i]
    BY <1>2, <1>3, <1>4
  <2>4. mm[idx] = [i \in DOMAIN mm[idx] |-> mm[idx][i]]
    BY <1>4
  <2> HIDE DEF reached
  <2>5. Walk(store, idx) = [i \in DOMAIN mm[idx] |-> store[<<idx, i>>]]
    BY <1>1, <2>2
  <2> QED BY <2>3, <2>4, <2>5
<1>5. ASSUME idx \notin DOMAIN mm PROVE DOMAIN Walk(store, idx) = {}
  <2>1. reached = {}
    BY <1>2, <1>5
  <2>2. DOMAIN Walk(store, idx) = {k[2] : k \in reached}
    BY <1>1
  <2> QED BY <2>1, <2>2
<1> QED BY <1>4, <1>5 DEF store

(***************************************************************************)
(* In particular every multi-map of a table that has just been stored      *)
(* under its own indexes is read back as it was built.                     *)
(***************************************************************************)
THEOREM TableReadsBack ==
  ASSUME NEW t, IsTable(t), NEW mm \in {RowMM(t), ValueMM(t), ColMM(t)}, NEW idx \in DOMAIN mm
  PROVE  Walk(Setup(mm), idx) = mm[idx]
<1>1. \A x \in DOMAIN mm : Gapless(mm[x])
  BY RowMMGapless, ValueMMGapless, ColMMGapless
<1>2. \A x \in DOMAIN RowMM(t) : RowMM(t)[x] = [i \in DOMAIN RowMM(t)[x] |-> RowMM(t)[x][i]]
  BY DEF RowMM, RowVector
<1>3. \A x \in DOMAIN ValueMM(t) : ValueMM(t)[x] = [i \in DOMAIN ValueMM(t)[x] |-> ValueMM(t)[x][i]]
  <2>1. ASSUME NEW x \in DOMAIN ValueMM(t)
        PROVE  ValueMM(t)[x] = Postings(t.name, RowsWith(t, x[2], x[3]))
    BY DEF ValueMM
  <2>2. \A name, S : Postings(name, S) = [i \in DOMAIN Postings(name, S) |-> Postings(name, S)[i]]
    BY DEF Postings
  <2> QED BY <2>1, <2>2
<1>4. \A x \in DOMAIN ColMM(t) : ColMM(t)[x] = [i \in DOMAIN ColMM(t)[x] |-> ColMM(t)[x][i]]
  BY DEF ColMM, ColVector
<1>5. \A x \in DOMAIN mm : mm[x] = [i \in DOMAIN mm[x] |-> mm[x][i]]
  BY <1>2, <1>3, <1>4
<1> QED BY <1>1, <1>5, WalkReadsBack
=============================================================================
