---------------------------- MODULE CodecProofs ----------------------------
(***************************************************************************)
(* Proofs about CellTexts and the reader it extends, for every file: what  *)
(* is decrypted begins with the text of the cell and is that text except   *)
(* for whole blocks, the buffer of the PRF is large enough for short       *)
(* indexes, and the reader finds every line and, in a regular file, every  *)
(* cell.                                                                   *)
(***************************************************************************)
EXTENDS CellTexts, FiniteSetTheorems, SequenceTheorems, TLAPS

(***************************************************************************)
(* A nonempty set of natural numbers has a least one.                      *)
(***************************************************************************)
LEMMA LeastNumber ==
  ASSUME NEW S \in SUBSET Nat, S # {}
  PROVE  \E m \in S : \A q \in S : m <= q
<1> DEFINE R == OpToRel(<, Nat)
<1>1. IsWellFoundedOn(R, Nat)
  BY NatLessThanWellFounded
<1>2. PICK x \in S : \A y \in S : <<y, x>> \notin R
  <2> HIDE DEF R
  <2> QED BY <1>1, WFMin
<1>3. \A y \in S : ~(y < x)
  BY <1>2 DEF OpToRel
<1> QED BY <1>3

(***************************************************************************)
(* A set of n positions has an n-th smallest.                              *)
(***************************************************************************)
LEMMA NthRank ==
  ASSUME NEW S \in SUBSET Nat, IsFiniteSet(S), NEW n \in 1 .. Cardinality(S)
  PROVE  \E i \in S : Cardinality({j \in S : j < i}) = n - 1
<1> DEFINE Below(i) == {j \in S : j < i}
           Bad == {k \in 1 .. Cardinality(S) : ~ \E i \in S : Cardinality(Below(i)) = k - 1}
<1>1. Cardinality(S) \in Nat
  BY FS_CardinalityType
<1>2. Bad = {}
  <2> SUFFICES ASSUME Bad # {} PROVE FALSE
    OBVIOUS
  <2>1. Bad \in SUBSET Nat
    BY <1>1
  <2>2. PICK b \in Bad : \A q \in Bad : b <= q
    <3> HIDE DEF Bad
    <3> QED BY <2>1, LeastNumber
  <2>3. b \in 1 .. Cardinality(S) /\ b \in Nat
    BY <1>1
  <2>4. CASE b = 1
    <3>1. S # {}
      BY <2>3, FS_EmptySet, <1>1
    <3>2. PICK m \in S : \A q \in S : m <= q
      BY <3>1, LeastNumber
    <3>3. Below(m) = {}
      <4>1. \A j \in S : j \in Nat
        OBVIOUS
      <4>2. \A j \in S : ~(j < m)
        BY <3>2, <4>1
      <4> QED BY <4>2
    <3>4. Cardinality(Below(m)) = b - 1
      <4>1. Cardinality({}) = 0 /\ b - 1 = 0
        BY <2>4, FS_EmptySet
      <4> QED BY <3>3, <4>1, Zenon
    <3> QED BY <3>4, <2>2
  <2>5. CASE b # 1
    <3>1. b - 1 \in 1 .. Cardinality(S) /\ b - 1 \notin Bad
      BY <2>2, <2>3, <2>5, <1>1
    <3>2. PICK i \in S : Cardinality(Below(i)) = b - 1 - 1
      BY <3>1
    <3>3. IsFiniteSet(Below(i)) /\ i \notin Below(i)
      BY FS_Subset
    <3>4. IsFiniteSet(Below(i) \cup {i}) /\ Cardinality(Below(i) \cup {i}) = b - 1
      <4> HIDE DEF Below
      <4>1. Cardinality(Below(i) \cup {i}) = Cardinality(Below(i)) + 1
        BY <3>3, FS_AddElement
      <4> QED BY <3>2, <3>3, <4>1, <2>3, FS_AddElement
    <3> DEFINE Above == {j \in S : j > i}
    <3>5. Above # {}
      <4> SUFFICES ASSUME Above = {} PROVE FALSE
        OBVIOUS
      <4>1. \A j \in S : j \in Nat /\ ~(j > i)
        OBVIOUS
      <4>2. \A j \in S : j < i \/ j = i
        BY <4>1
      <4>3. S = Below(i) \cup {i}
        BY <4>2
      <4>4. Cardinality(S) = b - 1
        BY <4>3, <3>4
      <4> HIDE DEF Bad
      <4> QED BY <4>4, <2>3
    <3>6. PICK m \in Above : \A q \in Above : m <= q
      <4>1. Above \in SUBSET Nat
        OBVIOUS
      <4> HIDE DEF Above
      <4> QED BY <3>5, <4>1, LeastNumber
    <3>7. Below(m) = Below(i) \cup {i}
      <4>1. \A j \in S : j < m <=> (j < i \/ j = i)
        BY <3>6
      <4> QED BY <4>1
    <3>8. m \in S /\ Cardinality(Below(m)) = b - 1
      BY <3>4, <3>7
    <3> QED BY <3>8, <2>2
  <2> QED BY <2>4, <2>5
<1> QED BY <1>2

(***************************************************************************)
(* Nth chooses the element with n - 1 smaller ones.                        *)
(***************************************************************************)
LEMMA NthExists ==
  ASSUME NEW S \in SUBSET Nat, IsFiniteSet(S), NEW n \in 1 .. Cardinality(S)
  PROVE  Nth(S, n) \in S /\ Cardinality({j \in S : j < Nth(S, n)}) = n - 1
BY NthRank DEF Nth

(***************************************************************************)
(* The element with n - 1 smaller ones is the n-th smallest.               *)
(***************************************************************************)
LEMMA NthIs ==
  ASSUME NEW S \in SUBSET Nat, IsFiniteSet(S), NEW i \in S, NEW n \in Nat,
         Cardinality({j \in S : j < i}) = n - 1
  PROVE  Nth(S, n) = i
<1> DEFINE Below(q) == {j \in S : j < q}
           c == Nth(S, n)
<1>1. c \in S /\ Cardinality(Below(c)) = n - 1
  BY DEF Nth
<1>2. ASSUME NEW q \in S, NEW r \in S, q < r
      PROVE  Cardinality(Below(q)) < Cardinality(Below(r))
  <2>1. IsFiniteSet(Below(q)) /\ IsFiniteSet(Below(r)) /\ q \notin Below(q)
    BY FS_Subset
  <2>2. Below(q) \cup {q} \subseteq Below(r)
    <3>1. \A j \in S : j \in Nat
      OBVIOUS
    <3>2. \A j \in S : j < q => j < r
      BY <3>1, <1>2
    <3> QED BY <1>2, <3>2
  <2> HIDE DEF Below
  <2>3. Cardinality(Below(q) \cup {q}) = Cardinality(Below(q)) + 1
    BY <2>1, FS_AddElement
  <2>4. Cardinality(Below(q) \cup {q}) <= Cardinality(Below(r))
    BY <2>1, <2>2, FS_Subset
  <2>5. Cardinality(Below(q)) \in Nat /\ Cardinality(Below(r)) \in Nat
    BY <2>1, FS_CardinalityType
  <2> QED BY <2>3, <2>4, <2>5
<1> HIDE DEF Below, c
<1>3. ~(c < i) /\ ~(i < c)
  <2>1. Cardinality(Below(i)) = n - 1 /\ ~(n - 1 < n - 1)
    BY DEF Below
  <2> QED BY <1>1, <1>2, <2>1
<1>4. c \in Nat /\ i \in Nat
  BY <1>1
<1>5. c = i
  BY <1>3, <1>4
<1> QED BY <1>5 DEF c

(***************************************************************************)
(* A function over 1 .. n is a sequence of length n.                       *)
(***************************************************************************)
LEMMA FunctionIsSequence ==
  ASSUME NEW S, NEW n \in Nat, NEW f \in [1 .. n -> S]
  PROVE  f \in Seq(S) /\ Len(f) = n
<1>1. f \in Seq(S)
  BY SeqDef
<1>2. DOMAIN f = 1 .. n /\ DOMAIN f = 1 .. Len(f) /\ Len(f) \in Nat
  BY <1>1, LenProperties
<1> QED BY <1>1, <1>2

(***************************************************************************)
(* The cells of a line are texts.                                          *)
(***************************************************************************)
LEMMA CellsTyped ==
  ASSUME NEW l \in Seq(Letter)
  PROVE  Cells(l) \in Seq(Seq(Letter))
<1> DEFINE commas == {i \in DOMAIN l : l[i] = ","}
           bounds == {0, Len(l) + 1} \cup commas
           k == Cardinality(bounds) - 1
           pieces == [n \in 1 .. k |-> SubSeq(l, Nth(bounds, n) + 1, Nth(bounds, n + 1) - 1)]
<1>1. Len(l) \in Nat /\ DOMAIN l = 1 .. Len(l) /\ \A i \in 1 .. Len(l) : l[i] \in Letter
  BY LenProperties
<1>2. bounds \subseteq 0 .. (Len(l) + 1)
  <2>1. \A i \in commas : i \in 1 .. Len(l)
    BY <1>1
  <2>2. 0 \in 0 .. (Len(l) + 1) /\ Len(l) + 1 \in 0 .. (Len(l) + 1)
    BY <1>1
  <2>3. \A i \in 1 .. Len(l) : i \in 0 .. (Len(l) + 1)
    BY <1>1
  <2> HIDE DEF commas
  <2> QED BY <2>1, <2>2, <2>3
<1>3. IsFiniteSet(bounds) /\ bounds \in SUBSET Nat
  <2>1. 0 \in Int /\ Len(l) + 1 \in Int
    BY <1>1
  <2>2. IsFiniteSet(0 .. (Len(l) + 1))
    BY <2>1, FS_Interval
  <2>3. \A i \in 0 .. (Len(l) + 1) : i \in Nat
    BY <1>1
  <2> HIDE DEF bounds
  <2>4. IsFiniteSet(bounds)
    BY <1>2, <2>2, FS_Subset
  <2> QED BY <1>2, <2>3, <2>4
<1>4. k \in Nat /\ Cardinality(bounds) \in Nat
  <2>1. Cardinality(bounds) \in Nat
    BY <1>3, FS_CardinalityType
  <2>2. bounds # {}
    OBVIOUS
  <2>3. Cardinality(bounds) # 0
    <3> HIDE DEF bounds
    <3> QED BY <1>3, <2>2, FS_EmptySet
  <2> HIDE DEF bounds
  <2> QED BY <2>1, <2>3
<1>5. \A n \in 1 .. k : Nth(bounds, n) \in bounds /\ Nth(bounds, n + 1) \in bounds
  <2> SUFFICES ASSUME NEW n \in 1 .. k
               PROVE  Nth(bounds, n) \in bounds /\ Nth(bounds, n + 1) \in bounds
    OBVIOUS
  <2> HIDE DEF bounds
  <2>1. n \in 1 .. Cardinality(bounds) /\ n + 1 \in 1 .. Cardinality(bounds)
    BY <1>4
  <2> QED BY <2>1, <1>3, NthExists
<1>6. \A n \in 1 .. k : pieces[n] \in Seq(Letter)
  <2> SUFFICES ASSUME NEW n \in 1 .. k
               PROVE  SubSeq(l, Nth(bounds, n) + 1, Nth(bounds, n + 1) - 1) \in Seq(Letter)
    OBVIOUS
  <2> HIDE DEF bounds
  <2>1. Nth(bounds, n) \in 0 .. (Len(l) + 1) /\ Nth(bounds, n + 1) \in 0 .. (Len(l) + 1)
    BY <1>2, <1>5
  <2> DEFINE a == Nth(bounds, n)  e == Nth(bounds, n + 1)
  <2> HIDE DEF a, e
  <2>2. a \in 0 .. (Len(l) + 1) /\ e \in 0 .. (Len(l) + 1)
    BY <2>1 DEF a, e
  <2>3. \A i \in (a + 1) .. (e - 1) : l[i] \in Letter
    BY <2>2, <1>1
  <2>4. a + 1 \in Int /\ e - 1 \in Int
    BY <2>2, <1>1
  <2>5. SubSeq(l, a + 1, e - 1) \in Seq(Letter)
    BY <2>3, <2>4, SubSeqProperties
  <2> QED BY <2>5 DEF a, e
<1>7. pieces \in Seq(Seq(Letter)) /\ Len(pieces) = k
  <2>1. pieces \in [1 .. k -> Seq(Letter)]
    BY <1>6
  <2> HIDE DEF k, pieces
  <2> QED BY <2>1, <1>4, FunctionIsSequence
<1>8. Front(pieces) \in Seq(Seq(Letter))
  <2> HIDE DEF pieces, k, bounds
  <2>1. \A i \in 1 .. (k - 1) : pieces[i] \in Seq(Letter)
    <3>1. \A i \in 1 .. (k - 1) : i \in 1 .. k
      BY <1>4
    <3> QED BY <3>1, <1>6
  <2>3. k - 1 \in Int
    BY <1>4
  <2>2. SubSeq(pieces, 1, k - 1) \in Seq(Seq(Letter))
    BY <2>1, <2>3, SubSeqProperties
  <2> QED BY <2>2, <1>7 DEF Front
<1>9. Cells(l) = IF Last(pieces) = <<>> THEN Front(pieces) ELSE pieces
  BY DEF Cells
<1> QED BY <1>7, <1>8, <1>9

(***************************************************************************)
(* Sequences of the same length and elements are the same.                 *)
(***************************************************************************)
LEMMA SameElements ==
  ASSUME NEW S, NEW s \in Seq(S), NEW T, NEW t \in Seq(T), Len(s) = Len(t),
         \A i \in 1 .. Len(s) : s[i] = t[i]
  PROVE  s = t
<1>1. s \in [1 .. Len(s) -> S] /\ t \in [1 .. Len(t) -> T]
  BY LenProperties
<1>2. DOMAIN s = 1 .. Len(s) /\ DOMAIN t = 1 .. Len(s)
  BY LenProperties
<1>3. s = [i \in 1 .. Len(s) |-> s[i]] /\ t = [i \in 1 .. Len(s) |-> t[i]]
  BY <1>1, <1>2
<1> QED BY <1>3

Byte == Letter \cup {Mark, Unknown}

(***************************************************************************)
(* Padding makes whole blocks, adds some marks unless there are whole      *)
(* blocks already, and leaves the text in front.                           *)
(***************************************************************************)
LEMMA Padded ==
  ASSUME NEW text \in Seq(Letter)
  PROVE  /\ Len(text) \in Nat /\ PadLength(Len(text)) \in Nat
         /\ PadLength(Len(text)) >= Len(text)
         /\ Len(text) % Block # 0 => PadLength(Len(text)) > Len(text)
         /\ Len(text) = 0 => PadLength(Len(text)) = 0
         /\ padding16(text) \in Seq(Byte) /\ Len(padding16(text)) = PadLength(Len(text))
         /\ \A i \in 1 .. PadLength(Len(text)) :
              padding16(text)[i] = IF i <= Len(text) THEN text[i] ELSE Mark
         /\ Delivered(getSymmetricEncryption(text)) = PadLength(Len(text))
<1> DEFINE n == Len(text)
           P == PadLength(n)
<1>1. n \in Nat /\ \A i \in 1 .. n : text[i] \in Letter
  BY LenProperties
<1>2. /\ P \in Nat /\ P >= n /\ P % Block = 0
      /\ n % Block # 0 => P > n
      /\ n = 0 => P = 0
  <2> HIDE DEF n
  <2> QED BY <1>1 DEF PadLength, Block
<1>3. padding16(text) \in [1 .. P -> Byte]
  <2> HIDE DEF P
  <2>1. \A i \in 1 .. P : (IF i <= n THEN text[i] ELSE Mark) \in Byte
    BY <1>1, <1>2 DEF Byte
  <2> QED BY <2>1 DEF padding16, P
<1>4. padding16(text) \in Seq(Byte) /\ Len(padding16(text)) = P
  BY <1>2, <1>3, FunctionIsSequence
<1>5. \A i \in 1 .. P : padding16(text)[i] = IF i <= n THEN text[i] ELSE Mark
  BY DEF padding16
<1>6. Delivered(getSymmetricEncryption(text)) = P
  <2>1. Delivered(getSymmetricEncryption(text)) = EncryptedLength(P) - Block
    BY DEF Delivered, getSymmetricEncryption
  <2> HIDE DEF P
  <2> QED BY <1>2, <2>1 DEF EncryptedLength, Block
<1> QED BY <1>1, <1>2, <1>4, <1>5, <1>6

(***************************************************************************)
(* The first mark of a text, or the place behind it.                       *)
(***************************************************************************)
LEMMA FirstMarkIs ==
  ASSUME NEW S, NEW text \in Seq(S)
  PROVE  /\ FirstMark(text) \in 1 .. (Len(text) + 1)
         /\ FirstMark(text) <= Len(text) => text[FirstMark(text)] = Mark
         /\ \A j \in 1 .. (FirstMark(text) - 1) : text[j] # Mark
<1> DEFINE Places == {i \in 1 .. (Len(text) + 1) : i <= Len(text) => text[i] = Mark}
<1>1. Len(text) \in Nat
  BY LenProperties
<1>2. Places \in SUBSET Nat /\ Len(text) + 1 \in Places
  BY <1>1
<1>3. PICK m \in Places : \A q \in Places : m <= q
  <2> HIDE DEF Places
  <2> QED BY <1>2, LeastNumber
<1>4. \A j \in 1 .. (m - 1) : text[j] # Mark
  <2> SUFFICES ASSUME NEW j \in 1 .. (m - 1), text[j] = Mark PROVE FALSE
    OBVIOUS
  <2>1. m \in 1 .. (Len(text) + 1)
    OBVIOUS
  <2>2. j \in 1 .. (Len(text) + 1) /\ ~(m <= j)
    BY <2>1, <1>1
  <2> QED BY <2>2, <1>3
<1>5. \E i \in 1 .. (Len(text) + 1) :
        /\ i <= Len(text) => text[i] = Mark
        /\ \A j \in 1 .. (i - 1) : text[j] # Mark
  BY <1>4
<1> QED BY <1>5 DEF FirstMark

(***************************************************************************)
(* The unknown bytes are as many as were asked for.                        *)
(***************************************************************************)
LEMMA MemoryTyped ==
  ASSUME NEW n \in Nat, NEW rest \in Memory(n)
  PROVE  rest \in Seq(Byte) /\ Len(rest) = n
<1>1. rest \in [1 .. n -> Byte]
  BY DEF Memory, Byte
<1> QED BY <1>1, FunctionIsSequence

(***************************************************************************)
(* What CellsReadBack says of one text and one outcome of its decryption.  *)
(***************************************************************************)
ReadsBack(cell, got) ==
  /\ ~Marked(got)
  /\ \E s \in {SubSeq(cell, 1, n) : n \in 0 .. Len(cell)} :
       /\ ~Marked(s) /\ (s # cell => cell[Len(s) + 1] = Mark)
       /\ IsPrefix(s, got)
       /\ Len(cell) % Block # 0 \/ Marked(cell) \/ cell = <<>> => got = s

(***************************************************************************)
(* Decrypting the encryption of a text gives its part in front of the      *)
(* first mark, followed by unknown bytes only after whole blocks without   *)
(* a mark.                                                                 *)
(***************************************************************************)
THEOREM TextsReadBack ==
  ASSUME NEW text \in Seq(Letter),
         NEW got \in decryptSymmetricEncryption(getSymmetricEncryption(text))
  PROVE  ReadsBack(text, got)
<1> DEFINE n == Len(text)
           P == PadLength(n)
           bytes == padding16(text)
<1>1. PICK rest \in Memory(P) : got = CutAtMark(SubSeq(bytes, 1, P) \o rest)
  BY Padded DEF decryptSymmetricEncryption, sym_decrypt, getSymmetricEncryption
<1> DEFINE t == bytes \o rest
           m == FirstMark(t)
<1>2. /\ n \in Nat /\ P \in Nat /\ P >= n /\ bytes \in Seq(Byte) /\ Len(bytes) = P
      /\ n % Block # 0 => P > n
      /\ n = 0 => P = 0
  BY Padded
<1>3. SubSeq(bytes, 1, P) = bytes
  BY <1>2, SubSeqFull
<1>4. t \in Seq(Byte) /\ Len(t) = P + P /\ \A i \in 1 .. P : t[i] = bytes[i]
  <2> HIDE DEF bytes, P
  <2>1. rest \in Seq(Byte) /\ Len(rest) = P
    BY <1>2, MemoryTyped
  <2>2. /\ t \in Seq(Byte) /\ Len(t) = P + P
        /\ \A i \in 1 .. (P + P) : t[i] = IF i <= P THEN bytes[i] ELSE rest[i - P]
    <3>1. /\ t \in Seq(Byte) /\ Len(t) = Len(bytes) + Len(rest)
          /\ \A i \in 1 .. Len(bytes) + Len(rest) :
               t[i] = IF i <= Len(bytes) THEN bytes[i] ELSE rest[i - Len(bytes)]
      BY <1>2, <2>1, ConcatProperties
    <3> HIDE DEF t
    <3> QED BY <1>2, <2>1, <3>1
  <2>3. \A i \in 1 .. P : i \in 1 .. (P + P) /\ i <= P
    BY <1>2
  <2> HIDE DEF t
  <2> QED BY <2>2, <2>3
<1>5. \A i \in 1 .. P : t[i] = IF i <= n THEN text[i] ELSE Mark
  <2>1. \A i \in 1 .. P : bytes[i] = IF i <= n THEN text[i] ELSE Mark
    BY Padded
  <2> HIDE DEF t, bytes, P
  <2> QED BY <2>1, <1>4
<1>6. got = SubSeq(t, 1, m - 1)
  BY <1>1, <1>3 DEF CutAtMark
<1>7. /\ m \in 1 .. (P + P + 1)
      /\ m <= P + P => t[m] = Mark
      /\ \A j \in 1 .. (m - 1) : t[j] # Mark
  <2> HIDE DEF t
  <2> QED BY <1>4, FirstMarkIs DEF t
<1> HIDE DEF t, m, bytes, P
<1>8. got \in Seq(Byte) /\ Len(got) = m - 1 /\ \A i \in 1 .. (m - 1) : got[i] = t[i]
  <2>1. t \in [1 .. (P + P) -> Byte]
    BY <1>4, LenProperties
  <2>2. \A i \in 1 .. (m - 1) : t[i] \in Byte
    BY <2>1, <1>7, <1>2
  <2>3. m - 1 \in Int /\ m \in Nat /\ m >= 1
    BY <1>7, <1>2
  <2> QED BY <2>2, <2>3, <1>6, SubSeqProperties
<1>9. m \in Nat /\ m >= 1 /\ m <= P + P + 1
  BY <1>7, <1>2
<1>10. ~Marked(got)
  <2>1. DOMAIN got = 1 .. (m - 1)
    BY <1>8, LenProperties
  <2> QED BY <2>1, <1>7, <1>8 DEF Marked
<1>11. text \in [1 .. n -> Letter] /\ DOMAIN text = 1 .. n
  BY LenProperties
<1>12. ASSUME NEW k \in 0 .. n
       PROVE  /\ SubSeq(text, 1, k) \in Seq(Letter) /\ Len(SubSeq(text, 1, k)) = k
              /\ DOMAIN SubSeq(text, 1, k) = 1 .. k
              /\ \A i \in 1 .. k : SubSeq(text, 1, k)[i] = text[i]
  <2>1. k \in Nat /\ \A i \in 1 .. k : text[i] \in Letter
    BY <1>2, <1>11
  <2>2. /\ SubSeq(text, 1, k) \in Seq(Letter)
        /\ Len(SubSeq(text, 1, k)) = k
        /\ \A i \in 1 .. k : SubSeq(text, 1, k)[i] = text[i]
    BY <2>1, SubSeqProperties
  <2> QED BY <2>2, LenProperties
<1>13. ASSUME NEW k \in 0 .. n, k <= m - 1, k = n \/ text[k + 1] = Mark,
              Len(text) % Block # 0 \/ Marked(text) \/ text = <<>> => k = m - 1
       PROVE  ReadsBack(text, got)
  <2> DEFINE s == SubSeq(text, 1, k)
  <2>1. s \in Seq(Letter) /\ Len(s) = k /\ DOMAIN s = 1 .. k /\ \A i \in 1 .. k : s[i] = text[i]
    BY <1>12
  <2>2. k \in Nat /\ \A i \in 1 .. k : i \in 1 .. P /\ i <= n /\ i \in 1 .. (m - 1)
    BY <1>2, <1>9, <1>13
  <2>3. \A i \in 1 .. k : s[i] = got[i] /\ s[i] # Mark
    BY <2>1, <2>2, <1>5, <1>7, <1>8
  <2>4. ~Marked(s)
    BY <2>1, <2>3 DEF Marked
  <2>5. s # text => text[Len(s) + 1] = Mark
    <3>1. k = n => s = text
      BY SubSeqFull
    <3> QED BY <3>1, <2>1, <1>13
  <2>6. IsPrefix(s, got)
    <3>1. \A i \in 1 .. k : got[i] \in Byte
      <4>1. got \in [1 .. (m - 1) -> Byte]
        BY <1>8, LenProperties
      <4> QED BY <4>1, <2>2
    <3>2. /\ SubSeq(got, 1, k) \in Seq(Byte) /\ Len(SubSeq(got, 1, k)) = k
          /\ \A i \in 1 .. k : SubSeq(got, 1, k)[i] = got[i]
      BY <3>1, <2>2, SubSeqProperties
    <3>3. SubSeq(s, 1, k) = s
      <4> HIDE DEF s
      <4> QED BY <2>1, SubSeqFull
    <3>4. SubSeq(got, 1, k) = s
      <4> HIDE DEF s
      <4> QED BY <3>2, <2>1, <2>3, SameElements
    <3> HIDE DEF s
    <3> QED BY <3>3, <3>4, <2>1, <1>8, <1>13 DEF IsPrefix
  <2>7. k = m - 1 => got = s
    <3> HIDE DEF s
    <3> QED BY <2>1, <2>3, <1>8, SameElements
  <2> QED BY <2>4, <2>5, <2>6, <2>7, <1>10, <1>13 DEF ReadsBack
<1>14. CASE m <= n
  <2>1. m - 1 \in 0 .. n /\ m \in 1 .. P /\ m <= P + P
    BY <1>14, <1>2, <1>9
  <2>2. text[m - 1 + 1] = Mark
    <3>1. text[m] = Mark
      BY <1>14, <2>1, <1>5, <1>7
    <3> QED BY <3>1, <1>9
  <2> QED BY <2>1, <2>2, <1>9, <1>13
<1>15. CASE m > n
  <2>1. n \in 0 .. n /\ n <= m - 1
    BY <1>15, <1>2, <1>9
  <2>2. ~Marked(text)
    <3>1. \A i \in 1 .. n : i \in 1 .. P /\ i \in 1 .. (m - 1)
      BY <1>2, <2>1, <1>9
    <3> QED BY <3>1, <1>5, <1>7, <1>11 DEF Marked
  <2>3. n % Block # 0 => n = m - 1
    <3> SUFFICES ASSUME n % Block # 0, n # m - 1 PROVE FALSE
      OBVIOUS
    <3>1. n + 1 \in 1 .. P /\ n + 1 \in 1 .. (m - 1) /\ ~(n + 1 <= n)
      BY <1>2, <1>9, <2>1
    <3> QED BY <3>1, <1>5, <1>7
  <2>4. text = <<>> => n = m - 1
    <3>1. text = <<>> => n = 0
      OBVIOUS
    <3> QED BY <3>1, <1>2, <1>9, <2>1
  <2> QED BY <2>1, <2>2, <2>3, <2>4, <1>13
<1> QED BY <1>14, <1>15, <1>9, <1>2

(***************************************************************************)
(* The buffer of the PRF: up to 64 characters a remainder of at least one  *)
(* and the two bytes to spare make up for the whole blocks taken off.      *)
(***************************************************************************)
THEOREM ShortIndexesFit ==
  ASSUME NEW n \in Nat, n < 65, n % Block # 0
  PROVE  PrfFits(n)
BY DEF PrfFits, EncryptedLength, PrfRoom, Block

(***************************************************************************)
(* The invariant: the reader holds texts, every ciphertext is that of the  *)
(* cell at its place, and the answer reads back.  Nothing is encrypted     *)
(* before the file is read to its end, after which the rows stay.          *)
(***************************************************************************)
ReaderTyped ==
  /\ file \in Seq(Letter) /\ line \in Seq(Letter)
  /\ types \in Seq(Seq(Letter)) /\ rows \in Seq(Seq(Seq(Letter)))

IsPlace(place) == eof /\ place[1] \in DOMAIN rows /\ place[2] \in DOMAIN rows[place[1]]

SealedRight ==
  \A place \in DOMAIN sealed :
    IsPlace(place) /\ sealed[place] = getSymmetricEncryption(CellOf(place))

CodecInv ==
  /\ ReaderTyped
  /\ row_index \in Nat \ {0} /\ col_index \in Nat \ {0}
  /\ SealedRight
  /\ tokens \in SUBSET Nat
  /\ answer # NoAnswer =>
       IsPlace(answer.place) /\ ReadsBack(CellOf(answer.place), answer.text)

(***************************************************************************)
(* Storing a line keeps the types of the table.                            *)
(***************************************************************************)
LEMMA StoreTyped ==
  ASSUME types \in Seq(Seq(Letter)), rows \in Seq(Seq(Seq(Letter))), line \in Seq(Letter),
         Store(line)
  PROVE  types' \in Seq(Seq(Letter)) /\ rows' \in Seq(Seq(Seq(Letter)))
<1>1. Cells(line) \in Seq(Seq(Letter))
  BY CellsTyped
<1>2. Append(rows, Cells(line)) \in Seq(Seq(Seq(Letter)))
  BY <1>1, AppendProperties
<1> QED BY <1>1, <1>2 DEF Store

(***************************************************************************)
(* So does every step of the reader.                                       *)
(***************************************************************************)
LEMMA ReaderStep ==
  ASSUME ReaderTyped, fileReader
  PROVE  ReaderTyped' /\ ~eof
<1> USE DEF ReaderTyped
<1>1. \A s \in Seq(Letter) : s # <<>> => Head(s) \in Letter /\ Tail(s) \in Seq(Letter)
  BY HeadTailProperties
<1>2. <<>> \in Seq(Letter)
  OBVIOUS
<1>3. CASE Character
  <2>1. line' \in Seq(Letter)
    BY <1>1, <1>3, AppendProperties DEF Character
  <2> QED BY <1>1, <1>3, <2>1 DEF Character
<1>4. CASE EndOfLine
  <2>1. file' \in Seq(Letter)
    <3>1. CASE Len(file) > 1
      <4>1. Tail(file) \in Seq(Letter) /\ Len(Tail(file)) = Len(file) - 1 /\ Len(file) \in Nat
        BY <1>1, <1>4, LenProperties, HeadTailProperties DEF EndOfLine
      <4>2. Tail(file) # <<>>
        <5>1. Len(Tail(file)) # 0
          <6> DEFINE n == Len(file)
                     k == Len(Tail(file))
          <6>1. k = n - 1 /\ n \in Nat /\ n > 1
            BY <4>1, <3>1
          <6> HIDE DEF n, k
          <6>2. k # 0
            BY <6>1
          <6> QED BY <6>2 DEF k
        <5>2. Len(<<>>) = 0
          OBVIOUS
        <5> QED BY <5>1, <5>2
      <4> QED BY <1>1, <1>4, <4>1, <4>2 DEF EndOfLine
    <3>2. CASE ~(Len(file) > 1)
      BY <1>1, <1>4, <3>2 DEF EndOfLine
    <3> QED BY <3>1, <3>2
  <2>2. types' \in Seq(Seq(Letter)) /\ rows' \in Seq(Seq(Seq(Letter)))
    BY <1>4, StoreTyped DEF EndOfLine
  <2> QED BY <1>2, <1>4, <2>1, <2>2 DEF EndOfLine
<1>5. CASE EndOfFile
  <2>1. types' \in Seq(Seq(Letter)) /\ rows' \in Seq(Seq(Seq(Letter)))
    BY <1>5, StoreTyped DEF EndOfFile
  <2> QED BY <1>2, <1>5, <2>1 DEF EndOfFile
<1> QED BY <1>3, <1>4, <1>5 DEF fileReader

(***************************************************************************)
(* A cell that exists is a text.                                           *)
(***************************************************************************)
LEMMA CellTyped ==
  ASSUME ReaderTyped, NEW place, IsPlace(place)
  PROVE  CellOf(place) \in Seq(Letter)
<1>1. rows[place[1]] \in Seq(Seq(Letter))
  BY LenProperties DEF ReaderTyped, IsPlace
<1> QED BY <1>1, LenProperties DEF IsPlace, CellOf

(***************************************************************************)
(* The invariant holds at the start and is kept by every step.             *)
(***************************************************************************)
LEMMA CodecInit == CellInit => CodecInv
<1> SUFFICES ASSUME CellInit PROVE CodecInv
  OBVIOUS
<1>1. file \in Seq(Letter)
  BY CellAssumption DEF CellInit, Init
<1> QED BY <1>1 DEF CellInit, Init, CodecInv, ReaderTyped, SealedRight

(***************************************************************************)
(* One case per action.                                                    *)
(***************************************************************************)
LEMMA CodecStep ==
  ASSUME CodecInv, [CellNext]_<<vars, cellVars>>
  PROVE  CodecInv'
<1>1. CASE ReadFile
  <2>1. ReaderTyped' /\ ~eof
    BY <1>1, ReaderStep DEF ReadFile, CodecInv
  <2>2. DOMAIN sealed = {} /\ answer = NoAnswer
    BY <2>1 DEF CodecInv, SealedRight, IsPlace
  <2> QED BY <1>1, <2>1, <2>2 DEF ReadFile, cellVars, CodecInv, SealedRight
<1>2. CASE EncryptCell
  <2> DEFINE here == <<row_index, col_index>>
  <2>1. UNCHANGED <<vars, tokens, answer>> /\ eof /\ Rectangular /\ ~CellsDone
    BY <1>2 DEF EncryptCell
  <2>2. ReaderTyped' /\ tokens' \in SUBSET Nat
    BY <2>1 DEF CodecInv, ReaderTyped, vars
  <2>3. row_index \in DOMAIN rows /\ col_index \in 1 .. Len(rows[1])
    <3>1. Len(rows) \in Nat /\ DOMAIN rows = 1 .. Len(rows)
      BY LenProperties DEF CodecInv, ReaderTyped
    <3>2. row_index \in 1 .. Len(rows)
      BY <2>1, <3>1 DEF CellsDone, CodecInv
    <3>3. 1 \in DOMAIN rows
      BY <3>1, <3>2
    <3>4. Len(rows[1]) \in Nat
      <4>1. rows[1] \in Seq(Seq(Letter))
        BY <3>1, <3>3, LenProperties DEF CodecInv, ReaderTyped
      <4> QED BY <4>1, LenProperties
    <3>5. col_index < Len(rows[1]) \/ col_index = Len(rows[1])
      BY <1>2 DEF EncryptCell
    <3> QED BY <3>1, <3>2, <3>4, <3>5 DEF CodecInv
  <2>4. row_index' \in Nat \ {0} /\ col_index' \in Nat \ {0}
    BY <1>2 DEF EncryptCell, CodecInv
  <2>5. IsPlace(here)
    <3>1. rows[row_index] \in Seq(Seq(Letter)) /\ Len(rows[row_index]) = Len(rows[1])
      BY <2>1, <2>3, LenProperties DEF CodecInv, ReaderTyped, Rectangular
    <3>2. DOMAIN rows[row_index] = 1 .. Len(rows[1])
      BY <3>1, LenProperties
    <3> QED BY <3>2, <2>1, <2>3 DEF IsPlace
  <2>6. SealedRight'
    <3>1. \A place : IsPlace(place)' = IsPlace(place) /\ CellOf(place)' = CellOf(place)
      BY <2>1 DEF IsPlace, CellOf, vars
    <3>2. CASE UNCHANGED sealed
      BY <3>1, <3>2 DEF CodecInv, SealedRight
    <3>3. CASE Seal(here, getSymmetricEncryption(rows[row_index][col_index]))
      <4>1. sealed' = [p \in DOMAIN sealed \cup {here} |->
                         IF p = here THEN getSymmetricEncryption(CellOf(here)) ELSE sealed[p]]
        BY <3>3 DEF Seal, CellOf
      <4> HIDE DEF here
      <4>2. ASSUME NEW place \in DOMAIN sealed'
            PROVE  IsPlace(place) /\ sealed'[place] = getSymmetricEncryption(CellOf(place))
        <5>1. CASE place = here
          BY <4>1, <5>1, <2>5
        <5>2. CASE place # here
          BY <4>1, <5>2 DEF CodecInv, SealedRight
        <5> QED BY <5>1, <5>2
      <4> QED BY <3>1, <4>2 DEF SealedRight
    <3> QED BY <1>2, <3>2, <3>3 DEF EncryptCell
  <2>7. answer' # NoAnswer =>
          (IsPlace(answer.place) /\ ReadsBack(CellOf(answer.place), answer.text))'
    BY <2>1 DEF CodecInv, IsPlace, CellOf, vars
  <2> QED BY <2>2, <2>4, <2>6, <2>7 DEF CodecInv
<1>3. CASE setup
  <2>1. UNCHANGED <<vars, row_index, col_index, sealed, answer>> /\ tokens' = IndexLengths
    BY <1>3 DEF setup
  <2>0. NameLength \in Nat
    BY CellAssumption
  <2>2. ASSUME NEW r \in DOMAIN rows, NEW c \in DOMAIN types
        PROVE  NameLength + 3 + Len(rows[r][c]) \in Nat
    <3>1. rows[r] \in Seq(Seq(Letter)) /\ Len(rows[r]) = Len(types)
      BY <1>3, LenProperties DEF CodecInv, ReaderTyped, setup, Rectangular
    <3>2. DOMAIN rows[r] = DOMAIN types
      BY <3>1, LenProperties DEF CodecInv, ReaderTyped
    <3>3. rows[r][c] \in Seq(Letter)
      BY <3>1, <3>2, LenProperties
    <3>4. Len(rows[r][c]) \in Nat
      BY <3>3, LenProperties
    <3> HIDE DEF CodecInv
    <3> DEFINE n == Len(rows[r][c])
    <3> HIDE DEF n
    <3>5. n \in Nat
      BY <3>4 DEF n
    <3>6. NameLength + 3 + n \in Nat
      BY <3>5, <2>0
    <3> QED BY <3>6 DEF n
  <2>3. NameLength + 2 \in Nat
    BY <2>0
  <2>4. IndexLengths \in SUBSET Nat
    BY <2>2, <2>3 DEF IndexLengths
  <2> QED BY <2>1, <2>4 DEF CodecInv, ReaderTyped, SealedRight, IsPlace, CellOf, vars
<1>4. ASSUME NEW place \in DOMAIN sealed, decryptedResult(place) PROVE CodecInv'
  <2>1. PICK text \in decryptSymmetricEncryption(sealed[place]) :
          answer' = [place |-> place, text |-> text]
    BY <1>4 DEF decryptedResult
  <2>2. UNCHANGED <<vars, row_index, col_index, sealed, tokens>>
    BY <1>4 DEF decryptedResult
  <2>3. IsPlace(place) /\ sealed[place] = getSymmetricEncryption(CellOf(place))
    BY DEF CodecInv, SealedRight
  <2>4. CellOf(place) \in Seq(Letter)
    BY <2>3, CellTyped DEF CodecInv
  <2>5. ReadsBack(CellOf(place), text)
    BY <2>1, <2>3, <2>4, TextsReadBack
  <2>6. answer'.place = place /\ answer'.text = text
    BY <2>1
  <2>7. IsPlace(place)' /\ CellOf(place)' = CellOf(place)
    BY <2>2, <2>3 DEF IsPlace, CellOf, vars
  <2>8. (IsPlace(answer.place) /\ ReadsBack(CellOf(answer.place), answer.text))'
    BY <2>2, <2>3, <2>5, <2>6 DEF IsPlace, CellOf, vars
  <2> QED BY <2>2, <2>8 DEF CodecInv, ReaderTyped, SealedRight, IsPlace, CellOf, vars
<1>5. CASE UNCHANGED <<vars, cellVars>>
  BY <1>5 DEF CodecInv, ReaderTyped, SealedRight, IsPlace, CellOf, vars, cellVars
<1> QED BY <1>1, <1>2, <1>3, <1>4, <1>5 DEF CellNext

(***************************************************************************)
(* The invariant holds in every behaviour.                                 *)
(***************************************************************************)
THEOREM CodecInvariant == CellSpec => []CodecInv
<1>1. CodecInv /\ [CellNext]_<<vars, cellVars>> => CodecInv'
  BY CodecStep
<1> QED BY <1>1, CodecInit, PTL DEF CellSpec

(***************************************************************************)
(* What a query returns for a cell is as CellsReadBack says, for every     *)
(* file and every content of the memory that was never written.            *)
(***************************************************************************)
THEOREM CellsAlwaysReadBack == CellSpec => []CellsReadBack
<1>1. CodecInv => CellsReadBack
  BY DEF CodecInv, CellsReadBack, ReadsBack
<1> QED BY <1>1, CodecInvariant, PTL

(***************************************************************************)
(* The PRF of every index of less than 65 characters, not a multiple of    *)
(* 16, stays within its buffer (TokensFit), for every file.                *)
(***************************************************************************)
THEOREM TokensAlwaysFit == CellSpec => []TokensFit
<1>1. CodecInv => TokensFit
  BY ShortIndexesFit DEF CodecInv, TokensFit
<1> QED BY <1>1, CodecInvariant, PTL
-----------------------------------------------------------------------------
(***************************************************************************)
(* The parts of the definition of Lines: the places within a line, where   *)
(* the lines begin, where one ends, and the n-th line.                     *)
(***************************************************************************)
InLine(text, i) == i \in DOMAIN text /\ text[i] \notin LineEnds

Starts(text) == {i \in DOMAIN text : InLine(text, i) /\ ~InLine(text, i - 1)}

EndOf(text, i) ==
  CHOOSE j \in DOMAIN text : j >= i /\ ~InLine(text, j + 1) /\ \A k \in i .. j : InLine(text, k)

LineAt(text, n) == SubSeq(text, Nth(Starts(text), n), EndOf(text, Nth(Starts(text), n)))

\* Lines and its local definitions in these names.
LEMMA LinesAre ==
  ASSUME NEW text
  PROVE  /\ DOMAIN Lines(text) = 1 .. Cardinality(Starts(text))
         /\ \A n \in DOMAIN Lines(text) : Lines(text)[n] = LineAt(text, n)
BY DEF Lines, Starts, LineAt, EndOf, InLine

(***************************************************************************)
(* The starts of a text are finitely many, also those up to a place.       *)
(***************************************************************************)
StartsTo(text, p) == {i \in Starts(text) : i <= p}

\* So they can be counted.
LEMMA StartsFinite ==
  ASSUME NEW text \in Seq(Letter), NEW p \in Nat
  PROVE  /\ Starts(text) \in SUBSET Nat /\ IsFiniteSet(Starts(text))
         /\ StartsTo(text, p) \in SUBSET Starts(text)
         /\ IsFiniteSet(StartsTo(text, p)) /\ Cardinality(StartsTo(text, p)) \in Nat
<1>1. DOMAIN text = 1 .. Len(text) /\ Len(text) \in Nat
  BY LenProperties
<1>2. IsFiniteSet(1 .. Len(text)) /\ 1 .. Len(text) \in SUBSET Nat
  BY <1>1, FS_Interval
<1>3. Starts(text) \subseteq 1 .. Len(text) /\ StartsTo(text, p) \in SUBSET Starts(text)
  BY <1>1 DEF Starts, StartsTo
<1>4. IsFiniteSet(Starts(text)) /\ IsFiniteSet(StartsTo(text, p))
  BY <1>2, <1>3, FS_Subset
<1> QED BY <1>2, <1>3, <1>4, FS_CardinalityType

(***************************************************************************)
(* Between lines no line begins.                                           *)
(***************************************************************************)
LEMMA NoStart ==
  ASSUME NEW text \in Seq(Letter), NEW p \in Nat, NEW q \in Nat, p <= q,
         \A i \in (p + 1) .. q : ~InLine(text, i)
  PROVE  StartsTo(text, q) = StartsTo(text, p)
<1>1. \A i \in Starts(text) : i \in Nat /\ InLine(text, i)
  BY StartsFinite DEF Starts
<1>2. \A i \in Starts(text) : i <= q => i <= p
  BY <1>1
<1>3. \A i \in Starts(text) : i <= p => i <= q
  BY <1>1
<1> QED BY <1>2, <1>3 DEF StartsTo

(***************************************************************************)
(* What stands between a place outside the lines and the next one is the   *)
(* line whose number counts the starts up to there.                        *)
(***************************************************************************)
LEMMA NextLine ==
  ASSUME NEW text \in Seq(Letter), NEW b \in Nat, NEW p \in Nat, b < p,
         ~InLine(text, b), \A i \in (b + 1) .. p : InLine(text, i), ~InLine(text, p + 1)
  PROVE  LET m == Cardinality(StartsTo(text, b))
         IN  /\ Cardinality(StartsTo(text, p)) = m + 1
             /\ LineAt(text, m + 1) = SubSeq(text, b + 1, p)
<1> DEFINE S == Starts(text)
           m == Cardinality(StartsTo(text, b))
<1>1. /\ S \in SUBSET Nat /\ IsFiniteSet(S) /\ m \in Nat
      /\ IsFiniteSet(StartsTo(text, b))
  BY StartsFinite
<1>2. b + 1 \in S
  <2>1. b + 1 \in (b + 1) .. p /\ b + 1 - 1 = b
    OBVIOUS
  <2>2. InLine(text, b + 1) /\ ~InLine(text, b + 1 - 1)
    BY <2>1
  <2> QED BY <2>2 DEF Starts, InLine
<1>3. ASSUME NEW i \in S, i <= p PROVE i <= b + 1
  <2> SUFFICES ASSUME i > b + 1 PROVE FALSE
    BY <1>1
  <2>1. i - 1 \in (b + 1) .. p
    BY <1>1, <1>3
  <2> QED BY <2>1 DEF Starts
<1>4. StartsTo(text, p) = StartsTo(text, b) \cup {b + 1} /\ b + 1 \notin StartsTo(text, b)
  <2>1. \A i \in S : i <= p <=> i <= b \/ i = b + 1
    BY <1>1, <1>3
  <2>2. ~(b + 1 <= b)
    OBVIOUS
  <2> QED BY <1>2, <2>1, <2>2 DEF StartsTo
<1>5. Cardinality(StartsTo(text, p)) = m + 1
  BY <1>1, <1>4, FS_AddElement
<1>6. Nth(S, m + 1) = b + 1
  <2>1. \A i \in S : i < b + 1 <=> i <= b
    BY <1>1
  <2>2. {i \in S : i < b + 1} = StartsTo(text, b)
    BY <2>1 DEF StartsTo
  <2>3. Cardinality({i \in S : i < b + 1}) = m + 1 - 1 /\ m + 1 \in Nat
    <3>1. Cardinality({i \in S : i < b + 1}) = m
      BY <2>2
    <3> HIDE DEF m
    <3>2. m + 1 - 1 = m /\ m + 1 \in Nat
      BY <1>1
    <3> QED BY <3>1, <3>2
  <2> HIDE DEF S, m
  <2> QED BY <1>1, <1>2, <2>3, NthIs
<1>7. EndOf(text, b + 1) = p
  <2> DEFINE Ends(j) == j >= b + 1 /\ ~InLine(text, j + 1) /\ \A k \in (b + 1) .. j : InLine(text, k)
  <2>1. p \in DOMAIN text /\ Ends(p)
    <3>1. p \in (b + 1) .. p
      OBVIOUS
    <3> QED BY <3>1 DEF InLine
  <2>2. ASSUME NEW j \in DOMAIN text, Ends(j) PROVE j = p
    <3>1. j \in Nat
      BY LenProperties
    <3>2. ~(j < p)
      <4>1. j < p => j + 1 \in (b + 1) .. p
        BY <2>2, <3>1
      <4> QED BY <2>2, <4>1
    <3>3. ~(j > p)
      <4>1. j > p => p + 1 \in (b + 1) .. j
        BY <2>2, <3>1
      <4> QED BY <2>2, <4>1
    <3> QED BY <3>1, <3>2, <3>3
  <2>3. EndOf(text, b + 1) = CHOOSE j \in DOMAIN text : Ends(j)
    BY DEF EndOf
  <2> HIDE DEF Ends
  <2> QED BY <2>1, <2>2, <2>3
<1>8. LineAt(text, m + 1) = SubSeq(text, b + 1, p)
  BY <1>6, <1>7 DEF LineAt
<1> QED BY <1>5, <1>8

(***************************************************************************)
(* How much of the file was consumed, and where the line in hand began;    *)
(* the n-th line stored.                                                   *)
(***************************************************************************)
Consumed == Len(whole) - Len(file)

LineBegin == Consumed - Len(line)

Stored(n) == IF n = 1 THEN columns ELSE IF n = 2 THEN types ELSE rows[n - 2]

(***************************************************************************)
(* The invariant of the reader: the stream holds the rest of the file, the *)
(* line in hand is what stands before it, and the lines that begin before  *)
(* that one were stored, in their order.                                   *)
(***************************************************************************)
StreamRight ==
  /\ Len(file) <= Len(whole)
  /\ \A i \in 1 .. Len(file) : file[i] = whole[Consumed + i]
  /\ Len(line) <= Consumed
  /\ \A i \in 1 .. Len(line) : line[i] = whole[LineBegin + i] /\ line[i] \notin LineEnds
  /\ file # <<>> \/ line # <<>> => ~InLine(whole, LineBegin)
  /\ eof => file = <<>> /\ line = <<>>

IsText(l) == l \in Seq(Letter) /\ l # <<>>

LinesStored ==
  /\ count = Cardinality(StartsTo(whole, LineBegin))
  /\ Len(rows) = (IF count > 2 THEN count - 2 ELSE 0)
  /\ \A n \in 1 .. count : IsText(LineAt(whole, n)) /\ Stored(n) = Cells(LineAt(whole, n))

ReadingInv ==
  /\ ReaderTyped
  /\ whole \in Seq(Letter) /\ columns \in Seq(Seq(Letter))
  /\ StreamRight
  /\ LinesStored

(***************************************************************************)
(* The line in hand is the piece of the file from its beginning.           *)
(***************************************************************************)
LEMMA LineInHand ==
  ASSUME ReadingInv
  PROVE  /\ Len(whole) \in Nat /\ Len(file) \in Nat /\ Len(line) \in Nat
         /\ Consumed \in Nat /\ LineBegin \in Nat /\ Consumed = LineBegin + Len(line)
         /\ Consumed + Len(file) = Len(whole) /\ DOMAIN whole = 1 .. Len(whole)
         /\ \A i \in (LineBegin + 1) .. Consumed : InLine(whole, i)
         /\ line = SubSeq(whole, LineBegin + 1, Consumed)
<1>1. /\ Len(whole) \in Nat /\ Len(file) \in Nat /\ Len(line) \in Nat
      /\ DOMAIN whole = 1 .. Len(whole) /\ \A i \in 1 .. Len(whole) : whole[i] \in Letter
  BY LenProperties DEF ReadingInv, ReaderTyped
<1>2. /\ Consumed \in Nat /\ LineBegin \in Nat /\ Consumed = LineBegin + Len(line)
      /\ Consumed + Len(file) = Len(whole)
  BY <1>1 DEF ReadingInv, StreamRight, Consumed, LineBegin
<1>3. \A i \in 1 .. Len(line) : line[i] = whole[LineBegin + i] /\ line[i] \notin LineEnds
  BY DEF ReadingInv, StreamRight
<1>4. \A i \in (LineBegin + 1) .. Consumed : i \in 1 .. Len(whole) /\ i - LineBegin \in 1 .. Len(line)
  BY <1>1, <1>2
<1>5. ASSUME NEW i \in (LineBegin + 1) .. Consumed PROVE InLine(whole, i)
  <2>1. i - LineBegin \in 1 .. Len(line) /\ LineBegin + (i - LineBegin) = i
    BY <1>2, <1>4
  <2>2. whole[i] \notin LineEnds
    BY <1>3, <2>1
  <2> QED BY <1>1, <1>4, <2>2 DEF InLine
<1>6. line = SubSeq(whole, LineBegin + 1, Consumed)
  <2> DEFINE b == LineBegin  p == Consumed  s == SubSeq(whole, b + 1, p)
  <2>1. b \in Nat /\ p \in Nat /\ p = b + Len(line) /\ \A i \in (b + 1) .. p : whole[i] \in Letter
    BY <1>1, <1>2, <1>4
  <2> HIDE DEF b, p
  <2>2. /\ s \in Seq(Letter)
        /\ Len(s) = (IF b + 1 <= p THEN p - (b + 1) + 1 ELSE 0)
        /\ \A i \in 1 .. (p - (b + 1) + 1) : s[i] = whole[b + 1 + i - 1]
    BY <2>1, SubSeqProperties
  <2> HIDE DEF s
  <2>3. Len(s) = Len(line)
    BY <1>1, <2>1, <2>2
  <2>4. \A i \in 1 .. Len(line) : line[i] = s[i]
    <3> SUFFICES ASSUME NEW i \in 1 .. Len(line) PROVE line[i] = s[i]
      OBVIOUS
    <3>1. i \in 1 .. (p - (b + 1) + 1) /\ b + 1 + i - 1 = b + i
      BY <1>1, <2>1
    <3> QED BY <1>3, <2>2, <3>1 DEF b
  <2>5. line = s
    BY <2>2, <2>3, <2>4, SameElements DEF ReadingInv, ReaderTyped
  <2> QED BY <2>5 DEF s, b, p
<1> QED BY <1>1, <1>2, <1>5, <1>6

(***************************************************************************)
(* At the end of a line, q being where the next one begins, every line up  *)
(* to there is stored; an empty one is none.                               *)
(***************************************************************************)
LEMMA StoreLine ==
  ASSUME ReadingInv, Store(line), NEW q \in Nat, Consumed <= q,
         \A i \in (Consumed + 1) .. q : ~InLine(whole, i), ~InLine(whole, Consumed + 1)
  PROVE  /\ columns' \in Seq(Seq(Letter))
         /\ count' = Cardinality(StartsTo(whole, q))
         /\ Len(rows') = (IF count' > 2 THEN count' - 2 ELSE 0)
         /\ \A n \in 1 .. count' : IsText(LineAt(whole, n)) /\ Stored(n)' = Cells(LineAt(whole, n))
<1> DEFINE b == LineBegin  p == Consumed
<1>1. /\ b \in Nat /\ p \in Nat /\ p = b + Len(line) /\ Len(line) \in Nat
      /\ \A i \in (b + 1) .. p : InLine(whole, i)
      /\ line = SubSeq(whole, b + 1, p)
  BY LineInHand
<1>2. StartsTo(whole, q) = StartsTo(whole, p)
  BY <1>1, NoStart DEF ReadingInv
<1>3. /\ count = Cardinality(StartsTo(whole, b)) /\ count \in Nat
      /\ Len(rows) = (IF count > 2 THEN count - 2 ELSE 0)
      /\ \A n \in 1 .. count : IsText(LineAt(whole, n)) /\ Stored(n) = Cells(LineAt(whole, n))
  BY <1>1, StartsFinite DEF ReadingInv, LinesStored
<1>4. columns \in Seq(Seq(Letter)) /\ line \in Seq(Letter) /\ rows \in Seq(Seq(Seq(Letter)))
  BY DEF ReadingInv, ReaderTyped
<1>5. CASE line = <<>>
  <2>1. p = b /\ UNCHANGED <<count, columns, types, rows>>
    BY <1>1, <1>5 DEF Store
  <2>2. \A n : Stored(n)' = Stored(n)
    BY <2>1 DEF Stored
  <2> HIDE DEF b, p
  <2> QED BY <1>2, <1>3, <1>4, <2>1, <2>2 DEF b, p
<1>6. CASE line # <<>>
  <2>1. Len(line) # 0
    BY <1>4, <1>6, EmptySeq
  <2>2. b < p /\ ~InLine(whole, b)
    <3>1. b < p
      BY <1>1, <2>1
    <3> QED BY <1>6, <3>1 DEF ReadingInv, StreamRight
  <2>3. Cardinality(StartsTo(whole, p)) = count + 1 /\ LineAt(whole, count + 1) = line
    BY <1>1, <1>3, <2>2, NextLine DEF ReadingInv
  <2>4. /\ count' = count + 1
        /\ columns' = IF count = 0 THEN Cells(line) ELSE columns
        /\ types' = IF count = 1 THEN Cells(line) ELSE types
        /\ rows' = IF count > 1 THEN Append(rows, Cells(line)) ELSE rows
    BY <1>6 DEF Store
  <2>5. Cells(line) \in Seq(Seq(Letter))
    BY <1>4, CellsTyped
  <2>6. /\ Append(rows, Cells(line)) \in Seq(Seq(Seq(Letter)))
        /\ Len(Append(rows, Cells(line))) = Len(rows) + 1
        /\ \A i \in 1 .. Len(rows) : Append(rows, Cells(line))[i] = rows[i]
        /\ Append(rows, Cells(line))[Len(rows) + 1] = Cells(line)
    BY <1>4, <2>5, AppendProperties
  <2>7. Len(rows') = (IF count' > 2 THEN count' - 2 ELSE 0)
    BY <1>3, <2>4, <2>6
  <2>8. ASSUME NEW n \in 1 .. count'
        PROVE  IsText(LineAt(whole, n)) /\ Stored(n)' = Cells(LineAt(whole, n))
    <3> IsText(line)
      BY <1>4, <1>6 DEF IsText
    <3>1. CASE n = count + 1
      <4>1. CASE count = 0 \/ count = 1
        BY <1>3, <2>3, <2>4, <3>1, <4>1 DEF Stored
      <4>2. CASE count > 1
        <5>1. n # 1 /\ n # 2 /\ n - 2 = Len(rows) + 1
          BY <1>3, <3>1, <4>2
        <5> QED BY <2>3, <2>4, <2>6, <3>1, <4>2, <5>1 DEF Stored
      <4> QED BY <1>3, <4>1, <4>2
    <3>2. CASE n # count + 1
      <4>1. n \in 1 .. count /\ IsText(LineAt(whole, n)) /\ Stored(n) = Cells(LineAt(whole, n))
        BY <1>3, <2>4, <3>2
      <4>2. n = 1 => count # 0
        BY <1>3, <4>1
      <4>3. n = 2 => count # 1
        BY <1>3, <4>1
      <4>4. n # 1 /\ n # 2 => rows'[n - 2] = rows[n - 2]
        <5> SUFFICES ASSUME n # 1, n # 2 PROVE rows'[n - 2] = rows[n - 2]
          OBVIOUS
        <5>1. count > 1 /\ n - 2 \in 1 .. Len(rows)
          BY <1>3, <4>1
        <5> QED BY <2>4, <2>6, <5>1
      <4> QED BY <2>4, <4>1, <4>2, <4>3, <4>4 DEF Stored
    <3> QED BY <3>1, <3>2
  <2>9. columns' \in Seq(Seq(Letter))
    BY <1>4, <2>4, <2>5
  <2> QED BY <1>2, <2>3, <2>4, <2>7, <2>8, <2>9
<1> QED BY <1>5, <1>6

(***************************************************************************)
(* The first character of what is left is the next one of the file, and    *)
(* what follows it is left then.                                           *)
(***************************************************************************)
LEMMA FirstLeft ==
  ASSUME ReadingInv, file # <<>>
  PROVE  /\ Len(file) \in Nat \ {0} /\ Len(Tail(file)) = Len(file) - 1 /\ Tail(file) \in Seq(Letter)
         /\ Head(file) = whole[Consumed + 1] /\ Head(file) \in Letter
         /\ \A i \in 1 .. (Len(file) - 1) : Tail(file)[i] = whole[Consumed + 1 + i]
<1>1. file \in Seq(Letter)
  BY DEF ReadingInv, ReaderTyped
<1>2. Len(file) \in Nat \ {0}
  BY <1>1, EmptySeq
<1>3. /\ Head(file) = file[1] /\ Head(file) \in Letter
      /\ Tail(file) \in Seq(Letter) /\ Len(Tail(file)) = Len(file) - 1
      /\ \A i \in 1 .. Len(Tail(file)) : Tail(file)[i] = file[i + 1]
  BY <1>1, HeadTailProperties
<1>4. \A i \in 1 .. Len(file) : file[i] = whole[Consumed + i]
  BY DEF ReadingInv, StreamRight
<1>5. Consumed \in Nat
  BY LineInHand
<1>6. file[1] = whole[Consumed + 1]
  BY <1>2, <1>4
<1>7. ASSUME NEW i \in 1 .. (Len(file) - 1) PROVE Tail(file)[i] = whole[Consumed + 1 + i]
  <2>1. i + 1 \in 1 .. Len(file) /\ Consumed + (i + 1) = Consumed + 1 + i
    BY <1>2, <1>5
  <2> QED BY <1>3, <1>4, <2>1
<1> QED BY <1>2, <1>3, <1>6, <1>7

(***************************************************************************)
(* A character that is no line end goes from the stream to the line.       *)
(***************************************************************************)
LEMMA CharacterReads ==
  ASSUME ReadingInv, Character, ReaderTyped'
  PROVE  ReadingInv'
<1>1. /\ ~eof /\ file # <<>> /\ Head(file) \notin LineEnds
      /\ line' = Append(line, Head(file)) /\ file' = Tail(file)
      /\ UNCHANGED <<eof, count, columns, types, rows, whole>>
  BY DEF Character
<1>2. /\ Len(whole) \in Nat /\ Len(file) \in Nat /\ Len(line) \in Nat
      /\ Consumed \in Nat /\ LineBegin \in Nat /\ Consumed = LineBegin + Len(line)
      /\ Consumed + Len(file) = Len(whole)
  BY LineInHand
<1>3. /\ Len(file') = Len(file) - 1 /\ Head(file) = whole[Consumed + 1] /\ Head(file) \in Letter
      /\ \A i \in 1 .. (Len(file) - 1) : file'[i] = whole[Consumed + 1 + i]
      /\ Len(file) \in Nat \ {0}
  BY <1>1, FirstLeft
<1>4. /\ Len(line') = Len(line) + 1
      /\ \A i \in 1 .. Len(line) : line'[i] = line[i]
      /\ line'[Len(line) + 1] = Head(file)
  BY <1>1, <1>3, AppendProperties DEF ReadingInv, ReaderTyped
<1>5. Consumed' = Consumed + 1 /\ LineBegin' = LineBegin
  <2>1. Len(whole') = Len(whole)
    BY <1>1
  <2>2. Consumed' = Consumed + 1
    BY <1>2, <1>3, <2>1 DEF Consumed
  <2> QED BY <1>2, <1>4, <2>2 DEF LineBegin
<1>6. StreamRight'
  <2>1. Len(file') <= Len(whole') /\ Len(line') <= Consumed'
    BY <1>1, <1>2, <1>3, <1>4, <1>5
  <2>2. \A i \in 1 .. Len(file') : file'[i] = whole'[Consumed' + i]
    BY <1>1, <1>3, <1>5
  <2>3. ASSUME NEW i \in 1 .. Len(line')
        PROVE  line'[i] = whole'[LineBegin' + i] /\ line'[i] \notin LineEnds
    <3>1. CASE i \in 1 .. Len(line)
      BY <1>1, <1>4, <1>5, <3>1 DEF ReadingInv, StreamRight
    <3>2. CASE i \notin 1 .. Len(line)
      <4>1. i = Len(line) + 1 /\ LineBegin + i = Consumed + 1
        BY <1>2, <1>4, <3>2
      <4> QED BY <1>1, <1>3, <1>4, <1>5, <4>1
    <3> QED BY <3>1, <3>2
  <2>4. ~InLine(whole, LineBegin)
    BY <1>1 DEF ReadingInv, StreamRight
  <2> QED BY <1>1, <1>5, <2>1, <2>2, <2>3, <2>4 DEF StreamRight
<1>7. LinesStored'
  <2>1. \A n : Stored(n)' = Stored(n)
    BY <1>1 DEF Stored
  <2> QED BY <1>1, <1>5, <2>1 DEF ReadingInv, LinesStored
<1> QED BY <1>1, <1>6, <1>7 DEF ReadingInv

(***************************************************************************)
(* With an empty line in hand the stream alone has to be right.            *)
(***************************************************************************)
LEMMA NewLine ==
  ASSUME ReadingInv, Store(line), whole' = whole, line' = <<>>, ReaderTyped', file' \in Seq(Letter),
         NEW q \in Nat, Consumed <= q, Len(file') + q = Len(whole),
         \A i \in (Consumed + 1) .. q : ~InLine(whole, i), ~InLine(whole, Consumed + 1),
         \A i \in 1 .. Len(file') : file'[i] = whole[q + i],
         file' # <<>> => ~InLine(whole, q),
         eof' => file' = <<>>
  PROVE  ReadingInv'
<1>1. /\ columns' \in Seq(Seq(Letter))
      /\ count' = Cardinality(StartsTo(whole, q))
      /\ Len(rows') = (IF count' > 2 THEN count' - 2 ELSE 0)
      /\ \A n \in 1 .. count' : IsText(LineAt(whole, n)) /\ Stored(n)' = Cells(LineAt(whole, n))
  BY StoreLine
<1>2. Len(file') \in Nat /\ Len(line') = 0 /\ Len(whole) \in Nat
  BY LineInHand, LenProperties
<1>3. Consumed' = q /\ LineBegin' = q
  <2>1. Consumed' = Len(whole) - Len(file')
    BY DEF Consumed
  <2>2. Consumed' = q
    BY <1>2, <2>1
  <2> QED BY <1>2, <2>2 DEF LineBegin
<1>4. StreamRight'
  <2>1. Len(file') <= Len(whole)
    BY <1>2
  <2> QED BY <1>2, <1>3, <2>1 DEF StreamRight
<1>5. LinesStored'
  BY <1>1, <1>3 DEF LinesStored
<1> QED BY <1>1, <1>4, <1>5 DEF ReadingInv

(***************************************************************************)
(* A line end is consumed with the "\n" that may follow a "\r".            *)
(***************************************************************************)
LEMMA LineEndReads ==
  ASSUME ReadingInv, EndOfLine, ReaderTyped'
  PROVE  ReadingInv'
<1>1. /\ ~eof /\ file # <<>> /\ Head(file) \in LineEnds
      /\ file' = IF Head(file) = "\r" /\ Len(file) > 1 /\ file[2] = "\n" THEN Tail(Tail(file)) ELSE Tail(file)
      /\ Store(line) /\ line' = <<>>
      /\ eof' = eof /\ whole' = whole /\ file' \in Seq(Letter)
  BY DEF EndOfLine, ReaderTyped
<1>2. /\ Len(whole) \in Nat /\ Consumed \in Nat /\ Consumed + Len(file) = Len(whole)
      /\ DOMAIN whole = 1 .. Len(whole)
  BY LineInHand
<1>3. /\ Len(Tail(file)) = Len(file) - 1 /\ Tail(file) \in Seq(Letter)
      /\ Head(file) = whole[Consumed + 1]
      /\ \A i \in 1 .. (Len(file) - 1) : Tail(file)[i] = whole[Consumed + 1 + i]
      /\ Len(file) \in Nat \ {0}
  BY <1>1, FirstLeft
<1>4. ~InLine(whole, Consumed + 1)
  BY <1>1, <1>3 DEF InLine
<1>5. CASE file' = Tail(file)
  <2> DEFINE q == Consumed + 1
  <2>1. q \in Nat /\ Consumed <= q /\ Len(file') + q = Len(whole)
    BY <1>2, <1>3, <1>5
  <2>2. \A i \in (Consumed + 1) .. q : ~InLine(whole, i)
    <3>1. \A i \in (Consumed + 1) .. q : i = Consumed + 1
      BY <1>2
    <3> QED BY <1>4, <3>1
  <2>3. \A i \in 1 .. Len(file') : file'[i] = whole[q + i]
    BY <1>3, <1>5
  <2>4. ~InLine(whole, q)
    BY <1>4
  <2> HIDE DEF q
  <2> QED BY <1>1, <1>4, <2>1, <2>2, <2>3, <2>4, NewLine
<1>6. CASE file' # Tail(file)
  <2> DEFINE q == Consumed + 2  rest == Tail(file)
  <2>1. file' = Tail(rest) /\ Len(file) > 1 /\ file[2] = "\n"
    BY <1>1, <1>6
  <2>2. rest \in Seq(Letter) /\ rest # <<>> /\ Len(rest) = Len(file) - 1
    <3>1. Len(rest) # 0
      BY <1>3, <2>1
    <3>2. Len(<<>>) = 0
      OBVIOUS
    <3> HIDE DEF rest
    <3>3. rest # <<>>
      BY <3>1, <3>2
    <3> QED BY <1>3, <3>3 DEF rest
  <2>3. /\ Len(file') = Len(rest) - 1
        /\ \A i \in 1 .. Len(file') : file'[i] = rest[i + 1]
    <3> HIDE DEF rest
    <3> QED BY <2>1, <2>2, HeadTailProperties
  <2>4. q \in Nat /\ Consumed <= q /\ Len(file') + q = Len(whole)
    <3> HIDE DEF rest
    <3>1. Len(file') = Len(file) - 1 - 1 /\ Len(file) \in Nat
      BY <1>3, <2>2, <2>3
    <3>2. Len(file') = Len(file) - 2
      BY <3>1
    <3> QED BY <1>2, <3>1, <3>2
  <2>5. whole[q] = "\n"
    <3>1. file[2] = whole[Consumed + 2]
      BY <1>3, <2>1 DEF ReadingInv, StreamRight
    <3> QED BY <2>1, <3>1
  <2>6. ~InLine(whole, q)
    BY <2>5 DEF InLine, LineEnds
  <2>7. \A i \in (Consumed + 1) .. q : ~InLine(whole, i)
    <3>1. \A i \in (Consumed + 1) .. q : i = Consumed + 1 \/ i = q
      BY <1>2
    <3> HIDE DEF q
    <3> QED BY <1>4, <2>6, <3>1
  <2>8. ASSUME NEW i \in 1 .. Len(file') PROVE file'[i] = whole[q + i]
    <3>1. i + 1 \in 1 .. (Len(file) - 1) /\ Consumed + 1 + (i + 1) = q + i
      BY <1>2, <1>3, <2>2, <2>3
    <3> QED BY <1>3, <2>3, <3>1
  <2> HIDE DEF q, rest
  <2> QED BY <1>1, <1>4, <2>4, <2>6, <2>7, <2>8, NewLine
<1> QED BY <1>5, <1>6

(***************************************************************************)
(* At the end of the file the line in hand is the last one.                *)
(***************************************************************************)
LEMMA FileEndReads ==
  ASSUME ReadingInv, EndOfFile, ReaderTyped'
  PROVE  ReadingInv'
<1>1. file = <<>> /\ file' = <<>> /\ Store(line) /\ line' = <<>> /\ whole' = whole /\ file' \in Seq(Letter)
  BY DEF EndOfFile, ReaderTyped
<1>2. Len(file) = 0 /\ Len(file') = 0
  BY <1>1
<1>3. Consumed \in Nat /\ Consumed + Len(file) = Len(whole) /\ DOMAIN whole = 1 .. Len(whole)
  BY LineInHand
<1>4. Consumed <= Consumed /\ Len(file') + Consumed = Len(whole) /\ (Consumed + 1) .. Consumed = {}
  BY <1>2, <1>3
<1>5. ~InLine(whole, Consumed + 1)
  <2>1. Consumed + 1 \notin DOMAIN whole
    BY <1>2, <1>3
  <2> QED BY <2>1 DEF InLine
<1>6. \A i \in 1 .. Len(file') : file'[i] = whole[Consumed + i]
  BY <1>2
<1> QED BY <1>1, <1>3, <1>4, <1>5, <1>6, NewLine

(***************************************************************************)
(* Before the first character nothing is stored.                           *)
(***************************************************************************)
LEMMA ReadingInit == CellInit => ReadingInv
<1> SUFFICES ASSUME CellInit PROVE ReadingInv
  OBVIOUS
<1>1. /\ whole \in Seq(Letter) /\ file = whole /\ eof = FALSE /\ line = <<>> /\ count = 0
      /\ columns = <<>> /\ types = <<>> /\ rows = <<>> /\ ReaderTyped
  BY CellAssumption, CodecInit DEF CellInit, Init, CodecInv
<1>2. Len(whole) \in Nat /\ DOMAIN whole = 1 .. Len(whole) /\ Len(line) = 0
  BY <1>1, LenProperties
<1>3. Consumed = 0 /\ LineBegin = 0
  <2>1. Len(file) = Len(whole)
    BY <1>1
  <2>2. Consumed = 0
    BY <1>2, <2>1 DEF Consumed
  <2> QED BY <1>2, <2>2 DEF LineBegin
<1>4. StreamRight
  <2>1. ~InLine(whole, 0)
    BY <1>2 DEF InLine
  <2> QED BY <1>1, <1>2, <1>3, <2>1 DEF StreamRight
<1>5. LinesStored
  <2>1. StartsTo(whole, 0) = {}
    <3>1. \A i \in Starts(whole) : ~(i <= 0)
      BY <1>2 DEF Starts
    <3> QED BY <3>1 DEF StartsTo
  <2>2. Cardinality(StartsTo(whole, 0)) = 0
    BY <2>1, FS_EmptySet
  <2>3. Len(rows) = 0 /\ 1 .. count = {}
    BY <1>1
  <2> QED BY <1>1, <1>3, <2>2, <2>3 DEF LinesStored
<1> QED BY <1>1, <1>4, <1>5 DEF ReadingInv

(***************************************************************************)
(* Every step of the reader keeps the invariant; the other steps of a      *)
(* cell's way leave the reader alone.                                      *)
(***************************************************************************)
LEMMA ReadingStep == ReadingInv /\ [CellNext]_<<vars, cellVars>> => ReadingInv'
<1> SUFFICES ASSUME ReadingInv, [CellNext]_<<vars, cellVars>> PROVE ReadingInv'
  OBVIOUS
<1>1. CASE ReadFile
  <2>1. fileReader /\ ReaderTyped'
    BY <1>1, ReaderStep DEF ReadFile, ReadingInv
  <2> QED BY <2>1, CharacterReads, LineEndReads, FileEndReads DEF fileReader
<1>2. CASE UNCHANGED vars
  <2>1. UNCHANGED <<file, eof, line, count, columns, types, rows, whole>>
    BY <1>2 DEF vars
  <2>2. Consumed' = Consumed /\ LineBegin' = LineBegin /\ \A n : Stored(n)' = Stored(n)
    BY <2>1 DEF Consumed, LineBegin, Stored
  <2> QED BY <2>1, <2>2 DEF ReadingInv, ReaderTyped, StreamRight, LinesStored
<1>3. CASE EncryptCell \/ setup \/ \E place \in DOMAIN sealed : decryptedResult(place)
  BY <1>2, <1>3 DEF EncryptCell, setup, decryptedResult
<1> QED BY <1>1, <1>2, <1>3 DEF CellNext

(***************************************************************************)
(* The reader is right in every behaviour, whatever the file.              *)
(***************************************************************************)
THEOREM ReadingInvariant == CellSpec => []ReadingInv
BY ReadingInit, ReadingStep, PTL DEF CellSpec

(***************************************************************************)
(* At the end of the file all its lines are counted and stored.             *)
(***************************************************************************)
LEMMA AllStored ==
  ASSUME ReadingInv, eof
  PROVE  count = Cardinality(Starts(whole)) /\ count \in Nat
<1>1. Consumed = Len(whole) /\ LineBegin = Len(whole) /\ Len(whole) \in Nat /\ DOMAIN whole = 1 .. Len(whole)
  <2>1. file = <<>> /\ line = <<>>
    BY DEF ReadingInv, StreamRight
  <2>2. Len(file) = 0 /\ Len(line) = 0
    BY <2>1
  <2> QED BY <2>2, LineInHand
<1>2. StartsTo(whole, Len(whole)) = Starts(whole)
  <2>1. \A i \in Starts(whole) : i <= Len(whole)
    BY <1>1 DEF Starts
  <2> QED BY <2>1 DEF StartsTo
<1> QED BY <1>1, <1>2, StartsFinite DEF ReadingInv, LinesStored

(***************************************************************************)
(* Whatever line ends a file mixes, and with or without one at its end,    *)
(* its first two non-empty lines become the columns and the types and the  *)
(* others the rows, in order (AllLinesRead).                               *)
(***************************************************************************)
THEOREM AllLinesAlwaysRead == CellSpec => []AllLinesRead
<1> DEFINE first == IF count > 0 THEN <<columns>> ELSE <<>>
           second == IF count > 1 THEN <<types>> ELSE <<>>
           all == first \o second \o rows
<1>1. ASSUME ReadingInv, eof
      PROVE  [n \in DOMAIN Lines(whole) |-> Cells(Lines(whole)[n])] = all
  <2> DEFINE T == Seq(Seq(Letter))
  <2>1. count = Cardinality(Starts(whole)) /\ count \in Nat
    BY <1>1, AllStored
  <2>2. columns \in T /\ types \in T /\ rows \in Seq(T)
    BY <1>1 DEF ReadingInv, ReaderTyped
  <2>3. /\ Len(rows) = (IF count > 2 THEN count - 2 ELSE 0)
        /\ \A n \in 1 .. count : Stored(n) = Cells(LineAt(whole, n))
    BY <1>1 DEF ReadingInv, LinesStored
  <2> HIDE DEF T
  <2>4. /\ first \in Seq(T) /\ Len(first) = (IF count > 0 THEN 1 ELSE 0)
        /\ count > 0 => first[1] = columns
    BY <2>2
  <2>5. /\ second \in Seq(T) /\ Len(second) = (IF count > 1 THEN 1 ELSE 0)
        /\ count > 1 => second[1] = types
    BY <2>2
  <2> HIDE DEF first, second
  <2> DEFINE head == first \o second
  <2>6. /\ head \in Seq(T) /\ Len(head) = Len(first) + Len(second)
        /\ \A n \in 1 .. Len(first) + Len(second) :
             head[n] = IF n <= Len(first) THEN first[n] ELSE second[n - Len(first)]
    BY <2>4, <2>5, ConcatProperties
  <2>7. /\ Len(head) = (IF count > 1 THEN 2 ELSE count)
        /\ count > 0 => head[1] = columns
        /\ count > 1 => head[2] = types
    BY <2>1, <2>4, <2>5, <2>6
  <2> HIDE DEF head
  <2>8. /\ all \in Seq(T) /\ Len(all) = Len(head) + Len(rows)
        /\ \A n \in 1 .. Len(head) + Len(rows) :
             all[n] = IF n <= Len(head) THEN head[n] ELSE rows[n - Len(head)]
    BY <2>2, <2>6, ConcatProperties DEF head
  <2> HIDE DEF all
  <2>9. Len(all) = count
    BY <2>1, <2>3, <2>7, <2>8
  <2>10. \A n \in 1 .. count : all[n] = Stored(n)
    <3> SUFFICES ASSUME NEW n \in 1 .. count PROVE all[n] = Stored(n)
      OBVIOUS
    <3>1. all[n] = IF n <= Len(head) THEN head[n] ELSE rows[n - Len(head)]
      BY <2>8, <2>9
    <3>2. CASE n = 1
      BY <2>1, <2>7, <3>1, <3>2 DEF Stored
    <3>3. CASE n = 2
      BY <2>1, <2>7, <3>1, <3>3 DEF Stored
    <3>4. CASE n > 2
      BY <2>1, <2>7, <3>1, <3>4 DEF Stored
    <3> QED BY <2>1, <3>2, <3>3, <3>4
  <2>11. all = [n \in 1 .. count |-> all[n]]
    <3>1. all \in [1 .. count -> T]
      BY <2>8, <2>9, LenProperties
    <3> QED BY <3>1
  <2>12. /\ DOMAIN Lines(whole) = 1 .. count
         /\ \A n \in 1 .. count : Lines(whole)[n] = LineAt(whole, n)
    BY <2>1, LinesAre
  <2>13. \A n \in 1 .. count : Cells(Lines(whole)[n]) = all[n]
    BY <2>3, <2>10, <2>12
  <2> QED BY <2>11, <2>12, <2>13
<1>2. ReadingInv => AllLinesRead
  BY <1>1 DEF AllLinesRead
<1> QED BY <1>2, ReadingInvariant, PTL

(***************************************************************************)
(* A line that does not end with a comma has one cell more than commas.    *)
(***************************************************************************)
Commas(l) == {i \in DOMAIN l : l[i] = ","}

EmptyLastCell(l) == Last(l) = ","

\* A line has one cell more than commas, unless its last cell is empty.
LEMMA CellsCounted ==
  ASSUME NEW l \in Seq(Letter), l # <<>>, ~EmptyLastCell(l)
  PROVE  /\ Cardinality(Commas(l)) \in Nat
         /\ Len(Cells(l)) = Cardinality(Commas(l)) + 1
<1> DEFINE n == Len(l)
           c == Cardinality(Commas(l))
           bounds == {0, n + 1} \cup Commas(l)
           pieces == [m \in 1 .. (Cardinality(bounds) - 1) |->
                        SubSeq(l, Nth(bounds, m) + 1, Nth(bounds, m + 1) - 1)]
<1>0. n \notin Commas(l)
  BY DEF Last, EmptyLastCell, Commas
<1>1. n \in Nat /\ n # 0 /\ DOMAIN l = 1 .. n /\ \A i \in 1 .. n : l[i] \in Letter
  BY EmptySeq, LenProperties
<1> HIDE DEF n
<1>2. /\ IsFiniteSet(Commas(l)) /\ c \in Nat
      /\ Commas(l) \subseteq 1 .. n /\ n \notin Commas(l)
  <2>1. Commas(l) \subseteq 1 .. n
    BY <1>1 DEF Commas
  <2>2. IsFiniteSet(1 .. n)
    BY <1>1, FS_Interval
  <2> QED BY <1>0, <2>1, <2>2, FS_Subset, FS_CardinalityType
<1>3. /\ IsFiniteSet(bounds) /\ Cardinality(bounds) = c + 2 /\ bounds \in SUBSET Nat
      /\ {j \in bounds : j < n + 1} = bounds \ {n + 1}
      /\ Cardinality(bounds \ {n + 1}) = c + 1
  <2> DEFINE low == Commas(l) \cup {0}
  <2>1. \A i \in Commas(l) : i \in Nat /\ i # 0 /\ i < n + 1
    BY <1>1, <1>2
  <2>2. IsFiniteSet(low) /\ Cardinality(low) = c + 1
    BY <1>2, <2>1, FS_AddElement
  <2>3. n + 1 \notin low /\ bounds = low \cup {n + 1} /\ bounds \ {n + 1} = low
    <3>1. n + 1 # 0 /\ ~(n + 1 < n + 1)
      BY <1>1
    <3> QED BY <2>1, <3>1
  <2>4. \A j \in low : j \in Nat /\ j < n + 1
    BY <1>1, <2>1
  <2> HIDE DEF low, bounds
  <2>5. IsFiniteSet(bounds) /\ Cardinality(bounds) = Cardinality(low) + 1
    BY <2>2, <2>3, FS_AddElement
  <2>6. {j \in bounds : j < n + 1} = low
    <3>1. ~(n + 1 < n + 1)
      BY <1>1
    <3> QED BY <2>3, <2>4, <3>1
  <2>7. bounds \in SUBSET Nat
    BY <1>1, <2>3, <2>4
  <2>8. Cardinality(low) = c + 1 /\ Cardinality(bounds) = c + 2
    <3> DEFINE k == Cardinality(low)
    <3>1. k = c + 1 /\ Cardinality(bounds) = k + 1
      BY <2>2, <2>5
    <3> HIDE DEF c, k
    <3>2. k + 1 = c + 2
      BY <1>2, <3>1
    <3> QED BY <3>1, <3>2 DEF k
  <2>9. {j \in bounds : j < n + 1} = bounds \ {n + 1}
    BY <2>3, <2>6
  <2>10. Cardinality(bounds \ {n + 1}) = c + 1
    BY <2>3, <2>8
  <2> QED BY <2>5, <2>7, <2>8, <2>9, <2>10
<1>4. n + 1 \in bounds /\ n \notin bounds
  <2>1. n # 0 /\ n # n + 1
    BY <1>1
  <2> QED BY <1>2, <2>1
<1> HIDE DEF bounds, c
<1>5. Nth(bounds, c + 2) = n + 1
  <2> DEFINE k == c + 2  e == n + 1
  <2>1. bounds \in SUBSET Nat /\ IsFiniteSet(bounds) /\ e \in bounds
    BY <1>3, <1>4
  <2>2. Cardinality({j \in bounds : j < e}) = c + 1
    BY <1>3
  <2>3. k \in Nat /\ k - 1 = c + 1
    BY <1>2
  <2> HIDE DEF k, e
  <2>4. Cardinality({j \in bounds : j < e}) = k - 1
    BY <2>2, <2>3
  <2>5. Nth(bounds, k) = e
    BY <2>1, <2>3, <2>4, NthIs
  <2> QED BY <2>5 DEF k, e
<1>6. Nth(bounds, c + 1) \in Nat /\ Nth(bounds, c + 1) < n
  <2> DEFINE k == c + 1  q == Nth(bounds, k)
  <2>1. k \in 1 .. Cardinality(bounds) /\ k - 1 = c /\ c # k
    <3>1. k \in 1 .. (c + 2) /\ k - 1 = c /\ c # k
      BY <1>2
    <3> HIDE DEF k
    <3> QED BY <1>3, <3>1
  <2> HIDE DEF k
  <2>2. q \in bounds /\ Cardinality({j \in bounds : j < q}) = k - 1
    BY <1>3, <2>1, NthExists
  <2>3. Cardinality({j \in bounds : j < q}) = c
    BY <2>1, <2>2
  <2>4. q # n + 1
    BY <1>3, <2>1, <2>3 DEF k
  <2>5. q # n /\ q \in Nat
    BY <1>3, <1>4, <2>2
  <2>6. q < n + 1
    <3>1. q \in bounds \ {n + 1}
      BY <2>2, <2>4
    <3> HIDE DEF q
    <3> QED BY <1>3, <3>1
  <2> HIDE DEF q
  <2>7. q < n
    BY <1>1, <2>5, <2>6
  <2> QED BY <2>5, <2>7 DEF q, k
<1>7. Len(pieces) = c + 1 /\ Last(pieces) = SubSeq(l, Nth(bounds, c + 1) + 1, Nth(bounds, c + 2) - 1)
  <2>1. Cardinality(bounds) - 1 = c + 1 /\ c + 1 \in 1 .. (c + 1) /\ c + 1 + 1 = c + 2 /\ c + 1 \in Nat
    BY <1>2, <1>3
  <2>2. pieces = [m \in 1 .. (c + 1) |-> SubSeq(l, Nth(bounds, m) + 1, Nth(bounds, m + 1) - 1)]
    BY <2>1
  <2>3. Len(pieces) = c + 1
    BY <2>1, <2>2
  <2> QED BY <2>1, <2>2, <2>3 DEF Last
<1>8. Last(pieces) # <<>>
  <2> DEFINE a == Nth(bounds, c + 1) + 1
  <2>1. Last(pieces) = SubSeq(l, a, n) /\ a \in 1 .. n
    <3>1. n + 1 - 1 = n /\ a \in 1 .. n
      BY <1>1, <1>6
    <3> DEFINE e == Nth(bounds, c + 2)
    <3>4. e = n + 1
      BY <1>5
    <3> HIDE DEF e
    <3>2. e - 1 = n
      BY <1>1, <3>4
    <3> HIDE DEF pieces
    <3>3. Last(pieces) = SubSeq(l, a, e - 1)
      BY <1>7 DEF e
    <3> HIDE DEF a
    <3> QED BY <3>1, <3>2, <3>3
  <2> HIDE DEF a, pieces
  <2>2. \A i \in a .. n : l[i] \in Letter
    BY <1>1, <2>1
  <2>3. Len(SubSeq(l, a, n)) = n - a + 1
    BY <1>1, <2>1, <2>2, SubSeqProperties
  <2>4. Len(SubSeq(l, a, n)) # 0
    BY <1>1, <2>1, <2>3
  <2>5. Len(<<>>) = 0
    OBVIOUS
  <2> QED BY <2>1, <2>4, <2>5
<1>9. Cells(l) = IF Last(pieces) = <<>> THEN Front(pieces) ELSE pieces
  BY DEF Cells, bounds, Commas, n
<1> HIDE DEF pieces
<1> QED BY <1>2, <1>7, <1>8, <1>9 DEF c

(***************************************************************************)
(* The rows of a rectangular file are as long as its head, for every file  *)
(* without an empty cell at the end of a line (RowsRectangular).           *)
(***************************************************************************)
THEOREM RowsAlwaysRectangular == CellSpec => []RowsRectangular
<1>1. ASSUME ReadingInv, eof,
             \A n \in DOMAIN Lines(whole) :
               Cardinality(Commas(Lines(whole)[n])) = Cardinality(Commas(Lines(whole)[1]))
                 /\ ~EmptyLastCell(Lines(whole)[n]),
             NEW n \in DOMAIN rows
      PROVE  Len(rows[n]) = Len(columns) /\ Len(types) = Len(columns)
  <2>1. count = Cardinality(Starts(whole)) /\ count \in Nat
    BY <1>1, AllStored
  <2>2. /\ Len(rows) = (IF count > 2 THEN count - 2 ELSE 0)
        /\ \A k \in 1 .. count : IsText(LineAt(whole, k)) /\ Stored(k) = Cells(LineAt(whole, k))
    BY <1>1 DEF ReadingInv, LinesStored
  <2>3. DOMAIN rows = 1 .. Len(rows)
    BY <1>1, LenProperties DEF ReadingInv, ReaderTyped
  <2>4. n \in Nat \ {0} /\ count > 2 /\ n + 2 \in 1 .. count /\ 1 \in 1 .. count /\ 2 \in 1 .. count
    BY <2>1, <2>2, <2>3
  <2>5. /\ DOMAIN Lines(whole) = 1 .. count
        /\ \A k \in 1 .. count : Lines(whole)[k] = LineAt(whole, k)
    BY <2>1, LinesAre
  <2>6. \A k \in 1 .. count : Len(Stored(k)) = Cardinality(Commas(Lines(whole)[1])) + 1
    <3> SUFFICES ASSUME NEW k \in 1 .. count
                 PROVE  Len(Stored(k)) = Cardinality(Commas(Lines(whole)[1])) + 1
      OBVIOUS
    <3>1. /\ Lines(whole)[k] \in Seq(Letter) /\ Lines(whole)[k] # <<>> /\ ~EmptyLastCell(Lines(whole)[k])
          /\ Cardinality(Commas(Lines(whole)[k])) = Cardinality(Commas(Lines(whole)[1]))
      BY <1>1, <2>2, <2>5 DEF IsText
    <3>2. Len(Cells(Lines(whole)[k])) = Cardinality(Commas(Lines(whole)[k])) + 1
      BY <3>1, CellsCounted
    <3> QED BY <2>2, <2>5, <3>1, <3>2
  <2> DEFINE k == n + 2
  <2>7. k \in 1 .. count /\ k # 1 /\ k # 2 /\ k - 2 = n
    BY <2>4
  <2> HIDE DEF k
  <2>8. Stored(k) = rows[n] /\ Stored(1) = columns /\ Stored(2) = types
    BY <2>7 DEF Stored
  <2> QED BY <2>4, <2>6, <2>7, <2>8
<1>2. ReadingInv => RowsRectangular
  BY <1>1 DEF RowsRectangular, Commas, EmptyLastCell
<1> QED BY <1>2, ReadingInvariant, PTL
=============================================================================
