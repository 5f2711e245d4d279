---------------------------- MODULE QueryProofs ----------------------------
(***************************************************************************)
(* A supported query is answered with the rows it means (QueryAnswers),    *)
(* for all tables that can be stored, all queries the planner understands  *)
(* and whatever the running process knows of the tables.                   *)
(***************************************************************************)
EXTENDS QueryAnswers, MultiMapProofs, SequenceTheorems

(***************************************************************************)
(* What holds of a set whenever it holds of it with any element taken out  *)
(* holds of every finite set.                                              *)
(***************************************************************************)
LEMMA OneElementMore ==
  ASSUME NEW S, IsFiniteSet(S), NEW P \in SUBSET SUBSET S,
         \A s \in SUBSET S : (\A x \in s : s \ {x} \in P) => s \in P
  PROVE  P = SUBSET S
<1> DEFINE Bad == (SUBSET S) \ P
<1>1. SUFFICES ASSUME Bad # {} PROVE FALSE
  OBVIOUS
<1>2. IsWellFoundedOn(StrictSubsetOrdering(S), FiniteSubsetsOf(S))
  BY FS_StrictSubsetOrderingWellFounded
<1>3. Bad \subseteq FiniteSubsetsOf(S)
  BY FS_Subset DEF FiniteSubsetsOf
<1>4. PICK s \in Bad : \A u \in Bad : <<u, s>> \notin StrictSubsetOrdering(S)
  <2> HIDE DEF Bad
  <2> QED BY <1>1, <1>2, <1>3, WFMin
<1>5. ASSUME NEW x \in s PROVE s \ {x} \in P
  <2>1. s \ {x} \in SUBSET S /\ s \ {x} \subseteq s /\ s \ {x} # s
    BY <1>4, <1>5
  <2>2. <<s \ {x}, s>> \in StrictSubsetOrdering(S)
    BY <2>1, <1>4 DEF StrictSubsetOrdering
  <2> QED BY <2>1, <2>2, <1>4
<1> QED BY <1>4, <1>5

(***************************************************************************)
(* What holds of 0 and of the number after each one holds of all up to n.  *)
(***************************************************************************)
LEMMA OneMore ==
  ASSUME NEW n \in Nat, NEW P \in SUBSET (0 .. n), 0 \in P,
         \A k \in P : k < n => k + 1 \in P
  PROVE  P = 0 .. n
<1> DEFINE Bad == (0 .. n) \ P
<1>1. SUFFICES ASSUME Bad # {} PROVE FALSE
  OBVIOUS
<1>2. IsFiniteSet(Bad) /\ Bad \in SUBSET Nat
  <2>1. IsFiniteSet(0 .. n) /\ Bad \in SUBSET (0 .. n)
    BY FS_Interval
  <2> QED BY <2>1, FS_Subset
<1>3. PICK m \in Bad : \A q \in Bad : m <= q
  <2> HIDE DEF Bad
  <2> QED BY <1>1, <1>2, SmallestElement
<1>4. m - 1 \in 0 .. n /\ m - 1 \notin Bad
  BY <1>3
<1>5. m - 1 \in P /\ (m - 1) + 1 \in P
  BY <1>3, <1>4
<1> QED BY <1>3, <1>5

(***************************************************************************)
(* A bijection makes sets equally large.                                   *)
(***************************************************************************)
OneToOne(f, S, T) ==
  /\ f \in [S -> T]
  /\ \A x, y \in S : f[x] = f[y] => x = y
  /\ \A t \in T : \E x \in S : f[x] = t

\* The library's bijections, for a given one.
LEMMA OneToOneSizes ==
  ASSUME NEW S, NEW T, NEW f, OneToOne(f, S, T), IsFiniteSet(S)
  PROVE  IsFiniteSet(T) /\ Cardinality(T) = Cardinality(S)
<1>1. f \in Bijection(S, T)
  BY DEF OneToOne, Bijection, Injection, Surjection, IsInjective
<1> QED BY <1>1, FS_Bijection DEF ExistsBijection

-----------------------------------------------------------------------------
(***************************************************************************)
(* The folds of the community modules are recursive functions on the       *)
(* subsets of a set: one element, picked from it, after the others.  There *)
(* is such a function for any way to pick and to go on.                    *)
(***************************************************************************)
HasFold(S, V, base, pick, step) ==
  \E g \in [SUBSET S -> V] :
    \A s \in SUBSET S : g[s] = IF s = {} THEN base ELSE step[<<pick[s], g[s \ {pick[s]}]>>]

\* It is built up by the size of the subsets.
LEMMA FoldExists ==
  ASSUME NEW S, IsFiniteSet(S), NEW V, NEW base \in V, NEW pick, NEW step,
         \A s \in SUBSET S : s # {} => pick[s] \in s,
         \A x \in S, v \in V : step[<<x, v>>] \in V
  PROVE  HasFold(S, V, base, pick, step)
<1> DEFINE n == Cardinality(S)
           Right(g, s) == g[s] = IF s = {} THEN base ELSE step[<<pick[s], g[s \ {pick[s]}]>>]
           Upto(m) == \E g \in [SUBSET S -> V] : \A s \in SUBSET S : Cardinality(s) <= m => Right(g, s)
<1>1. /\ n \in Nat
      /\ \A s \in SUBSET S : IsFiniteSet(s) /\ Cardinality(s) \in Nat /\ Cardinality(s) <= n
  BY FS_CardinalityType, FS_Subset
<1>2. \A s \in SUBSET S : s # {} => /\ pick[s] \in s /\ s \ {pick[s]} \in SUBSET S
                                   /\ Cardinality(s \ {pick[s]}) = Cardinality(s) - 1
  BY <1>1, FS_RemoveElement
<1>3. Upto(0)
  <2> DEFINE g == [s \in SUBSET S |-> base]
  <2>1. \A s \in SUBSET S : Cardinality(s) <= 0 => s = {}
    BY <1>1, FS_EmptySet
  <2>2. g \in [SUBSET S -> V] /\ \A s \in SUBSET S : Cardinality(s) <= 0 => Right(g, s)
    BY <2>1
  <2> QED BY <2>2
<1>4. ASSUME NEW m \in Nat, Upto(m) PROVE Upto(m + 1)
  <2>1. PICK g \in [SUBSET S -> V] : \A s \in SUBSET S : Cardinality(s) <= m => Right(g, s)
    BY <1>4
  <2> DEFINE h == [s \in SUBSET S |-> IF Cardinality(s) <= m THEN g[s]
                                      ELSE step[<<pick[s], g[s \ {pick[s]}]>>]]
  <2>2. h \in [SUBSET S -> V]
    <3> SUFFICES ASSUME NEW s \in SUBSET S, ~(Cardinality(s) <= m)
                 PROVE  step[<<pick[s], g[s \ {pick[s]}]>>] \in V
      OBVIOUS
    <3>1. s # {}
      BY <1>1, FS_EmptySet
    <3>2. pick[s] \in S /\ g[s \ {pick[s]}] \in V
      BY <1>2, <3>1, <2>1
    <3> QED BY <3>2
  <2>3. ASSUME NEW s \in SUBSET S, Cardinality(s) <= m + 1
        PROVE  Right(h, s)
    <3>1. CASE s = {}
      <4>1. Cardinality(s) <= m
        BY <3>1, FS_EmptySet
      <4>2. h[s] = g[s] /\ Right(g, s)
        BY <4>1, <2>1
      <4> QED BY <4>2, <3>1
    <3>2. CASE s # {}
      <4> DEFINE r == s \ {pick[s]}
      <4>1. r \in SUBSET S /\ Cardinality(r) <= m
        BY <1>1, <1>2, <2>3, <3>2
      <4>2. h[r] = g[r]
        BY <4>1
      <4>3. h[s] = step[<<pick[s], g[r]>>]
        BY <2>1, <3>2
      <4> QED BY <4>2, <4>3, <3>2
    <3> QED BY <3>1, <3>2
  <2> HIDE DEF h, Right
  <2> QED BY <2>2, <2>3
<1>5. Upto(n)
  <2> DEFINE P == {m \in 0 .. n : Upto(m)}
  <2> HIDE DEF Upto
  <2>1. P \in SUBSET (0 .. n) /\ 0 \in P /\ \A k \in P : k < n => k + 1 \in P
    BY <1>1, <1>3, <1>4
  <2> HIDE DEF P
  <2>2. n \in P
    <3> HIDE DEF n
    <3> QED BY <1>1, <2>1, OneMore
  <2> QED BY <2>2 DEF P
<1>6. PICK g \in [SUBSET S -> V] : \A s \in SUBSET S : Cardinality(s) <= n => Right(g, s)
  BY <1>5
<1> QED BY <1>1, <1>6 DEF HasFold

(***************************************************************************)
(* The sum of f over the subsets of S, as MapThenSumSet computes it.       *)
(***************************************************************************)
Some(s) == CHOOSE x \in s : TRUE

Totals(f, S) ==
  CHOOSE it : it = [s \in SUBSET S |-> IF s = {} THEN 0 ELSE f[Some(s)] + it[s \ {Some(s)}]]

\* The recursion of the sum holds.
LEMMA TotalsDefined ==
  ASSUME NEW S, IsFiniteSet(S), NEW f \in [S -> Nat]
  PROVE  /\ Totals(f, S) \in [SUBSET S -> Nat]
         /\ Totals(f, S)[{}] = 0
         /\ \A s \in SUBSET S : s # {} => Totals(f, S)[s] = f[Some(s)] + Totals(f, S)[s \ {Some(s)}]
<1> DEFINE pick == [s \in SUBSET S |-> Some(s)]
           step == [p \in S \X Nat |-> f[p[1]] + p[2]]
           Law(it) == it = [s \in SUBSET S |-> IF s = {} THEN 0 ELSE f[Some(s)] + it[s \ {Some(s)}]]
<1>1. \A s \in SUBSET S : s # {} => Some(s) \in s
  BY DEF Some
<1>2. \A x \in S, v \in Nat : step[<<x, v>>] = f[x] + v /\ f[x] + v \in Nat
  OBVIOUS
<1>3. PICK g \in [SUBSET S -> Nat] :
        \A s \in SUBSET S : g[s] = IF s = {} THEN 0 ELSE step[<<pick[s], g[s \ {pick[s]}]>>]
  <2>1. \A s \in SUBSET S : s # {} => pick[s] \in s
    BY <1>1
  <2>2. \A x \in S, v \in Nat : step[<<x, v>>] \in Nat
    BY <1>2
  <2> HIDE DEF pick, step
  <2>3. HasFold(S, Nat, 0, pick, step)
    BY <2>1, <2>2, FoldExists
  <2> QED BY <2>3 DEF HasFold
<1>4. ASSUME NEW s \in SUBSET S, s # {} PROVE g[s] = f[Some(s)] + g[s \ {Some(s)}]
  <2>1. pick[s] = Some(s) /\ Some(s) \in S /\ s \ {Some(s)} \in SUBSET S
    BY <1>1, <1>4
  <2>2. g[s \ {Some(s)}] \in Nat
    BY <2>1
  <2> HIDE DEF pick, step
  <2> QED BY <1>2, <1>3, <1>4, <2>1, <2>2
<1>5. Law(g)
  <2>1. g[{}] = 0
    BY <1>3
  <2>2. \A s \in SUBSET S : g[s] = IF s = {} THEN 0 ELSE f[Some(s)] + g[s \ {Some(s)}]
    BY <1>4, <2>1
  <2> HIDE DEF step, pick
  <2> QED BY <2>2
<1>6. Law(Totals(f, S))
  <2> HIDE DEF Law
  <2>1. Totals(f, S) = CHOOSE it : Law(it)
    BY DEF Totals, Law
  <2> QED BY <1>5, <2>1
<1> DEFINE T == Totals(f, S)
           P == {s \in SUBSET S : T[s] \in Nat}
<1>8. \A s \in SUBSET S : T[s] = IF s = {} THEN 0 ELSE f[Some(s)] + T[s \ {Some(s)}]
  <2> HIDE DEF T
  <2> SUFFICES Law(T)
    OBVIOUS
  <2> QED BY <1>6 DEF T
<1>9. T = [s \in SUBSET S |-> T[s]]
  <2> HIDE DEF T
  <2> SUFFICES Law(T)
    OBVIOUS
  <2> QED BY <1>6 DEF T
<1>10. ASSUME NEW s \in SUBSET S, \A x \in s : s \ {x} \in P PROVE s \in P
  <2> HIDE DEF T
  <2> SUFFICES T[s] \in Nat
    OBVIOUS
  <2>1. CASE s = {}
    <3>1. T[s] = 0
      BY <1>8, <2>1, Zenon
    <3> HIDE DEF P
    <3> QED BY <3>1
  <2>2. CASE s # {}
    <3>1. Some(s) \in s /\ s \ {Some(s)} \in P
      BY <1>1, <1>10, <2>2
    <3>2. T[s \ {Some(s)}] \in Nat /\ f[Some(s)] \in Nat
      BY <3>1
    <3>3. T[s] = f[Some(s)] + T[s \ {Some(s)}]
      BY <1>8, <2>2
    <3> HIDE DEF P
    <3> QED BY <3>2, <3>3
  <2> QED BY <2>1, <2>2
<1>11. P = SUBSET S
  <2>1. P \in SUBSET SUBSET S
    OBVIOUS
  <2> HIDE DEF P
  <2> QED BY <1>10, <2>1, OneElementMore
<1> HIDE DEF T
<1>12. T \in [SUBSET S -> Nat]
  BY <1>9, <1>11
<1> QED BY <1>8, <1>12 DEF T

(***************************************************************************)
(* The sum does not depend on the order: any element may come last.        *)
(***************************************************************************)
LEMMA TotalsAdd ==
  ASSUME NEW S, IsFiniteSet(S), NEW f \in [S -> Nat], NEW r \in SUBSET S, NEW y \in r
  PROVE  Totals(f, S)[r] = f[y] + Totals(f, S)[r \ {y}]
<1> DEFINE T == Totals(f, S)
           P == {s \in SUBSET S : \A x \in s : T[s] = f[x] + T[s \ {x}]}
<1>1. /\ T \in [SUBSET S -> Nat]
      /\ \A s \in SUBSET S : s # {} => T[s] = f[Some(s)] + T[s \ {Some(s)}]
  BY TotalsDefined
<1> HIDE DEF T
<1>2. ASSUME NEW s \in SUBSET S, \A x \in s : s \ {x} \in P, NEW x \in s
      PROVE  T[s] = f[x] + T[s \ {x}]
  <2> DEFINE a == Some(s)
  <2>1. a \in s
    BY <1>2 DEF Some
  <2>2. T[s] = f[a] + T[s \ {a}]
    BY <1>1, <1>2
  <2> HIDE DEF a
  <2>3. CASE x = a
    BY <2>2, <2>3
  <2>4. CASE x # a
    <3>1. T[s \ {a}] = f[x] + T[(s \ {a}) \ {x}]
      BY <1>2, <2>1, <2>4
    <3>2. T[s \ {x}] = f[a] + T[(s \ {x}) \ {a}]
      BY <1>2, <2>1, <2>4
    <3>3. (s \ {a}) \ {x} = (s \ {x}) \ {a}
      OBVIOUS
    <3>4. f[a] \in Nat /\ f[x] \in Nat /\ T[(s \ {x}) \ {a}] \in Nat
      BY <1>1, <2>1
    <3> DEFINE u == T[(s \ {x}) \ {a}]
    <3>5. T[s] = f[a] + (f[x] + u) /\ T[s \ {x}] = f[a] + u
      BY <2>2, <3>1, <3>2, <3>3
    <3> HIDE DEF u
    <3> QED BY <3>4, <3>5 DEF u
  <2> QED BY <2>3, <2>4
<1>3. P = SUBSET S
  <2>1. P \in SUBSET SUBSET S /\ \A s \in SUBSET S : (\A x \in s : s \ {x} \in P) => s \in P
    BY <1>2
  <2> HIDE DEF P
  <2> QED BY <2>1, OneElementMore
<1> QED BY <1>3 DEF T

-----------------------------------------------------------------------------
(***************************************************************************)
(* Adding modulo m is adding, and taking the remainder of the sum.         *)
(***************************************************************************)
LEMMA RemainderIs ==
  ASSUME NEW m \in Nat \ {0}, NEW p \in Int, NEW r \in 0 .. (m - 1)
  PROVE  (p * m + r) % m = r
<1> DEFINE a == p * m + r
           d == a \div m
           e == a % m
<1>1. a = d * m + e /\ e \in 0 .. (m - 1) /\ d \in Int
  OBVIOUS
<1>2. (p - d) * m = e - r
  BY <1>1
<1> HIDE DEF a, d, e
<1>3. p - d \in Int /\ e - r < m /\ e - r > -m
  BY <1>1
<1>4. CASE p - d >= 1
  <2>1. (p - d) * m >= m
    BY <1>3, <1>4
  <2> QED BY <2>1, <1>2, <1>3
<1>5. CASE p - d <= -1
  <2>1. (p - d) * m <= -m
    BY <1>3, <1>5
  <2> QED BY <2>1, <1>2, <1>3
<1>6. CASE p - d = 0
  <2>1. (p - d) * m = 0
    BY <1>6
  <2> QED BY <2>1, <1>2, <1>1 DEF a, e
<1> QED BY <1>3, <1>4, <1>5, <1>6

\* A remainder may be taken at every step of a sum.
LEMMA RemainderOfSum ==
  ASSUME NEW t \in Nat, NEW x \in Nat, NEW m \in Nat \ {0}
  PROVE  ((t % m) + x) % m = (t + x) % m
<1> DEFINE q == t \div m
           b == (t % m) + x
           u == b \div m
           r == b % m
<1>1. t = q * m + (t % m) /\ q \in Int /\ t % m \in 0 .. (m - 1)
  OBVIOUS
<1>2. b \in Int
  BY <1>1
<1>3. b = u * m + r /\ u \in Int /\ r \in 0 .. (m - 1)
  <2> HIDE DEF b
  <2> QED BY <1>2
<1>4. t + x = (q + u) * m + r
  <2>1. t + x = q * m + b
    BY <1>1
  <2> HIDE DEF b, u, r, q
  <2> QED BY <1>1, <1>3, <2>1
<1>5. q + u \in Int
  BY <1>1, <1>3
<1> HIDE DEF q, u, r
<1>6. (t + x) % m = r
  BY <1>3, <1>4, <1>5, RemainderIs
<1> QED BY <1>6 DEF r

(***************************************************************************)
(* Sum folds the numbers of a column from the left, modulo m: the result   *)
(* is the remainder of their sum.                                          *)
(***************************************************************************)
Running(v, n, m) ==
  CHOOSE it : it = [s \in SUBSET (1 .. n) |-> IF s = {} THEN 0 ELSE (it[s \ {Max(s)}] + v[Max(s)]) % m]

\* Max of some of the numbers up to n is one of them.
LEMMA MaxIs ==
  ASSUME NEW n \in Nat
  PROVE  /\ \A s \in SUBSET (1 .. n) : s # {} => Max(s) \in s
         /\ n > 0 => Max(1 .. n) = n
<1>1. ASSUME NEW s \in SUBSET (1 .. n), s # {} PROVE Max(s) \in s /\ \A y \in s : Max(s) >= y
  <2>1. IsFiniteSet(s) /\ s \in SUBSET Nat
    <3>1. IsFiniteSet(1 .. n) /\ s \in SUBSET Nat
      BY <1>1, FS_Interval
    <3>2. IsFiniteSet(s)
      BY <3>1, <1>1, FS_Subset
    <3> QED BY <3>1, <3>2
  <2>2. \E x \in s : \A y \in s : x >= y
    BY <1>1, <2>1, LargestElement
  <2> QED BY <2>2 DEF Max
<1>2. ASSUME n > 0 PROVE Max(1 .. n) = n
  <2>1. 1 .. n # {} /\ n \in 1 .. n
    BY <1>2
  <2>2. Max(1 .. n) \in 1 .. n /\ Max(1 .. n) >= n
    BY <1>1, <2>1
  <2> QED BY <2>2
<1> QED BY <1>1, <1>2

\* Going through the numbers from the left gives the same remainder.
LEMMA RunningIs ==
  ASSUME NEW n \in Nat, NEW v \in [1 .. n -> Nat], NEW m \in Nat \ {0}
  PROVE  Running(v, n, m)[1 .. n] = Totals(v, 1 .. n)[1 .. n] % m
<1> DEFINE S == 1 .. n
           pick == [s \in SUBSET S |-> Max(s)]
           step == [p \in S \X Nat |-> (p[2] + v[p[1]]) % m]
           Law(it) == it = [s \in SUBSET S |-> IF s = {} THEN 0 ELSE (it[s \ {Max(s)}] + v[Max(s)]) % m]
<1>1. IsFiniteSet(S) /\ \A s \in SUBSET S : s # {} => Max(s) \in s
  <2>1. IsFiniteSet(S)
    BY FS_Interval
  <2> QED BY <2>1, MaxIs
<1>2. \A x \in S, w \in Nat : step[<<x, w>>] = (w + v[x]) % m /\ (w + v[x]) % m \in Nat
  OBVIOUS
<1>3. PICK g \in [SUBSET S -> Nat] :
        \A s \in SUBSET S : g[s] = IF s = {} THEN 0 ELSE step[<<pick[s], g[s \ {pick[s]}]>>]
  <2>1. \A s \in SUBSET S : s # {} => pick[s] \in s
    BY <1>1
  <2>2. \A x \in S, w \in Nat : step[<<x, w>>] \in Nat
    BY <1>2
  <2> HIDE DEF pick, step, S
  <2>3. HasFold(S, Nat, 0, pick, step)
    BY <1>1, <2>1, <2>2, FoldExists
  <2> QED BY <2>3 DEF HasFold
<1>4. ASSUME NEW s \in SUBSET S, s # {} PROVE g[s] = (g[s \ {Max(s)}] + v[Max(s)]) % m
  <2>1. pick[s] = Max(s) /\ Max(s) \in S /\ s \ {Max(s)} \in SUBSET S
    BY <1>1, <1>4
  <2>2. g[s \ {Max(s)}] \in Nat
    BY <2>1
  <2> HIDE DEF pick, step, S
  <2> QED BY <1>2, <1>3, <1>4, <2>1, <2>2
<1>5. Law(g)
  <2>1. g[{}] = 0
    BY <1>3
  <2>2. \A s \in SUBSET S : g[s] = IF s = {} THEN 0 ELSE (g[s \ {Max(s)}] + v[Max(s)]) % m
    BY <1>4, <2>1
  <2> HIDE DEF step, pick, S
  <2> QED BY <2>2
<1> DEFINE R == Running(v, n, m)
           T == Totals(v, S)
<1>6. Law(R)
  <2> HIDE DEF Law
  <2>1. R = CHOOSE it : Law(it)
    BY DEF Running, Law
  <2> HIDE DEF R
  <2> QED BY <1>5, <2>1
<1>7. \A s \in SUBSET S : R[s] = IF s = {} THEN 0 ELSE (R[s \ {Max(s)}] + v[Max(s)]) % m
  <2> HIDE DEF R
  <2> QED BY <1>6
<1>8. /\ T \in [SUBSET S -> Nat] /\ T[{}] = 0
      /\ \A s \in SUBSET S : \A x \in s : T[s] = v[x] + T[s \ {x}]
  <2> HIDE DEF S
  <2>1. v \in [S -> Nat]
    BY DEF S
  <2>2. T \in [SUBSET S -> Nat] /\ T[{}] = 0
    BY <1>1, <2>1, TotalsDefined
  <2>3. \A s \in SUBSET S : \A x \in s : T[s] = v[x] + T[s \ {x}]
    <3> HIDE DEF T
    <3>1. IsFiniteSet(S)
      BY <1>1
    <3> QED BY <3>1, <2>1, TotalsAdd DEF T
  <2> QED BY <2>2, <2>3
<1> DEFINE P == {k \in 0 .. n : R[1 .. k] = T[1 .. k] % m}
<1> HIDE DEF R, T
<1>9. 0 \in P
  <2>1. 1 .. 0 = {}
    OBVIOUS
  <2>2. R[{}] = 0
    BY <1>7
  <2>3. 0 % m = 0
    <3>1. (0 * m + 0) % m = 0
      BY RemainderIs
    <3> QED BY <3>1
  <2> QED BY <1>8, <2>1, <2>2, <2>3
<1>10. ASSUME NEW k \in P, k < n PROVE k + 1 \in P
  <2> DEFINE s == 1 .. (k + 1)
  <2>1. /\ k \in 0 .. n /\ s \in SUBSET S /\ s # {} /\ s \ {k + 1} = 1 .. k /\ k + 1 \in s /\ k + 1 \in S
    <3>1. k \in Nat /\ k \in 0 .. n /\ k + 1 <= n
      BY <1>10
    <3>2. s \in SUBSET S /\ k + 1 \in s
      BY <3>1
    <3>3. s \ {k + 1} = 1 .. k
      BY <3>1
    <3> QED BY <3>1, <3>2, <3>3
  <2>2. Max(s) = k + 1
    BY <2>1, MaxIs
  <2>3. T[1 .. k] \in Nat /\ v[k + 1] \in Nat /\ R[1 .. k] = T[1 .. k] % m
    BY <1>8, <1>10, <2>1
  <2>4. T[s] = T[1 .. k] + v[k + 1]
    <3>1. T[s] = v[k + 1] + T[s \ {k + 1}]
      BY <1>8, <2>1
    <3>2. T[s \ {k + 1}] = T[1 .. k]
      BY <2>1
    <3>3. T[1 .. k] \in Nat /\ v[k + 1] \in Nat
      BY <2>3
    <3> HIDE DEF s
    <3> QED BY <3>1, <3>2, <3>3
  <2>5. R[s] = ((T[1 .. k] % m) + v[k + 1]) % m
    <3> HIDE DEF s
    <3>1. R[s] = (R[s \ {Max(s)}] + v[Max(s)]) % m
      BY <1>7, <2>1
    <3> QED BY <3>1, <2>1, <2>2, <2>3
  <2>6. R[s] = T[s] % m
    BY <2>3, <2>4, <2>5, RemainderOfSum
  <2> QED BY <2>1, <2>6
<1>11. P = 0 .. n
  BY <1>9, <1>10, OneMore
<1> QED BY <1>11 DEF R, T

-----------------------------------------------------------------------------
(***************************************************************************)
(* FlattenSeq appends the sequences one after the other.                   *)
(***************************************************************************)
Flattening(seqs) ==
  CHOOSE it : it = [i \in 1 .. Len(seqs) |-> IF i = 1 THEN seqs[i] ELSE it[i - 1] \o seqs[i]]

\* The recursion of FlattenSeq holds.
LEMMA FlattenIs ==
  ASSUME NEW W, NEW seqs \in Seq(Seq(W)), Len(seqs) # 0
  PROVE  /\ FlattenSeq(seqs) = Flattening(seqs)[Len(seqs)]
         /\ Flattening(seqs) \in [1 .. Len(seqs) -> Seq(W)]
         /\ Flattening(seqs)[1] = seqs[1]
         /\ \A i \in 2 .. Len(seqs) : Flattening(seqs)[i] = Flattening(seqs)[i - 1] \o seqs[i]
<1> DEFINE n == Len(seqs)
           S == 1 .. n
           V == Seq(W)
           pick == [s \in SUBSET S |-> Max(s)]
           step == [p \in S \X V |-> p[2] \o seqs[p[1]]]
           Law(it) == it = [i \in 1 .. n |-> IF i = 1 THEN seqs[i] ELSE it[i - 1] \o seqs[i]]
<1>1. /\ n \in Nat \ {0} /\ IsFiniteSet(S) /\ <<>> \in V /\ \A i \in S : seqs[i] \in V
  BY FS_Interval
<1>2. \A s \in SUBSET S : s # {} => Max(s) \in s
  BY <1>1, MaxIs
<1>3. \A x \in S, w \in V : step[<<x, w>>] = w \o seqs[x] /\ w \o seqs[x] \in V
  <2>1. \A u, w \in Seq(W) : w \o u \in Seq(W)
    OBVIOUS
  <2>2. \A x \in S, w \in V : w \o seqs[x] \in V
    BY <1>1, <2>1
  <2> HIDE DEF S, V
  <2> QED BY <2>2
<1>4. PICK g \in [SUBSET S -> V] :
        \A s \in SUBSET S : g[s] = IF s = {} THEN <<>> ELSE step[<<pick[s], g[s \ {pick[s]}]>>]
  <2>1. \A s \in SUBSET S : s # {} => pick[s] \in s
    BY <1>2
  <2>2. \A x \in S, w \in V : step[<<x, w>>] \in V
    BY <1>3
  <2> HIDE DEF pick, step, S, V
  <2>3. HasFold(S, V, <<>>, pick, step)
    BY <1>1, <2>1, <2>2, FoldExists
  <2> QED BY <2>3 DEF HasFold
<1>5. ASSUME NEW k \in 1 .. n
      PROVE  g[1 .. k] = g[1 .. (k - 1)] \o seqs[k] /\ g[1 .. (k - 1)] \in V
  <2> DEFINE s == 1 .. k
  <2>1. k \in Nat /\ k > 0 /\ s \in SUBSET S /\ s # {} /\ s \ {k} = 1 .. (k - 1)
    <3>1. n \in Nat
      BY <1>1
    <3> HIDE DEF n
    <3>2. k \in Nat /\ k > 0 /\ k \in s
      BY <3>1
    <3>3. s \in SUBSET S
      BY <3>1
    <3>4. s \ {k} = 1 .. (k - 1)
      BY <3>1
    <3> HIDE DEF s, S
    <3> QED BY <3>2, <3>3, <3>4
  <2>2. Max(s) = k /\ pick[s] = k
    BY <2>1, MaxIs
  <2>3. 1 .. (k - 1) \in SUBSET S /\ g[1 .. (k - 1)] \in V
    <3> HIDE DEF n, V
    <3>1. 1 .. (k - 1) \in SUBSET S
      BY <1>1
    <3> QED BY <3>1
  <2>4. g[s] = step[<<k, g[1 .. (k - 1)]>>]
    <3> HIDE DEF s, step, pick, S, V
    <3> QED BY <1>4, <2>1, <2>2
  <2> HIDE DEF step, V
  <2> QED BY <1>3, <2>3, <2>4
<1>6. g[1 .. 0] = <<>>
  <2>1. 1 .. 0 = {} /\ {} \in SUBSET S
    OBVIOUS
  <2> HIDE DEF S, V, step, pick
  <2> QED BY <1>4, <2>1
<1> DEFINE h == [k \in 1 .. n |-> g[1 .. k]]
<1>7. Law(h)
  <2> SUFFICES ASSUME NEW i \in 1 .. n
               PROVE  h[i] = IF i = 1 THEN seqs[i] ELSE h[i - 1] \o seqs[i]
    OBVIOUS
  <2>1. g[1 .. i] = g[1 .. (i - 1)] \o seqs[i]
    BY <1>5
  <2>2. CASE i = 1
    <3>1. 1 - 1 = 0 /\ seqs[1] \in Seq(W)
      BY <1>1
    <3>2. <<>> \o seqs[1] = seqs[1]
      BY <3>1
    <3> QED BY <1>6, <2>1, <2>2, <3>1, <3>2
  <2>3. CASE i # 1
    <3>1. i - 1 \in 1 .. n
      BY <1>1, <2>3
    <3> QED BY <2>1, <2>3, <3>1
  <2> QED BY <2>2, <2>3
<1> DEFINE F == Flattening(seqs)
<1>8. Law(F)
  <2> HIDE DEF Law
  <2>1. F = CHOOSE it : Law(it)
    BY DEF Flattening, Law
  <2> HIDE DEF F
  <2> QED BY <1>7, <2>1
<1>9. F = [i \in 1 .. n |-> IF i = 1 THEN seqs[i] ELSE F[i - 1] \o seqs[i]]
  BY <1>8
<1>10. FlattenSeq(seqs) = F[n]
  BY DEF FlattenSeq, Flattening
<1> HIDE DEF F, Law
<1>11. F[1] = seqs[1] /\ \A i \in 2 .. n : F[i] = F[i - 1] \o seqs[i]
  <2>1. \A i \in 1 .. n : F[i] = IF i = 1 THEN seqs[i] ELSE F[i - 1] \o seqs[i]
    BY <1>9
  <2>2. 1 \in 1 .. n /\ \A i \in 2 .. n : i \in 1 .. n /\ i # 1
    BY <1>1
  <2> QED BY <2>1, <2>2
<1> DEFINE P == {k \in 0 .. n : k > 0 => F[k] \in V}
<1>12. ASSUME NEW k \in P, k < n PROVE k + 1 \in P
  <2>1. k \in Nat /\ k + 1 \in 1 .. n /\ k + 1 \in 0 .. n /\ seqs[k + 1] \in V
    BY <1>1, <1>12
  <2>2. CASE k = 0
    BY <1>11, <2>1, <2>2
  <2>3. CASE k # 0
    <3>1. F[k] \in V /\ k + 1 \in 2 .. n /\ (k + 1) - 1 = k
      BY <1>12, <2>1, <2>3
    <3>2. F[k + 1] = F[k] \o seqs[k + 1]
      BY <1>11, <3>1
    <3>3. F[k] \o seqs[k + 1] \in V
      BY <2>1, <3>1
    <3> HIDE DEF V
    <3> QED BY <2>1, <3>2, <3>3
  <2> QED BY <2>2, <2>3
<1>13. P = 0 .. n
  <2>1. P \in SUBSET (0 .. n) /\ 0 \in P
    BY <1>1
  <2> HIDE DEF P, n
  <2> QED BY <1>1, <1>12, <2>1, OneMore
<1>14. F \in [1 .. n -> V]
  <2> HIDE DEF V
  <2>1. ASSUME NEW i \in 1 .. n PROVE F[i] \in V
    <3>1. i \in 0 .. n /\ i > 0
      BY <1>1
    <3>2. i \in P
      <4> HIDE DEF P
      <4> QED BY <1>13, <3>1
    <3> QED BY <3>1, <3>2
  <2> HIDE DEF P
  <2> QED BY <1>9, <2>1
<1> QED BY <1>10, <1>11, <1>14 DEF F

(***************************************************************************)
(* Every element of a flattened sequence is one of an element, at a place  *)
(* of its own.                                                             *)
(***************************************************************************)
Spots(seqs, k) == {p \in (1 .. k) \X Nat : p[2] \in 1 .. Len(seqs[p[1]])}

Placed(flat, seqs, k) ==
  \E b : /\ OneToOne(b, 1 .. Len(flat), Spots(seqs, k))
         /\ \A i \in 1 .. Len(flat) : flat[i] = seqs[b[i][1]][b[i][2]]

\* One more sequence appended keeps the places.
LEMMA PlacedMore ==
  ASSUME NEW W, NEW seqs \in Seq(Seq(W)), NEW k \in 0 .. (Len(seqs) - 1), NEW flat \in Seq(W),
         Placed(flat, seqs, k)
  PROVE  Placed(flat \o seqs[k + 1], seqs, k + 1)
<1> DEFINE new == seqs[k + 1]
           m == Len(flat)
           all == flat \o new
<1>1. PICK b : /\ OneToOne(b, 1 .. m, Spots(seqs, k))
               /\ \A i \in 1 .. m : flat[i] = seqs[b[i][1]][b[i][2]]
  BY DEF Placed
<1>2. /\ new \in Seq(W) /\ m \in Nat /\ Len(new) \in Nat /\ Len(all) = m + Len(new)
      /\ \A i \in 1 .. Len(all) : all[i] = IF i <= m THEN flat[i] ELSE new[i - m]
  <2>1. k + 1 \in 1 .. Len(seqs) /\ new \in Seq(W)
    OBVIOUS
  <2> HIDE DEF new
  <2> QED BY <2>1
<1> DEFINE c == [i \in 1 .. Len(all) |-> IF i <= m THEN b[i] ELSE <<k + 1, i - m>>]
<1>3. /\ b \in [1 .. m -> Spots(seqs, k)]
      /\ \A x, y \in 1 .. m : b[x] = b[y] => x = y
      /\ \A p \in Spots(seqs, k) : \E x \in 1 .. m : b[x] = p
  BY <1>1 DEF OneToOne
<1>4. Spots(seqs, k) \subseteq Spots(seqs, k + 1)
  BY DEF Spots
<1>5. \A p \in Spots(seqs, k + 1) \ Spots(seqs, k) : p = <<k + 1, p[2]>> /\ p[2] \in 1 .. Len(new)
  BY DEF Spots
<1>6. \A i \in 1 .. Len(new) : <<k + 1, i>> \in Spots(seqs, k + 1)
  BY <1>2 DEF Spots
<1>7. \A p \in Spots(seqs, k) : p[1] # k + 1
  BY DEF Spots
<1> HIDE DEF new, all
<1>8. c \in [1 .. Len(all) -> Spots(seqs, k + 1)]
  <2> SUFFICES ASSUME NEW i \in 1 .. Len(all)
               PROVE  (IF i <= m THEN b[i] ELSE <<k + 1, i - m>>) \in Spots(seqs, k + 1)
    OBVIOUS
  <2>1. CASE i <= m
    <3>1. i \in 1 .. m
      BY <1>2, <2>1
    <3> QED BY <1>3, <1>4, <2>1, <3>1
  <2>2. CASE ~(i <= m)
    <3>1. i - m \in 1 .. Len(new)
      BY <1>2, <2>2
    <3> QED BY <1>6, <2>2, <3>1
  <2> QED BY <2>1, <2>2
<1>9. ASSUME NEW x \in 1 .. Len(all), NEW y \in 1 .. Len(all), c[x] = c[y] PROVE x = y
  <2>1. CASE x <= m /\ y <= m
    <3>1. x \in 1 .. m /\ y \in 1 .. m /\ c[x] = b[x] /\ c[y] = b[y]
      BY <1>2, <2>1
    <3> QED BY <1>3, <1>9, <3>1
  <2>2. CASE ~(x <= m) /\ ~(y <= m)
    <3>1. c[x] = <<k + 1, x - m>> /\ c[y] = <<k + 1, y - m>>
      BY <2>2
    <3>2. x - m = y - m
      BY <1>9, <3>1
    <3> QED BY <1>2, <3>2
  <2>3. ASSUME NEW u \in 1 .. Len(all), NEW w \in 1 .. Len(all), u <= m, ~(w <= m) PROVE c[u] # c[w]
    <3>1. u \in 1 .. m /\ c[u] = b[u] /\ c[w] = <<k + 1, w - m>>
      BY <1>2, <2>3
    <3>2. b[u] \in Spots(seqs, k)
      BY <1>3, <3>1
    <3>3. b[u][1] # k + 1
      BY <1>7, <3>2
    <3>4. <<k + 1, w - m>>[1] = k + 1
      OBVIOUS
    <3> HIDE DEF c
    <3> QED BY <3>1, <3>3, <3>4
  <2> QED BY <1>9, <2>1, <2>2, <2>3
<1>10. ASSUME NEW p \in Spots(seqs, k + 1) PROVE \E x \in 1 .. Len(all) : c[x] = p
  <2>1. CASE p \in Spots(seqs, k)
    <3>1. PICK x \in 1 .. m : b[x] = p
      BY <1>3, <2>1
    <3>2. x \in 1 .. Len(all) /\ x <= m
      BY <1>2, <3>1
    <3> QED BY <3>1, <3>2
  <2>2. CASE p \notin Spots(seqs, k)
    <3>1. p = <<k + 1, p[2]>> /\ p[2] \in 1 .. Len(new)
      BY <1>5, <1>10, <2>2
    <3>2. m + p[2] \in 1 .. Len(all) /\ ~(m + p[2] <= m) /\ (m + p[2]) - m = p[2]
      BY <1>2, <3>1
    <3>3. c[m + p[2]] = <<k + 1, p[2]>>
      BY <3>2
    <3> QED BY <3>1, <3>2, <3>3
  <2> QED BY <2>1, <2>2
<1>11. ASSUME NEW i \in 1 .. Len(all) PROVE all[i] = seqs[c[i][1]][c[i][2]]
  <2>1. CASE i <= m
    <3>1. i \in 1 .. m /\ c[i] = b[i] /\ all[i] = flat[i]
      BY <1>2, <2>1
    <3> QED BY <1>1, <3>1
  <2>2. CASE ~(i <= m)
    <3>1. c[i] = <<k + 1, i - m>> /\ all[i] = new[i - m]
      BY <1>2, <2>2
    <3> QED BY <3>1 DEF new
  <2> QED BY <2>1, <2>2
<1>12. OneToOne(c, 1 .. Len(all), Spots(seqs, k + 1))
  <2> HIDE DEF c
  <2> QED BY <1>8, <1>9, <1>10 DEF OneToOne
<1> HIDE DEF c
<1> QED BY <1>11, <1>12 DEF Placed, all, new

\* So FlattenSeq places the elements of all sequences.
LEMMA FlattenPlaced ==
  ASSUME NEW W, NEW seqs \in Seq(Seq(W))
  PROVE  FlattenSeq(seqs) \in Seq(W) /\ Placed(FlattenSeq(seqs), seqs, Len(seqs))
<1> DEFINE n == Len(seqs)
           F == Flattening(seqs)
           none == [i \in 1 .. 0 |-> 0]
<1>1. Placed(<<>>, seqs, 0)
  <2>1. 1 .. Len(<<>>) = {} /\ Spots(seqs, 0) = {}
    BY DEF Spots
  <2>2. OneToOne(none, 1 .. Len(<<>>), Spots(seqs, 0))
    BY <2>1 DEF OneToOne
  <2> QED BY <2>1, <2>2 DEF Placed
<1>2. CASE n = 0
  <2>1. seqs = <<>> /\ FlattenSeq(seqs) = seqs
    BY <1>2 DEF FlattenSeq
  <2>2. <<>> \in Seq(W)
    OBVIOUS
  <2>3. FlattenSeq(seqs) = <<>> /\ Len(seqs) = 0
    BY <1>2, <2>1
  <2> QED BY <1>1, <2>2, <2>3
<1>3. CASE n # 0
  <2> DEFINE P == {k \in 0 .. n : k > 0 => Placed(F[k], seqs, k)}
  <2>1. /\ n \in Nat /\ F \in [1 .. n -> Seq(W)] /\ F[1] = seqs[1] /\ FlattenSeq(seqs) = F[n]
        /\ \A i \in 2 .. n : F[i] = F[i - 1] \o seqs[i]
    <3>1. n \in Nat
      OBVIOUS
    <3>2. FlattenSeq(seqs) = F[n] /\ F \in [1 .. n -> Seq(W)] /\ F[1] = seqs[1]
      BY <1>3, FlattenIs
    <3>3. \A i \in 2 .. n : F[i] = F[i - 1] \o seqs[i]
      BY <1>3, FlattenIs
    <3> QED BY <3>1, <3>2, <3>3
  <2> HIDE DEF F
  <2>2. ASSUME NEW k \in P, k < n PROVE k + 1 \in P
    <3>1. k \in 0 .. (n - 1) /\ k \in Nat /\ k + 1 \in 1 .. n /\ k + 1 \in 0 .. n
      BY <2>1, <2>2
    <3>2. CASE k = 0
      <4>1. Placed(<<>> \o seqs[k + 1], seqs, k + 1)
        <5>1. <<>> \in Seq(W) /\ Placed(<<>>, seqs, k) /\ k \in 0 .. (Len(seqs) - 1)
          BY <1>1, <3>1, <3>2
        <5> QED BY <5>1, PlacedMore
      <4>2. <<>> \o seqs[k + 1] = F[k + 1]
        <5>1. seqs[1] \in Seq(W)
          BY <3>1, <3>2
        <5> QED BY <2>1, <3>2, <5>1
      <4> QED BY <3>1, <4>1, <4>2
    <3>3. CASE k # 0
      <4>1. Placed(F[k], seqs, k) /\ F[k] \in Seq(W) /\ k + 1 \in 2 .. n /\ (k + 1) - 1 = k
        <5>1. k \in 1 .. n /\ k > 0
          BY <3>1, <3>3
        <5>2. F[k] \in Seq(W)
          BY <2>1, <5>1
        <5>3. Placed(F[k], seqs, k)
          BY <2>2, <5>1
        <5> QED BY <3>1, <5>1, <5>2, <5>3
      <4>2. Placed(F[k] \o seqs[k + 1], seqs, k + 1)
        BY <3>1, <4>1, PlacedMore
      <4>3. F[k + 1] = F[k] \o seqs[k + 1]
        BY <2>1, <4>1
      <4> QED BY <3>1, <4>2, <4>3
    <3> QED BY <3>2, <3>3
  <2>3. P \in SUBSET (0 .. n) /\ 0 \in P
    BY <2>1
  <2>4. n \in Nat
    BY <2>1
  <2>5. n \in P
    <3> HIDE DEF P, n
    <3>1. P = 0 .. n
      BY <2>2, <2>3, <2>4, OneMore
    <3> QED BY <2>4, <3>1
  <2>6. n > 0 /\ n \in 1 .. n
    BY <1>3, <2>4
  <2>7. Placed(F[n], seqs, n) /\ F[n] \in Seq(W)
    BY <2>1, <2>5, <2>6
  <2> QED BY <2>1, <2>7
<1> QED BY <1>2, <1>3

-----------------------------------------------------------------------------
(***************************************************************************)
(* What is known of the variables that no step changes.                    *)
(***************************************************************************)
Given ==
  /\ course \in Courses /\ student \in Students /\ query \in Queries
  /\ known \in SUBSET {course.name, student.name}

\* What the assumptions say of the two tables stored.
LEMMA GivenTables ==
  ASSUME Given, NEW t \in {course, student}
  PROVE  /\ IsTable(t) /\ ~Unbuildable(t) /\ DOMAIN t.columns = Cols(t) /\ TableNamed(t.name) = t
         /\ Rows(t) \in SUBSET Nat /\ IsFiniteSet(Rows(t))
         /\ Cols(t) \in SUBSET Nat /\ IsFiniteSet(Cols(t))
         /\ course.name # student.name /\ 0 \in Cols(course) /\ 2 \in Cols(student)
<1>1. IsTable(t) /\ ~Unbuildable(t) /\ DOMAIN t.columns = Cols(t)
  BY StoredAssumption DEF Given
<1>2. course.name # student.name /\ 0 \in Cols(course) /\ 2 \in Cols(student)
  BY StoredAssumption DEF Given
<1>3. TableNamed(t.name) = t
  BY <1>2 DEF TableNamed
<1> QED BY <1>1, <1>2, <1>3, TableDomains

(***************************************************************************)
(* Two stores side by side do not disturb each other's indexes.            *)
(***************************************************************************)
Paired(store) == \A k \in DOMAIN store : k = <<k[1], k[2]>>

\* An index is walked in the store that has its keys.
LEMMA WalkEither ==
  ASSUME NEW A, NEW B, Paired(A), Paired(B), NEW idx
  PROVE  /\ (\A k \in DOMAIN B : k[1] # idx) => Walk(Entries(A, B), idx) = Walk(A, idx)
         /\ (\A k \in DOMAIN A : k[1] # idx) => Walk(Entries(A, B), idx) = Walk(B, idx)
<1> DEFINE E == Entries(A, B)
           Reached(st) == {k \in DOMAIN st : k[1] = idx /\ \A j \in 0 .. k[2] : <<idx, j>> \in DOMAIN st}
<1>1. /\ DOMAIN E = DOMAIN A \cup DOMAIN B
      /\ \A k \in DOMAIN E : E[k] = IF k \in DOMAIN A THEN A[k] ELSE B[k]
  BY DEF Entries
<1>2. \A st : Walk(st, idx) = [i \in {k[2] : k \in Reached(st)} |-> st[<<idx, i>>]]
  BY DEF Walk
<1> HIDE DEF E
<1>3. ASSUME NEW st, Paired(st), DOMAIN st \subseteq DOMAIN E,
             \A k \in DOMAIN E : k[1] = idx => k \in DOMAIN st /\ E[k] = st[k]
      PROVE  Walk(E, idx) = Walk(st, idx)
  <2>1. \A j : <<idx, j>> \in DOMAIN E <=> <<idx, j>> \in DOMAIN st
    <3>1. \A j : <<idx, j>>[1] = idx
      OBVIOUS
    <3> QED BY <1>3, <3>1
  <2>2. Reached(E) = Reached(st)
    BY <1>3, <2>1
  <2>3. \A k \in Reached(st) : k = <<idx, k[2]>> /\ E[<<idx, k[2]>>] = st[<<idx, k[2]>>]
    <3> SUFFICES ASSUME NEW k \in Reached(st)
                 PROVE  k = <<idx, k[2]>> /\ E[<<idx, k[2]>>] = st[<<idx, k[2]>>]
      OBVIOUS
    <3>1. k \in DOMAIN st /\ k[1] = idx
      OBVIOUS
    <3>2. k = <<idx, k[2]>>
      BY <1>3, <3>1 DEF Paired
    <3>3. E[k] = st[k]
      BY <1>3, <3>1
    <3> QED BY <3>2, <3>3
  <2>4. \A i \in {k[2] : k \in Reached(st)} : E[<<idx, i>>] = st[<<idx, i>>]
    <3> HIDE DEF Reached
    <3> QED BY <2>3
  <2> HIDE DEF Reached
  <2> QED BY <1>2, <2>2, <2>4
<1>4. ASSUME \A k \in DOMAIN B : k[1] # idx PROVE Walk(E, idx) = Walk(A, idx)
  BY <1>1, <1>3, <1>4
<1>5. ASSUME \A k \in DOMAIN A : k[1] # idx PROVE Walk(E, idx) = Walk(B, idx)
  BY <1>1, <1>3, <1>5
<1> QED BY <1>4, <1>5 DEF E

(***************************************************************************)
(* The indexes of the multi-maps of a table carry its name.                *)
(***************************************************************************)
LEMMA NamedKeys ==
  ASSUME NEW t, NEW mm \in {RowMM(t), ColMM(t), ValueMM(t)}
  PROVE  /\ Paired(Setup(mm))
         /\ \A idx \in DOMAIN mm : idx[1] = t.name
         /\ \A k \in DOMAIN Setup(mm) : k[1][1] = t.name
<1>1. \A idx \in DOMAIN mm : idx[1] = t.name
  BY DEF RowMM, ColMM, ValueMM
<1> QED BY <1>1, SetupEntry DEF Paired

(***************************************************************************)
(* So what is read from the entries of both tables is what the one that is *)
(* named in the index has.                                                 *)
(***************************************************************************)
LEMMA ReadsBack ==
  ASSUME Given, NEW t \in {course, student}, NEW mm, NEW both,
         \/ mm = RowMM(t) /\ both = mmr
         \/ mm = ColMM(t) /\ both = mmc
         \/ mm = ValueMM(t) /\ both = mmv,
         NEW idx, idx[1] = t.name
  PROVE  /\ idx \in DOMAIN mm => Walk(both, idx) = mm[idx]
         /\ idx \notin DOMAIN mm => DOMAIN Walk(both, idx) = {}
<1>1. Walk(both, idx) = Walk(Setup(mm), idx)
  <2>1. PICK c \in {RowMM(course), ColMM(course), ValueMM(course)},
             s \in {RowMM(student), ColMM(student), ValueMM(student)} :
          both = Entries(Setup(c), Setup(s)) /\ mm = IF t = course THEN c ELSE s
    BY DEF mmr, mmc, mmv
  <2>2. /\ Paired(Setup(c)) /\ \A k \in DOMAIN Setup(c) : k[1][1] = course.name
        /\ Paired(Setup(s)) /\ \A k \in DOMAIN Setup(s) : k[1][1] = student.name
    BY NamedKeys
  <2>3. course.name # student.name /\ (t = course \/ t = student)
    BY GivenTables
  <2>4. CASE t = course
    <3>1. \A k \in DOMAIN Setup(s) : k[1] # idx
      BY <2>2, <2>3, <2>4
    <3> QED BY <2>1, <2>2, <2>4, <3>1, WalkEither
  <2>5. CASE t = student
    <3>1. \A k \in DOMAIN Setup(c) : k[1] # idx
      BY <2>2, <2>3, <2>5
    <3>2. mm = s
      BY <2>1, <2>3, <2>5
    <3> QED BY <2>1, <2>2, <3>1, <3>2, WalkEither
  <2> QED BY <2>3, <2>4, <2>5
<1>2. IsTable(t)
  BY GivenTables
<1>3. \A x \in DOMAIN mm : Gapless(mm[x]) /\ mm[x] = [i \in DOMAIN mm[x] |-> mm[x][i]]
  <2>1. CASE mm = RowMM(t)
    BY <1>2, <2>1, RowMMGapless DEF RowMM, RowVector
  <2>2. CASE mm = ColMM(t)
    BY <1>2, <2>2, ColMMGapless DEF ColMM, ColVector
  <2>3. CASE mm = ValueMM(t)
    <3>1. \A n, S : Postings(n, S) = [i \in DOMAIN Postings(n, S) |-> Postings(n, S)[i]]
      BY DEF Postings
    <3>2. \A x \in DOMAIN mm : mm[x] = Postings(t.name, RowsWith(t, x[2], x[3]))
      BY <2>3 DEF ValueMM
    <3>3. \A x \in DOMAIN mm : Gapless(mm[x])
      BY <1>2, <2>3, ValueMMGapless
    <3> QED BY <3>1, <3>2, <3>3
  <2> QED BY <2>1, <2>2, <2>3
<1> QED BY <1>1, <1>3, WalkReadsBack

(***************************************************************************)
(* A vector of postings read back as a sequence: each row of S once.       *)
(***************************************************************************)
Listed(tokens, name, S) ==
  /\ tokens \in Seq({name} \X S)
  /\ Len(tokens) = Cardinality(S)
  /\ OneToOne([i \in 1 .. Len(tokens) |-> tokens[i][2]], 1 .. Len(tokens), S)

\* The postings of a set of rows are listed so.
LEMMA PostingsListed ==
  ASSUME NEW name, NEW S \in SUBSET Nat, IsFiniteSet(S)
  PROVE  Listed(AsSequence(Postings(name, S)), name, S)
<1> DEFINE n == Cardinality(S)
           A == Ascending(S)
           q == AsSequence(Postings(name, S))
           b == [i \in 1 .. Len(q) |-> q[i][2]]
<1>1. /\ n \in Nat /\ DOMAIN A = 0 .. (n - 1)
      /\ \A s \in S : Rank(S, s) \in Nat /\ A[Rank(S, s)] = s
  BY AscendingIs
<1>2. \A k \in 0 .. (n - 1) : A[k] \in S /\ Rank(S, A[k]) = k
  <2>1. DOMAIN A = {Rank(S, s) : s \in S}
    BY DEF Ascending
  <2> HIDE DEF A, n
  <2> QED BY <1>1, <2>1
<1>3. \A s \in S : Rank(S, s) \in 0 .. (n - 1)
  <2>1. DOMAIN A = {Rank(S, s) : s \in S}
    BY DEF Ascending
  <2> HIDE DEF A, n
  <2> QED BY <1>1, <2>1
<1>4. q = [i \in 1 .. n |-> <<name, A[i - 1]>>]
  <2>1. DOMAIN Postings(name, S) = 0 .. (n - 1) /\ \A k \in 0 .. (n - 1) : Postings(name, S)[k] = <<name, A[k]>>
    BY <1>1 DEF Postings
  <2>2. Cardinality(DOMAIN Postings(name, S)) = n
    <3> HIDE DEF n
    <3>1. Cardinality(0 .. (n - 1)) = n
      BY <1>1, FS_Interval
    <3> QED BY <2>1, <3>1
  <2>3. \A i \in 1 .. n : i - 1 \in 0 .. (n - 1)
    BY <1>1
  <2> HIDE DEF n, A
  <2>4. q = [i \in 1 .. n |-> Postings(name, S)[i - 1]]
    BY <2>2 DEF AsSequence
  <2> HIDE DEF q
  <2> QED BY <2>1, <2>3, <2>4
<1> HIDE DEF n, A, q
<1>5. q \in Seq({name} \X S) /\ Len(q) = n
  <2>1. \A i \in 1 .. n : i - 1 \in 0 .. (n - 1)
    BY <1>1
  <2>2. \A i \in 1 .. n : <<name, A[i - 1]>> \in {name} \X S
    BY <1>2, <2>1
  <2> QED BY <1>1, <1>4, <2>2
<1>6. b = [i \in 1 .. n |-> A[i - 1]]
  BY <1>4, <1>5
<1> HIDE DEF b
<1>7. OneToOne(b, 1 .. n, S)
  <2>1. \A i \in 1 .. n : i - 1 \in 0 .. (n - 1) /\ b[i] = A[i - 1]
    BY <1>1, <1>6
  <2>2. b \in [1 .. n -> S]
    BY <1>2, <1>6, <2>1
  <2>3. ASSUME NEW x \in 1 .. n, NEW y \in 1 .. n, b[x] = b[y] PROVE x = y
    <3>1. x - 1 = y - 1
      BY <1>2, <2>1, <2>3
    <3> QED BY <1>1, <3>1
  <2>4. ASSUME NEW s \in S PROVE \E x \in 1 .. n : b[x] = s
    <3>1. Rank(S, s) + 1 \in 1 .. n /\ (Rank(S, s) + 1) - 1 = Rank(S, s)
      BY <1>1, <1>3
    <3> QED BY <1>1, <2>1, <3>1
  <2> QED BY <2>2, <2>3, <2>4 DEF OneToOne
<1> QED BY <1>5, <1>7 DEF Listed, q, b, n

(***************************************************************************)
(* A selection finds the rows with the text in the column.                 *)
(***************************************************************************)
LEMMA SelectionFinds ==
  ASSUME Given, NEW t \in {course, student}, NEW c \in Cols(t), NEW text
  PROVE  Listed(LookUp(mmv, <<t.name, c, text>>), t.name, RowsWith(t, c, text))
<1> DEFINE idx == <<t.name, c, text>>
           S == RowsWith(t, c, text)
<1>1. S \in SUBSET Nat /\ IsFiniteSet(S)
  BY GivenTables, FS_Subset DEF RowsWith
<1>2. idx[1] = t.name /\ idx[2] = c /\ idx[3] = text
  OBVIOUS
<1>3. /\ idx \in DOMAIN ValueMM(t) => Walk(mmv, idx) = ValueMM(t)[idx]
      /\ idx \notin DOMAIN ValueMM(t) => DOMAIN Walk(mmv, idx) = {}
  <2> HIDE DEF idx
  <2> QED BY <1>2, ReadsBack
<1>4. CASE idx \in DOMAIN ValueMM(t)
  <2>1. ValueMM(t)[idx] = Postings(t.name, S)
    BY <1>2, <1>4 DEF ValueMM
  <2>2. LookUp(mmv, idx) = AsSequence(Postings(t.name, S))
    BY <1>3, <1>4, <2>1 DEF LookUp
  <2> QED BY <1>1, <2>2, PostingsListed
<1>5. CASE idx \notin DOMAIN ValueMM(t)
  <2>1. S = {}
    <3> SUFFICES ASSUME NEW r \in S PROVE FALSE
      OBVIOUS
    <3>1. r \in Rows(t) /\ t.rows[r][c] = text
      BY DEF RowsWith
    <3>2. <<t.name, c, t.rows[r][c]>> \in DOMAIN ValueMM(t)
      BY <3>1 DEF ValueMM
    <3> QED BY <1>5, <3>1, <3>2
  <2>2. LookUp(mmv, idx) = <<>>
    <3>1. Cardinality(DOMAIN Walk(mmv, idx)) = 0
      BY <1>3, <1>5, FS_EmptySet
    <3> HIDE DEF idx
    <3> QED BY <3>1 DEF LookUp, AsSequence
  <2>3. Listed(<<>>, t.name, {})
    BY FS_EmptySet DEF Listed, OneToOne
  <2> HIDE DEF S, idx
  <2> QED BY <2>1, <2>2, <2>3 DEF S, idx
<1> QED BY <1>4, <1>5

-----------------------------------------------------------------------------
(***************************************************************************)
(* Numbers without a gap in ascending order.                               *)
(***************************************************************************)
LEMMA AscendingInterval ==
  ASSUME NEW a \in Nat, NEW n \in Nat
  PROVE  LET A == Ascending(a .. (a + n - 1))
         IN  DOMAIN A = 0 .. (n - 1) /\ \A k \in 0 .. (n - 1) : A[k] = a + k
<1> DEFINE S == a .. (a + n - 1)
           A == Ascending(S)
<1>1. S \in SUBSET Nat /\ IsFiniteSet(S) /\ Cardinality(S) = n
  <2>1. IsFiniteSet(S) /\ Cardinality(S) = IF a > a + n - 1 THEN 0 ELSE (a + n - 1) - a + 1
    BY FS_Interval
  <2> QED BY <2>1
<1> HIDE DEF A
<1>2. /\ DOMAIN A = 0 .. (n - 1)
      /\ \A s \in S : A[Rank(S, s)] = s
  <2> HIDE DEF S
  <2> QED BY <1>1, AscendingIs DEF A
<1>3. ASSUME NEW k \in 0 .. (n - 1) PROVE A[k] = a + k
  <2>1. a + k \in S
    OBVIOUS
  <2>2. {q \in S : q < a + k} = a .. (a + k - 1)
    OBVIOUS
  <2>3. Cardinality(a .. (a + k - 1)) = IF a > a + k - 1 THEN 0 ELSE (a + k - 1) - a + 1
    BY FS_Interval
  <2>4. Rank(S, a + k) = k
    <3>1. Cardinality(a .. (a + k - 1)) = k
      BY <2>3
    <3>2. Rank(S, a + k) = Cardinality({q \in S : q < a + k})
      BY DEF Rank
    <3> HIDE DEF S
    <3> QED BY <2>2, <3>1, <3>2
  <2> HIDE DEF S
  <2> QED BY <1>2, <2>1, <2>4
<1> QED BY <1>2, <1>3 DEF A

(***************************************************************************)
(* A column read back: the encrypted cells in the order of the rows.       *)
(***************************************************************************)
LEMMA ColumnFinds ==
  ASSUME Given, NEW t \in {course, student}, NEW c \in Cols(t), Encrypted(t, c)
  PROVE  /\ Cardinality(Rows(t)) \in Nat
         /\ Rows(t) = 0 .. (Cardinality(Rows(t)) - 1)
         /\ LookUp(mmc, <<t.name, c>>) = [i \in 1 .. Cardinality(Rows(t)) |-> Encrypt(t, i - 1, c)]
<1> DEFINE idx == <<t.name, c>>
           n == Cardinality(Rows(t))
<1>1. n \in Nat /\ Rows(t) = 0 .. (n - 1)
  BY GivenTables, FS_CardinalityType DEF IsTable
<1>2. idx \in DOMAIN ColMM(t) /\ ColMM(t)[idx] = ColVector(t, c)
  BY DEF ColMM
<1>3. Walk(mmc, idx) = ColMM(t)[idx]
  <2>1. idx[1] = t.name
    OBVIOUS
  <2> HIDE DEF idx
  <2> QED BY <1>2, <2>1, ReadsBack
<1>4. ColVector(t, c) = [r \in Rows(t) |-> Encrypt(t, r, c)]
  BY DEF ColVector
<1> HIDE DEF idx
<1>5. LookUp(mmc, idx) = AsSequence([r \in Rows(t) |-> Encrypt(t, r, c)])
  BY <1>2, <1>3, <1>4 DEF LookUp
<1> HIDE DEF n
<1>6. AsSequence([r \in Rows(t) |-> Encrypt(t, r, c)]) = [i \in 1 .. n |-> Encrypt(t, i - 1, c)]
  <2>1. \A i \in 1 .. n : i - 1 \in Rows(t)
    BY <1>1
  <2> QED BY <2>1 DEF AsSequence, n
<1> QED BY <1>1, <1>5, <1>6 DEF idx, n

(***************************************************************************)
(* An entry of mmr for a whole row.                                        *)
(***************************************************************************)
LEMMA RowEntry ==
  ASSUME Given, NEW t \in {course, student}, RowsWhole(t), NEW r \in Rows(t), NEW c \in Cols(t)
  PROVE  <<<<t.name, r>>, c>> \in DOMAIN mmr /\ mmr[<<<<t.name, r>>, c>>] = Encrypt(t, r, c)
<1> DEFINE idx == <<t.name, r>>
           k == <<idx, c>>
           mm == RowMM(t)
           n == Cardinality(Cols(t))
           A == Ascending(Cols(t))
<1>1. n \in Nat /\ Cols(t) = 0 .. (n - 1)
  BY GivenTables, FS_CardinalityType DEF IsTable
<1>2. DOMAIN A = Cols(t) /\ A[c] = c
  <2> HIDE DEF n
  <2>1. 0 .. (n - 1) = 0 .. (0 + n - 1) /\ 0 + c = c
    BY <1>1
  <2>2. DOMAIN A = 0 .. (n - 1) /\ \A j \in 0 .. (n - 1) : A[j] = 0 + j
    BY <1>1, <2>1, AscendingInterval
  <2> HIDE DEF A
  <2> QED BY <1>1, <2>1, <2>2
<1>3. {j \in Cols(t) : Encrypted(t, j)} = Cols(t)
  BY DEF RowsWhole
<1>4. RowVector(t, r) = [j \in Cols(t) |-> Encrypt(t, r, A[j])]
  BY <1>2, <1>3 DEF RowVector
<1>5. idx \in DOMAIN mm /\ c \in DOMAIN mm[idx] /\ mm[idx][c] = Encrypt(t, r, c)
  <2>1. idx \in DOMAIN mm /\ mm[idx] = RowVector(t, r)
    BY DEF RowMM
  <2> HIDE DEF idx, mm, A
  <2> QED BY <1>2, <1>4, <2>1
<1>6. k \in DOMAIN Setup(mm) /\ Setup(mm)[k] = mm[idx][c]
  <2>1. k \in DOMAIN Setup(mm)
    <3> HIDE DEF mm, idx
    <3> QED BY <1>5 DEF Setup
  <2>2. Setup(mm)[k] = mm[k[1]][k[2]]
    <3> HIDE DEF k, mm
    <3> QED BY <2>1, SetupEntry
  <2> QED BY <2>1, <2>2
<1>7. /\ \A j \in DOMAIN Setup(RowMM(course)) : j[1][1] = course.name
      /\ \A j \in DOMAIN Setup(RowMM(student)) : j[1][1] = student.name
      /\ course.name # student.name
  BY NamedKeys, GivenTables
<1>8. k[1][1] = t.name
  OBVIOUS
<1> HIDE DEF k
<1>9. k \in DOMAIN mmr /\ mmr[k] = Setup(mm)[k]
  BY <1>6, <1>7, <1>8 DEF mmr, Entries
<1> QED BY <1>5, <1>6, <1>9 DEF k

(***************************************************************************)
(* The projection of whole rows: the cell of each of them.                 *)
(***************************************************************************)
LEMMA ProjectionFinds ==
  ASSUME Given, NEW t \in {course, student}, RowsWhole(t), NEW c \in Cols(t),
         NEW tokens \in Seq({t.name} \X Rows(t))
  PROVE  Project(tokens, c) = [i \in 1 .. Len(tokens) |-> Encrypt(t, tokens[i][2], c)]
<1> DEFINE n == Len(tokens)
           H == {i \in DOMAIN tokens : <<tokens[i], c>> \in DOMAIN mmr}
           A == Ascending(H)
           F(i) == Encrypt(t, tokens[i][2], c)
<1>1. n \in Nat /\ DOMAIN tokens = 1 .. n
  OBVIOUS
<1>2. ASSUME NEW i \in 1 .. n
      PROVE  <<tokens[i], c>> \in DOMAIN mmr /\ mmr[<<tokens[i], c>>] = F(i)
  <2>1. tokens[i] = <<t.name, tokens[i][2]>> /\ tokens[i][2] \in Rows(t)
    <3>1. tokens[i] \in {t.name} \X Rows(t)
      BY <1>2
    <3> QED BY <3>1
  <2> QED BY <2>1, RowEntry
<1>3. H = 1 .. n
  BY <1>1, <1>2
<1> HIDE DEF n, H
<1>4. DOMAIN A = 0 .. (n - 1) /\ \A k \in 0 .. (n - 1) : A[k] = 1 + k
  <2>1. 1 .. n = 1 .. (1 + n - 1)
    BY <1>1
  <2> QED BY <1>1, <1>3, <2>1, AscendingInterval
<1> DEFINE v == [k \in DOMAIN A |-> mmr[<<tokens[A[k]], c>>]]
<1>5. Project(tokens, c) = AsSequence(v)
  BY DEF Project, H
<1>6. Cardinality(DOMAIN v) = n
  <2>1. Cardinality(0 .. (n - 1)) = n
    BY <1>1, FS_Interval
  <2> HIDE DEF A
  <2> QED BY <1>4, <2>1
<1>7. \A i \in 1 .. n : v[i - 1] = F(i)
  <2> SUFFICES ASSUME NEW i \in 1 .. n PROVE v[i - 1] = F(i)
    OBVIOUS
  <2>1. i - 1 \in 0 .. (n - 1) /\ 1 + (i - 1) = i
    BY <1>1
  <2> HIDE DEF A, F
  <2>2. v[i - 1] = mmr[<<tokens[A[i - 1]], c>>] /\ A[i - 1] = i
    BY <1>4, <2>1
  <2>3. mmr[<<tokens[i], c>>] = F(i)
    BY <1>2
  <2> QED BY <2>2, <2>3
<1> HIDE DEF v
<1>8. AsSequence(v) = [i \in 1 .. n |-> F(i)]
  BY <1>6, <1>7 DEF AsSequence
<1> QED BY <1>5, <1>8 DEF n

(***************************************************************************)
(* What the server makes of one stage with the temporary table of the      *)
(* stage before, and so of the first k stages of a plan.                   *)
(***************************************************************************)
Output(stage, before) ==
  CASE stage.op \in {"select", "sigma"} -> LookUp(mmv, stage.arg)
    [] stage.op = "join" ->
         IF before # NoTable /\ stage.arg = JoinTable THEN LookUpAll(mmjoin, before) ELSE NoTable
    [] stage.op = "projection" ->
         IF before # NoTable /\ stage.arg # NoColumn THEN Project(before, stage.arg) ELSE NoTable
    [] stage.op = "sum" -> Sum(LookUp(mmc, stage.arg))

Result(stages, k) ==
  CASE k = 0 -> NoTable
    [] k = 1 -> Output(stages[1], NoTable)
    [] k = 2 -> Output(stages[2], Output(stages[1], NoTable))
    [] k = 3 -> Output(stages[3], Output(stages[2], Output(stages[1], NoTable)))

Decrypted(table, type) == [i \in DOMAIN table |-> <<Decrypt(table[i], type)>>]

(***************************************************************************)
(* The inductive invariant: the plan is the one the query has for what the *)
(* process knows, its stages have been carried out up to the next one, and *)
(* an answer is what the last one left, decrypted.                         *)
(***************************************************************************)
Carried ==
  LET n == Len(plan.stages)
      k == IF at <= n + 1 THEN at - 1 ELSE n
  IN  /\ plan = parseSql(Meta, query) /\ plan # Undefined
      /\ n \in 1 .. 3 /\ at \in 1 .. (n + 2) /\ k \in 0 .. n
      /\ tmp = Result(plan.stages, k)
      /\ answer # NotRun => at = n + 2 /\ tmp # NoTable /\ answer = Decrypted(tmp, plan.type)

QueryInv ==
  /\ Given
  /\ \/ at = 0 /\ tmp = NoTable /\ answer = NotRun
     \/ Carried

(***************************************************************************)
(* Every plan has one to three stages.                                     *)
(***************************************************************************)
LEMMA PlansAreShort ==
  ASSUME NEW meta, NEW q, parseSql(meta, q) # Undefined
  PROVE  Len(parseSql(meta, q).stages) \in 1 .. 3
<1> DEFINE p == parseSql(meta, q)
<1>1. CASE p = JoinPlan(meta, q)
  <2>1. PICK a, b, c, type : p = Plan(<<a, b, c>>, type)
    BY <1>1 DEF JoinPlan
  <2>2. p.stages = <<a, b, c>>
    BY <2>1 DEF Plan
  <2> HIDE DEF p
  <2>3. Len(p.stages) = 3
    BY <2>2
  <2> QED BY <2>3 DEF p
<1>2. CASE p = SumPlan(meta, q)
  BY <1>2 DEF SumPlan, Plan, Stage
<1>3. CASE p = SelectPlan(meta, q)
  BY <1>3 DEF SelectPlan, Plan, Stage
<1> QED BY <1>1, <1>2, <1>3 DEF parseSql

(***************************************************************************)
(* What a stage yields depends on nothing that a step changes.             *)
(***************************************************************************)
LEMMA SameResults ==
  ASSUME UNCHANGED <<course, student, known, query>>
  PROVE  /\ Given' = Given /\ Meta' = Meta
         /\ \A stages, k : Result(stages, k)' = Result(stages, k)
<1>1. Given' = Given
  BY DEF Given
<1>2. Meta' = Meta
  BY DEF Meta
<1>3. mmr' = mmr /\ mmv' = mmv /\ mmc' = mmc /\ mmjoin' = mmjoin /\ JoinTable' = JoinTable
  BY DEF mmr, mmv, mmc, mmjoin, JoinTable
<1>4. \A tokens, col : Project(tokens, col)' = Project(tokens, col)
  BY <1>3 DEF Project
<1>5. \A stage, before : Output(stage, before)' = Output(stage, before)
  BY <1>3, <1>4 DEF Output
<1>6. \A stages, k : Result(stages, k)' = Result(stages, k)
  BY <1>5 DEF Result
<1> QED BY <1>1, <1>2, <1>6

\* Before the query is parsed nothing is carried out.
LEMMA QueryInvInitially ==
  Init => QueryInv
BY DEF Init, QueryInv, Given

(***************************************************************************)
(* Parsing begins with no stage done, a stage takes the place of the one   *)
(* before it, and decryption ends the query.                               *)
(***************************************************************************)
LEMMA QueryInvPreserved ==
  QueryInv /\ [Next]_vars => QueryInv'
<1> SUFFICES ASSUME QueryInv, [Next]_vars PROVE QueryInv'
  OBVIOUS
<1> USE DEF QueryInv
<1>1. /\ UNCHANGED <<course, student, known, query>>
      /\ Given' = Given /\ Meta' = Meta
      /\ \A stages, k : Result(stages, k)' = Result(stages, k)
  <2>1. UNCHANGED <<course, student, known, query>>
    BY DEF Next, Parse, RunStage, decryptedResult, vars
  <2> QED BY <2>1, SameResults
<1>2. CASE Parse
  <2>1. plan' = parseSql(Meta, query) /\ plan' # Undefined /\ at' = 1 /\ tmp' = tmp /\ answer' = answer
    BY <1>2 DEF Parse
  <2>2. Len(plan'.stages) \in 1 .. 3
    BY <2>1, PlansAreShort
  <2>3. at = 0 /\ tmp = NoTable /\ answer = NotRun
    BY <1>2 DEF Carried, Parse
  <2>4. Carried'
    BY <1>1, <2>1, <2>2, <2>3 DEF Carried, Result
  <2> QED BY <1>1, <2>4
<1>3. CASE RunStage
  <2> DEFINE n == Len(plan.stages)
             st == plan.stages
  <2>1. /\ at > 0 /\ at <= n /\ at' = at + 1 /\ plan' = plan /\ answer' = answer
        /\ tmp' = Outcome(st[at])
    BY <1>3 DEF RunStage
  <2>2. n \in 1 .. 3 /\ at \in 1 .. n /\ plan = parseSql(Meta, query) /\ plan # Undefined
    BY <2>1 DEF Carried
  <2>3. tmp = Result(st, at - 1) /\ answer = NotRun
    BY <2>1, <2>2 DEF Carried
  <2>4. Outcome(st[at]) = Output(st[at], tmp)
    BY DEF Outcome, Output
  <2>5. Output(st[at], Result(st, at - 1)) = Result(st, at)
    BY <2>2 DEF Result
  <2>6. tmp' = Result(st, at)
    BY <2>1, <2>3, <2>4, <2>5
  <2>7. at' <= n + 1 /\ at' - 1 = at /\ at' \in 1 .. (n + 2) /\ at \in 0 .. n
    <3> HIDE DEF n, st
    <3> QED BY <2>1, <2>2
  <2>8. Carried'
    BY <1>1, <2>1, <2>2, <2>3, <2>6, <2>7 DEF Carried
  <2> QED BY <1>1, <2>8
<1>4. CASE decryptedResult
  BY <1>1, <1>4 DEF decryptedResult, Carried, Decrypted
<1>5. CASE UNCHANGED vars
  BY <1>1, <1>5 DEF vars, Carried
<1> QED BY <1>2, <1>3, <1>4, <1>5 DEF Next

-----------------------------------------------------------------------------
(***************************************************************************)
(* A text that names a column names one of a stored table, and the planner *)
(* finds it if the process knows the table.                                *)
(***************************************************************************)
LEMMA QueryTablesStored ==
  ASSUME Given
  PROVE  /\ QueryTables \subseteq {course.name, student.name}
         /\ \A name \in QueryTables : TableNamed(name) \in {course, student} /\ TableNamed(name).name = name
<1>1. ToSet(query.from) \cup {join.table : join \in ToSet(query.joins)} \subseteq {course.name, student.name}
  BY QueriesAssumption DEF Given
<1>2. QueryTables \subseteq {course.name, student.name}
  BY <1>1 DEF QueryTables, ToSet
<1> QED BY <1>2 DEF TableNamed

\* Its only place, and what FindColumn finds.
LEMMA ColumnPlace ==
  ASSUME Given, NEW text, IsColumn(text)
  PROVE  LET p == Place(text)
             t == TableNamed(p[1])
         IN  /\ Places(text) = {p} /\ p = <<p[1], p[2]>> /\ p[1] \in QueryTables
             /\ t \in {course, student} /\ t.name = p[1] /\ p[2] \in Cols(t)
             /\ Qualified(text) => text[1] = p[1]
             /\ FindColumn(ColumnsOf(Meta, p[1]), Last(text)) = IF p[1] \in known THEN p[2] ELSE NoColumn
             /\ p[1] \in known => Meta[p[1]] = t
<1> DEFINE p == Place(text)
           t == TableNamed(p[1])
<1>1. Places(text) = {p}
  BY DEF IsColumn, Place
<1>2. p \in Places(text)
  BY <1>1
<1> HIDE DEF p
<1>3. /\ p = <<p[1], p[2]>> /\ p[1] \in QueryTables /\ p[2] \in Cols(t)
      /\ t.columns[p[2]] = Last(text) /\ (Qualified(text) => text[1] = p[1])
  BY <1>2 DEF Places
<1>4. t \in {course, student} /\ t.name = p[1]
  BY <1>3, QueryTablesStored
<1>5. DOMAIN t.columns = Cols(t) /\ Cols(t) \in SUBSET Nat
  BY <1>4, GivenTables
<1>6. ASSUME NEW j \in Cols(t), t.columns[j] = Last(text) PROVE j = p[2]
  <2>1. <<p[1], j>> \in QueryTables \X (Cols(course) \cup Cols(student))
    BY <1>3, <1>4
  <2>2. <<p[1], j>> \in Places(text)
    BY <1>3, <1>6, <2>1 DEF Places
  <2> QED BY <1>1, <2>2
<1>7. FindColumn(t.columns, Last(text)) = p[2]
  <2>1. {i \in DOMAIN t.columns : t.columns[i] = Last(text)} = {p[2]}
    BY <1>3, <1>5, <1>6
  <2>2. p[2] <= p[2]
    BY <1>3, <1>5
  <2> HIDE DEF t
  <2> QED BY <2>1, <2>2 DEF FindColumn
<1>8. FindColumn(NoColumns, Last(text)) = NoColumn
  BY DEF FindColumn, NoColumns
<1>9. DOMAIN Meta = known /\ (p[1] \in known => Meta[p[1]] = t)
  BY DEF Meta, TableNamed
<1>10. ColumnsOf(Meta, p[1]) = IF p[1] \in known THEN t.columns ELSE NoColumns
  BY <1>9 DEF ColumnsOf
<1>11. FindColumn(ColumnsOf(Meta, p[1]), Last(text)) = IF p[1] \in known THEN p[2] ELSE NoColumn
  BY <1>7, <1>8, <1>10
<1> QED BY <1>1, <1>3, <1>4, <1>9, <1>11 DEF p

(***************************************************************************)
(* A row chosen in one table has, under OnePartner, exactly one choice of  *)
(* rows that satisfies the conditions after ON.                            *)
(***************************************************************************)
LEMMA PartnersChosen ==
  ASSUME NEW name \in QueryTables, OnePartner(name)
  PROVE  \E b : /\ OneToOne(b, Rows(TableNamed(name)), {choice \in RowChoices : Joined(choice)})
                /\ \A r \in Rows(TableNamed(name)) : b[r][name] = r
<1> DEFINE S == Rows(TableNamed(name))
           T == {choice \in RowChoices : Joined(choice)}
           Partners(r) == {choice \in RowChoices : choice[name] = r /\ Joined(choice)}
           b == [r \in S |-> CHOOSE choice \in T : choice[name] = r]
<1>1. ASSUME NEW r \in S
      PROVE  b[r] \in T /\ b[r][name] = r /\ \A u \in T : u[name] = r => u = b[r]
  <2>1. PICK choice \in Partners(r) : Partners(r) = {choice}
    BY DEF OnePartner
  <2>2. choice \in T /\ choice[name] = r
    BY <2>1
  <2>3. \A u \in T : u[name] = r => u = choice
    BY <2>1
  <2> HIDE DEF T
  <2> QED BY <2>2, <2>3
<1>2. \A u \in T : u[name] \in S
  BY DEF RowChoices
<1> HIDE DEF b, S, T
<1>3. OneToOne(b, S, T)
  <2>1. b \in [S -> T]
    BY <1>1 DEF b
  <2> QED BY <1>1, <1>2, <2>1 DEF OneToOne
<1> QED BY <1>1, <1>3 DEF S, T

(***************************************************************************)
(* Without JOIN and with one table after FROM there is nothing to pair.    *)
(***************************************************************************)
LEMMA AlonePartner ==
  ASSUME Given, query.joins = <<>>, Len(query.from) = 1
  PROVE  QueryTables = {query.from[1]} /\ OnePartner(query.from[1])
<1> DEFINE name == query.from[1]
           S == Rows(TableNamed(name))
<1>1. QueryTables = {name}
  <2>1. query.from \in Seq(ToSet(query.from))
    BY QueriesAssumption DEF Given, IsQuery
  <2>2. DOMAIN query.from = {1}
    BY <2>1
  <2>3. ToSet(query.from) = {name}
    BY <2>2 DEF ToSet
  <2>4. {query.joins[i].table : i \in DOMAIN query.joins} = {}
    OBVIOUS
  <2> QED BY <2>3, <2>4 DEF QueryTables
<1>2. TableNamed(name) \in {course, student}
  BY <1>1, QueryTablesStored
<1>3. \A choice : Joined(choice)
  BY DEF Joined
<1>4. RowChoices = [{name} -> S]
  <2>1. S \subseteq Rows(course) \cup Rows(student)
    BY <1>2
  <2> HIDE DEF name
  <2> QED BY <1>1, <2>1 DEF RowChoices
<1>5. ASSUME NEW r \in S
      PROVE  LET partners == {choice \in RowChoices : choice[name] = r /\ Joined(choice)}
             IN  \E choice \in partners : partners = {choice}
  <2> HIDE DEF name, S
  <2> DEFINE one == [n \in {name} |-> r]
  <2>1. one \in [{name} -> S] /\ one[name] = r
    OBVIOUS
  <2>2. \A choice \in [{name} -> S] : choice[name] = r => choice = one
    OBVIOUS
  <2> DEFINE partners == {choice \in RowChoices : choice[name] = r /\ Joined(choice)}
  <2> HIDE DEF one
  <2>3. one \in partners
    BY <1>3, <1>4, <2>1
  <2>4. \A choice \in partners : choice = one
    BY <1>4, <2>2
  <2> HIDE DEF partners
  <2>5. partners = {one}
    BY <2>3, <2>4
  <2> QED BY <2>3, <2>5 DEF partners
<1> QED BY <1>1, <1>5 DEF OnePartner

-----------------------------------------------------------------------------
(***************************************************************************)
(* Bijections one after the other, and on a part of their domain.          *)
(***************************************************************************)
LEMMA OneToOneThen ==
  ASSUME NEW S, NEW T, NEW U, NEW f, NEW g, OneToOne(f, S, T), OneToOne(g, T, U)
  PROVE  OneToOne([x \in S |-> g[f[x]]], S, U)
<1>1. f \in [S -> T] /\ g \in [T -> U]
  BY DEF OneToOne
<1>2. \A u \in U : \E x \in S : g[f[x]] = u
  BY DEF OneToOne
<1>3. \A x, y \in S : g[f[x]] = g[f[y]] => x = y
  BY <1>1 DEF OneToOne
<1> QED BY <1>1, <1>2, <1>3 DEF OneToOne

\* The restriction to the elements with images in R.
LEMMA OneToOneWithin ==
  ASSUME NEW S, NEW T, NEW f, OneToOne(f, S, T), NEW Q \in SUBSET S, NEW R \in SUBSET T,
         \A x \in S : x \in Q <=> f[x] \in R
  PROVE  OneToOne([x \in Q |-> f[x]], Q, R)
BY DEF OneToOne

(***************************************************************************)
(* An answer that pairs its rows with the solutions of the query, each row *)
(* with one that means it, has every row as often as the query means it.   *)
(***************************************************************************)
LEMMA PairedRowsAreRight ==
  ASSUME query.sum = NoColumn, NEW n \in Nat, NEW b, OneToOne(b, 1 .. n, Solutions),
         answer = [i \in 1 .. n |-> AnswerRow(b[i])]
  PROVE  RightAnswer
<1>1. IsFiniteSet(1 .. n) /\ Cardinality(1 .. n) = n
  BY FS_Interval
<1>2. Len(answer) = n /\ DOMAIN answer = 1 .. n
  OBVIOUS
<1>3. Len(answer) = Cardinality(Solutions)
  BY <1>1, <1>2, OneToOneSizes
<1>4. ASSUME NEW s \in Solutions
      PROVE  Cardinality({i \in DOMAIN answer : answer[i] = AnswerRow(s)})
               = Cardinality({u \in Solutions : AnswerRow(u) = AnswerRow(s)})
  <2> DEFINE Q == {i \in DOMAIN answer : answer[i] = AnswerRow(s)}
             R == {u \in Solutions : AnswerRow(u) = AnswerRow(s)}
  <2>1. Q \in SUBSET (1 .. n) /\ R \in SUBSET Solutions
    BY <1>2
  <2>2. \A i \in 1 .. n : i \in Q <=> b[i] \in R
    BY <1>2 DEF OneToOne
  <2> HIDE DEF Q, R
  <2>3. OneToOne([x \in Q |-> b[x]], Q, R)
    BY <2>1, <2>2, OneToOneWithin
  <2>4. IsFiniteSet(Q)
    BY <1>1, <2>1, FS_Subset
  <2> QED BY <2>3, <2>4, OneToOneSizes DEF Q, R
<1> QED BY <1>3, <1>4 DEF RightAnswer

(***************************************************************************)
(* A sequence with one element, and one with two.                          *)
(***************************************************************************)
LEMMA ShortSequences ==
  ASSUME NEW S, NEW s \in Seq(S)
  PROVE  /\ Len(s) = 1 => s = <<s[1]>> /\ DOMAIN s = {1} /\ s # <<>> /\ Last(s) = s[1]
         /\ Len(s) = 2 => DOMAIN s = {1, 2} /\ s # <<>> /\ Last(s) = s[2]
         /\ s # <<>> /\ ~(Len(s) > 1) => Len(s) = 1
<1>1. ASSUME Len(s) = 1 PROVE s = <<s[1]>> /\ DOMAIN s = {1} /\ s # <<>>
  <2>1. DOMAIN s = {1} /\ s # <<>>
    BY <1>1
  <2>2. s = <<s[1]>>
    BY <1>1
  <2> QED BY <2>1, <2>2
<1>2. ASSUME Len(s) = 2 PROVE DOMAIN s = {1, 2} /\ s # <<>>
  <2>1. s # <<>>
    BY <1>2
  <2>2. DOMAIN s = 1 .. 2
    BY <1>2
  <2> QED BY <2>1, <2>2
<1>3. s # <<>> => Len(s) \in Nat /\ Len(s) # 0
  BY EmptySeq
<1>4. Last(s) = s[Len(s)]
  BY DEF Last
<1>5. s # <<>> /\ ~(Len(s) > 1) => Len(s) = 1
  <2>1. \A n \in Nat : n # 0 /\ ~(n > 1) => n = 1
    OBVIOUS
  <2> QED BY <1>3, <2>1, Zenon
<1>6. Len(s) = 1 => s = <<s[1]>> /\ DOMAIN s = {1} /\ s # <<>> /\ Last(s) = s[1]
  BY <1>1, <1>4, Zenon
<1>7. Len(s) = 2 => DOMAIN s = {1, 2} /\ s # <<>> /\ Last(s) = s[2]
  <2> SUFFICES ASSUME Len(s) = 2 PROVE DOMAIN s = {1, 2} /\ s # <<>> /\ Last(s) = s[2]
    OBVIOUS
  <2>1. Last(s) = s[2]
    BY <1>4
  <2> QED BY <1>2, <2>1
<1> QED BY <1>5, <1>6, <1>7, Zenon

\* A token and a literal joined to an index.
LEMMA TwoThenOne ==
  ASSUME NEW a, NEW b, NEW c
  PROVE  <<a, b>> \o <<c>> = <<a, b, c>>
<1> DEFINE S == {a, b, c}
           s == <<a, b>> \o <<c>>
<1>1. <<a, b>> \in Seq(S) /\ <<c>> \in Seq(S) /\ <<a, b, c>> \in Seq(S)
  OBVIOUS
<1>2. s \in Seq(S) /\ Len(s) = 3
  BY <1>1
<1>3. s[1] = a /\ s[2] = b /\ s[3] = c
  BY <1>1
<1> HIDE DEF s
<1>4. \A i \in 1 .. 3 : s[i] = <<a, b, c>>[i]
  BY <1>3
<1>5. s = <<a, b, c>>
  BY <1>1, <1>2, <1>4, SeqEqual
<1> QED BY <1>5 DEF s

(***************************************************************************)
(* The row of an answer is the projected cell, decrypted for its type.     *)
(***************************************************************************)
LEMMA RowDecrypted ==
  ASSUME Given, Len(query.select) = 1, IsColumn(query.select[1]),
         Encrypted(TableNamed(Place(query.select[1])[1]), Place(query.select[1])[2]), NEW choice
  PROVE  LET p == Place(query.select[1])
         IN  AnswerRow(choice) = <<Decrypt(Encrypt(TableNamed(p[1]), choice[p[1]], p[2]), TypeOf(p))>>
<1> DEFINE p == Place(query.select[1])
           t == TableNamed(p[1])
           r == choice[p[1]]
<1>1. DOMAIN query.select = {1}
  <2>1. query.select \in Seq(ToSet(query.select))
    BY QueriesAssumption DEF Given, IsQuery
  <2> QED BY <2>1, ShortSequences
<1>2. AnswerRow(choice) = <<Value(p, choice)>>
  BY <1>1 DEF AnswerRow
<1>3. Value(p, choice) = Decrypt(Encrypt(t, r, p[2]), TypeOf(p))
  <2>1. CASE TypeOf(p) = "int"
    BY <2>1 DEF Value, Decrypt, Encrypt, TypeOf, Cell
  <2>2. CASE TypeOf(p) = "string"
    BY <2>2 DEF Value, Decrypt, Encrypt, TypeOf, Cell
  <2> QED BY <2>1, <2>2 DEF Encrypted, TypeOf
<1> QED BY <1>2, <1>3

-----------------------------------------------------------------------------
(***************************************************************************)
(* What stands for nothing is nothing else: no plan is Undefined, and no   *)
(* table is NoTable.                                                       *)
(***************************************************************************)
NothingElse ==
  /\ \A stages, type : Plan(stages, type) # Undefined
  /\ \A S : \A s \in Seq(S) : s # NoTable

(***************************************************************************)
(* A supported selection is planned when the process knows the table, and  *)
(* only then.                                                              *)
(***************************************************************************)
LEMMA SelectPlanned ==
  ASSUME Given, SupportedSelect
  PROVE  LET name == FirstTable(query)
             c == Place(query.where[1][1])[2]
             d == Place(query.select[1])[2]
             text == query.where[1][2][1]
         IN  /\ name \in known =>
                  parseSql(Meta, query) =
                    Plan(<<Stage("select", <<name, c, text>>), Stage("projection", d)>>,
                         TableNamed(name).types[d])
             /\ name \notin known => parseSql(Meta, query) = Undefined
<1> DEFINE name == FirstTable(query)
           w == query.where[1][1]
           v == query.where[1][2]
           a == query.select[1]
           c == Place(w)[2]
           d == Place(a)[2]
           column(text) == IF Qualified(text) THEN NoColumn ELSE FindColumn(ColumnsOf(Meta, name), text[1])
<1>1. /\ IsText(w) /\ IsText(v) /\ IsText(a)
      /\ DOMAIN query.where = {1} /\ query.where # <<>> /\ query.select # <<>>
  <2>1. query.where \in Seq(ToSet(query.where)) /\ query.select \in Seq(ToSet(query.select))
    BY QueriesAssumption DEF Given, IsQuery
  <2>2. DOMAIN query.where = {1} /\ DOMAIN query.select = {1} /\ query.where # <<>> /\ query.select # <<>>
    BY <2>1, ShortSequences DEF SupportedSelect
  <2>3. query.where[1] \in ToSet(query.where) /\ query.select[1] \in ToSet(query.select)
    BY <2>2 DEF ToSet
  <2> QED BY <2>2, <2>3, QueriesAssumption DEF Given, IsQuery
<1>2. /\ ~Qualified(w) /\ ~Qualified(a) /\ IsColumn(w) /\ IsColumn(a)
      /\ Place(w)[1] = name /\ Place(a)[1] = name /\ Len(v) = 1 /\ query.sum = NoColumn
  BY DEF SupportedSelect, IsLiteral
<1>3. Last(w) = w[1] /\ Last(a) = a[1] /\ v = <<v[1]>>
  <2>1. Len(w) = 1 /\ Len(a) = 1
    BY <1>1, <1>2, ShortSequences DEF IsText, Qualified
  <2> QED BY <1>1, <1>2, <2>1, ShortSequences DEF IsText
<1>4. /\ column(w) = IF name \in known THEN c ELSE NoColumn
      /\ column(a) = IF name \in known THEN d ELSE NoColumn
      /\ name \in known => Meta[name] = TableNamed(name)
  <2>1. /\ FindColumn(ColumnsOf(Meta, name), w[1]) = IF name \in known THEN c ELSE NoColumn
        /\ name \in known => Meta[name] = TableNamed(name)
    BY <1>2, <1>3, ColumnPlace
  <2>2. FindColumn(ColumnsOf(Meta, name), a[1]) = IF name \in known THEN d ELSE NoColumn
    BY <1>2, <1>3, ColumnPlace
  <2> QED BY <1>2, <2>1, <2>2
<1>5. c \in Nat /\ d \in Nat /\ c # NoColumn /\ d # NoColumn
  <2>1. c \in Cols(TableNamed(name)) /\ d \in Cols(TableNamed(name)) /\ TableNamed(name) \in {course, student}
    BY <1>2, ColumnPlace
  <2> QED BY <2>1, GivenTables, QueriesAssumption
<1>6. parseSql(Meta, query) = SelectPlan(Meta, query)
  <2>1. ~IsJoinCondition(query.where[1])
    BY <1>2 DEF IsJoinCondition, Qualified
  <2> QED BY <1>1, <1>2, <2>1 DEF parseSql, IsJoin
<1>7. Conditions(Meta, query)[1][2] = <<v[1]>>
  <2>1. Conditions(Meta, query)[1][2] = ResolveSide(Meta, v)
    BY <1>1 DEF Conditions
  <2>2. ~(Len(v) > 1)
    BY <1>2
  <2> HIDE DEF v
  <2> QED BY <1>3, <2>1, <2>2 DEF ResolveSide, Qualified
<1>8. SelectPlan(Meta, query) =
        IF NoColumn \in {column(w), column(a)} THEN Undefined
        ELSE Plan(<<Stage("select", <<name, column(w)>> \o Conditions(Meta, query)[1][2]),
                    Stage("projection", column(a))>>, Meta[name].types[column(a)])
  BY <1>1 DEF SelectPlan
<1> HIDE DEF name, w, v, a, c, d, column
<1>9. ASSUME name \in known
      PROVE  SelectPlan(Meta, query) =
               Plan(<<Stage("select", <<name, c, v[1]>>), Stage("projection", d)>>, TableNamed(name).types[d])
  <2>1. <<name, c>> \o <<v[1]>> = <<name, c, v[1]>>
    BY TwoThenOne
  <2> QED BY <1>4, <1>5, <1>7, <1>8, <1>9, <2>1
<1>10. ASSUME name \notin known PROVE SelectPlan(Meta, query) = Undefined
  BY <1>4, <1>8, <1>10
<1> QED BY <1>6, <1>9, <1>10 DEF name, w, v, a, c, d

(***************************************************************************)
(* What the stages of a supported selection leave: the tokens of the rows  *)
(* with the text, and a cell of each.                                      *)
(***************************************************************************)
LEMMA SelectStages ==
  ASSUME NothingElse, Given, SupportedSelect, FirstTable(query) \in known
  PROVE  LET name == FirstTable(query)
             t == TableNamed(name)
             c == Place(query.where[1][1])[2]
             d == Place(query.select[1])[2]
             text == query.where[1][2][1]
             p == parseSql(Meta, query)
             tokens == Result(p.stages, 1)
         IN  /\ p # Undefined /\ Len(p.stages) = 2 /\ p.type = t.types[d]
             /\ Listed(tokens, name, RowsWith(t, c, text))
             /\ Result(p.stages, 2) = [i \in 1 .. Len(tokens) |-> Encrypt(t, tokens[i][2], d)]
             /\ tokens # NoTable /\ Result(p.stages, 2) # NoTable
<1> DEFINE name == FirstTable(query)
           t == TableNamed(name)
           c == Place(query.where[1][1])[2]
           d == Place(query.select[1])[2]
           text == query.where[1][2][1]
           p == parseSql(Meta, query)
           first == Stage("select", <<name, c, text>>)
           second == Stage("projection", d)
           tokens == LookUp(mmv, <<name, c, text>>)
           S == RowsWith(t, c, text)
<1>1. /\ t \in {course, student} /\ t.name = name /\ c \in Cols(t) /\ d \in Cols(t)
      /\ RowsWhole(t) /\ d # NoColumn
  <2>1. /\ IsColumn(query.where[1][1]) /\ Place(query.where[1][1])[1] = name
        /\ IsColumn(query.select[1]) /\ Place(query.select[1])[1] = name /\ RowsWhole(t)
    BY DEF SupportedSelect
  <2>2. t \in {course, student} /\ t.name = name /\ c \in Cols(t) /\ d \in Cols(t)
    BY <2>1, ColumnPlace
  <2> QED BY <2>1, <2>2, GivenTables, QueriesAssumption
<1>2. p = Plan(<<first, second>>, t.types[d])
  BY SelectPlanned
<1> HIDE DEF name, t, c, d, text, p
<1>3. Listed(tokens, name, S)
  BY <1>1, SelectionFinds
<1>4. tokens \in Seq({name} \X Rows(t)) /\ tokens # NoTable
  <2>1. tokens \in Seq({name} \X S)
    BY <1>3 DEF Listed
  <2>2. S \subseteq Rows(t)
    BY DEF RowsWith
  <2> HIDE DEF tokens, S
  <2> QED BY <2>1, <2>2 DEF NothingElse
<1>5. p # Undefined /\ p.stages = <<first, second>> /\ p.type = t.types[d]
  BY <1>2 DEF NothingElse, Plan
<1> DEFINE out == [i \in 1 .. Len(tokens) |-> Encrypt(t, tokens[i][2], d)]
<1>6. Output(first, NoTable) = tokens
  BY DEF Output, Stage
<1>7. Output(second, tokens) = out
  <2>1. Output(second, tokens) = Project(tokens, d)
    <3> HIDE DEF tokens
    <3> QED BY <1>1, <1>4 DEF Output, Stage
  <2> HIDE DEF tokens
  <2> QED BY <1>1, <1>4, <2>1, ProjectionFinds
<1>8. out # NoTable
  <2> HIDE DEF tokens
  <2>1. Len(tokens) \in Nat
    BY <1>4
  <2> DEFINE n == Len(tokens)
  <2> HIDE DEF n
  <2>2. \A f : f = [i \in 1 .. n |-> Encrypt(t, tokens[i][2], d)] => f \in Seq({f[i] : i \in 1 .. n})
    BY <2>1 DEF n
  <2> QED BY <2>2 DEF NothingElse, n
<1> HIDE DEF first, second, tokens, out, S
<1>9. Result(p.stages, 1) = tokens /\ Result(p.stages, 2) = out /\ Len(p.stages) = 2
  BY <1>5, <1>6, <1>7 DEF Result
<1> QED BY <1>3, <1>4, <1>5, <1>8, <1>9 DEF name, t, c, d, text, p, S, out

(***************************************************************************)
(* Those cells, decrypted, are the answer.                                 *)
(***************************************************************************)
LEMMA SelectAnswered ==
  ASSUME NothingElse, Given, SupportedSelect, FirstTable(query) \in known,
         answer = Decrypted(Result(parseSql(Meta, query).stages, 2), parseSql(Meta, query).type)
  PROVE  RightAnswer
<1> DEFINE name == FirstTable(query)
           t == TableNamed(name)
           w == query.where[1][1]
           v == query.where[1][2]
           a == query.select[1]
           c == Place(w)[2]
           d == Place(a)[2]
           p == parseSql(Meta, query)
           tokens == Result(p.stages, 1)
           n == Len(tokens)
           S == RowsWith(t, c, v[1])
           T == {choice \in RowChoices : Joined(choice)}
<1>1. /\ IsColumn(w) /\ Place(w)[1] = name /\ IsColumn(a) /\ Place(a)[1] = name /\ RowsWhole(t)
      /\ Places(v) = {} /\ Len(query.select) = 1 /\ query.sum = NoColumn
      /\ Len(query.where) = 1 /\ Len(query.from) = 1 /\ (query.joins = <<>> \/ OnePartner(name))
  BY DEF SupportedSelect, IsLiteral
<1>2. name \in QueryTables /\ d \in Cols(t) /\ Places(w) = {Place(w)}
  BY <1>1, ColumnPlace
<1>3. OnePartner(name)
  <2> HIDE DEF name
  <2>1. query.joins = <<>> => OnePartner(name)
    BY <1>1, <1>2, AlonePartner
  <2> QED BY <1>1, <2>1
<1>4. /\ p.type = t.types[d] /\ Listed(tokens, name, S)
      /\ Result(p.stages, 2) = [i \in 1 .. n |-> Encrypt(t, tokens[i][2], d)]
  BY SelectStages
<1>5. DOMAIN query.where = {1}
  BY <1>1, QueriesAssumption, ShortSequences DEF Given, IsQuery
<1>6. \A choice : Holds(query.where[1], choice) <=> t.rows[choice[name]][c] = v[1]
  BY <1>1, <1>2 DEF Holds, Denotes, Cell
<1>7. Solutions = {choice \in T : t.rows[choice[name]][c] = v[1]}
  BY <1>5, <1>6 DEF Solutions
<1>8. PICK b : OneToOne(b, Rows(t), T) /\ \A r \in Rows(t) : b[r][name] = r
  BY <1>2, <1>3, PartnersChosen
<1> DEFINE f == [i \in 1 .. n |-> tokens[i][2]]
           h == [r \in S |-> b[r]]
           g == [i \in 1 .. n |-> h[f[i]]]
<1>9. OneToOne(f, 1 .. n, S) /\ n \in Nat
  <2> HIDE DEF tokens, S, name
  <2>1. tokens \in Seq({name} \X S) /\ OneToOne(f, 1 .. n, S)
    BY <1>4 DEF Listed
  <2> QED BY <2>1
<1>10. OneToOne(h, S, Solutions)
  <2>1. S \in SUBSET Rows(t) /\ Solutions \in SUBSET T
    BY <1>7 DEF RowsWith
  <2>2. \A r \in Rows(t) : r \in S <=> b[r] \in Solutions
    <3>1. \A r \in Rows(t) : b[r] \in T
      BY <1>8 DEF OneToOne
    <3>2. \A r \in Rows(t) : r \in S <=> t.rows[r][c] = v[1]
      BY DEF RowsWith
    <3> HIDE DEF S, T, t, name, c, v
    <3> QED BY <1>7, <1>8, <3>1, <3>2
  <2> HIDE DEF S, T, t
  <2> QED BY <1>8, <2>1, <2>2, OneToOneWithin
<1> HIDE DEF name, t, w, v, a, c, d, p, tokens, n, S, T, f, h
<1>11. OneToOne(g, 1 .. n, Solutions)
  BY <1>9, <1>10, OneToOneThen
<1>12. ASSUME NEW i \in 1 .. n PROVE g[i][name] = tokens[i][2]
  <2>1. f[i] \in S /\ f[i] = tokens[i][2]
    <3>1. f[i] \in S
      BY <1>9 DEF OneToOne
    <3> QED BY <3>1 DEF f
  <2>2. S \subseteq Rows(t)
    BY DEF S, RowsWith
  <2>3. h[f[i]] = b[f[i]]
    BY <2>1 DEF h
  <2> QED BY <1>8, <2>1, <2>2, <2>3
<1>13. \A choice : AnswerRow(choice) = <<Decrypt(Encrypt(t, choice[name], d), t.types[d])>>
  <2>1. Encrypted(t, d)
    BY <1>1, <1>2 DEF RowsWhole
  <2> SUFFICES ASSUME NEW choice
               PROVE  AnswerRow(choice) = <<Decrypt(Encrypt(t, choice[name], d), t.types[d])>>
    OBVIOUS
  <2>2. TypeOf(Place(a)) = t.types[d]
    BY <1>1 DEF TypeOf, t, d
  <2> QED BY <1>1, <2>1, <2>2, RowDecrypted DEF a, d, t
<1> HIDE DEF g
<1>14. answer = [i \in 1 .. n |-> AnswerRow(g[i])]
  <2>1. answer = Decrypted([i \in 1 .. n |-> Encrypt(t, tokens[i][2], d)], t.types[d])
    BY <1>4 DEF p
  <2> QED BY <1>12, <1>13, <2>1 DEF Decrypted
<1> QED BY <1>1, <1>9, <1>11, <1>14, PairedRowsAreRight

-----------------------------------------------------------------------------
(***************************************************************************)
(* Sums along a bijection are equal.                                       *)
(***************************************************************************)
LEMMA TotalsMoved ==
  ASSUME NEW S, IsFiniteSet(S), NEW T, NEW b, OneToOne(b, S, T), NEW f \in [T -> Nat]
  PROVE  Totals([x \in S |-> f[b[x]]], S)[S] = Totals(f, T)[T]
<1> DEFINE g == [x \in S |-> f[b[x]]]
           Image(s) == {b[x] : x \in s}
           G == Totals(g, S)
           F == Totals(f, T)
           P == {s \in SUBSET S : G[s] = F[Image(s)]}
<1>1. /\ IsFiniteSet(T) /\ b \in [S -> T] /\ \A x, y \in S : b[x] = b[y] => x = y
      /\ Image(S) = T /\ g \in [S -> Nat]
  <2>1. IsFiniteSet(T)
    BY OneToOneSizes
  <2>2. b \in [S -> T] /\ \A x, y \in S : b[x] = b[y] => x = y
    BY DEF OneToOne
  <2>3. Image(S) = T
    BY DEF OneToOne
  <2> QED BY <2>1, <2>2, <2>3
<1>2. /\ G[{}] = 0 /\ \A s \in SUBSET S : \A x \in s : G[s] = g[x] + G[s \ {x}]
      /\ F[{}] = 0 /\ \A s \in SUBSET T : \A x \in s : F[s] = f[x] + F[s \ {x}]
  <2> HIDE DEF g
  <2>1. G[{}] = 0 /\ F[{}] = 0
    BY <1>1, TotalsDefined
  <2>2. \A s \in SUBSET S : \A x \in s : G[s] = g[x] + G[s \ {x}]
    BY <1>1, TotalsAdd
  <2>3. \A s \in SUBSET T : \A x \in s : F[s] = f[x] + F[s \ {x}]
    <3> SUFFICES ASSUME NEW s \in SUBSET T, NEW x \in s PROVE F[s] = f[x] + F[s \ {x}]
      OBVIOUS
    <3> QED BY <1>1, TotalsAdd
  <2> QED BY <2>1, <2>2, <2>3
<1> HIDE DEF G, F
<1>3. ASSUME NEW s \in SUBSET S, \A x \in s : s \ {x} \in P PROVE G[s] = F[Image(s)]
  <2>1. CASE s = {}
    <3>1. Image(s) = {}
      BY <2>1
    <3> QED BY <1>2, <2>1, <3>1
  <2>2. CASE s # {}
    <3>1. PICK x \in s : TRUE
      BY <2>2
    <3>2. G[s] = g[x] + G[s \ {x}] /\ G[s \ {x}] = F[Image(s \ {x})]
      BY <1>2, <1>3, <3>1
    <3>3. Image(s) \in SUBSET T /\ b[x] \in Image(s)
      BY <1>1, <3>1
    <3>4. Image(s \ {x}) = Image(s) \ {b[x]}
      BY <1>1, <3>1
    <3>5. F[Image(s)] = f[b[x]] + F[Image(s) \ {b[x]}]
      <4> HIDE DEF Image
      <4> QED BY <1>2, <3>3
    <3>6. g[x] = f[b[x]]
      BY <3>1
    <3> HIDE DEF Image, g
    <3> QED BY <3>2, <3>4, <3>5, <3>6
  <2> QED BY <2>1, <2>2
<1>4. P = SUBSET S
  <2>1. P \in SUBSET SUBSET S /\ \A s \in SUBSET S : (\A x \in s : s \ {x} \in P) => s \in P
    BY <1>3
  <2> HIDE DEF P
  <2> QED BY <2>1, OneElementMore
<1>5. G[S] = F[Image(S)]
  <2>1. S \in P
    <3> HIDE DEF P
    <3> QED BY <1>4
  <2> QED BY <2>1
<1> HIDE DEF Image, g
<1> QED BY <1>1, <1>5 DEF G, F, g

(***************************************************************************)
(* SUM_ex adds up the numbers of a column of ciphertexts modulo Modulus.   *)
(***************************************************************************)
LEMMA ColumnSum ==
  ASSUME NEW n \in Nat \ {0}, NEW cells, DOMAIN cells = 1 .. n, cells # <<>>,
         \A i \in 1 .. n : cells[i][1] = "bfv" /\ ValueOf[cells[i][2]] \in Nat
  PROVE  Sum(cells) =
           <<<<"sum", Totals([i \in 1 .. n |-> ValueOf[cells[i][2]]], 1 .. n)[1 .. n] % Modulus>>>>
<1> DEFINE add(total, cell) == (total + ValueOf[cell[2]]) % Modulus
           v == [i \in 1 .. n |-> ValueOf[cells[i][2]]]
           One(it) == [s \in SUBSET DOMAIN cells |->
                         IF s = {} THEN 0 ELSE (it[s \ {Max(s)}] + ValueOf[cells[Max(s)][2]]) % Modulus]
           Two(it) == [s \in SUBSET (1 .. n) |->
                         IF s = {} THEN 0 ELSE (it[s \ {Max(s)}] + v[Max(s)]) % Modulus]
<1>1. FoldLeft(add, 0, cells) = (CHOOSE it : it = One(it))[DOMAIN cells]
  BY DEF FoldLeft, MapThenFoldSet
<1>2. \A it : One(it) = Two(it)
  <2>1. \A s \in SUBSET (1 .. n) : s # {} => Max(s) \in s
    BY MaxIs
  <2> QED BY <2>1
<1>3. Running(v, n, Modulus) = CHOOSE it : it = Two(it)
  BY DEF Running
<1>4. v \in [1 .. n -> Nat] /\ Modulus \in Nat \ {0}
  BY StoredAssumption
<1>5. Sum(cells) = <<<<"sum", FoldLeft(add, 0, cells)>>>>
  BY DEF Sum
<1> HIDE DEF One, Two, v, add
<1>6. (CHOOSE it : it = One(it)) = (CHOOSE it : it = Two(it))
  BY <1>2, Zenon
<1>7. FoldLeft(add, 0, cells) = Running(v, n, Modulus)[1 .. n]
  BY <1>1, <1>3, <1>6
<1>8. Running(v, n, Modulus)[1 .. n] = Totals(v, 1 .. n)[1 .. n] % Modulus
  BY <1>4, RunningIs
<1> QED BY <1>5, <1>7, <1>8 DEF v

(***************************************************************************)
(* The sum the query means, as a sum over its solutions.                   *)
(***************************************************************************)
LEMMA TrueSumIs ==
  ASSUME NEW f, f = [choice \in Solutions |-> ValueOf[Cell(Place(<<query.sum>>), choice)]]
  PROVE  TrueSum = Totals(f, Solutions)[Solutions]
<1> DEFINE W(choice) == ValueOf[Cell(Place(<<query.sum>>), choice)]
           One(it) == [s \in SUBSET Solutions |->
                         IF s = {} THEN 0 ELSE W(Some(s)) + it[s \ {Some(s)}]]
           Two(it) == [s \in SUBSET Solutions |->
                         IF s = {} THEN 0 ELSE f[Some(s)] + it[s \ {Some(s)}]]
<1>1. TrueSum = (CHOOSE it : it = One(it))[Solutions]
  BY DEF TrueSum, MapThenSumSet, MapThenFoldSet, Some
<1>2. \A it : One(it) = Two(it)
  <2>1. \A s \in SUBSET Solutions : s # {} => Some(s) \in Solutions
    BY DEF Some
  <2>2. \A s \in SUBSET Solutions : s # {} => f[Some(s)] = W(Some(s))
    BY <2>1
  <2> HIDE DEF W
  <2>3. ASSUME NEW it, NEW s \in SUBSET Solutions
        PROVE  (IF s = {} THEN 0 ELSE W(Some(s)) + it[s \ {Some(s)}])
                 = IF s = {} THEN 0 ELSE f[Some(s)] + it[s \ {Some(s)}]
    BY <2>2
  <2> QED BY <2>3
<1>3. Totals(f, Solutions) = CHOOSE it : it = Two(it)
  BY DEF Totals
<1> HIDE DEF One, Two, W
<1>4. (CHOOSE it : it = One(it)) = (CHOOSE it : it = Two(it))
  BY <1>2, Zenon
<1> QED BY <1>1, <1>3, <1>4

(***************************************************************************)
(* Without conditions only one table can be the first of the query.        *)
(***************************************************************************)
LEMMA OnlyTable ==
  ASSUME Given, query.where = <<>>, query.joins = <<>>, query.from[1] \in QueryTables
  PROVE  FirstTable(query) = query.from[1]
<1> DEFINE name == query.from[1]
           lefts == {query.where[i][1] : i \in DOMAIN query.where} \cup
                    {query.joins[i].on[1] : i \in DOMAIN query.joins}
           named == {name} \cup {query.joins[i].table : i \in DOMAIN query.joins}
                      \cup {left[1] : left \in {l \in lefts : Qualified(l)}}
           At == {i \in DOMAIN Alphabetical : Alphabetical[i] = name}
           First(i) == Alphabetical[i] \in named /\ \A j \in 1 .. (i - 1) : Alphabetical[j] \notin named
           place == CHOOSE i \in DOMAIN Alphabetical : First(i)
<1>1. lefts = {} /\ named = {name}
  OBVIOUS
<1>2. DOMAIN Alphabetical = 1 .. Len(Alphabetical) /\ Len(Alphabetical) \in Nat
  BY QueriesAssumption
<1>3. At # {} /\ At \in SUBSET Nat /\ IsFiniteSet(At)
  <2>1. name \in {course.name, student.name}
    BY QueryTablesStored
  <2>2. name \in ToSet(Alphabetical)
    BY <2>1, QueriesAssumption DEF Given
  <2>3. At \in SUBSET (1 .. Len(Alphabetical))
    BY <1>2
  <2>4. IsFiniteSet(1 .. Len(Alphabetical))
    BY <1>2, FS_Interval
  <2> QED BY <1>2, <2>2, <2>3, <2>4, FS_Subset DEF ToSet
<1>4. PICK i \in At : \A j \in At : i <= j
  BY <1>3, SmallestElement
<1>5. i \in DOMAIN Alphabetical /\ First(i)
  <2>1. \A j \in 1 .. (i - 1) : j \in DOMAIN Alphabetical /\ ~(i <= j)
    BY <1>2, <1>4
  <2> HIDE DEF named, name
  <2> QED BY <1>1, <1>4, <2>1
<1> HIDE DEF First
<1>6. First(place)
  BY <1>5
<1>7. Alphabetical[place] = name
  <2> HIDE DEF place, named, name
  <2> QED BY <1>1, <1>6 DEF First
<1>8. FirstTable(query) = Alphabetical[place]
  BY DEF FirstTable, First
<1> QED BY <1>7, <1>8

(***************************************************************************)
(* A supported sum is planned when the process knows the table, and only   *)
(* then.                                                                   *)
(***************************************************************************)
LEMMA SumPlanned ==
  ASSUME Given, SupportedSum
  PROVE  LET p == Place(<<query.sum>>)
         IN  /\ OnePartner(p[1])
             /\ p[1] \in known => parseSql(Meta, query) = Plan(<<Stage("sum", <<p[1], p[2]>>)>>, "int")
             /\ p[1] \notin known => parseSql(Meta, query) = Undefined
<1> DEFINE text == <<query.sum>>
           p == Place(text)
           name == p[1]
           t == TableNamed(name)
<1>1. /\ query.sum # NoColumn /\ query.where = <<>> /\ query.joins = <<>> /\ Len(query.from) = 1
      /\ IsColumn(text) /\ t.types[p[2]] = "int"
  BY DEF SupportedSum, TypeOf
<1>2. /\ name \in QueryTables /\ p[2] \in Cols(t) /\ t \in {course, student}
      /\ FindColumn(ColumnsOf(Meta, name), query.sum) = IF name \in known THEN p[2] ELSE NoColumn
      /\ name \in known => Meta[name] = t
  <2>1. Last(text) = query.sum
    BY DEF Last
  <2> HIDE DEF text
  <2> QED BY <1>1, <2>1, ColumnPlace
<1> HIDE DEF p
<1>3. QueryTables = {query.from[1]} /\ OnePartner(query.from[1])
  BY <1>1, AlonePartner
<1>4. name = query.from[1]
  BY <1>2, <1>3
<1>5. FirstTable(query) = name
  BY <1>1, <1>2, <1>4, OnlyTable
<1>6. p[2] # NoColumn
  BY <1>2, GivenTables, QueriesAssumption
<1>7. parseSql(Meta, query) = SumPlan(Meta, query)
  <2>1. DOMAIN query.where = {}
    BY <1>1
  <2> QED BY <1>1, <2>1 DEF parseSql, IsJoin
<1> HIDE DEF name, t
<1>8. name \in known => SumPlan(Meta, query) = Plan(<<Stage("sum", <<name, p[2]>>)>>, "int")
  BY <1>1, <1>2, <1>5, <1>6 DEF SumPlan
<1>9. name \notin known => SumPlan(Meta, query) = Undefined
  BY <1>2, <1>5 DEF SumPlan
<1> QED BY <1>3, <1>4, <1>7, <1>8, <1>9 DEF p, name

(***************************************************************************)
(* Its one stage leaves the sum of the column over the solutions, which    *)
(* the plain modulus does not cut off.                                     *)
(***************************************************************************)
LEMMA SumStage ==
  ASSUME Given, SupportedSum, Place(<<query.sum>>)[1] \in known
  PROVE  Result(parseSql(Meta, query).stages, 1) = <<<<"sum", TrueSum>>>>
<1> DEFINE p == Place(<<query.sum>>)
           name == p[1]
           c == p[2]
           t == TableNamed(name)
           n == Cardinality(Rows(t))
           T == {choice \in RowChoices : Joined(choice)}
           cells == LookUp(mmc, <<name, c>>)
           f == [choice \in Solutions |-> ValueOf[Cell(p, choice)]]
           v == [i \in 1 .. n |-> ValueOf[cells[i][2]]]
<1>1. /\ name \in QueryTables /\ c \in Cols(t) /\ t \in {course, student} /\ t.name = name
      /\ t.types[c] = "int" /\ query.where = <<>> /\ TrueSum < Modulus
  <2>1. IsColumn(<<query.sum>>) /\ t.types[c] = "int" /\ query.where = <<>> /\ TrueSum < Modulus
    BY DEF SupportedSum, TypeOf
  <2>2. name \in QueryTables /\ c \in Cols(t) /\ t \in {course, student} /\ t.name = name
    BY <2>1, ColumnPlace
  <2> QED BY <2>1, <2>2
<1>2. Result(parseSql(Meta, query).stages, 1) = Sum(cells)
  <2>1. parseSql(Meta, query) = Plan(<<Stage("sum", <<name, c>>)>>, "int")
    BY SumPlanned
  <2> HIDE DEF name, c
  <2>2. parseSql(Meta, query).stages[1] = Stage("sum", <<name, c>>)
    BY <2>1 DEF Plan
  <2>3. \A stage : stage = Stage("sum", <<name, c>>) => Output(stage, NoTable) = Sum(cells)
    BY DEF Output, Stage
  <2>4. \A stages : Result(stages, 1) = Output(stages[1], NoTable)
    BY DEF Result
  <2> QED BY <2>2, <2>3, <2>4
<1> HIDE DEF p
<1>3. /\ n \in Nat \ {0} /\ Rows(t) = 0 .. (n - 1)
      /\ \A r \in Rows(t) : t.rows[r][c] \in Numerals /\ ValueOf[t.rows[r][c]] \in Nat
  <2>1. n \in Nat /\ Rows(t) = 0 .. (n - 1)
    BY <1>1, GivenTables, FS_CardinalityType DEF IsTable
  <2>2. ~Unbuildable(t)
    BY <1>1, GivenTables
  <2>3. Rows(t) # {} /\ \A r \in Rows(t) : t.rows[r][c] \in Numerals
    BY <1>1, <2>2 DEF Unbuildable
  <2>4. n # 0
    <3> HIDE DEF n
    <3> QED BY <2>1, <2>3
  <2> QED BY <2>1, <2>3, <2>4, StoredAssumption
<1>4. cells = [i \in 1 .. n |-> <<"bfv", t.rows[i - 1][c]>>]
  <2>1. Encrypted(t, c) /\ \A i : Encrypt(t, i - 1, c) = <<"bfv", t.rows[i - 1][c]>>
    BY <1>1 DEF Encrypted, Encrypt
  <2>2. cells = [i \in 1 .. n |-> Encrypt(t, i - 1, c)]
    BY <1>1, <2>1, ColumnFinds
  <2> HIDE DEF cells, n
  <2> QED BY <2>1, <2>2
<1>5. PICK b : OneToOne(b, Rows(t), T) /\ \A r \in Rows(t) : b[r][name] = r
  BY <1>1, SumPlanned, PartnersChosen DEF p
<1>6. Solutions = T
  <2>1. DOMAIN query.where = {}
    BY <1>1
  <2> QED BY <2>1 DEF Solutions
<1> HIDE DEF n, t, T, cells
<1>7. \A i \in 1 .. n : i - 1 \in Rows(t) /\ cells[i] = <<"bfv", t.rows[i - 1][c]>>
  BY <1>3, <1>4
<1>8. Sum(cells) = <<<<"sum", Totals(v, 1 .. n)[1 .. n] % Modulus>>>>
  <2>1. DOMAIN cells = 1 .. n /\ cells # <<>>
    <3>1. DOMAIN cells = 1 .. n /\ 1 \in 1 .. n
      BY <1>3, <1>4
    <3>2. \A i : i \notin DOMAIN <<>>
      OBVIOUS
    <3> QED BY <3>1, <3>2
  <2>2. \A i \in 1 .. n : cells[i][1] = "bfv" /\ ValueOf[cells[i][2]] \in Nat
    BY <1>3, <1>7
  <2> QED BY <1>3, <2>1, <2>2, ColumnSum
<1> DEFINE g == [i \in 1 .. n |-> b[i - 1]]
<1>9. OneToOne(g, 1 .. n, Solutions)
  <2>1. b \in [Rows(t) -> T]
    BY <1>5 DEF OneToOne
  <2>2. g \in [1 .. n -> Solutions]
    BY <1>6, <1>7, <2>1
  <2>3. ASSUME NEW x \in 1 .. n, NEW y \in 1 .. n, g[x] = g[y] PROVE x = y
    <3>1. x - 1 = y - 1
      BY <1>5, <1>7, <2>3 DEF OneToOne
    <3> QED BY <1>3, <3>1
  <2>4. ASSUME NEW u \in Solutions PROVE \E x \in 1 .. n : g[x] = u
    <3>1. PICK r \in Rows(t) : b[r] = u
      BY <1>5, <1>6 DEF OneToOne
    <3>2. r + 1 \in 1 .. n /\ (r + 1) - 1 = r
      BY <1>3
    <3> QED BY <3>1, <3>2
  <2> HIDE DEF g
  <2> QED BY <2>2, <2>3, <2>4 DEF OneToOne
<1>10. \A u \in Solutions : u[name] \in Rows(t) /\ Cell(p, u) = t.rows[u[name]][c]
  <2>1. \A u \in Solutions : u[name] \in Rows(t)
    BY <1>1, <1>6 DEF T, RowChoices, t
  <2> QED BY <2>1 DEF Cell, t
<1>11. f \in [Solutions -> Nat]
  BY <1>3, <1>10
<1>12. v = [i \in 1 .. n |-> f[g[i]]]
  <2> SUFFICES ASSUME NEW i \in 1 .. n PROVE ValueOf[cells[i][2]] = f[g[i]]
    OBVIOUS
  <2>1. g[i] \in Solutions /\ g[i] = b[i - 1]
    BY <1>9 DEF OneToOne
  <2>2. g[i][name] = i - 1
    BY <1>5, <1>7, <2>1
  <2> HIDE DEF g
  <2>3. f[g[i]] = ValueOf[t.rows[i - 1][c]]
    BY <1>10, <2>1, <2>2
  <2> QED BY <1>7, <2>3
<1>13. Totals(v, 1 .. n)[1 .. n] = TrueSum /\ TrueSum \in Nat
  <2>1. TrueSum = Totals(f, Solutions)[Solutions]
    BY TrueSumIs DEF p
  <2> HIDE DEF f, g, v
  <2>2. IsFiniteSet(1 .. n)
    BY <1>3, FS_Interval
  <2>3. Totals([i \in 1 .. n |-> f[g[i]]], 1 .. n)[1 .. n] = Totals(f, Solutions)[Solutions]
    <3> DEFINE D == 1 .. n
    <3>1. IsFiniteSet(D) /\ OneToOne(g, D, Solutions)
      BY <1>9, <2>2
    <3> HIDE DEF D
    <3>2. Totals([i \in D |-> f[g[i]]], D)[D] = Totals(f, Solutions)[Solutions]
      BY <1>11, <3>1, TotalsMoved
    <3> QED BY <3>2 DEF D
  <2>4. Totals(f, Solutions) \in [SUBSET Solutions -> Nat]
    <3>1. IsFiniteSet(Solutions)
      BY <1>9, <2>2, OneToOneSizes
    <3> QED BY <1>11, <3>1, TotalsDefined
  <2> QED BY <1>12, <2>1, <2>3, <2>4
<1>14. TrueSum % Modulus = TrueSum
  <2>1. Modulus \in Nat \ {0}
    BY StoredAssumption
  <2> QED BY <1>1, <1>13, <2>1
<1> QED BY <1>2, <1>8, <1>13, <1>14

\* Decrypted, that is the answer the sum means.
LEMMA SumAnswered ==
  ASSUME Given, SupportedSum, Place(<<query.sum>>)[1] \in known,
         answer = Decrypted(Result(parseSql(Meta, query).stages, 1), parseSql(Meta, query).type)
  PROVE  RightAnswer
<1>1. parseSql(Meta, query).type = "int"
  BY SumPlanned DEF Plan
<1>2. answer = Decrypted(<<<<"sum", TrueSum>>>>, "int")
  BY <1>1, SumStage
<1>3. Decrypt(<<"sum", TrueSum>>, "int") = <<"int", TrueSum>>
  BY DEF Decrypt
<1>4. answer = <<<<<<"int", TrueSum>>>>>>
  BY <1>2, <1>3 DEF Decrypted
<1>5. query.sum # NoColumn
  BY DEF SupportedSum
<1> QED BY <1>4, <1>5 DEF RightAnswer

-----------------------------------------------------------------------------
(***************************************************************************)
(* mmjoin read back: the rows of student that go with a row of courseinfo. *)
(***************************************************************************)
LEMMA JoinFinds ==
  ASSUME Given, NEW r \in Rows(course)
  PROVE  Listed(LookUp(mmjoin, <<course.name, r>>), student.name,
                RowsWith(student, 2, course.rows[r][0]))
<1> DEFINE idx == <<course.name, r>>
           mm == JoinMM(course, student, 0, 2)
           S == RowsWith(student, 2, course.rows[r][0])
<1>1. S \in SUBSET Nat /\ IsFiniteSet(S) /\ IsTable(student)
  BY GivenTables, FS_Subset DEF RowsWith
<1>2. \A x \in DOMAIN mm : Gapless(mm[x]) /\ mm[x] = [i \in DOMAIN mm[x] |-> mm[x][i]]
  <2> SUFFICES ASSUME NEW x \in DOMAIN mm
               PROVE  Gapless(mm[x]) /\ mm[x] = [i \in DOMAIN mm[x] |-> mm[x][i]]
    OBVIOUS
  <2>1. Gapless(mm[x])
    BY <1>1, JoinMMGapless
  <2>2. \A n, Q : Postings(n, Q) = [i \in DOMAIN Postings(n, Q) |-> Postings(n, Q)[i]]
    BY DEF Postings
  <2>3. mm[x] = Postings(student.name, RowsWith(student, 2, course.rows[x[2]][0]))
    BY DEF JoinMM
  <2> HIDE DEF mm
  <2> QED BY <2>1, <2>2, <2>3
<1>3. idx \in DOMAIN mm <=> S # {}
  BY DEF JoinMM
<1>4. S # {} => mm[idx] = Postings(student.name, S)
  BY DEF JoinMM
<1>5. mmjoin = Setup(mm)
  BY DEF mmjoin
<1> HIDE DEF mm, idx, S
<1>6. CASE S # {}
  <2>1. Walk(mmjoin, idx) = Postings(student.name, S)
    BY <1>2, <1>3, <1>4, <1>5, <1>6, WalkReadsBack
  <2>2. LookUp(mmjoin, idx) = AsSequence(Postings(student.name, S))
    BY <2>1 DEF LookUp
  <2> QED BY <1>1, <2>2, PostingsListed DEF idx, S
<1>7. CASE S = {}
  <2>1. DOMAIN Walk(mmjoin, idx) = {}
    BY <1>2, <1>3, <1>5, <1>7, WalkReadsBack
  <2>2. LookUp(mmjoin, idx) = <<>>
    <3>1. Cardinality(DOMAIN Walk(mmjoin, idx)) = 0
      BY <2>1, FS_EmptySet
    <3> QED BY <3>1 DEF LookUp, AsSequence
  <2>3. Listed(<<>>, student.name, {})
    BY FS_EmptySet DEF Listed, OneToOne
  <2> QED BY <1>7, <2>2, <2>3 DEF idx, S
<1> QED BY <1>6, <1>7

(***************************************************************************)
(* The rows both tables have to offer to a supported join.                 *)
(***************************************************************************)
JoinSelects ==
  LET c == Place(query.where[2][1])[2]
      text == query.where[2][2][1]
  IN  RowsWith(course, c, text)

\* The parts of its texts.
LEMMA JoinTexts ==
  ASSUME Given, SupportedJoin
  PROVE  /\ IsText(query.where[2][1]) /\ IsText(query.where[2][2]) /\ IsText(query.select[1])
         /\ DOMAIN query.where = {1, 2} /\ DOMAIN query.select = {1}
         /\ query.where[2][2] = <<query.where[2][2][1]>>
         /\ Last(query.where[2][1]) = query.where[2][1][2]
         /\ Last(query.select[1]) = query.select[1][2]
<1>1. query.where \in Seq(ToSet(query.where)) /\ query.select \in Seq(ToSet(query.select))
  BY QueriesAssumption DEF Given, IsQuery
<1>2. DOMAIN query.where = {1, 2} /\ DOMAIN query.select = {1}
  <2>1. Len(query.where) = 2 /\ Len(query.select) = 1
    BY DEF SupportedJoin
  <2>2. DOMAIN query.where = {1, 2}
    BY <1>1, <2>1, ShortSequences
  <2>3. DOMAIN query.select = {1}
    BY <1>1, <2>1, ShortSequences
  <2> QED BY <2>2, <2>3
<1>3. query.where[2] \in ToSet(query.where) /\ query.select[1] \in ToSet(query.select)
  BY <1>2 DEF ToSet
<1>4. IsText(query.where[2][1]) /\ IsText(query.where[2][2]) /\ IsText(query.select[1])
  BY <1>3, QueriesAssumption DEF Given, IsQuery
<1>5. Len(query.where[2][1]) = 2 /\ Len(query.select[1]) = 2 /\ Len(query.where[2][2]) = 1
  BY DEF SupportedJoin, IsLiteral
<1>6. query.where[2][2] = <<query.where[2][2][1]>>
  BY <1>4, <1>5, ShortSequences DEF IsText
<1>7. Last(query.where[2][1]) = query.where[2][1][2] /\ Last(query.select[1]) = query.select[1][2]
  BY <1>5 DEF Last
<1> QED BY <1>2, <1>4, <1>6, <1>7

(***************************************************************************)
(* The columns a supported join names.                                     *)
(***************************************************************************)
LEMMA JoinColumns ==
  ASSUME Given, SupportedJoin
  PROVE  LET w == query.where[2][1]
             a == query.select[1]
         IN  /\ QueryTables = {course.name, student.name}
             /\ Place(query.where[1][1]) = <<student.name, 2>>
             /\ Place(query.where[1][2]) = <<course.name, 0>>
             /\ Place(w)[1] = course.name /\ Place(w)[2] \in Cols(course)
             /\ Place(a)[1] = student.name /\ Place(a)[2] \in Cols(student)
<1> DEFINE l == <<student.name, student.columns[2]>>
           r == <<course.name, course.columns[0]>>
           w == query.where[2][1]
           a == query.select[1]
<1>1. /\ query.where[1][1] = l /\ query.where[1][2] = r /\ IsColumn(l) /\ IsColumn(r)
      /\ IsColumn(w) /\ IsColumn(a) /\ w[1] = course.name /\ a[1] = student.name
      /\ Len(w) = 2 /\ Len(a) = 2
  BY DEF SupportedJoin
<1>2. /\ Qualified(l) /\ Qualified(r) /\ Qualified(w) /\ Qualified(a)
      /\ l[1] = student.name /\ r[1] = course.name /\ Last(l) = l[2] /\ Last(r) = r[2]
  BY <1>1 DEF Qualified, Last
<1>3. /\ course.name # student.name /\ 0 \in Cols(course) /\ 2 \in Cols(student)
      /\ TableNamed(course.name) = course /\ TableNamed(student.name) = student
  BY GivenTables
<1> HIDE DEF w, a
<1>4. /\ Place(w)[1] = course.name /\ Place(w)[2] \in Cols(course)
      /\ Place(a)[1] = student.name /\ Place(a)[2] \in Cols(student)
  <2>1. Place(w)[1] = course.name /\ Place(w)[2] \in Cols(TableNamed(Place(w)[1]))
    BY <1>1, <1>2, ColumnPlace
  <2>2. Place(a)[1] = student.name /\ Place(a)[2] \in Cols(TableNamed(Place(a)[1]))
    BY <1>1, <1>2, ColumnPlace
  <2> QED BY <1>3, <2>1, <2>2
<1> HIDE DEF l, r
<1>5. /\ Place(l)[1] = student.name /\ student.name \in QueryTables /\ Places(l) = {Place(l)}
      /\ Place(r)[1] = course.name /\ course.name \in QueryTables /\ Places(r) = {Place(r)}
  <2>1. Place(l)[1] \in QueryTables /\ l[1] = Place(l)[1] /\ Places(l) = {Place(l)}
    BY <1>1, <1>2, ColumnPlace
  <2>2. Place(r)[1] \in QueryTables /\ r[1] = Place(r)[1] /\ Places(r) = {Place(r)}
    BY <1>1, <1>2, ColumnPlace
  <2> QED BY <1>2, <2>1, <2>2
<1>6. QueryTables = {course.name, student.name}
  BY <1>5, QueryTablesStored
<1>7. Place(l) = <<student.name, 2>>
  <2>1. <<student.name, 2>> \in Places(l)
    BY <1>2, <1>3, <1>5 DEF Places, l
  <2> QED BY <1>5, <2>1
<1>8. Place(r) = <<course.name, 0>>
  <2>1. <<course.name, 0>> \in Places(r)
    BY <1>2, <1>3, <1>5 DEF Places, r
  <2> QED BY <1>5, <2>1
<1> QED BY <1>1, <1>4, <1>6, <1>7, <1>8 DEF w, a

(***************************************************************************)
(* The plan of a supported join; a column of a table the process does not  *)
(* know is NoColumn in it.                                                 *)
(***************************************************************************)
LEMMA JoinPlanned ==
  ASSUME Given, SupportedJoin
  PROVE  LET Found(name, col) == IF name \in known THEN col ELSE NoColumn
             c == Place(query.where[2][1])[2]
             d == Place(query.select[1])[2]
         IN  parseSql(Meta, query) =
               Plan(<<Stage("sigma", <<course.name, Found(course.name, c), query.where[2][2][1]>>),
                      Stage("join", <<<<course.name, Found(course.name, 0)>>,
                                      <<student.name, Found(student.name, 2)>>>>),
                      Stage("projection", Found(student.name, d))>>, "string")
<1> DEFINE Found(name, col) == IF name \in known THEN col ELSE NoColumn
           l == query.where[1][1]
           r == query.where[1][2]
           w == query.where[2][1]
           v == query.where[2][2]
           a == query.select[1]
           c == Place(w)[2]
           d == Place(a)[2]
           C == Conditions(Meta, query)
<1>1. /\ IsColumn(l) /\ IsColumn(r) /\ IsColumn(w) /\ IsColumn(a)
      /\ l = <<student.name, student.columns[2]>> /\ r = <<course.name, course.columns[0]>>
      /\ Len(w) = 2 /\ w[1] = course.name /\ Len(a) = 2 /\ a[1] = student.name
      /\ Len(v) = 1 /\ query.sum = NoColumn /\ Len(query.where) = 2
  BY DEF SupportedJoin, IsLiteral
<1>2. /\ DOMAIN query.where = {1, 2} /\ DOMAIN query.select = {1} /\ v = <<v[1]>>
      /\ Last(w) = w[2] /\ Last(a) = a[2]
  BY JoinTexts
<1>3. /\ Place(l)[1] = student.name /\ Place(l)[2] = 2 /\ Place(r)[1] = course.name /\ Place(r)[2] = 0
      /\ Place(w)[1] = course.name /\ c \in Cols(course)
      /\ Place(a)[1] = student.name /\ d \in Cols(student)
  BY JoinColumns
<1>4. /\ Len(l) = 2 /\ Len(r) = 2 /\ Last(l) = l[2] /\ Last(r) = r[2]
      /\ l[1] = student.name /\ r[1] = course.name
  BY <1>1 DEF Last
<1>5. d # NoColumn
  BY <1>3, GivenTables, QueriesAssumption
<1>6. C = [i \in {1, 2} |-> <<ResolveSide(Meta, query.where[i][1]), ResolveSide(Meta, query.where[i][2])>>]
  BY <1>2 DEF Conditions
<1>7. /\ C[1][1] = ResolveSide(Meta, l) /\ C[1][2] = ResolveSide(Meta, r)
      /\ C[2][1] = ResolveSide(Meta, w) /\ C[2][2] = ResolveSide(Meta, v)
  BY <1>6
<1>8. IsJoinCondition(query.where[1]) /\ ~IsJoinCondition(query.where[2])
  BY <1>1, <1>4 DEF IsJoinCondition
<1>9. parseSql(Meta, query) = JoinPlan(Meta, query)
  BY <1>2, <1>8 DEF parseSql, IsJoin
<1>10. JoinPlan(Meta, query) =
         Plan(<<Stage("sigma", C[2][1] \o C[2][2]), Stage("join", <<C[1][2], C[1][1]>>),
                Stage("projection", ProjectionIndex(Meta, query))>>, "string")
  BY <1>1, <1>8 DEF JoinPlan
<1> HIDE DEF l, r, w, v, a, c, d, C, Found
<1>11. \A text : Len(text) = 2 => Qualified(text)
  BY DEF Qualified
<1>12. /\ ResolveSide(Meta, l) = <<student.name, Found(student.name, 2)>>
       /\ ResolveSide(Meta, r) = <<course.name, Found(course.name, 0)>>
       /\ ResolveSide(Meta, w) = <<course.name, Found(course.name, c)>>
       /\ ResolveSide(Meta, v) = v
  <2>1. FindColumn(ColumnsOf(Meta, student.name), l[2]) = Found(student.name, 2)
    BY <1>1, <1>3, <1>4, ColumnPlace DEF Found
  <2>2. FindColumn(ColumnsOf(Meta, course.name), r[2]) = Found(course.name, 0)
    BY <1>1, <1>3, <1>4, ColumnPlace DEF Found
  <2>3. FindColumn(ColumnsOf(Meta, course.name), w[2]) = Found(course.name, c)
    BY <1>1, <1>2, <1>3, ColumnPlace DEF Found, c
  <2>4. ~Qualified(v)
    BY <1>1 DEF Qualified
  <2> QED BY <1>1, <1>4, <1>11, <2>1, <2>2, <2>3, <2>4 DEF ResolveSide, Resolve
<1>13. C[2][1] \o C[2][2] = <<course.name, Found(course.name, c), v[1]>>
  <2>1. C[2][1] \o C[2][2] = <<course.name, Found(course.name, c)>> \o <<v[1]>>
    BY <1>2, <1>7, <1>12
  <2> QED BY <2>1, TwoThenOne
<1>14. ProjectionIndex(Meta, query) = Found(student.name, d)
  <2> DEFINE column(i) == IF Qualified(query.select[i])
                          THEN FindColumn(ColumnsOf(Meta, query.select[i][1]), query.select[i][2])
                          ELSE NoColumn
             found == {i \in DOMAIN query.select : column(i) # NoColumn}
  <2>1. column(1) = Found(student.name, d)
    <3>1. FindColumn(ColumnsOf(Meta, student.name), a[2]) = Found(student.name, d)
      BY <1>1, <1>2, <1>3, <1>11, ColumnPlace DEF Found, d
    <3> QED BY <1>1, <1>11, <3>1 DEF a
  <2>2. ProjectionIndex(Meta, query) =
          IF found = {} THEN NoColumn ELSE column(CHOOSE i \in found : \A j \in found : j <= i)
    BY DEF ProjectionIndex
  <2>3. found = IF student.name \in known THEN {1} ELSE {}
    <3> HIDE DEF column
    <3> QED BY <1>2, <1>5, <2>1 DEF Found
  <2> HIDE DEF column, found
  <2>4. CASE student.name \in known
    <3>1. found = {1} /\ 1 <= 1
      BY <2>3, <2>4
    <3>2. (CHOOSE i \in found : \A j \in found : j <= i) = 1
      BY <3>1
    <3> QED BY <2>1, <2>2, <3>1, <3>2
  <2>5. CASE student.name \notin known
    BY <2>2, <2>3, <2>5 DEF Found
  <2> QED BY <2>4, <2>5
<1> QED BY <1>7, <1>9, <1>10, <1>12, <1>13, <1>14 DEF Found, c, d, w, v, a

(***************************************************************************)
(* All pairs of a token and one of the rows that go with it, in one table. *)
(***************************************************************************)
LEMMA JoinPairs ==
  ASSUME Given, NEW S \in SUBSET Rows(course), NEW tokens, Listed(tokens, course.name, S)
  PROVE  LET seqs == [i \in DOMAIN tokens |-> LookUp(mmjoin, tokens[i])]
             flat == LookUpAll(mmjoin, tokens)
         IN  /\ flat \in Seq({student.name} \X Rows(student))
             /\ Placed(flat, seqs, Len(seqs)) /\ Len(seqs) = Len(tokens)
             /\ \A i \in 1 .. Len(tokens) :
                  /\ tokens[i][2] \in S
                  /\ Listed(seqs[i], student.name, RowsWith(student, 2, course.rows[tokens[i][2]][0]))
<1> DEFINE W == {student.name} \X Rows(student)
           n == Len(tokens)
           seqs == [i \in DOMAIN tokens |-> LookUp(mmjoin, tokens[i])]
           flat == LookUpAll(mmjoin, tokens)
<1>1. tokens \in Seq({course.name} \X S)
  BY DEF Listed
<1>2. n \in Nat /\ DOMAIN tokens = 1 .. n
  BY <1>1
<1>3. ASSUME NEW i \in 1 .. n
      PROVE  /\ tokens[i][2] \in S
             /\ Listed(seqs[i], student.name, RowsWith(student, 2, course.rows[tokens[i][2]][0]))
  <2>1. tokens[i] \in {course.name} \X S
    BY <1>1, <1>3
  <2>2. tokens[i] = <<course.name, tokens[i][2]>> /\ tokens[i][2] \in S /\ tokens[i][2] \in Rows(course)
    BY <2>1
  <2>3. seqs[i] = LookUp(mmjoin, tokens[i])
    BY <1>2
  <2> HIDE DEF seqs
  <2> QED BY <2>2, <2>3, JoinFinds
<1>4. seqs \in Seq(Seq(W)) /\ Len(seqs) = n
  <2>1. \A i \in 1 .. n : seqs[i] \in Seq(W)
    <3> SUFFICES ASSUME NEW i \in 1 .. n PROVE seqs[i] \in Seq(W)
      OBVIOUS
    <3> DEFINE Q == RowsWith(student, 2, course.rows[tokens[i][2]][0])
    <3> HIDE DEF seqs
    <3>1. seqs[i] \in Seq({student.name} \X Q)
      BY <1>3 DEF Listed
    <3>2. Q \subseteq Rows(student)
      BY DEF RowsWith
    <3> HIDE DEF Q
    <3> QED BY <3>1, <3>2
  <2>2. DOMAIN seqs = 1 .. n /\ seqs = [i \in 1 .. n |-> seqs[i]]
    BY <1>2
  <2> HIDE DEF seqs, n, W
  <2> QED BY <1>2, <2>1, <2>2
<1>5. flat = FlattenSeq(seqs)
  BY DEF LookUpAll
<1> HIDE DEF seqs, flat, W, n
<1>6. flat \in Seq(W) /\ Placed(flat, seqs, Len(seqs))
  BY <1>4, <1>5, FlattenPlaced
<1> QED BY <1>3, <1>4, <1>6 DEF W, n, seqs, flat

(***************************************************************************)
(* These pairs are the solutions of a supported join.                      *)
(***************************************************************************)
LEMMA JoinSolutions ==
  ASSUME Given, SupportedJoin, NEW u
  PROVE  u \in Solutions <=>
           /\ u \in [{course.name, student.name} -> Rows(course) \cup Rows(student)]
           /\ u[course.name] \in JoinSelects
           /\ u[student.name] \in RowsWith(student, 2, course.rows[u[course.name]][0])
<1> DEFINE l == query.where[1][1]
           r == query.where[1][2]
           w == query.where[2][1]
           v == query.where[2][2]
           c == Place(w)[2]
<1>1. /\ QueryTables = {course.name, student.name}
      /\ Place(l) = <<student.name, 2>> /\ Place(r) = <<course.name, 0>>
      /\ Place(w)[1] = course.name /\ c \in Cols(course)
  BY JoinColumns
<1>2. /\ IsColumn(l) /\ IsColumn(r) /\ IsColumn(w) /\ Places(v) = {} /\ query.joins = <<>>
  BY DEF SupportedJoin, IsLiteral
<1>3. DOMAIN query.where = {1, 2}
  BY JoinTexts
<1>4. TableNamed(course.name) = course /\ TableNamed(student.name) = student
  BY GivenTables
<1>5. Places(l) # {} /\ Places(r) # {} /\ Places(w) # {}
  BY <1>2 DEF IsColumn
<1>6. /\ Denotes(l, u) = student.rows[u[student.name]][2]
      /\ Denotes(r, u) = course.rows[u[course.name]][0]
      /\ Denotes(w, u) = course.rows[u[course.name]][c]
      /\ Denotes(v, u) = v[1]
  <2> HIDE DEF l, r, w, v
  <2>1. Denotes(l, u) = Cell(Place(l), u) /\ Denotes(r, u) = Cell(Place(r), u)
    BY <1>5 DEF Denotes
  <2>2. Denotes(w, u) = Cell(Place(w), u) /\ Denotes(v, u) = v[1]
    BY <1>2, <1>5 DEF Denotes
  <2>3. Cell(Place(l), u) = student.rows[u[student.name]][2]
    BY <1>1, <1>4 DEF Cell
  <2>4. Cell(Place(r), u) = course.rows[u[course.name]][0]
    BY <1>1, <1>4 DEF Cell
  <2>5. Cell(Place(w), u) = course.rows[u[course.name]][c]
    BY <1>1, <1>4 DEF Cell
  <2> QED BY <2>1, <2>2, <2>3, <2>4, <2>5
<1>7. Holds(query.where[1], u) <=> student.rows[u[student.name]][2] = course.rows[u[course.name]][0]
  BY <1>6 DEF Holds
<1>8. Holds(query.where[2], u) <=> course.rows[u[course.name]][c] = v[1]
  BY <1>6 DEF Holds
<1>9. u \in Solutions <=> u \in RowChoices /\ Holds(query.where[1], u) /\ Holds(query.where[2], u)
  BY <1>2, <1>3 DEF Solutions, Joined
<1>10. u \in RowChoices <=>
         /\ u \in [{course.name, student.name} -> Rows(course) \cup Rows(student)]
         /\ u[course.name] \in Rows(course) /\ u[student.name] \in Rows(student)
  BY <1>1, <1>4 DEF RowChoices
<1> QED BY <1>7, <1>8, <1>9, <1>10 DEF RowsWith, JoinSelects

\* Every pair is one solution, and every solution a pair.
LEMMA PairsAreSolutions ==
  ASSUME Given, SupportedJoin, NEW tokens, Listed(tokens, course.name, JoinSelects)
  PROVE  LET flat == LookUpAll(mmjoin, tokens)
         IN  \E b : /\ OneToOne(b, 1 .. Len(flat), Solutions)
                    /\ \A i \in 1 .. Len(flat) : b[i][student.name] = flat[i][2]
<1> DEFINE S == JoinSelects
           n == Len(tokens)
           seqs == [i \in DOMAIN tokens |-> LookUp(mmjoin, tokens[i])]
           flat == LookUpAll(mmjoin, tokens)
           Mates(i) == RowsWith(student, 2, course.rows[tokens[i][2]][0])
           R == Rows(course) \cup Rows(student)
           names == {course.name, student.name}
           D == Spots(seqs, n)
           h == [p \in D |-> [name \in names |->
                   IF name = course.name THEN tokens[p[1]][2] ELSE seqs[p[1]][p[2]][2]]]
<1>1. S \in SUBSET Rows(course)
  BY DEF JoinSelects, RowsWith
<1> HIDE DEF S
<1>2. Listed(tokens, course.name, S)
  BY DEF S
<1>3. /\ Placed(flat, seqs, n)
      /\ \A i \in 1 .. n : tokens[i][2] \in S /\ Listed(seqs[i], student.name, Mates(i))
  BY <1>1, <1>2, JoinPairs
<1>4. /\ n \in Nat
      /\ \A i, j \in 1 .. n : tokens[i][2] = tokens[j][2] => i = j
      /\ \A r \in S : \E i \in 1 .. n : tokens[i][2] = r
  <2>1. n \in Nat
    BY <1>2 DEF Listed
  <2>2. \A i, j \in 1 .. n : tokens[i][2] = tokens[j][2] => i = j
    BY <1>2 DEF Listed, OneToOne
  <2>3. \A r \in S : \E i \in 1 .. n : tokens[i][2] = r
    BY <1>2 DEF Listed, OneToOne
  <2> QED BY <2>1, <2>2, <2>3
<1> HIDE DEF seqs, n, Mates
<1>5. ASSUME NEW i \in 1 .. n
      PROVE  /\ Len(seqs[i]) \in Nat
             /\ \A j \in 1 .. Len(seqs[i]) : seqs[i][j][2] \in Mates(i)
             /\ \A j, k \in 1 .. Len(seqs[i]) : seqs[i][j][2] = seqs[i][k][2] => j = k
             /\ \A r \in Mates(i) : \E j \in 1 .. Len(seqs[i]) : seqs[i][j][2] = r
  <2> DEFINE q == seqs[i]
  <2>1. Listed(q, student.name, Mates(i))
    BY <1>3
  <2> HIDE DEF q
  <2>2. Len(q) \in Nat
    BY <2>1 DEF Listed
  <2>3. /\ \A j \in 1 .. Len(q) : q[j][2] \in Mates(i)
        /\ \A j, k \in 1 .. Len(q) : q[j][2] = q[k][2] => j = k
        /\ \A r \in Mates(i) : \E j \in 1 .. Len(q) : q[j][2] = r
    BY <2>1 DEF Listed, OneToOne
  <2> QED BY <2>2, <2>3 DEF q
<1>6. \A p : p \in D <=> p = <<p[1], p[2]>> /\ p[1] \in 1 .. n /\ p[2] \in 1 .. Len(seqs[p[1]])
  <2> SUFFICES ASSUME NEW p
               PROVE  p \in D <=> p = <<p[1], p[2]>> /\ p[1] \in 1 .. n /\ p[2] \in 1 .. Len(seqs[p[1]])
    OBVIOUS
  <2>1. p \in D => p = <<p[1], p[2]>> /\ p[1] \in 1 .. n /\ p[2] \in 1 .. Len(seqs[p[1]])
    BY DEF Spots
  <2>2. ASSUME p = <<p[1], p[2]>>, p[1] \in 1 .. n, p[2] \in 1 .. Len(seqs[p[1]]) PROVE p \in D
    <3>1. p[2] \in Nat
      BY <1>5, <2>2
    <3>2. p \in (1 .. n) \X Nat
      BY <2>2, <3>1
    <3> QED BY <2>2, <3>2 DEF Spots
  <2> QED BY <2>1, <2>2
<1>7. course.name # student.name /\ course.name \in names /\ student.name \in names
  BY GivenTables
<1>8. \A p \in D : h[p][course.name] = tokens[p[1]][2] /\ h[p][student.name] = seqs[p[1]][p[2]][2]
  <2> HIDE DEF D
  <2> QED BY <1>7
<1>9. ASSUME NEW p \in D PROVE h[p] \in Solutions
  <2>1. p[1] \in 1 .. n /\ p[2] \in 1 .. Len(seqs[p[1]])
    BY <1>6
  <2>2. tokens[p[1]][2] \in S /\ seqs[p[1]][p[2]][2] \in Mates(p[1])
    BY <1>3, <1>5, <2>1
  <2>3. h[p] \in [names -> R]
    <3>1. tokens[p[1]][2] \in R /\ seqs[p[1]][p[2]][2] \in R
      BY <1>1, <2>2 DEF Mates, RowsWith
    <3> HIDE DEF D, R, names
    <3> QED BY <3>1
  <2> HIDE DEF D, h
  <2> QED BY <1>8, <2>2, <2>3, JoinSolutions DEF Mates, S
<1>10. ASSUME NEW x \in D, NEW y \in D, h[x] = h[y] PROVE x = y
  <2>1. /\ x = <<x[1], x[2]>> /\ x[1] \in 1 .. n /\ x[2] \in 1 .. Len(seqs[x[1]])
        /\ y = <<y[1], y[2]>> /\ y[1] \in 1 .. n /\ y[2] \in 1 .. Len(seqs[y[1]])
    BY <1>6
  <2> HIDE DEF D, h
  <2>2. x[1] = y[1]
    BY <1>4, <1>8, <1>10, <2>1
  <2>3. x[2] = y[2]
    BY <1>5, <1>8, <1>10, <2>1, <2>2
  <2> QED BY <2>1, <2>2, <2>3
<1>11. ASSUME NEW u \in Solutions PROVE \E p \in D : h[p] = u
  <2>1. /\ u \in [names -> R] /\ u[course.name] \in S
        /\ u[student.name] \in RowsWith(student, 2, course.rows[u[course.name]][0])
    BY JoinSolutions DEF S
  <2>2. PICK i \in 1 .. n : tokens[i][2] = u[course.name]
    BY <1>4, <2>1
  <2>3. PICK j \in 1 .. Len(seqs[i]) : seqs[i][j][2] = u[student.name]
    BY <1>5, <2>1, <2>2 DEF Mates
  <2> DEFINE p == <<i, j>>
  <2>4. p \in D /\ p[1] = i /\ p[2] = j
    <3>1. p = <<p[1], p[2]>> /\ p[1] = i /\ p[2] = j
      OBVIOUS
    <3> HIDE DEF p, D
    <3> QED BY <1>6, <3>1
  <2> HIDE DEF p
  <2>5. h[p][course.name] = u[course.name] /\ h[p][student.name] = u[student.name]
    <3> HIDE DEF D, h
    <3> QED BY <1>8, <2>2, <2>3, <2>4
  <2>6. h[p] = [name \in names |-> h[p][name]] /\ u = [name \in names |-> u[name]]
    BY <2>1, <2>4
  <2>7. \A name \in names : h[p][name] = u[name]
    BY <2>5
  <2> HIDE DEF h, D, names
  <2>8. h[p] = u
    BY <2>6, <2>7
  <2> QED BY <2>4, <2>8
<1>12. OneToOne(h, D, Solutions)
  <2>1. h \in [D -> Solutions]
    <3> HIDE DEF D
    <3> QED BY <1>9
  <2> HIDE DEF h, D
  <2> QED BY <1>10, <1>11, <2>1 DEF OneToOne
<1> DEFINE m == Len(flat)
<1>13. PICK b : OneToOne(b, 1 .. m, D) /\ \A i \in 1 .. m : flat[i] = seqs[b[i][1]][b[i][2]]
  <2> HIDE DEF flat
  <2> QED BY <1>3 DEF Placed
<1> HIDE DEF flat, D, h, m
<1> DEFINE g == [i \in 1 .. m |-> h[b[i]]]
<1>14. OneToOne(g, 1 .. m, Solutions)
  BY <1>12, <1>13, OneToOneThen
<1>15. ASSUME NEW i \in 1 .. m PROVE g[i][student.name] = flat[i][2]
  <2>1. b[i] \in D
    BY <1>13 DEF OneToOne
  <2> QED BY <1>8, <1>13, <2>1
<1> HIDE DEF g
<1> QED BY <1>14, <1>15 DEF m, flat

(***************************************************************************)
(* The stages of a supported join: the rows of courseinfo, the pairs, and  *)
(* a cell of each.  A process that does not know both tables has another   *)
(* join in its plan than the one stored.                                   *)
(***************************************************************************)
LEMMA JoinStages ==
  ASSUME NothingElse, Given, SupportedJoin
  PROVE  LET p == parseSql(Meta, query)
             d == Place(query.select[1])[2]
             tokens == Result(p.stages, 1)
             pairs == LookUpAll(mmjoin, tokens)
         IN  /\ p # Undefined /\ Len(p.stages) = 3 /\ p.type = "string"
             /\ QueryTables \subseteq known =>
                  /\ Listed(tokens, course.name, JoinSelects)
                  /\ Result(p.stages, 2) = pairs
                  /\ Result(p.stages, 3) = [i \in 1 .. Len(pairs) |-> Encrypt(student, pairs[i][2], d)]
                  /\ \A k \in 1 .. 3 : Result(p.stages, k) # NoTable
             /\ ~(QueryTables \subseteq known) => Result(p.stages, 3) = NoTable
<1> DEFINE Found(name, col) == IF name \in known THEN col ELSE NoColumn
           c == Place(query.where[2][1])[2]
           d == Place(query.select[1])[2]
           text == query.where[2][2][1]
           p == parseSql(Meta, query)
           index == <<course.name, Found(course.name, c), text>>
           link == <<<<course.name, Found(course.name, 0)>>, <<student.name, Found(student.name, 2)>>>>
           first == Stage("sigma", index)
           second == Stage("join", link)
           third == Stage("projection", Found(student.name, d))
           tokens == LookUp(mmv, <<course.name, c, text>>)
           pairs == LookUpAll(mmjoin, tokens)
           out == [i \in 1 .. Len(pairs) |-> Encrypt(student, pairs[i][2], d)]
<1>1. /\ QueryTables = {course.name, student.name} /\ c \in Cols(course) /\ d \in Cols(student)
      /\ RowsWhole(student) /\ d # NoColumn
  <2>1. QueryTables = {course.name, student.name} /\ c \in Cols(course) /\ d \in Cols(student)
    BY JoinColumns
  <2> QED BY <2>1, GivenTables, QueriesAssumption DEF SupportedJoin
<1>2. p = Plan(<<first, second, third>>, "string")
  BY JoinPlanned
<1>3. p # Undefined /\ p.stages = <<first, second, third>> /\ p.type = "string"
  <2> HIDE DEF first, second, third, p
  <2> QED BY <1>2 DEF NothingElse, Plan
<1>4. JoinSelects = RowsWith(course, c, text)
  BY DEF JoinSelects
<1> HIDE DEF p, c, d, text
<1>5. /\ first.op = "sigma" /\ first.arg = index /\ second.op = "join" /\ second.arg = link
      /\ third.op = "projection" /\ third.arg = Found(student.name, d)
  BY DEF Stage
<1> HIDE DEF first, second, third
<1>6. /\ Len(p.stages) = 3 /\ Result(p.stages, 1) = Output(first, NoTable)
      /\ Result(p.stages, 2) = Output(second, Output(first, NoTable))
      /\ Result(p.stages, 3) = Output(third, Output(second, Output(first, NoTable)))
  <2>1. Len(p.stages) = 3 /\ p.stages[1] = first /\ p.stages[2] = second /\ p.stages[3] = third
    BY <1>3
  <2> QED BY <2>1 DEF Result
<1>7. ASSUME QueryTables \subseteq known
      PROVE  /\ Listed(tokens, course.name, JoinSelects)
             /\ Output(first, NoTable) = tokens /\ Output(second, tokens) = pairs
             /\ Output(third, pairs) = out
             /\ tokens # NoTable /\ pairs # NoTable /\ out # NoTable
  <2>1. course.name \in known /\ student.name \in known
    BY <1>1, <1>7
  <2>2. index = <<course.name, c, text>> /\ link = JoinTable /\ Found(student.name, d) = d
    BY <2>1 DEF JoinTable
  <2> HIDE DEF index, link, Found, pairs
  <2>3. Listed(tokens, course.name, JoinSelects) /\ JoinSelects \in SUBSET Rows(course)
    BY <1>1, <1>4, SelectionFinds DEF RowsWith
  <2>4. Output(first, NoTable) = tokens
    BY <1>5, <2>2 DEF Output
  <2> HIDE DEF tokens
  <2>5. tokens # NoTable
    <3>1. tokens \in Seq({course.name} \X JoinSelects)
      BY <2>3 DEF Listed
    <3> QED BY <3>1 DEF NothingElse
  <2>6. Output(second, tokens) = pairs
    BY <1>5, <2>2, <2>5 DEF Output, pairs
  <2>7. pairs \in Seq({student.name} \X Rows(student))
    BY <2>3, JoinPairs DEF pairs
  <2>8. pairs # NoTable
    BY <2>7 DEF NothingElse
  <2>9. Output(third, pairs) = Project(pairs, d)
    BY <1>1, <1>5, <2>2, <2>8 DEF Output
  <2>10. Project(pairs, d) = out
    BY <1>1, <2>7, ProjectionFinds
  <2>11. out # NoTable
    <3> DEFINE n == Len(pairs)
    <3>1. n \in Nat
      BY <2>7
    <3> HIDE DEF n
    <3>2. \A f : f = [i \in 1 .. n |-> Encrypt(student, pairs[i][2], d)] => f \in Seq({f[i] : i \in 1 .. n})
      BY <3>1
    <3> QED BY <3>2 DEF NothingElse, n
  <2> QED BY <2>3, <2>4, <2>5, <2>6, <2>8, <2>9, <2>10, <2>11
<1>8. ASSUME ~(QueryTables \subseteq known) PROVE Result(p.stages, 3) = NoTable
  <2>1. course.name \notin known \/ student.name \notin known
    BY <1>1, <1>8
  <2>2. NoColumn # 0 /\ NoColumn # 2
    BY QueriesAssumption
  <2>3. Found(course.name, 0) # 0 \/ Found(student.name, 2) # 2
    BY <2>1, <2>2
  <2>4. link # JoinTable
    <3> HIDE DEF Found
    <3> QED BY <2>3 DEF JoinTable
  <2>5. \A before : Output(second, before) = NoTable
    <3> HIDE DEF link
    <3> QED BY <1>5, <2>4 DEF Output
  <2>6. Output(third, NoTable) = NoTable
    <3> HIDE DEF Found
    <3> QED BY <1>5 DEF Output
  <2> QED BY <1>6, <2>5, <2>6
<1> HIDE DEF tokens
<1>9. ASSUME QueryTables \subseteq known
      PROVE  /\ Result(p.stages, 1) = tokens /\ Result(p.stages, 2) = pairs /\ Result(p.stages, 3) = out
             /\ \A k \in 1 .. 3 : Result(p.stages, k) # NoTable
  <2> HIDE DEF pairs, out
  <2> QED BY <1>6, <1>7, <1>9
<1> QED BY <1>3, <1>6, <1>7, <1>8, <1>9 DEF p, d

\* The cells of the pairs, decrypted, are the answer.
LEMMA JoinAnswered ==
  ASSUME NothingElse, Given, SupportedJoin, QueryTables \subseteq known,
         answer = Decrypted(Result(parseSql(Meta, query).stages, 3), parseSql(Meta, query).type)
  PROVE  RightAnswer
<1> DEFINE a == query.select[1]
           d == Place(a)[2]
           p == parseSql(Meta, query)
           tokens == Result(p.stages, 1)
           pairs == LookUpAll(mmjoin, tokens)
           n == Len(pairs)
<1>1. /\ p.type = "string" /\ Listed(tokens, course.name, JoinSelects)
      /\ Result(p.stages, 3) = [i \in 1 .. n |-> Encrypt(student, pairs[i][2], d)]
  BY JoinStages
<1>2. /\ IsColumn(a) /\ Len(query.select) = 1 /\ query.sum = NoColumn /\ RowsWhole(student)
      /\ TypeOf(Place(a)) = "string"
  BY DEF SupportedJoin
<1>3. Place(a)[1] = student.name /\ d \in Cols(student)
  BY JoinColumns
<1>4. TableNamed(student.name) = student
  BY GivenTables
<1>5. n \in Nat
  <2>1. JoinSelects \in SUBSET Rows(course)
    BY DEF JoinSelects, RowsWith
  <2> HIDE DEF tokens
  <2>2. pairs \in Seq({student.name} \X Rows(student))
    BY <1>1, <2>1, JoinPairs
  <2> HIDE DEF pairs
  <2> QED BY <2>2
<1> HIDE DEF tokens
<1>6. PICK b : OneToOne(b, 1 .. n, Solutions) /\ \A i \in 1 .. n : b[i][student.name] = pairs[i][2]
  BY <1>1, PairsAreSolutions
<1> HIDE DEF pairs, n, p
<1>7. \A choice : AnswerRow(choice) = <<Decrypt(Encrypt(student, choice[student.name], d), "string")>>
  <2> SUFFICES ASSUME NEW choice
               PROVE  AnswerRow(choice) = <<Decrypt(Encrypt(student, choice[student.name], d), "string")>>
    OBVIOUS
  <2>1. Encrypted(student, d)
    BY <1>2, <1>3 DEF RowsWhole
  <2> QED BY <1>2, <1>3, <1>4, <2>1, RowDecrypted
<1> HIDE DEF a, d
<1>8. answer = [i \in 1 .. n |-> AnswerRow(b[i])]
  <2>1. answer = Decrypted([i \in 1 .. n |-> Encrypt(student, pairs[i][2], d)], "string")
    BY <1>1 DEF p
  <2> QED BY <1>6, <1>7, <2>1 DEF Decrypted
<1> QED BY <1>2, <1>5, <1>6, <1>8, PairedRowsAreRight

-----------------------------------------------------------------------------
(***************************************************************************)
(* The kinds of supported queries together: planned and carried out if the *)
(* process knows their tables, and answered rightly if at all.             *)
(***************************************************************************)
LEMMA SupportedPlans ==
  ASSUME NothingElse, Given, Supported
  PROVE  LET p == parseSql(Meta, query)
             n == Len(p.stages)
         IN  /\ QueryTables \subseteq known =>
                  p # Undefined /\ \A k \in 1 .. n : Result(p.stages, k) # NoTable
             /\ /\ p # Undefined /\ Result(p.stages, n) # NoTable
                /\ answer = Decrypted(Result(p.stages, n), p.type)
                => RightAnswer
<1> DEFINE p == parseSql(Meta, query)
           n == Len(p.stages)
           Fine == p # Undefined /\ \A k \in 1 .. n : Result(p.stages, k) # NoTable
           Ended == /\ p # Undefined /\ Result(p.stages, n) # NoTable
                    /\ answer = Decrypted(Result(p.stages, n), p.type)
<1>1. CASE SupportedSum
  <2> DEFINE name == Place(<<query.sum>>)[1]
             x == <<<<"sum", TrueSum>>>>
  <2>1. name \in QueryTables
    <3>1. IsColumn(<<query.sum>>)
      BY <1>1 DEF SupportedSum
    <3> QED BY <3>1, ColumnPlace
  <2>2. ASSUME name \in known PROVE p # Undefined /\ n = 1 /\ Result(p.stages, 1) = x
    <3>1. p = Plan(<<Stage("sum", <<name, Place(<<query.sum>>)[2]>>)>>, "int")
      BY <1>1, <2>2, SumPlanned
    <3>2. Result(p.stages, 1) = x
      BY <1>1, <2>2, SumStage
    <3> HIDE DEF x
    <3> QED BY <3>1, <3>2 DEF Plan, NothingElse
  <2>3. ASSUME name \notin known PROVE p = Undefined
    BY <1>1, <2>3, SumPlanned
  <2>4. x # NoTable
    <3>1. x \in Seq({<<"sum", TrueSum>>})
      OBVIOUS
    <3> HIDE DEF x
    <3> QED BY <3>1 DEF NothingElse
  <2> HIDE DEF x
  <2>5. QueryTables \subseteq known => Fine
    <3> HIDE DEF name, p, n
    <3> QED BY <2>1, <2>2, <2>4
  <2>6. Ended => RightAnswer
    <3>1. Ended => name \in known /\ n = 1
      BY <2>2, <2>3
    <3> QED BY <1>1, <3>1, SumAnswered
  <2> QED BY <2>5, <2>6
<1>2. CASE SupportedSelect
  <2> DEFINE name == FirstTable(query)
  <2>1. name \in QueryTables
    <3>1. IsColumn(query.select[1]) /\ Place(query.select[1])[1] = name
      BY <1>2 DEF SupportedSelect
    <3> QED BY <3>1, ColumnPlace
  <2>2. ASSUME name \in known
        PROVE  p # Undefined /\ n = 2 /\ Result(p.stages, 1) # NoTable /\ Result(p.stages, 2) # NoTable
    BY <1>2, <2>2, SelectStages
  <2>3. ASSUME name \notin known PROVE p = Undefined
    BY <1>2, <2>3, SelectPlanned
  <2>4. QueryTables \subseteq known => Fine
    <3> HIDE DEF name, p, n
    <3> QED BY <2>1, <2>2
  <2>5. Ended => RightAnswer
    <3>1. Ended => name \in known /\ n = 2
      BY <2>2, <2>3
    <3> QED BY <1>2, <3>1, SelectAnswered
  <2> QED BY <2>4, <2>5
<1>3. CASE SupportedJoin
  <2>1. p # Undefined /\ n = 3
    BY <1>3, JoinStages
  <2>2. ASSUME QueryTables \subseteq known PROVE \A k \in 1 .. 3 : Result(p.stages, k) # NoTable
    BY <1>3, <2>2, JoinStages
  <2>3. ASSUME ~(QueryTables \subseteq known) PROVE Result(p.stages, 3) = NoTable
    BY <1>3, <2>3, JoinStages
  <2>4. QueryTables \subseteq known => Fine
    BY <2>1, <2>2
  <2>5. Ended => RightAnswer
    <3>1. Ended => QueryTables \subseteq known
      BY <2>1, <2>3
    <3> QED BY <1>3, <2>1, <3>1, JoinAnswered
  <2> QED BY <2>4, <2>5
<1> QED BY <1>1, <1>2, <1>3 DEF Supported

\* So the invariant implies the property.
LEMMA QueryInvAnswers ==
  ASSUME NothingElse, QueryInv
  PROVE  AnswersSupported
<1> SUFFICES ASSUME Supported
             PROVE  /\ QueryTables \subseteq known =>
                         parseSql(Meta, query) # Undefined /\ (at > 1 => tmp # NoTable)
                    /\ answer # NotRun => RightAnswer
  BY DEF AnswersSupported
<1> DEFINE p == parseSql(Meta, query)
           n == Len(p.stages)
<1>1. Given
  BY DEF QueryInv
<1>2. /\ QueryTables \subseteq known =>
           p # Undefined /\ \A k \in 1 .. n : Result(p.stages, k) # NoTable
      /\ /\ p # Undefined /\ Result(p.stages, n) # NoTable
         /\ answer = Decrypted(Result(p.stages, n), p.type)
         => RightAnswer
  BY <1>1, SupportedPlans
<1> HIDE DEF p
<1>3. CASE at = 0 /\ tmp = NoTable /\ answer = NotRun
  BY <1>2, <1>3 DEF p
<1>4. CASE Carried
  <2>1. /\ plan = p /\ p # Undefined /\ n \in 1 .. 3 /\ at \in 1 .. (n + 2)
        /\ tmp = Result(p.stages, IF at <= n + 1 THEN at - 1 ELSE n)
        /\ answer # NotRun => at = n + 2 /\ tmp # NoTable /\ answer = Decrypted(tmp, p.type)
    BY <1>4 DEF Carried, p
  <2> HIDE DEF n
  <2>2. ASSUME at > 1, QueryTables \subseteq known PROVE tmp # NoTable
    <3>1. (IF at <= n + 1 THEN at - 1 ELSE n) \in 1 .. n
      BY <2>1, <2>2
    <3> QED BY <1>2, <2>1, <2>2, <3>1
  <2>3. ASSUME answer # NotRun PROVE RightAnswer
    <3>1. at = n + 2 /\ ~(at <= n + 1)
      BY <2>1, <2>3
    <3>2. tmp = Result(p.stages, n) /\ tmp # NoTable /\ answer = Decrypted(tmp, p.type)
      BY <2>1, <2>3, <3>1
    <3> QED BY <1>2, <2>1, <3>2
  <2> QED BY <2>1, <2>2, <2>3 DEF p
<1> QED BY <1>3, <1>4 DEF QueryInv

(***************************************************************************)
(* Every supported query, over any two tables that can be stored, is       *)
(* planned and carried out if the process knows the tables; and if it is   *)
(* answered at all, then with the rows it means, each as often as it means *)
(* them.                                                                   *)
(***************************************************************************)
THEOREM AnswersAlwaysSupported ==
  ASSUME NothingElse
  PROVE  Spec => []AnswersSupported
<1>1. QueryInv /\ [Next]_vars => QueryInv'
  BY QueryInvPreserved
<1>2. QueryInv => AnswersSupported
  BY QueryInvAnswers
<1> QED BY <1>1, <1>2, QueryInvInitially, PTL DEF Spec
=============================================================================
