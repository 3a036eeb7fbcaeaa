---------------------- MODULE ExtractionCascade_proofs ----------------------
(***************************************************************************)
(* One extraction run for any limits, prices and answers.                     *)
(*                                                                         *)
(* First the choice of frames: Ordered enumerates a finite set because the     *)
(* number of elements below an element is an injection into an interval of      *)
(* the same size; so the first pass has as many frames as it may, and the       *)
(* batches of the second pass go through the others.  Then the run: its stages, *)
(* what it may still send, what it has asked and what it bills.                *)
(***************************************************************************)
EXTENDS ExtractionCascade, FiniteSetTheorems, SequenceTheorems, TLAPS

-----------------------------------------------------------------------------
(* Smallest and largest *)

LEMMA MinOfTwo ==
  ASSUME NEW a \in Int, NEW b \in Int
  PROVE  Min({a, b}) = IF a <= b THEN a ELSE b
<1>1. \E m \in {a, b} : \A x \in {a, b} : m <= x
  OBVIOUS
<1>2. /\ Min({a, b}) \in {a, b}
      /\ Min({a, b}) <= a /\ Min({a, b}) <= b
  BY <1>1 DEF Min
<1> QED
  BY <1>2

LEMMA MaxOfTwo ==
  ASSUME NEW a \in Int, NEW b \in Int
  PROVE  Max({a, b}) = IF a >= b THEN a ELSE b
<1>1. \E m \in {a, b} : \A x \in {a, b} : m >= x
  OBVIOUS
<1>2. /\ Max({a, b}) \in {a, b}
      /\ Max({a, b}) >= a /\ Max({a, b}) >= b
  BY <1>1 DEF Max
<1> QED
  BY <1>2

-----------------------------------------------------------------------------
(* Numbers in order *)

Below(S, i) == {j \in S : j < i}

LEMMA Ranks ==
  ASSUME NEW S \in SUBSET Int, IsFiniteSet(S)
  PROVE  /\ \A i \in S : Cardinality(Below(S, i)) \in 0..(Cardinality(S) - 1)
         /\ \A i, j \in S : i < j => Cardinality(Below(S, i)) < Cardinality(Below(S, j))
<1>1. ASSUME NEW i \in S, NEW T \in SUBSET S, Below(S, i) \subseteq T, i \in T
      PROVE  /\ Cardinality(Below(S, i)) \in Nat /\ Cardinality(T) \in Nat
             /\ Cardinality(Below(S, i)) < Cardinality(T)
  <2>1. Below(S, i) \in SUBSET T /\ i \notin Below(S, i)
    BY <1>1 DEF Below
  <2>2. IsFiniteSet(T)
    BY FS_Subset
  <2>3. IsFiniteSet(Below(S, i)) /\ Cardinality(Below(S, i)) <= Cardinality(T)
    BY <2>1, <2>2, FS_Subset
  <2>4. Cardinality(Below(S, i)) \in Nat /\ Cardinality(T) \in Nat
    BY <2>2, <2>3, FS_CardinalityType
  <2>5. Cardinality(Below(S, i)) # Cardinality(T)
    BY <1>1, <2>1, <2>2, FS_Subset
  <2> QED
    BY <2>3, <2>4, <2>5
<1>2. ASSUME NEW i \in S
      PROVE  Cardinality(Below(S, i)) \in 0..(Cardinality(S) - 1)
  <2>1. Below(S, i) \subseteq S
    BY DEF Below
  <2>2. Cardinality(Below(S, i)) \in Nat /\ Cardinality(S) \in Nat
        /\ Cardinality(Below(S, i)) < Cardinality(S)
    BY <1>1, <2>1
  <2> QED
    BY <2>2
<1>3. ASSUME NEW i \in S, NEW j \in S, i < j
      PROVE  Cardinality(Below(S, i)) < Cardinality(Below(S, j))
  <2>1. \A x \in S : x \in Int
    OBVIOUS
  <2>2. \A x \in S : x < i => x < j
    BY <1>3, <2>1
  <2>3. Below(S, j) \in SUBSET S /\ Below(S, i) \subseteq Below(S, j) /\ i \in Below(S, j)
    BY <1>3, <2>2 DEF Below
  <2> QED
    BY <1>1, <2>3
<1> QED
  BY <1>2, <1>3

\* Ordered goes through the set, from its smallest number to its largest.
LEMMA OrderedEnumerates ==
  ASSUME NEW S \in SUBSET Int, IsFiniteSet(S)
  PROVE  /\ Cardinality(S) \in Nat
         /\ Ordered(S) \in [1..Cardinality(S) -> S]
         /\ \A k, l \in 1..Cardinality(S) : k < l => Ordered(S)[k] < Ordered(S)[l]
         /\ \A i \in S : \E k \in 1..Cardinality(S) : Ordered(S)[k] = i
<1> DEFINE m == Cardinality(S)
           rank == [i \in S |-> Cardinality(Below(S, i))]
           Rank(i) == Cardinality(Below(S, i))
<1>1. m \in Nat
  BY FS_CardinalityType
<1>2. IsFiniteSet(0..(m - 1)) /\ Cardinality(0..(m - 1)) = m
  <2>1. 0 \in Int /\ m - 1 \in Int
    BY <1>1
  <2>2. IsFiniteSet(0..(m - 1)) /\ Cardinality(0..(m - 1)) = IF 0 > m - 1 THEN 0 ELSE m - 1 - 0 + 1
    BY <2>1, FS_Interval
  <2> QED
    BY <1>1, <2>2
<1>3. ASSUME NEW i \in S, NEW j \in S, Rank(i) = Rank(j)
      PROVE  i = j
  <2>1. Rank(i) \in Int /\ Rank(j) \in Int
    BY <1>1, Ranks
  <2>2. ~(i < j) /\ ~(j < i)
    BY <1>3, <2>1, Ranks
  <2> QED
    BY <2>2
<1>4. rank \in Injection(S, 0..(m - 1))
  <2>1. rank \in [S -> 0..(m - 1)]
    BY Ranks
  <2>2. \A i, j \in S : rank[i] = rank[j] => i = j
    BY <1>3
  <2> HIDE DEF rank, m
  <2> QED
    BY <2>1, <2>2 DEF Injection, IsInjective
<1>5. rank \in Surjection(S, 0..(m - 1))
  <2> HIDE DEF rank
  <2> QED
    BY <1>2, <1>4, FS_Injection
<1>6. ASSUME NEW k \in 1..m
      PROVE  Ordered(S)[k] \in S /\ Rank(Ordered(S)[k]) = k - 1
  <2>1. k - 1 \in 0..(m - 1)
    BY <1>1
  <2>2. \E i \in S : rank[i] = k - 1
    <3> HIDE DEF rank
    <3> QED
      BY <1>5, <2>1 DEF Surjection
  <2>3. \E i \in S : Cardinality({j \in S : j < i}) = k - 1
    BY <2>2 DEF Below
  <2>4. Ordered(S)[k] = AtRank(S, k - 1)
    BY DEF Ordered
  <2>5. /\ AtRank(S, k - 1) \in S
        /\ Cardinality({j \in S : j < AtRank(S, k - 1)}) = k - 1
    BY <2>3 DEF AtRank
  <2> QED
    BY <2>4, <2>5 DEF Below
<1>7. Ordered(S) \in [1..m -> S]
  <2>1. Ordered(S) = [k \in 1..m |-> Ordered(S)[k]]
    BY DEF Ordered
  <2> QED
    BY <1>6, <2>1
<1>8. ASSUME NEW k \in 1..m, NEW l \in 1..m, k < l
      PROVE  Ordered(S)[k] < Ordered(S)[l]
  <2>1. Ordered(S)[k] \in S /\ Ordered(S)[l] \in S
    BY <1>6
  <2>2. Rank(Ordered(S)[k]) < Rank(Ordered(S)[l])
    BY <1>1, <1>6, <1>8
  <2>3. Rank(Ordered(S)[k]) \in Int /\ Rank(Ordered(S)[l]) \in Int
    BY <1>1, <1>6
  <2>4. CASE Ordered(S)[k] = Ordered(S)[l]
    BY <2>2, <2>3, <2>4
  <2>5. CASE Ordered(S)[l] < Ordered(S)[k]
    <3>1. Rank(Ordered(S)[l]) < Rank(Ordered(S)[k])
      BY <2>1, <2>5, Ranks
    <3> HIDE DEF Rank
    <3> QED
      BY <2>2, <2>3, <3>1
  <2>6. Ordered(S)[k] \in Int /\ Ordered(S)[l] \in Int
    BY <2>1
  <2> HIDE DEF Rank
  <2> QED
    BY <2>4, <2>5, <2>6
<1>9. ASSUME NEW i \in S
      PROVE  \E k \in 1..m : Ordered(S)[k] = i
  <2>1. Rank(i) \in 0..(m - 1)
    BY Ranks
  <2>2. Rank(i) + 1 \in 1..m /\ (Rank(i) + 1) - 1 = Rank(i)
    BY <1>1, <2>1
  <2>3. Ordered(S)[Rank(i) + 1] \in S /\ Rank(Ordered(S)[Rank(i) + 1]) = Rank(i)
    BY <1>6, <2>2
  <2>4. Ordered(S)[Rank(i) + 1] = i
    BY <1>3, <2>3
  <2> QED
    BY <2>2, <2>4
<1> QED
  BY <1>1, <1>7, <1>8, <1>9

\* Its first and its last are the bounds of the set, and it repeats nothing.
LEMMA OrderedEnds ==
  ASSUME NEW S \in SUBSET Int, IsFiniteSet(S), NEW a \in S, \A i \in S : a <= i
  PROVE  Cardinality(S) >= 1 /\ Ordered(S)[1] = a
<1>1. PICK k \in 1..Cardinality(S) : Ordered(S)[k] = a
  BY OrderedEnumerates
<1>2. Cardinality(S) \in Nat /\ 1 \in 1..Cardinality(S)
  BY OrderedEnumerates
<1>3. Ordered(S)[1] \in S /\ Ordered(S)[1] \in Int /\ a \in Int
  BY <1>2, OrderedEnumerates
<1>4. k # 1 => Ordered(S)[1] < Ordered(S)[k]
  BY <1>2, OrderedEnumerates
<1>5. a <= Ordered(S)[1]
  BY <1>3
<1> QED
  BY <1>1, <1>2, <1>3, <1>4, <1>5

LEMMA OrderedLast ==
  ASSUME NEW S \in SUBSET Int, IsFiniteSet(S), NEW b \in S, \A i \in S : i <= b
  PROVE  Ordered(S)[Cardinality(S)] = b
<1> DEFINE m == Cardinality(S)
<1>1. PICK k \in 1..m : Ordered(S)[k] = b
  BY OrderedEnumerates
<1>2. m \in Nat /\ m \in 1..m
  BY OrderedEnumerates
<1>3. Ordered(S)[m] \in S /\ Ordered(S)[m] \in Int /\ b \in Int
  BY <1>2, OrderedEnumerates
<1>4. k # m => Ordered(S)[k] < Ordered(S)[m]
  BY <1>2, OrderedEnumerates
<1>5. Ordered(S)[m] <= b
  BY <1>3
<1> QED
  BY <1>1, <1>2, <1>3, <1>4, <1>5

LEMMA OrderedDistinct ==
  ASSUME NEW S \in SUBSET Int, IsFiniteSet(S),
         NEW k \in 1..Cardinality(S), NEW l \in 1..Cardinality(S), Ordered(S)[k] = Ordered(S)[l]
  PROVE  k = l
<1>1. Ordered(S)[k] \in Int /\ Cardinality(S) \in Nat
  BY OrderedEnumerates
<1>2. ~(k < l) /\ ~(l < k)
  BY <1>1, OrderedEnumerates
<1> QED
  BY <1>1, <1>2

-----------------------------------------------------------------------------
(* The first pass *)

LEMMA Rounding ==
  ASSUME NEW p \in Nat, NEW q \in Nat \ {0}, NEW d \in Nat, p <= q * d
  PROVE  /\ Rounded(p, q) \in 0..d
         /\ p = 0 => Rounded(p, q) = 0
         /\ p = q * d => Rounded(p, q) = d
<1> DEFINE below == p \div q
           rest == p % q
<1>1. below \in Nat /\ rest \in 0..(q - 1) /\ p = q * below + rest
  OBVIOUS
<1>2. Rounded(p, q) \in {below, below + 1} /\ (rest = 0 => Rounded(p, q) = below)
  BY <1>1 DEF Rounded
<1>3. ASSUME NEW x \in Nat, x > d
      PROVE  q * x >= q * d + q
  <2>1. q * x = q * d + q * (x - d) /\ x - d >= 1
    BY <1>3
  <2>2. q * (x - d) >= q
    BY <2>1, <1>3
  <2> QED
    BY <2>1, <2>2, <1>3
<1> HIDE DEF below, rest
<1>4. below <= d
  BY <1>1, <1>3
<1>5. rest # 0 => below + 1 <= d
  <2>1. below = d => q * below = q * d
    OBVIOUS
  <2> QED
    BY <1>1, <1>4, <2>1
<1>6. Rounded(p, q) \in 0..d
  BY <1>1, <1>2, <1>4, <1>5
<1>7. ASSUME NEW x \in Nat, p = q * x
      PROVE  Rounded(p, q) = x
  <2>1. below = x /\ rest = 0
    BY <1>7 DEF below, rest
  <2> QED
    BY <1>2, <2>1
<1> QED
  BY <1>6, <1>7

FirstOf(s, c) == {s[k] : k \in 1..c}
OneToOne(s, n) == \A k, l \in 1..n : s[k] = s[l] => k = l

\* The beginning of a sequence that is long enough.
LEMMA Beginning ==
  ASSUME NEW S, NEW n \in Nat, NEW s \in [1..n -> S], NEW c \in 0..n
  PROVE  /\ SubSeq(s, 1, c) \in [1..c -> S]
         /\ \A k \in 1..c : SubSeq(s, 1, c)[k] = s[k]
<1>1. \A i \in 1..c : s[i] \in S
  OBVIOUS
<1>2. 1 \in Int /\ c \in Int
  OBVIOUS
<1>3. /\ SubSeq(s, 1, c) \in Seq(S)
      /\ Len(SubSeq(s, 1, c)) = IF 1 <= c THEN c - 1 + 1 ELSE 0
      /\ \A i \in 1..(c - 1 + 1) : SubSeq(s, 1, c)[i] = s[1 + i - 1]
  BY <1>1, <1>2, SubSeqProperties
<1>4. c - 1 + 1 = c /\ (IF 1 <= c THEN c - 1 + 1 ELSE 0) = c /\ \A i \in 1..c : 1 + i - 1 = i
  OBVIOUS
<1>5. SubSeq(s, 1, c) \in [1..c -> S]
  BY <1>3, <1>4, LenProperties
<1>6. \A k \in 1..c : SubSeq(s, 1, c)[k] = s[k]
  BY <1>3, <1>4
<1> QED
  BY <1>5, <1>6

LEMMA BeginningValues ==
  ASSUME NEW S, NEW n \in Nat, NEW s \in [1..n -> S], NEW c \in 0..n
  PROVE  ToSet(SubSeq(s, 1, c)) = FirstOf(s, c)
<1>1. SubSeq(s, 1, c) \in [1..c -> S] /\ \A k \in 1..c : SubSeq(s, 1, c)[k] = s[k]
  BY Beginning
<1>2. DOMAIN SubSeq(s, 1, c) = 1..c
  BY <1>1
<1> QED
  BY <1>1, <1>2 DEF ToSet, FirstOf

\* Distinct values are as many as their indexes.
LEMMA DistinctCount ==
  ASSUME NEW S, NEW n \in Nat, NEW s \in [1..n -> S], NEW c \in 0..n,
         OneToOne(s, n)
  PROVE  /\ IsFiniteSet(FirstOf(s, c))
         /\ Cardinality(FirstOf(s, c)) = c
<1> DEFINE T == FirstOf(s, c)
           f == [k \in 1..c |-> s[k]]
<1>0. \A k \in 1..c : k \in 1..n
  OBVIOUS
<1>1. f \in Surjection(1..c, T)
  BY DEF Surjection, FirstOf
<1>2. f \in Injection(1..c, T)
  BY <1>0 DEF Injection, IsInjective, FirstOf, OneToOne
<1>3. IsFiniteSet(1..c) /\ Cardinality(1..c) = c
  <2>1. 1 \in Int /\ c \in Int
    OBVIOUS
  <2>2. IsFiniteSet(1..c) /\ Cardinality(1..c) = IF 1 > c THEN 0 ELSE c - 1 + 1
    BY <2>1, FS_Interval
  <2> QED
    BY <2>2
<1> HIDE DEF T, f
<1>4. IsFiniteSet(T) /\ Cardinality(T) = Cardinality(1..c)
  BY <1>1, <1>2, <1>3, FS_Surjection
<1> QED
  BY <1>3, <1>4 DEF T

LEMMA Indexes ==
  ASSUME NEW n \in Nat
  PROVE  IsFiniteSet(0..(n - 1)) /\ Cardinality(0..(n - 1)) = n
<1>1. 0 \in Int /\ n - 1 \in Int
  OBVIOUS
<1>2. IsFiniteSet(0..(n - 1)) /\ Cardinality(0..(n - 1)) = IF 0 > n - 1 THEN 0 ELSE n - 1 - 0 + 1
  BY <1>1, FS_Interval
<1> QED
  BY <1>2

\* The free frames fill up the picks to the limit, whatever coincides.
LEMMA FilledUp ==
  ASSUME NEW total \in Nat \ {0}, NEW limit \in Nat, limit < total,
         NEW picks \in SUBSET (0..(total - 1)), Cardinality(picks) <= limit
  PROVE  LET fill == ToSet(SubSeq(Ordered((0..total - 1) \ picks), 1, limit - Cardinality(picks))) IN
         /\ fill \subseteq 0..(total - 1)
         /\ IsFiniteSet(picks \cup fill)
         /\ Cardinality(picks \cup fill) = limit
<1> DEFINE rest == (0..total - 1) \ picks
           c == limit - Cardinality(picks)
           fill == ToSet(SubSeq(Ordered(rest), 1, c))
<1>1. IsFiniteSet(0..(total - 1)) /\ Cardinality(0..(total - 1)) = total
  BY Indexes
<1>2. IsFiniteSet(picks) /\ Cardinality(picks) \in Nat
  BY <1>1, FS_Subset, FS_CardinalityType
<1>3. IsFiniteSet(rest) /\ Cardinality(rest) = total - Cardinality(picks)
  <2>1. (0..(total - 1)) \cap picks = picks
    OBVIOUS
  <2>2. /\ IsFiniteSet((0..(total - 1)) \ picks)
        /\ Cardinality((0..(total - 1)) \ picks) =
             Cardinality(0..(total - 1)) - Cardinality((0..(total - 1)) \cap picks)
    BY <1>1, FS_Difference
  <2> QED
    BY <1>1, <2>1, <2>2
<1>4. rest \in SUBSET Int
  OBVIOUS
<1>5. c \in 0..Cardinality(rest) /\ c \in Nat /\ Cardinality(rest) \in Nat
  BY <1>2, <1>3
<1>6. PICK n, free : n = Cardinality(rest) /\ free = Ordered(rest)
  OBVIOUS
<1>7. rest \cap picks = {} /\ rest \subseteq 0..(total - 1)
  OBVIOUS
<1> HIDE DEF rest
<1>8. n \in Nat /\ free \in [1..n -> rest] /\ OneToOne(free, n)
  BY <1>3, <1>4, <1>6, OrderedEnumerates, OrderedDistinct DEF OneToOne
<1>9. c \in 0..n
  BY <1>5, <1>6
<1> HIDE DEF c
<1>10. /\ fill = FirstOf(free, c) /\ fill \subseteq rest
       /\ IsFiniteSet(fill) /\ Cardinality(fill) = c
  <2>1. ToSet(SubSeq(free, 1, c)) = FirstOf(free, c)
    BY <1>8, <1>9, BeginningValues
  <2>2. \A k \in 1..c : k \in 1..n
    BY <1>8, <1>9
  <2>3. FirstOf(free, c) \subseteq rest
    BY <1>8, <2>2 DEF FirstOf
  <2>4. IsFiniteSet(FirstOf(free, c)) /\ Cardinality(FirstOf(free, c)) = c
    BY <1>8, <1>9, DistinctCount
  <2>5. fill = FirstOf(free, c)
    BY ONLY <1>6, <2>1, Zenon DEF fill
  <2> HIDE DEF fill
  <2> QED
    BY <2>3, <2>4, <2>5
<1>11. picks \cap fill = {}
  BY <1>7, <1>10
<1>12. /\ IsFiniteSet(picks \cup fill)
       /\ Cardinality(picks \cup fill) = Cardinality(picks) + Cardinality(fill) - Cardinality({})
  <2> HIDE DEF fill
  <2> QED
    BY <1>2, <1>10, <1>11, FS_Union
<1>13. Cardinality({}) = 0
  BY FS_EmptySet
<1>14. Cardinality(picks \cup fill) = limit
  <2> HIDE DEF fill
  <2> QED
    BY <1>2, <1>10, <1>12, <1>13 DEF c
<1> QED
  BY <1>7, <1>10, <1>12, <1>14 DEF rest, c

\* m indexes below total, in order, none twice, both ends among them.
Spreads(s, m, total) ==
  /\ s \in [1..m -> 0..(total - 1)]
  /\ \A k, l \in 1..m : k < l => s[k] < s[l]
  /\ s[1] = 0
  /\ m > 1 => s[m] = total - 1

\* The first pass takes as many frames as it may, in order, none twice, the first and the
\* last of the video among them - whatever the rounding of halves does to neighbours
\* (select_spread_frame_indexes).
THEOREM SpreadIsFullAndOrdered ==
  ASSUME NEW total \in Nat \ {0}, NEW limit \in Nat \ {0}
  PROVE  Spreads(SpreadIndexes(total, limit), Min({total, limit}), total)
<1> DEFINE s == SpreadIndexes(total, limit)
           m == Min({total, limit})
<1>1. m = IF total <= limit THEN total ELSE limit
  BY MinOfTwo
<1> HIDE DEF m
<1>2. CASE total <= limit
  <2>1. s = [i \in 1..total |-> i - 1] /\ m = total
    BY <1>1, <1>2 DEF SpreadIndexes
  <2>2. s \in [1..total -> 0..(total - 1)] /\ \A i \in 1..total : s[i] = i - 1
    BY <2>1
  <2>3. 1 \in 1..total /\ total \in 1..total
    OBVIOUS
  <2> HIDE DEF s
  <2>4. Spreads(s, m, total)
    BY <2>1, <2>2, <2>3 DEF Spreads
  <2> QED
    BY <2>4 DEF m, s
<1>3. CASE total > limit /\ limit = 1
  <2>1. s = <<0>> /\ m = 1
    BY <1>1, <1>3 DEF SpreadIndexes
  <2>2. 0 \in 0..(total - 1)
    OBVIOUS
  <2>3. s \in [1..1 -> 0..(total - 1)] /\ s[1] = 0
    BY <2>1, <2>2
  <2> HIDE DEF s
  <2>4. Spreads(s, m, total)
    BY <2>1, <2>3 DEF Spreads
  <2> QED
    BY <2>4 DEF m, s
<1>4. CASE total > limit /\ limit # 1
  <2> DEFINE picks == {Pick(i, total, limit) : i \in 0..limit - 1}
             fill == ToSet(SubSeq(Ordered((0..total - 1) \ picks), 1, limit - Cardinality(picks)))
             filled == picks \cup fill
  <2>1. s = SubSeq(Ordered(filled), 1, limit) /\ m = limit
    BY <1>1, <1>4 DEF SpreadIndexes
  <2>2. limit - 1 \in Nat \ {0} /\ total - 1 \in Nat
    BY <1>4
  <2>3. ASSUME NEW i \in 0..limit - 1
        PROVE  /\ Pick(i, total, limit) \in 0..(total - 1)
               /\ i = 0 => Pick(i, total, limit) = 0
               /\ i = limit - 1 => Pick(i, total, limit) = total - 1
    <3>1. i * (total - 1) <= (limit - 1) * (total - 1) /\ i * (total - 1) \in Nat
      <4>1. (limit - 1) * (total - 1) = i * (total - 1) + (limit - 1 - i) * (total - 1)
        OBVIOUS
      <4>2. (limit - 1 - i) * (total - 1) >= 0 /\ i * (total - 1) >= 0
        BY <2>2
      <4> QED
        BY <2>2, <4>1, <4>2
    <3>2. i = 0 => i * (total - 1) = 0
      OBVIOUS
    <3> QED
      BY <2>2, <3>1, <3>2, Rounding DEF Pick
  <2>4. picks \in SUBSET (0..(total - 1)) /\ 0 \in picks /\ total - 1 \in picks
    <3>1. 0 \in 0..limit - 1 /\ limit - 1 \in 0..limit - 1
      BY <2>2
    <3>2. Pick(0, total, limit) = 0 /\ Pick(limit - 1, total, limit) = total - 1
      BY <2>3, <3>1
    <3>3. Pick(0, total, limit) \in picks /\ Pick(limit - 1, total, limit) \in picks
      BY <3>1
    <3>4. picks \subseteq 0..(total - 1)
      BY <2>3
    <3> HIDE DEF picks
    <3> QED
      BY <3>2, <3>3, <3>4
  <2>5. Cardinality(picks) <= limit
    <3> DEFINE pick == [i \in 0..limit - 1 |-> Pick(i, total, limit)]
    <3>1. pick \in Surjection(0..(limit - 1), picks)
      BY DEF Surjection
    <3>2. IsFiniteSet(0..(limit - 1)) /\ Cardinality(0..(limit - 1)) = limit
      BY Indexes
    <3> HIDE DEF pick, picks
    <3> QED
      BY <3>1, <3>2, FS_Surjection
  <2> HIDE DEF picks, s
  <2>6. fill \subseteq 0..(total - 1) /\ IsFiniteSet(filled) /\ Cardinality(filled) = limit
    BY <1>4, <2>4, <2>5, FilledUp
  <2> HIDE DEF fill
  <2>7. /\ filled \in SUBSET (0..(total - 1)) /\ filled \in SUBSET Int
        /\ 0 \in filled /\ total - 1 \in filled
    BY <2>4, <2>6
  <2>8. \A i \in filled : 0 <= i /\ i <= total - 1
    BY <2>7
  <2> HIDE DEF filled
  <2>9. PICK o : o = Ordered(filled)
    OBVIOUS
  <2>10. o \in [1..limit -> filled] /\ \A k, l \in 1..limit : k < l => o[k] < o[l]
    BY <2>6, <2>7, <2>9, OrderedEnumerates
  <2>11. o[1] = 0
    BY <2>6, <2>7, <2>8, <2>9, OrderedEnds
  <2>12. o[limit] = total - 1
    BY <2>6, <2>7, <2>8, <2>9, OrderedLast
  <2>13. s \in [1..limit -> filled] /\ \A k \in 1..limit : s[k] = o[k]
    <3>1. limit \in 0..limit
      OBVIOUS
    <3> QED
      BY <2>1, <2>9, <2>10, <3>1, Beginning
  <2>14. s \in [1..limit -> 0..(total - 1)]
    BY <2>7, <2>13
  <2>15. 1 \in 1..limit /\ limit \in 1..limit
    OBVIOUS
  <2>16. Spreads(s, m, total)
    BY <2>1, <2>10, <2>11, <2>12, <2>13, <2>14, <2>15 DEF Spreads
  <2> QED
    BY <2>16 DEF m, s
<1> QED
  BY <1>2, <1>3, <1>4

-----------------------------------------------------------------------------
(* The batches *)

LEMMA FunctionIsSeq ==
  ASSUME NEW T, NEW n \in Nat, NEW s \in [1..n -> T]
  PROVE  s \in Seq(T) /\ Len(s) = n
<1>1. n \in 0..n
  OBVIOUS
<1>2. SubSeq(s, 1, n) \in [1..n -> T] /\ \A k \in 1..n : SubSeq(s, 1, n)[k] = s[k]
  BY <1>1, Beginning
<1>3. SubSeq(s, 1, n) = s
  BY <1>2
<1>4. (\A i \in 1..n : s[i] \in T) /\ 1 \in Int /\ n \in Int
  OBVIOUS
<1>5. SubSeq(s, 1, n) \in Seq(T) /\ Len(SubSeq(s, 1, n)) = IF 1 <= n THEN n - 1 + 1 ELSE 0
  BY <1>4, SubSeqProperties
<1> QED
  BY <1>3, <1>5

LEMMA Limits ==
  /\ MaxSlides \in Nat \ {0} /\ VideoFrames \in Nat \ {0} /\ MaxVisionFrames \in Nat \ {0}
  /\ FirstPass \in Nat \ {0} /\ VisionBatch \in Nat \ {0} /\ OcrCents \in Nat \ {0}
  /\ MaxJobCost \in Nat /\ TextCents \subseteq Nat /\ SpeechCents \subseteq Nat
  /\ ImageCents \subseteq 0..OcrCents
BY CascadeAssumption DEF CascadeAssumption

\* Batches of n frames, rounded up.
BatchesOf(n) == (n + VisionBatch - 1) \div VisionBatch

LEMMA BatchCount ==
  ASSUME NEW n \in Nat
  PROVE  /\ BatchesOf(n) \in Nat
         /\ \A k \in 1..BatchesOf(n) : (k - 1) * VisionBatch \in 0..(n - 1)
         /\ \A m \in Nat : m <= n => BatchesOf(m) <= BatchesOf(n)
<1> DEFINE v == VisionBatch
<1>1. v \in Nat \ {0}
  BY Limits
<1> HIDE DEF v
<1>2. ASSUME NEW p \in Nat
      PROVE  /\ p \div v \in Nat /\ v * (p \div v) <= p
             /\ p < v * (p \div v) + v
  BY <1>1
<1>3. n + v - 1 \in Nat
  BY <1>1
<1>4. BatchesOf(n) = (n + v - 1) \div v
  BY DEF BatchesOf, v
<1>5. BatchesOf(n) \in Nat /\ v * BatchesOf(n) <= n + v - 1
  BY <1>2, <1>3, <1>4
<1>6. ASSUME NEW k \in 1..BatchesOf(n)
      PROVE  (k - 1) * v \in 0..(n - 1)
  <2>1. v * k <= v * BatchesOf(n)
    <3>1. v * BatchesOf(n) = v * k + v * (BatchesOf(n) - k)
      BY <1>1, <1>5
    <3>2. v * (BatchesOf(n) - k) >= 0
      BY <1>1, <1>5
    <3> QED
      BY <1>1, <1>5, <3>1, <3>2
  <2>2. (k - 1) * v = v * k - v /\ (k - 1) * v >= 0 /\ v * k \in Int
    BY <1>1
  <2> QED
    BY <1>1, <1>5, <2>1, <2>2
<1>7. ASSUME NEW m \in Nat, m <= n
      PROVE  BatchesOf(m) <= BatchesOf(n)
  <2>1. BatchesOf(m) = (m + v - 1) \div v /\ m + v - 1 \in Nat
    BY <1>1 DEF BatchesOf, v
  <2>2. BatchesOf(m) \in Nat /\ v * BatchesOf(m) <= m + v - 1
    BY <1>2, <2>1
  <2>3. n + v - 1 < v * BatchesOf(n) + v
    BY <1>2, <1>3, <1>4
  <2>4. v * BatchesOf(m) < v * (BatchesOf(n) + 1)
    <3>1. v * (BatchesOf(n) + 1) = v * BatchesOf(n) + v
      BY <1>1, <1>5
    <3>2. v * BatchesOf(n) \in Int /\ v * BatchesOf(m) \in Int
      BY <1>1, <1>5, <2>2
    <3> QED
      BY <1>1, <1>7, <2>2, <2>3, <3>1, <3>2
  <2>5. ASSUME BatchesOf(m) >= BatchesOf(n) + 1
        PROVE  FALSE
    <3>1. v * BatchesOf(m) = v * (BatchesOf(n) + 1) + v * (BatchesOf(m) - (BatchesOf(n) + 1))
      BY <1>1, <1>5, <2>2
    <3>2. v * (BatchesOf(m) - (BatchesOf(n) + 1)) >= 0
      BY <1>1, <1>5, <2>2, <2>5
    <3>3. v * (BatchesOf(n) + 1) \in Int /\ v * (BatchesOf(m) - (BatchesOf(n) + 1)) \in Int
      BY <1>1, <1>5, <2>2
    <3> QED
      BY <2>4, <3>1, <3>2, <3>3
  <2> QED
    BY <1>5, <2>2, <2>5
<1> QED
  BY <1>5, <1>6, <1>7 DEF v

\* Chunk k holds the numbers after (k - 1) * VisionBatch, of the whole sequence.
LEMMA ChunkIs ==
  ASSUME NEW n \in Nat, NEW s, Len(s) = n, NEW k \in 1..BatchesOf(n)
  PROVE  /\ Chunks(s)[k] \in Seq(FirstOf(s, n))
         /\ \A i \in DOMAIN Chunks(s)[k] :
              /\ i \in 1..VisionBatch
              /\ (k - 1) * VisionBatch + i \in 1..n
              /\ Chunks(s)[k][i] = s[(k - 1) * VisionBatch + i]
<1>1. Chunks(s)[k] = SubSeq(s, (k - 1) * VisionBatch + 1, Min({k * VisionBatch, n}))
  BY DEF Chunks, BatchesOf
<1>2. \A i \in 1..n : s[i] \in FirstOf(s, n)
  BY DEF FirstOf
<1> QED
  <2> DEFINE a == (k - 1) * VisionBatch
             b == k * VisionBatch
             m == Min({b, n})
  <2>1. a \in 0..(n - 1) /\ b = a + VisionBatch /\ VisionBatch \in Nat \ {0}
    BY Limits, BatchCount
  <2>2. Chunks(s)[k] = SubSeq(s, a + 1, m)
    BY <1>1
  <2> HIDE DEF a, b
  <2>3. m = IF b <= n THEN b ELSE n
    BY <2>1, MinOfTwo
  <2> HIDE DEF m
  <2>4. a + 1 \in Int /\ m \in Int /\ m <= n /\ m <= a + VisionBatch /\ a + 1 <= m
    BY <2>1, <2>3
  <2>5. \A i \in (a + 1)..m : s[i] \in FirstOf(s, n)
    BY <1>2, <2>1, <2>4
  <2>6. /\ SubSeq(s, a + 1, m) \in Seq(FirstOf(s, n))
        /\ Len(SubSeq(s, a + 1, m)) = IF a + 1 <= m THEN m - (a + 1) + 1 ELSE 0
        /\ \A i \in 1..(m - (a + 1) + 1) : SubSeq(s, a + 1, m)[i] = s[(a + 1) + i - 1]
    BY <2>4, <2>5, SubSeqProperties
  <2>7. m - (a + 1) + 1 = m - a /\ \A i \in 1..(m - a) : (a + 1) + i - 1 = a + i
    BY <2>1, <2>4
  <2>8. DOMAIN Chunks(s)[k] = 1..(m - a)
    BY <2>2, <2>4, <2>6, <2>7, LenProperties
  <2>9. \A i \in 1..(m - a) : i \in 1..VisionBatch /\ a + i \in 1..n
    BY <2>1, <2>4
  <2>10. \A i \in 1..(m - a) : Chunks(s)[k][i] = s[a + i]
    BY <2>2, <2>6, <2>7
  <2> QED
    BY <2>2, <2>6, <2>8, <2>9, <2>10 DEF a

LEMMA ChunksAre ==
  ASSUME NEW T, NEW n \in Nat, NEW s \in [1..n -> T]
  PROVE  Chunks(s) \in [1..BatchesOf(n) -> Seq(T)]
<1>1. Len(s) = n
  BY FunctionIsSeq
<1>2. Chunks(s) = [k \in 1..BatchesOf(n) |-> Chunks(s)[k]]
  BY <1>1 DEF Chunks, BatchesOf
<1>3. FirstOf(s, n) \subseteq T
  BY DEF FirstOf
<1>4. \A k \in 1..BatchesOf(n) : Chunks(s)[k] \in Seq(T)
  BY <1>1, <1>3, ChunkIs, SeqMonotonic
<1> QED
  BY <1>2, <1>4

\* No frame is in two batches or twice in one.
Apart(bs) ==
  \A k, l \in DOMAIN bs : \A i \in DOMAIN bs[k], j \in DOMAIN bs[l] :
    bs[k][i] = bs[l][j] => k = l /\ i = j

LEMMA SameChunk ==
  ASSUME NEW k \in Nat, NEW l \in Nat, NEW i \in 1..VisionBatch, NEW j \in 1..VisionBatch,
         (k - 1) * VisionBatch + i = (l - 1) * VisionBatch + j
  PROVE  k = l /\ i = j
<1>1. VisionBatch \in Nat \ {0}
  BY Limits
<1>2. ASSUME NEW a \in Nat, NEW b \in Nat, a < b
      PROVE  (a - 1) * VisionBatch + VisionBatch <= (b - 1) * VisionBatch
  <2>1. (b - 1) * VisionBatch = (a - 1) * VisionBatch + VisionBatch + (b - a - 1) * VisionBatch
    BY <1>1
  <2>2. (b - a - 1) * VisionBatch >= 0
    BY <1>1, <1>2
  <2>3. (a - 1) * VisionBatch \in Int /\ (b - a - 1) * VisionBatch \in Int /\ (b - 1) * VisionBatch \in Int
    BY <1>1
  <2> QED
    BY <1>1, <2>1, <2>2, <2>3
<1>3. (k - 1) * VisionBatch \in Int /\ (l - 1) * VisionBatch \in Int
  BY <1>1
<1>4. CASE k < l
  <2>1. (k - 1) * VisionBatch + VisionBatch <= (l - 1) * VisionBatch
    BY <1>2, <1>4
  <2> QED
    BY <1>1, <1>3, <2>1
<1>5. CASE l < k
  <2>1. (l - 1) * VisionBatch + VisionBatch <= (k - 1) * VisionBatch
    BY <1>2, <1>5
  <2> QED
    BY <1>1, <1>3, <2>1
<1>6. CASE k = l
  BY <1>3, <1>6
<1> QED
  BY <1>4, <1>5, <1>6

LEMMA ChunksApart ==
  ASSUME NEW T, NEW n \in Nat, NEW s \in [1..n -> T], OneToOne(s, n)
  PROVE  Apart(Chunks(s))
<1> SUFFICES ASSUME NEW k \in DOMAIN Chunks(s), NEW l \in DOMAIN Chunks(s),
                    NEW i \in DOMAIN Chunks(s)[k], NEW j \in DOMAIN Chunks(s)[l],
                    Chunks(s)[k][i] = Chunks(s)[l][j]
             PROVE  k = l /\ i = j
  BY DEF Apart
<1>1. DOMAIN Chunks(s) = 1..BatchesOf(n) /\ BatchesOf(n) \in Nat
  BY ChunksAre, BatchCount
<1>2. k \in 1..BatchesOf(n) /\ l \in 1..BatchesOf(n) /\ Len(s) = n
  BY <1>1, FunctionIsSeq
<1>3. /\ i \in 1..VisionBatch /\ (k - 1) * VisionBatch + i \in 1..n
      /\ Chunks(s)[k][i] = s[(k - 1) * VisionBatch + i]
  BY <1>2, ChunkIs
<1>4. /\ j \in 1..VisionBatch /\ (l - 1) * VisionBatch + j \in 1..n
      /\ Chunks(s)[l][j] = s[(l - 1) * VisionBatch + j]
  BY <1>2, ChunkIs
<1>5. (k - 1) * VisionBatch + i = (l - 1) * VisionBatch + j
  BY <1>3, <1>4 DEF OneToOne
<1>6. k \in Nat /\ l \in Nat
  BY <1>1, <1>2
<1> QED
  BY <1>3, <1>4, <1>5, <1>6, SameChunk

\* The frames of the first pass are as many as it may have, and none of them is left over.
LEMMA FirstPassIs ==
  ASSUME NEW n \in Nat \ {0}
  PROVE  /\ FirstPaths(n) \in [1..Min({FirstPass, n}) -> 0..(n - 1)]
         /\ OneToOne(FirstPaths(n), Min({FirstPass, n}))
         /\ Min({FirstPass, n}) \in 1..n
<1> DEFINE m == Min({FirstPass, n})
<1>1. m = (IF FirstPass <= n THEN FirstPass ELSE n) /\ m \in Nat \ {0} /\ m <= n
  BY Limits, MinOfTwo
<1> HIDE DEF m
<1>2. Min({n, m}) = m
  BY <1>1, MinOfTwo
<1>3. Spreads(FirstPaths(n), m, n)
  BY <1>1, <1>2, SpreadIsFullAndOrdered DEF FirstPaths, m
<1>4. FirstPaths(n) \in [1..m -> 0..(n - 1)]
  BY <1>3 DEF Spreads
<1>5. OneToOne(FirstPaths(n), m)
  <2> SUFFICES ASSUME NEW k \in 1..m, NEW l \in 1..m, FirstPaths(n)[k] = FirstPaths(n)[l]
               PROVE  k = l
    BY DEF OneToOne
  <2>1. FirstPaths(n)[k] \in Int /\ FirstPaths(n)[l] \in Int
    BY <1>4
  <2>2. ~(k < l) /\ ~(l < k)
    BY <1>3, <2>1 DEF Spreads
  <2> QED
    BY <1>1, <2>2
<1> QED
  BY <1>1, <1>4, <1>5 DEF m

\* The batches of n frames (_vision_incremental_build): every frame is in at most one.
LEMMA BatchesAre ==
  ASSUME NEW n \in Nat \ {0}
  PROVE  /\ Batches(n) \in Seq(Seq(0..(n - 1)))
         /\ Len(Batches(n)) = 1 + BatchesOf(n - Min({FirstPass, n}))
         /\ Apart(Batches(n))
<1> DEFINE rest == (0..n - 1) \ Range(FirstPaths(n))
<1>1. PICK m, f, r, o, c :
        /\ m = Min({FirstPass, n}) /\ f = FirstPaths(n) /\ r = Cardinality(rest)
        /\ o = Ordered(rest) /\ c = Chunks(o)
  OBVIOUS
<1>2. f \in [1..m -> 0..(n - 1)] /\ OneToOne(f, m) /\ m \in 1..n
  BY <1>1, FirstPassIs
<1>3. Range(f) = FirstOf(f, m) /\ Range(f) \subseteq 0..(n - 1)
  BY <1>2 DEF Range, FirstOf
<1>4. Cardinality(Range(f)) = m
  <2>1. m \in 0..m /\ m \in Nat
    BY <1>2
  <2>2. Cardinality(FirstOf(f, m)) = m
    BY <1>2, <2>1, DistinctCount
  <2> QED
    BY <1>3, <2>2
<1>5. IsFiniteSet(rest) /\ r = n - m
  <2>1. IsFiniteSet(0..(n - 1)) /\ Cardinality(0..(n - 1)) = n
    BY Indexes
  <2>2. /\ IsFiniteSet((0..(n - 1)) \ Range(f))
        /\ Cardinality((0..(n - 1)) \ Range(f)) =
             Cardinality(0..(n - 1)) - Cardinality((0..(n - 1)) \cap Range(f))
    BY <2>1, FS_Difference
  <2>3. (0..(n - 1)) \cap Range(f) = Range(f)
    BY <1>3
  <2> QED
    BY <1>1, <1>4, <2>1, <2>2, <2>3
<1>6. rest \in SUBSET Int /\ rest \subseteq 0..(n - 1) /\ rest \cap Range(f) = {}
  BY <1>1
<1> HIDE DEF rest
<1>7. r \in Nat /\ o \in [1..r -> rest] /\ Len(o) = r /\ OneToOne(o, r)
  <2>1. r = Cardinality(rest) /\ o = Ordered(rest)
    BY <1>1
  <2>2. r \in Nat /\ o \in [1..r -> rest]
    BY <1>5, <1>6, <2>1, OrderedEnumerates
  <2>3. OneToOne(o, r)
    BY <1>5, <1>6, <2>1, OrderedDistinct DEF OneToOne
  <2> QED
    BY <2>2, <2>3, FunctionIsSeq
<1>8. o \in [1..r -> 0..(n - 1)]
  BY <1>6, <1>7
<1>9. c \in [1..BatchesOf(r) -> Seq(0..(n - 1))] /\ Apart(c) /\ BatchesOf(r) \in Nat
  BY <1>1, <1>7, <1>8, ChunksAre, ChunksApart, BatchCount
<1>10. \A k \in 1..BatchesOf(r) : \A i \in DOMAIN c[k] : c[k][i] \in rest
  <2> SUFFICES ASSUME NEW k \in 1..BatchesOf(r), NEW i \in DOMAIN c[k]
               PROVE  c[k][i] \in rest
    OBVIOUS
  <2>1. (k - 1) * VisionBatch + i \in 1..r /\ c[k][i] = o[(k - 1) * VisionBatch + i]
    BY <1>1, <1>7, ChunkIs
  <2> QED
    BY <1>7, <2>1
<1>11. c \in Seq(Seq(0..(n - 1))) /\ Len(c) = BatchesOf(r)
  BY <1>9, FunctionIsSeq
<1>12. f \in Seq(0..(n - 1)) /\ DOMAIN f = 1..m
  <2>1. m \in Nat
    BY <1>2
  <2> QED
    BY <1>2, <2>1, FunctionIsSeq
<1>13. <<f>> \in Seq(Seq(0..(n - 1))) /\ Len(<<f>>) = 1 /\ <<f>>[1] = f
  BY <1>12
<1>14. PICK bs : bs = <<f>> \o c
  OBVIOUS
<1>15. bs = Batches(n)
  BY <1>1, <1>14 DEF Batches, rest
<1>16. /\ bs \in Seq(Seq(0..(n - 1))) /\ Len(bs) = 1 + BatchesOf(r)
       /\ \A k \in 1..(1 + BatchesOf(r)) : bs[k] = IF k <= 1 THEN <<f>>[k] ELSE c[k - 1]
  <2> DEFINE S == Seq(0..(n - 1))
  <2>1. <<f>> \in Seq(S) /\ c \in Seq(S)
    BY <1>11, <1>13
  <2> HIDE DEF S
  <2>2. /\ <<f>> \o c \in Seq(S) /\ Len(<<f>> \o c) = Len(<<f>>) + Len(c)
        /\ \A k \in 1..(Len(<<f>>) + Len(c)) :
             (<<f>> \o c)[k] = IF k <= Len(<<f>>) THEN <<f>>[k] ELSE c[k - Len(<<f>>)]
    BY <2>1, ConcatProperties
  <2> QED
    BY <1>11, <1>13, <1>14, <2>2 DEF S
<1>17. DOMAIN bs = 1..(1 + BatchesOf(r))
  BY <1>16, LenProperties
<1>18. ASSUME NEW k \in DOMAIN bs
       PROVE  \/ k = 1 /\ bs[k] = f
              \/ k - 1 \in 1..BatchesOf(r) /\ bs[k] = c[k - 1]
  <2>1. k \in 1..(1 + BatchesOf(r))
    BY <1>17
  <2>2. bs[k] = IF k <= 1 THEN <<f>>[k] ELSE c[k - 1]
    BY <1>16, <2>1
  <2>3. k = 1 \/ k - 1 \in 1..BatchesOf(r)
    BY <1>9, <2>1
  <2> QED
    BY <1>13, <2>1, <2>2, <2>3
<1>19. Apart(bs)
  <2> SUFFICES ASSUME NEW k \in DOMAIN bs, NEW l \in DOMAIN bs,
                      NEW i \in DOMAIN bs[k], NEW j \in DOMAIN bs[l], bs[k][i] = bs[l][j]
               PROVE  k = l /\ i = j
    BY DEF Apart
  <2>1. \A x \in DOMAIN f : f[x] \notin rest
    BY <1>6 DEF Range
  <2>2. CASE k = 1 /\ l = 1
    <3>1. bs[k] = f /\ bs[l] = f
      BY <1>13, <1>16, <1>17, <2>2
    <3> QED
      BY <1>12, <2>2, <3>1, <1>2 DEF OneToOne
  <2>3. CASE k = 1 /\ l # 1
    <3>1. bs[k] = f /\ l - 1 \in 1..BatchesOf(r) /\ bs[l] = c[l - 1]
      BY <1>18, <2>3
    <3>2. bs[k][i] \notin rest /\ bs[l][j] \in rest
      BY <1>10, <2>1, <3>1
    <3> QED
      BY <3>2
  <2>4. CASE k # 1 /\ l = 1
    <3>1. bs[l] = f /\ k - 1 \in 1..BatchesOf(r) /\ bs[k] = c[k - 1]
      BY <1>18, <2>4
    <3>2. bs[l][j] \notin rest /\ bs[k][i] \in rest
      BY <1>10, <2>1, <3>1
    <3> QED
      BY <3>2
  <2>5. CASE k # 1 /\ l # 1
    <3>1. /\ k - 1 \in 1..BatchesOf(r) /\ bs[k] = c[k - 1]
          /\ l - 1 \in 1..BatchesOf(r) /\ bs[l] = c[l - 1]
      BY <1>18, <2>5
    <3>2. k - 1 \in DOMAIN c /\ l - 1 \in DOMAIN c
      BY <1>9, <3>1
    <3>3. k - 1 = l - 1 /\ i = j
      BY <1>9, <3>1, <3>2 DEF Apart
    <3>4. k \in Int /\ l \in Int
      BY <1>17
    <3> QED
      BY <3>3, <3>4
  <2> QED
    BY <2>2, <2>3, <2>4, <2>5
<1> QED
  BY <1>1, <1>5, <1>15, <1>16, <1>19

-----------------------------------------------------------------------------
(* The inductive invariant *)

\* The frames of one video that are looked at, at most.
Most == Min({VideoFrames, MaxVisionFrames})

PhotoStages == {"slide", "ask slides"}
VideoStages == {"audio", "stt", "spoken", "vision", "frames", "ask frames", "judge", "cover"}
Looking == {"frames", "ask frames"}
Closing == {"except", "finally", "done"}

Typed ==
  /\ TypeOK
  /\ post \in [kind : {"none", "photo", "video"}, caption : Captions, slides : 0..MaxSlides]
  /\ attempts \in [text : Nat, speech : Nat, image : Nat]
  /\ frames \in Seq(Seq(0..(Most - 1))) /\ sent \in Seq(0..(Most - 1))
  /\ job = [status |-> job.status, error |-> job.error, bills |-> job.bills]

\* The way through the stages: which kind of post gets where, and where a run may be that
\* has a recipe or has read a pointer to the bio.
Flow ==
  /\ pc = "start" => /\ post = NoPost /\ read = {} /\ linked = {} /\ recipe = {} /\ unread = {}
                     /\ dirs = {} /\ slide = 1
  /\ pc = "caption" => /\ post.kind \in {"photo", "video"} /\ slide = 1
                       /\ post.kind = "photo" => read # {}
  /\ pc \in PhotoStages => post.kind = "photo"
  /\ pc \in VideoStages => post.kind = "video"
  /\ recipe # {} => pc \in {"slide", "cover", "persist"} \cup Closing
  /\ linked # {} => pc \in {"spoken", "vision", "cover", "persist"} \cup Closing

\* While frames are looked at, the batches to come repeat no frame and none that was sent.
Unsent ==
  /\ FramesSentOnce
  /\ pc \in {"start", "caption", "audio", "stt", "spoken", "vision"} => sent = << >>
  /\ pc \in Looking =>
       /\ frames # << >> /\ Apart(frames)
       /\ \A k \in DOMAIN frames : \A i \in DOMAIN frames[k], x \in DOMAIN sent :
            (pc = "ask frames" => k # 1) => frames[k][i] # sent[x]

\* What was asked so far; a stage to come may ask twice.
CallsOfPhoto ==
  /\ attempts.image <= post.slides /\ attempts.text <= 2 * (1 + post.slides)
  /\ pc = "slide" => attempts.image < slide /\ attempts.text <= 2 * slide
  /\ pc = "ask slides" => /\ attempts.image <= slide /\ slide <= post.slides
                          /\ attempts.text <= 2 * slide

CallsOfVideo ==
  /\ attempts.image = Len(sent)
  /\ attempts.text <= 2 * (2 + Len(Batches(Most)))
  /\ pc \in {"audio", "stt", "spoken"} => attempts.text <= 2
  /\ pc = "vision" => attempts.text <= 4
  /\ pc \in Looking => attempts.text + 2 * Len(frames) <= 2 * (2 + Len(Batches(Most)))

Calls ==
  /\ pc \in {"start", "caption"} \/ post.kind = "none" => attempts = NoAttempt
  /\ post.kind = "photo" => CallsOfPhoto
  /\ post.kind = "video" => CallsOfVideo
  /\ attempts.speech <= 1
  /\ pc \in {"audio", "stt"} \cup PhotoStages => attempts.speech = 0

Bills ==
  /\ BillsAgree
  /\ pc \notin {"finally", "done"} => job.bills = << >>

IInv == Typed /\ Flow /\ Unsent /\ Calls /\ Bills /\ NoFilesLeft

LEMMA TypedFacts ==
  ASSUME Typed
  PROVE  /\ attempts \in [text : Nat, speech : Nat, image : Nat] /\ cents \in Nat
         /\ post.slides \in Nat /\ unread \subseteq 1..post.slides
         /\ slide \in Int /\ 1 <= slide /\ slide <= post.slides + 1
<1>1. attempts \in [text : Nat, speech : Nat, image : Nat] /\ cents \in Nat
  BY DEF Typed, TypeOK
<1>2. post.slides \in 0..MaxSlides /\ post.slides \in Nat
  <2>1. post.slides \in 0..MaxSlides
    BY DEF Typed, TypeOK
  <2> QED
    BY <2>1, Limits
<1>3. slide \in 1..(post.slides + 1) /\ unread \subseteq 1..post.slides
  BY DEF Typed, TypeOK
<1> QED
  BY <1>1, <1>2, <1>3

-----------------------------------------------------------------------------
(* Questions *)

LEMMA AnswersCounted ==
  ASSUME NEW end \in Endings \cup {TooLarge}
  PROVE  end.tries \in 0..2 /\ end.paid \in Nat
<1>1. ASSUME NEW a \in Asked
      PROVE  Len(a) \in 0..2 /\ Paid(a) \in Nat
  <2>1. DOMAIN a \in {1..1, 1..2} /\ Len(a) \in {1, 2}
    <3>0. PICK S, T : S = {"error", "unusable"}
                      /\ T = {"limited", "error", "unusable", "no object", "answer"}
      OBVIOUS
    <3>1. \/ a \in {<<x>> : x \in {"limited", "no object", "answer"}}
          \/ a \in S \X T
      BY ONLY <3>0, a \in Asked, Zenon DEF Asked
    <3>2. CASE a \in {<<x>> : x \in {"limited", "no object", "answer"}}
      <4>1. PICK x : a = <<x>>
        BY <3>2
      <4> QED
        BY <4>1
    <3>3. CASE a \in S \X T
      BY <3>3
    <3> QED
      BY <3>1, <3>2, <3>3
  <2>2. IsFiniteSet(DOMAIN a)
    <3>1. 1 \in Int /\ 2 \in Int
      OBVIOUS
    <3>2. IsFiniteSet(1..1) /\ IsFiniteSet(1..2)
      BY <3>1, FS_Interval
    <3> QED
      BY <2>1, <3>2
  <2>3. {i \in DOMAIN a : a[i] \notin {"limited", "error"}} \in SUBSET (DOMAIN a)
    OBVIOUS
  <2>4. Paid(a) \in Nat
    BY <2>2, <2>3, FS_Subset, FS_CardinalityType DEF Paid
  <2> QED
    BY <2>1, <2>4
<1>2. CASE end = TooLarge
  BY <1>2 DEF TooLarge
<1>3. CASE end \in Endings
  <2>1. \E a \in Asked : \E v : end = [tries |-> Len(a), paid |-> Paid(a), verdict |-> v]
    BY <1>3 DEF Endings
  <2>2. PICK a \in Asked : \E v : end = [tries |-> Len(a), paid |-> Paid(a), verdict |-> v]
    BY <2>1
  <2>3. end.tries = Len(a) /\ end.paid = Paid(a)
    BY <2>2
  <2> QED
    BY <1>1, <2>3
<1> QED
  BY <1>2, <1>3

\* A question costs at most two tries, and only its answer sets the recipe.
LEMMA Asking ==
  ASSUME Typed, NEW end \in Endings \cup {TooLarge}, Ask(end)
  PROVE  /\ cents' \in Nat
         /\ attempts' \in [text : Nat, speech : Nat, image : Nat]
         /\ attempts'.text <= attempts.text + 2
         /\ attempts'.image = attempts.image /\ attempts'.speech = attempts.speech
         /\ IF end.verdict = "recipe" THEN recipe' = read ELSE recipe' = recipe
<1>1. end.tries \in 0..2 /\ end.paid \in Nat
  BY AnswersCounted
<1>2. cents' \in Nat
  <2>1. PICK c \in TextCents : cents' = cents + end.paid * c
    BY DEF Ask
  <2>2. c \in Nat /\ end.paid * c \in Nat
    BY <1>1, Limits
  <2>3. cents \in Nat
    BY DEF Typed, TypeOK
  <2> QED
    BY <2>1, <2>2, <2>3
<1>3. attempts' = [attempts EXCEPT !.text = attempts.text + end.tries]
  BY DEF Ask
<1>4. attempts \in [text : Nat, speech : Nat, image : Nat]
  BY DEF Typed
<1>5. recipe' = IF end.verdict = "recipe" THEN read ELSE recipe
  BY DEF Ask
<1> QED
  BY <1>1, <1>2, <1>3, <1>4, <1>5

LEMMA MostIs ==
  /\ Most \in Nat \ {0} /\ Most <= VideoFrames /\ Most <= MaxVisionFrames
  /\ Len(Batches(Most)) \in Nat
  /\ \A n \in 1..Most : /\ Batches(n) \in Seq(Seq(0..(Most - 1)))
                        /\ Batches(n) # << >> /\ Apart(Batches(n))
                        /\ Len(Batches(n)) <= Len(Batches(Most))
<1>1. Most \in Nat \ {0} /\ Most <= VideoFrames /\ Most <= MaxVisionFrames
  BY Limits, MinOfTwo DEF Most
<1>2. ASSUME NEW n \in 1..Most
      PROVE  /\ Batches(n) \in Seq(Seq(0..(Most - 1))) /\ Batches(n) # << >>
             /\ Apart(Batches(n)) /\ Len(Batches(n)) \in Nat
             /\ Len(Batches(n)) <= Len(Batches(Most))
  <2>1. n \in Nat \ {0}
    BY <1>1
  <2>2. /\ Batches(n) \in Seq(Seq(0..(n - 1))) /\ Apart(Batches(n))
        /\ Len(Batches(n)) = 1 + BatchesOf(n - Min({FirstPass, n}))
    BY <2>1, BatchesAre
  <2>3. Len(Batches(Most)) = 1 + BatchesOf(Most - Min({FirstPass, Most}))
    BY <1>1, BatchesAre
  <2>4. 0..(n - 1) \subseteq 0..(Most - 1)
    BY <1>1
  <2>5. Seq(0..(n - 1)) \subseteq Seq(0..(Most - 1))
    BY <2>4, SeqMonotonic
  <2>6. Batches(n) \in Seq(Seq(0..(Most - 1)))
    BY <2>2, <2>5, SeqMonotonic
  <2>7. PICK a, b : a = n - Min({FirstPass, n}) /\ b = Most - Min({FirstPass, Most})
    OBVIOUS
  <2>8. a \in Nat /\ b \in Nat /\ a <= b
    BY <1>1, <2>1, <2>7, Limits, MinOfTwo
  <2>9. BatchesOf(a) \in Nat /\ BatchesOf(b) \in Nat /\ BatchesOf(a) <= BatchesOf(b)
    BY <2>8, BatchCount
  <2>10. Len(Batches(n)) = 1 + BatchesOf(a) /\ Len(Batches(Most)) = 1 + BatchesOf(b)
    BY <2>2, <2>3, <2>7
  <2>11. Len(Batches(n)) # 0
    BY <2>9, <2>10
  <2>12. Batches(n) # << >>
    BY <2>11, EmptySeq
  <2> QED
    BY <2>2, <2>6, <2>9, <2>10, <2>12
<1>3. Most \in 1..Most
  BY <1>1
<1> QED
  BY <1>1, <1>2, <1>3

-----------------------------------------------------------------------------
(* Steps that pay for nothing *)

LEMMA StartStep ==
  ASSUME IInv, Paused \/ FetchFails \/ FetchSlides \/ FetchVideo
  PROVE  IInv'
<1>1. Typed /\ Flow /\ Unsent /\ Calls /\ Bills /\ NoFilesLeft /\ pc = "start"
  BY DEF IInv, Paused, FetchFails, FetchSlides, FetchVideo
<1>2. /\ UNCHANGED <<linked, cents, recipe, slide, unread, frames, dirs, attempts, sent>>
      /\ post = NoPost /\ linked = {} /\ recipe = {} /\ unread = {} /\ dirs = {} /\ slide = 1
      /\ attempts = NoAttempt /\ sent = << >> /\ job.bills = << >>
  BY <1>1 DEF Flow, Unsent, Calls, CallsOfPhoto, CallsOfVideo, Bills, Paused, FetchFails, FetchSlides, FetchVideo
<1>3. /\ job' = [status |-> job.status, error |-> job'.error, bills |-> << >>]
      /\ job.status \in {"processing", "completed", "failed"}
  BY <1>1, <1>2 DEF Typed, TypeOK, Paused, FetchFails, FetchSlides, FetchVideo, Goto, Raise, Gate
<1>4. /\ post' \in [kind : {"none", "photo", "video"}, caption : Captions, slides : 0..MaxSlides]
      /\ read' \subseteq {"caption", "subtitles", "speech", "frames", "slides"}
      /\ post'.slides \in 0..MaxSlides
      /\ pc' \in {"caption", "slide", "except", "done"}
      /\ pc' = "caption" => post'.kind \in {"photo", "video"}
                            /\ (post'.kind = "photo" => read' # {})
      /\ pc' = "slide" => post'.kind = "photo"
  <2>1. CASE Paused \/ FetchFails
    BY <1>1, <1>2, <2>1 DEF Typed, TypeOK, Paused, FetchFails, Goto, Raise
  <2>2. CASE FetchSlides
    BY <2>2, Limits DEF FetchSlides, Gate, Goto, Raise, Captions
  <2>3. CASE FetchVideo
    BY <2>3, Limits DEF FetchVideo, Gate, Goto, Raise, Captions
  <2> QED
    BY <2>1, <2>2, <2>3
<1>5. Typed'
  <2>1. TypeOK'
    <3>1. /\ post'.caption \in Captions /\ cents' \in Nat
          /\ dirs' = {} /\ linked' = {} /\ recipe' = {} /\ unread' = {} /\ slide' = 1
      BY <1>1, <1>2, <1>4 DEF Typed, TypeOK
    <3>2. 1 \in 1..(post'.slides + 1)
      BY <1>4, Limits
    <3>3. job'.status \in {"processing", "completed", "failed"}
      BY <1>3
    <3> QED
      BY <1>4, <3>1, <3>2, <3>3 DEF TypeOK
  <2>2. job' = [status |-> job'.status, error |-> job'.error, bills |-> job'.bills]
    BY <1>3
  <2> QED
    BY <1>1, <1>2, <1>4, <2>1, <2>2 DEF Typed
<1>6. Flow'
  BY <1>2, <1>4 DEF Flow, PhotoStages, VideoStages
<1>7. Unsent' /\ Bills'
  <2>1. FramesSentOnce'
    BY <1>1, <1>2 DEF Unsent, FramesSentOnce
  <2>2. Unsent'
    BY <1>2, <1>4, <2>1 DEF Unsent, Looking
  <2>3. job'.bills = << >> /\ job'.bills = job.bills /\ cents' = cents
    BY <1>2, <1>3
  <2>4. BillsAgree'
    BY <1>1, <2>3 DEF Bills, BillsAgree
  <2> QED
    BY <2>2, <2>3, <2>4 DEF Bills
<1>8. Calls'
  <2>1. Len(sent') = 0 /\ Len(Batches(Most)) \in Nat /\ slide' = 1
    BY <1>2, EmptySeq, MostIs
  <2>2. attempts' = NoAttempt /\ attempts'.text = 0 /\ attempts'.image = 0 /\ attempts'.speech = 0
    BY <1>2 DEF NoAttempt
  <2>3. post'.slides \in Nat
    BY <1>4, Limits
  <2>4. pc' \notin PhotoStages \ {"slide"} /\ pc' \notin {"ask slides", "vision", "audio", "stt", "spoken"}
        /\ pc' \notin Looking
    BY <1>4 DEF PhotoStages, Looking
  <2>5. PICK p, n : p = post'.slides /\ n = Len(Batches(Most))
    OBVIOUS
  <2>6. 0 <= 2 * (1 + p) /\ 0 <= 2 * (2 + n)
    BY <2>1, <2>3, <2>5
  <2>7. pc' \in {"start", "caption"} \/ post'.kind = "none" => attempts' = NoAttempt
    BY <2>2
  <2>8. attempts'.image = Len(sent') /\ attempts'.image <= post'.slides /\ attempts'.image < slide'
    BY <2>1, <2>2, <2>3
  <2>9. attempts'.text <= 2 * slide' /\ attempts'.text <= 2 * (1 + post'.slides) /\ attempts'.speech <= 1
    BY <2>1, <2>2, <2>5, <2>6
  <2>10. attempts'.text <= 2 * (2 + Len(Batches(Most)))
    BY <2>2, <2>5, <2>6
  <2> QED
    BY <2>2, <2>4, <2>7, <2>8, <2>9, <2>10 DEF Calls, CallsOfPhoto, CallsOfVideo
<1>9. NoFilesLeft'
  BY <1>2 DEF NoFilesLeft
<1> QED
  BY <1>5, <1>6, <1>7, <1>8, <1>9 DEF IInv

\* The run stops with an error.
LEMMA Stops ==
  ASSUME IInv, pc # "start", pc \notin {"finally", "done"}, NEW error, Raise(error),
         UNCHANGED <<post, read, linked, cents, recipe, slide, unread, dirs, attempts, sent>>,
         frames' \in Seq(Seq(0..(Most - 1)))
  PROVE  IInv'
<1>1. Typed /\ Flow /\ Unsent /\ Calls /\ Bills /\ NoFilesLeft
  BY DEF IInv
<1>2. pc' = "except" /\ job' = [status |-> job.status, error |-> error, bills |-> << >>]
  BY <1>1 DEF Raise, Typed, Bills
<1>3. Typed'
  BY <1>1, <1>2 DEF Typed, TypeOK
<1>4. Flow'
  BY <1>1, <1>2 DEF Flow, PhotoStages, VideoStages, Closing
<1>5. Unsent' /\ Bills'
  BY <1>1, <1>2 DEF Unsent, FramesSentOnce, Looking, Bills, BillsAgree
<1>6. Calls'
  BY <1>1, <1>2 DEF Calls, CallsOfPhoto, CallsOfVideo, Looking, PhotoStages
<1>7. NoFilesLeft'
  BY <1>2 DEF NoFilesLeft
<1> QED
  BY <1>3, <1>4, <1>5, <1>6, <1>7 DEF IInv

LEMMA BreaksStep ==
  ASSUME IInv, Breaks
  PROVE  IInv'
<1>1. CASE pc = "start"
  <2>1. Typed /\ Flow /\ Unsent /\ Calls /\ Bills
    BY DEF IInv
  <2>2. /\ pc' = "except" /\ job' = [job EXCEPT !.error = "extraction_retryable"]
        /\ UNCHANGED <<post, read, linked, cents, reason, recipe, slide, unread, frames, dirs, attempts, sent>>
    BY DEF Breaks, Raise
  <2>3. job' = [status |-> job.status, error |-> "extraction_retryable", bills |-> << >>]
    BY <1>1, <2>1, <2>2 DEF Typed, Bills
  <2>4. Typed'
    BY <2>1, <2>2, <2>3 DEF Typed, TypeOK
  <2>5. Flow'
    BY <1>1, <2>1, <2>2 DEF Flow, PhotoStages, VideoStages, Closing
  <2>6. Unsent' /\ Bills'
    BY <1>1, <2>1, <2>2, <2>3 DEF Unsent, FramesSentOnce, Looking, Bills, BillsAgree
  <2>7. Calls'
    BY <1>1, <2>1, <2>2 DEF Calls, CallsOfPhoto, CallsOfVideo, Looking, PhotoStages, Flow, NoPost
  <2>8. NoFilesLeft'
    BY <2>2 DEF NoFilesLeft
  <2> QED
    BY <2>4, <2>5, <2>6, <2>7, <2>8 DEF IInv
<1>2. CASE pc # "start"
  <2>1. /\ pc \notin {"finally", "done"} /\ Raise("extraction_retryable")
        /\ UNCHANGED <<post, read, linked, cents, recipe, slide, unread, frames, dirs, attempts, sent>>
    BY DEF Breaks
  <2>2. frames' \in Seq(Seq(0..(Most - 1)))
    BY <2>1 DEF IInv, Typed
  <2> QED
    BY <1>2, <2>1, <2>2, Stops
<1> QED
  BY <1>1, <1>2

LEMMA EndSlidesStep ==
  ASSUME IInv, EndSlides
  PROVE  IInv'
<1>1. Typed /\ Flow /\ Unsent /\ Calls /\ Bills /\ NoFilesLeft
  BY DEF IInv
<1>2. /\ pc = "slide" /\ frames' \in Seq(Seq(0..(Most - 1)))
      /\ UNCHANGED <<post, read, linked, cents, recipe, slide, unread, frames, dirs, attempts, sent>>
  BY <1>1 DEF EndSlides, Typed
<1>3. CASE \E error : Raise(error)
  BY <1>2, <1>3, Stops
<1>4. CASE Goto("persist")
  <2>1. pc' = "persist" /\ job' = job
    BY <1>4 DEF Goto
  <2>2. Typed'
    BY <1>1, <1>2, <2>1 DEF Typed, TypeOK
  <2>3. Flow' /\ NoFilesLeft'
    BY <1>1, <1>2, <2>1 DEF Flow, PhotoStages, VideoStages, Closing, NoFilesLeft
  <2>4. Unsent' /\ Bills'
    BY <1>1, <1>2, <2>1 DEF Unsent, FramesSentOnce, Looking, Bills, BillsAgree
  <2>5. Calls'
    BY <1>1, <1>2, <2>1 DEF Calls, CallsOfPhoto, CallsOfVideo, Looking, PhotoStages, Flow
  <2> QED
    BY <2>2, <2>3, <2>4, <2>5 DEF IInv
<1> QED
  BY <1>3, <1>4 DEF EndSlides

LEMMA JudgeStep ==
  ASSUME IInv, Judge
  PROVE  IInv'
<1>1. /\ pc = "judge" /\ (\E error : Raise(error))
      /\ UNCHANGED <<post, read, linked, cents, recipe, slide, unread, frames, dirs, attempts, sent>>
  BY DEF Judge
<1>2. frames' \in Seq(Seq(0..(Most - 1)))
  BY <1>1 DEF IInv, Typed
<1> QED
  BY <1>1, <1>2, Stops

LEMMA CoverStep ==
  ASSUME IInv, Cover \/ Audio
  PROVE  IInv'
<1>1. Typed /\ Flow /\ Unsent /\ Calls /\ Bills /\ NoFilesLeft
  BY DEF IInv
<1>2. /\ job' = job /\ dirs' \subseteq dirs \cup {"cover", "audio"}
      /\ UNCHANGED <<post, read, linked, cents, recipe, slide, unread, frames, attempts, sent>>
      /\ \/ pc = "cover" /\ pc' \in {"cover", "persist"}
         \/ pc = "audio" /\ pc' \in {"stt", "vision"}
  BY DEF Cover, Audio, Goto, AfterCover
<1>3. Typed'
  BY <1>1, <1>2 DEF Typed, TypeOK
<1>4. Flow' /\ NoFilesLeft'
  BY <1>1, <1>2 DEF Flow, PhotoStages, VideoStages, Closing, NoFilesLeft
<1>5. Unsent' /\ Bills'
  BY <1>1, <1>2 DEF Unsent, FramesSentOnce, Looking, Bills, BillsAgree
<1>6. Calls'
  <2>1. CASE pc = "cover"
    BY <1>1, <1>2, <2>1 DEF Calls, CallsOfPhoto, CallsOfVideo, Looking, PhotoStages
  <2>2. CASE pc = "audio"
    <3>1. post.kind = "video" /\ attempts.text \in Nat
      BY <1>1, <2>2 DEF Flow, VideoStages, Typed
    <3>2. attempts.text <= 2 /\ attempts.text <= 4
      BY <1>1, <2>2, <3>1 DEF Calls, CallsOfPhoto, CallsOfVideo
    <3>3. pc' \in {"stt", "vision"} /\ pc' \notin Looking
      BY <1>2, <2>2 DEF Looking
    <3> QED
      BY <1>1, <1>2, <2>2, <3>1, <3>2, <3>3 DEF Calls, CallsOfPhoto, CallsOfVideo, PhotoStages
  <2> QED
    BY <1>2, <2>1, <2>2
<1> QED
  BY <1>3, <1>4, <1>5, <1>6 DEF IInv

\* What is billed is what was spent.
LEMMA BillIs ==
  ASSUME Typed, NEW records, NEW status \in {"completed", "failed"}, Bill(records, status), cents' = cents
  PROVE  /\ job' = [status |-> job'.status, error |-> job'.error, bills |-> job'.bills]
         /\ job'.status \in {"processing", "completed", "failed"}
         /\ BillsAgree'
<1> DEFINE bills == [r \in records |-> Billed(status)]
<1>1. \A record \in records : bills[record] = cents
  BY DEF Billed
<1>2. DOMAIN bills = records
  OBVIOUS
<1>3. job' = [job EXCEPT !.status = IF "job" \in records THEN status ELSE job.status, !.bills = bills]
  BY DEF Bill
<1>4. /\ job = [status |-> job.status, error |-> job.error, bills |-> job.bills]
      /\ job.status \in {"processing", "completed", "failed"}
  BY DEF Typed, TypeOK
<1> HIDE DEF bills
<1>5. job' = [status |-> IF "job" \in records THEN status ELSE job.status, error |-> job.error, bills |-> bills]
  BY <1>3, <1>4
<1>6. job'.bills = bills
  BY <1>5
<1>7. BillsAgree'
  BY <1>1, <1>2, <1>6 DEF BillsAgree
<1> QED
  BY <1>4, <1>5, <1>7

\* How a run ends: what is billed is not spent after.
LEMMA EndStep ==
  ASSUME IInv, Persist \/ Except \/ Finally
  PROVE  IInv'
<1>1. Typed /\ Flow /\ Unsent /\ Calls /\ Bills /\ NoFilesLeft
  BY DEF IInv
<1>2. /\ UNCHANGED <<post, read, linked, cents, recipe, slide, unread, frames, attempts, sent>>
      /\ dirs' \subseteq dirs
      /\ \/ pc \in {"persist", "except"} /\ pc' = "finally"
         \/ pc = "finally" /\ pc' = "done" /\ dirs' = {} /\ job' = job
  BY DEF Persist, Except, Finally, Kept, Goto
<1>3. /\ job' = [status |-> job'.status, error |-> job'.error, bills |-> job'.bills]
      /\ job'.status \in {"processing", "completed", "failed"}
      /\ BillsAgree'
  <2>1. CASE Finally
    BY <1>1, <2>1 DEF Finally, Goto, Typed, TypeOK, Bills, BillsAgree
  <2>2. CASE Persist
    <3>1. PICK lost : Bill({"job", "usage", "ledger"} \ lost, "completed")
      BY <2>2 DEF Persist
    <3> QED
      BY <1>1, <1>2, <3>1, BillIs
  <2>3. CASE Except
    <3>1. PICK lost : Bill(({"job", "ledger"} \cup (IF cents > 0 THEN {"usage"} ELSE {})) \ lost, "failed")
      BY <2>3 DEF Except
    <3> QED
      BY <1>1, <1>2, <3>1, BillIs
  <2> QED
    BY <2>1, <2>2, <2>3
<1>4. Typed'
  BY <1>1, <1>2, <1>3 DEF Typed, TypeOK
<1>5. Flow' /\ NoFilesLeft'
  BY <1>1, <1>2 DEF Flow, PhotoStages, VideoStages, Closing, NoFilesLeft
<1>6. Unsent' /\ Bills'
  BY <1>1, <1>2, <1>3 DEF Unsent, FramesSentOnce, Looking, Bills
<1>7. Calls'
  BY <1>1, <1>2 DEF Calls, CallsOfPhoto, CallsOfVideo, Looking, PhotoStages, VideoStages, Flow
<1> QED
  BY <1>4, <1>5, <1>6, <1>7 DEF IInv

-----------------------------------------------------------------------------
(* Steps that ask *)

Proceeds == job' = job \/ \E error : job' = [job EXCEPT !.error = error]

\* Nothing is billed before the end.
LEMMA Proceeding ==
  ASSUME Typed, Bills, pc \notin {"finally", "done"}, Proceeds
  PROVE  /\ job' = [status |-> job'.status, error |-> job'.error, bills |-> job'.bills]
         /\ job'.status \in {"processing", "completed", "failed"}
         /\ Bills'
<1>1. job = [status |-> job.status, error |-> job.error, bills |-> << >>]
  BY DEF Typed, Bills
<1>2. PICK error : job' = [status |-> job.status, error |-> error, bills |-> << >>]
  <2>1. CASE job' = job
    BY <1>1, <2>1
  <2>2. CASE \E error : job' = [job EXCEPT !.error = error]
    <3>1. PICK error : job' = [job EXCEPT !.error = error]
      BY <2>2
    <3>2. job' = [status |-> job.status, error |-> error, bills |-> << >>]
      BY <1>1, <3>1
    <3> QED
      BY <3>2
  <2> QED
    BY <2>1, <2>2 DEF Proceeds
<1>3. job'.bills = << >>
  BY <1>2
<1>4. DOMAIN job'.bills = {}
  BY <1>3
<1>5. Bills'
  BY <1>3, <1>4 DEF Bills, BillsAgree
<1> QED
  BY <1>2, <1>5 DEF Typed, TypeOK

LEMMA Going ==
  ASSUME NEW step, Goto(step)
  PROVE  Proceeds /\ pc' = step
BY DEF Goto, Proceeds

LEMMA Raising ==
  ASSUME NEW error, Raise(error)
  PROVE  Proceeds /\ pc' = "except"
BY DEF Raise, Proceeds

LEMMA AskCaptionStep ==
  ASSUME IInv, AskCaption
  PROVE  IInv'
<1>1. Typed /\ Flow /\ Unsent /\ Calls /\ Bills /\ NoFilesLeft
  BY DEF IInv
<1>2. /\ pc = "caption" /\ UNCHANGED <<post, read, linked, slide, unread, frames, dirs, sent>>
      /\ recipe = {} /\ linked = {} /\ sent = << >> /\ slide = 1 /\ attempts = NoAttempt
      /\ post.kind \in {"photo", "video"}
      /\ post.kind = "photo" => read # {}
  BY <1>1 DEF AskCaption, Flow, Unsent, Calls, Closing
<1>3. /\ attempts.text = 0 /\ attempts.image = 0 /\ attempts.speech = 0
      /\ attempts \in [text : Nat, speech : Nat, image : Nat]
  BY <1>1, <1>2 DEF NoAttempt, Typed
<1>4. /\ Proceeds /\ pc' \in {"except", "slide", "cover", "audio"}
      /\ pc' = "slide" => post.kind = "photo"
      /\ pc' \in {"cover", "audio"} => post.kind = "video"
      /\ recipe' # {} => pc' \in {"slide", "cover"}
      /\ recipe' \subseteq read /\ cents' \in Nat
      /\ attempts' \in [text : Nat, speech : Nat, image : Nat]
      /\ attempts'.text <= 2 /\ attempts'.image = 0 /\ attempts'.speech = 0
  <2>1. CASE read = {}
    <3>1. Goto("audio") /\ UNCHANGED <<cents, attempts, recipe>>
      BY <2>1 DEF AskCaption
    <3>2. Proceeds /\ pc' = "audio"
      BY <3>1, Going
    <3> QED
      BY <1>1, <1>2, <1>3, <2>1, <3>1, <3>2 DEF Typed, TypeOK
  <2>2. CASE read # {}
    <3>1. PICK end \in Endings :
            /\ Ask(end)
            /\ IF Raised(end) THEN Raise(end.verdict)
               ELSE IF post.kind = "photo" THEN Goto("slide")
               ELSE IF end.verdict = "recipe" THEN Goto("cover")
               ELSE IF end.verdict = "recipe_undetermined" THEN Raise(end.verdict)
               ELSE Goto("audio")
      BY <2>2 DEF AskCaption
    <3>2. /\ cents' \in Nat /\ attempts' \in [text : Nat, speech : Nat, image : Nat]
          /\ attempts'.text <= attempts.text + 2
          /\ attempts'.image = attempts.image /\ attempts'.speech = attempts.speech
          /\ IF end.verdict = "recipe" THEN recipe' = read ELSE recipe' = recipe
      BY <1>1, <3>1, Asking
    <3>3. Raised(end) => end.verdict # "recipe"
      BY DEF Raised
    <3>4. /\ Proceeds /\ pc' \in {"except", "slide", "cover", "audio"}
          /\ pc' = "slide" => post.kind = "photo"
          /\ pc' \in {"cover", "audio"} => post.kind = "video"
          /\ end.verdict = "recipe" => pc' \in {"slide", "cover"}
      <4>1. CASE Raised(end) \/ (post.kind # "photo" /\ end.verdict = "recipe_undetermined")
        <5>1. Raise(end.verdict) /\ end.verdict # "recipe"
          BY <3>1, <3>3, <4>1
        <5> QED
          BY <5>1, Raising
      <4>2. CASE ~Raised(end) /\ post.kind = "photo"
        <5>1. Goto("slide")
          BY <3>1, <4>2
        <5> QED
          BY <4>2, <5>1, Going
      <4>3. CASE ~Raised(end) /\ post.kind # "photo" /\ end.verdict = "recipe"
        <5>1. Goto("cover")
          BY <3>1, <4>3
        <5> QED
          BY <1>2, <4>3, <5>1, Going
      <4>4. CASE ~Raised(end) /\ post.kind # "photo" /\ end.verdict \notin {"recipe", "recipe_undetermined"}
        <5>1. Goto("audio")
          BY <3>1, <4>4
        <5> QED
          BY <1>2, <4>4, <5>1, Going
      <4> QED
        BY <4>1, <4>2, <4>3, <4>4
    <3> QED
      BY <1>2, <1>3, <3>2, <3>4
  <2> QED
    BY <2>1, <2>2
<1>5. /\ job' = [status |-> job'.status, error |-> job'.error, bills |-> job'.bills]
      /\ job'.status \in {"processing", "completed", "failed"} /\ Bills'
  BY <1>1, <1>2, <1>4, Proceeding
<1>6. Typed'
  BY <1>1, <1>2, <1>4, <1>5 DEF Typed, TypeOK
<1>7. Flow' /\ NoFilesLeft'
  BY <1>2, <1>4 DEF Flow, PhotoStages, VideoStages, Closing, NoFilesLeft
<1>8. Unsent'
  BY <1>1, <1>2, <1>4 DEF Unsent, FramesSentOnce, Looking
<1>9. Calls'
  <2>1. Len(sent') = 0 /\ Len(Batches(Most)) \in Nat /\ slide' = 1 /\ post'.slides \in Nat
        /\ post' = post
    BY <1>1, <1>2, EmptySeq, MostIs, Limits DEF Typed
  <2>2. pc' \notin {"start", "caption"} /\ post'.kind # "none"
    BY <1>2, <1>4
  <2>3. pc' \notin Looking /\ pc' \notin {"ask slides"}
    BY <1>4 DEF Looking
  <2>4. PICK p, n, t, i, s :
          /\ p = post'.slides /\ n = Len(Batches(Most)) /\ t = attempts'.text
          /\ i = attempts'.image /\ s = slide'
    OBVIOUS
  <2>5. /\ p \in Nat /\ n \in Nat /\ t \in Nat /\ t <= 2 /\ i = 0 /\ s = 1
    BY <1>4, <2>1, <2>4
  <2>6. t <= 2 * (1 + p) /\ t <= 2 * (2 + n) /\ i < s /\ t <= 2 * s /\ i <= p
    BY <2>5
  <2>7. CallsOfPhoto'
    BY <2>3, <2>4, <2>6 DEF CallsOfPhoto
  <2>8. CallsOfVideo'
    BY <1>4, <2>1, <2>3, <2>4, <2>5, <2>6 DEF CallsOfVideo
  <2> QED
    BY <1>4, <2>2, <2>7, <2>8 DEF Calls
<1> QED
  BY <1>5, <1>6, <1>7, <1>8, <1>9 DEF IInv

LEMMA ReadSlideStep ==
  ASSUME IInv, ReadSlide
  PROVE  IInv'
<1>1. Typed /\ Flow /\ Unsent /\ Calls /\ Bills /\ NoFilesLeft
  BY DEF IInv
<1>2. /\ pc = "slide" /\ recipe = {} /\ slide <= post.slides
      /\ UNCHANGED <<post, recipe, frames, dirs, sent>>
      /\ post.kind = "photo" /\ linked = {}
  BY <1>1 DEF ReadSlide, MoreSlides, Flow, PhotoStages, Closing
<1>3. /\ attempts \in [text : Nat, speech : Nat, image : Nat] /\ cents \in Nat
      /\ post.slides \in Nat /\ slide \in 1..(post.slides + 1) /\ slide \in Int
      /\ attempts.image < slide /\ attempts.text <= 2 * slide /\ attempts.speech = 0
  <2>1. /\ attempts \in [text : Nat, speech : Nat, image : Nat] /\ cents \in Nat
        /\ post.slides \in Nat /\ slide \in Int /\ 1 <= slide /\ slide <= post.slides + 1
    BY <1>1, TypedFacts
  <2>2. /\ attempts.image < slide /\ attempts.text <= 2 * slide /\ attempts.speech = 0
    BY <1>1, <1>2 DEF Calls, CallsOfPhoto, PhotoStages
  <2> QED
    BY <2>1, <2>2
<1>4. PICK got \in {"gone", "error", "unusable", "text", "link"}, c \in ImageCents :
        /\ attempts' = IF got = "gone" THEN attempts ELSE [attempts EXCEPT !.image = attempts.image + 1]
        /\ cents' = IF got \in {"gone", "error"} THEN cents ELSE cents + c
        /\ IF got \in {"text", "link"}
           THEN /\ read' = read \cup {"slides"} /\ UNCHANGED <<slide, unread>>
                /\ linked' = linked \cup (IF got = "link" THEN {"slides"} ELSE {})
                /\ IF got = "link" THEN Raise("link_in_bio") ELSE Goto("ask slides")
           ELSE /\ unread' = unread \cup {slide} /\ slide' = slide + 1
                /\ Goto("slide") /\ UNCHANGED <<read, linked>>
  BY DEF ReadSlide, AfterUnread
<1>5. cents' \in Nat
  <2>1. c \in Nat /\ cents + c \in Nat
    BY <1>3, Limits
  <2>2. cents' = cents \/ cents' = cents + c
    BY <1>4 DEF Goto, Raise
  <2> QED
    BY <1>3, <2>1, <2>2
<1>6. /\ attempts' \in [text : Nat, speech : Nat, image : Nat]
      /\ attempts'.image <= attempts.image + 1
      /\ attempts'.text = attempts.text /\ attempts'.speech = attempts.speech
  <2>1. attempts' = attempts \/ attempts' = [attempts EXCEPT !.image = attempts.image + 1]
    BY <1>4 DEF Goto, Raise
  <2> QED
    BY <1>3, <2>1
<1>7. /\ Proceeds /\ read \subseteq read' /\ read' \subseteq read \cup {"slides"}
      /\ linked' \subseteq read' /\ unread' \subseteq unread \cup {slide}
      /\ linked' # {} => pc' = "except"
      /\ \/ pc' \in {"except", "ask slides"} /\ slide' = slide
         \/ pc' = "slide" /\ slide' = slide + 1
  BY <1>2, <1>4 DEF Goto, Raise, Proceeds
<1>8. /\ job' = [status |-> job'.status, error |-> job'.error, bills |-> job'.bills]
      /\ job'.status \in {"processing", "completed", "failed"} /\ Bills'
  BY <1>1, <1>2, <1>7, Proceeding
<1>9. Typed'
  <2>1. slide' \in 1..(post.slides + 1) /\ unread' \subseteq 1..post.slides
    <3>1. slide \in 1..post.slides /\ unread \subseteq 1..post.slides
      BY <1>1, <1>2, <1>3 DEF Typed, TypeOK
    <3>2. slide \in 1..(post.slides + 1) /\ slide + 1 \in 1..(post.slides + 1)
      BY <1>3, <3>1
    <3>3. unread' \subseteq 1..post.slides
      BY <1>7, <3>1
    <3> QED
      BY <1>7, <3>2, <3>3
  <2>2. TypeOK'
    BY <1>1, <1>2, <1>5, <1>7, <1>8, <2>1 DEF Typed, TypeOK
  <2> QED
    BY <1>1, <1>2, <1>6, <1>8, <2>2 DEF Typed
<1>10. Flow' /\ NoFilesLeft'
  BY <1>2, <1>7 DEF Flow, PhotoStages, VideoStages, Closing, NoFilesLeft
<1>11. Unsent'
  BY <1>1, <1>2, <1>7 DEF Unsent, FramesSentOnce, Looking
<1>12. Calls'
  <2>1. PICK p, t, i, s : p = post.slides /\ t = attempts'.text /\ i = attempts'.image /\ s = slide
    OBVIOUS
  <2>2. p \in Nat /\ t \in Nat /\ i \in Nat /\ s \in Int /\ s <= p /\ i <= s /\ t <= 2 * s
    BY <1>2, <1>3, <1>6, <2>1
  <2>3. i <= p /\ t <= 2 * (1 + p) /\ i < s + 1 /\ t <= 2 * (s + 1)
    BY <2>2
  <2>4. pc' \notin {"start", "caption"}
    BY <1>7
  <2>5. post' = post /\ post'.kind = "photo" /\ post'.slides = p /\ attempts'.speech = 0
    BY <1>2, <1>3, <1>6, <2>1
  <2>6. attempts'.image <= post'.slides /\ attempts'.text <= 2 * (1 + post'.slides)
    BY <2>1, <2>3, <2>5
  <2>7. CASE slide' = slide /\ pc' # "slide"
    <3>1. CallsOfPhoto'
      BY <2>1, <2>2, <2>5, <2>6, <2>7 DEF CallsOfPhoto
    <3> QED
      BY <2>4, <2>5, <3>1 DEF Calls
  <2>8. CASE slide' = slide + 1 /\ pc' = "slide"
    <3>1. attempts'.image < slide' /\ attempts'.text <= 2 * slide'
      BY <2>1, <2>3, <2>8
    <3>2. CallsOfPhoto'
      BY <2>6, <2>8, <3>1 DEF CallsOfPhoto
    <3> QED
      BY <2>4, <2>5, <3>2 DEF Calls
  <2> QED
    BY <1>7, <2>7, <2>8
<1> QED
  BY <1>8, <1>9, <1>10, <1>11, <1>12 DEF IInv

LEMMA AskSlidesStep ==
  ASSUME IInv, AskSlides
  PROVE  IInv'
<1>1. Typed /\ Flow /\ Unsent /\ Calls /\ Bills /\ NoFilesLeft
  BY DEF IInv
<1>2. /\ pc = "ask slides" /\ UNCHANGED <<post, read, linked, unread, frames, dirs, sent>>
      /\ slide' = slide + 1 /\ recipe = {} /\ post.kind = "photo" /\ linked = {}
  BY <1>1 DEF AskSlides, Flow, PhotoStages, Closing
<1>3. /\ attempts \in [text : Nat, speech : Nat, image : Nat]
      /\ post.slides \in Nat /\ slide \in Int /\ slide >= 1 /\ slide <= post.slides
      /\ attempts.image <= slide /\ attempts.text <= 2 * slide /\ attempts.speech = 0
  <2>1. /\ attempts \in [text : Nat, speech : Nat, image : Nat] /\ cents \in Nat
        /\ post.slides \in Nat /\ slide \in Int /\ 1 <= slide /\ slide <= post.slides + 1
    BY <1>1, TypedFacts
  <2>2. /\ attempts.image <= slide /\ slide <= post.slides /\ attempts.text <= 2 * slide
        /\ attempts.speech = 0
    BY <1>1, <1>2 DEF Calls, CallsOfPhoto, PhotoStages
  <2> QED
    BY <2>1, <2>2
<1>4. PICK end \in Endings \cup {TooLarge} :
        Ask(end) /\ IF Raised(end) THEN Raise(end.verdict) ELSE Goto("slide")
  BY DEF AskSlides
<1>5. /\ cents' \in Nat /\ attempts' \in [text : Nat, speech : Nat, image : Nat]
      /\ attempts'.text <= attempts.text + 2
      /\ attempts'.image = attempts.image /\ attempts'.speech = attempts.speech
      /\ IF end.verdict = "recipe" THEN recipe' = read ELSE recipe' = recipe
  BY <1>1, <1>4, Asking
<1>6. Raised(end) => end.verdict # "recipe"
  BY DEF Raised
<1>7. /\ Proceeds /\ pc' \in {"except", "slide"}
      /\ recipe' # {} => pc' = "slide"
  BY <1>2, <1>4, <1>5, <1>6 DEF Goto, Raise, Proceeds
<1>8. /\ job' = [status |-> job'.status, error |-> job'.error, bills |-> job'.bills]
      /\ job'.status \in {"processing", "completed", "failed"} /\ Bills'
  BY <1>1, <1>2, <1>7, Proceeding
<1>9. Typed'
  <2>1. slide' \in 1..(post.slides + 1)
    <3>1. PICK s, p : s = slide /\ p = post.slides
      OBVIOUS
    <3>2. s \in Int /\ 1 <= s /\ s <= p /\ p \in Nat
      BY <1>3, <3>1
    <3>3. s + 1 \in 1..(p + 1)
      BY <3>2
    <3> QED
      BY <1>2, <3>1, <3>3
  <2>0. recipe' \subseteq read
    BY <1>2, <1>5
  <2> QED
    BY <1>1, <1>2, <1>5, <1>7, <1>8, <2>0, <2>1 DEF Typed, TypeOK
<1>10. Flow' /\ NoFilesLeft'
  BY <1>2, <1>7 DEF Flow, PhotoStages, VideoStages, Closing, NoFilesLeft
<1>11. Unsent'
  BY <1>1, <1>2, <1>7 DEF Unsent, FramesSentOnce, Looking
<1>12. Calls'
  <2>1. PICK p, t, i, s : p = post.slides /\ t = attempts'.text /\ i = attempts'.image /\ s = slide
    OBVIOUS
  <2>2. p \in Nat /\ t \in Nat /\ i \in Nat /\ s \in Int /\ s <= p /\ i <= s /\ t <= 2 * s + 2
    BY <1>3, <1>5, <2>1
  <2>3. i <= p /\ t <= 2 * (1 + p) /\ i < s + 1 /\ t <= 2 * (s + 1)
    BY <2>2
  <2>4. pc' \notin {"start", "caption", "ask slides"}
    BY <1>7
  <2>5. post' = post /\ post'.kind = "photo" /\ post'.slides = p /\ attempts'.speech = 0 /\ slide' = s + 1
    BY <1>2, <1>3, <1>5, <2>1
  <2>6. CallsOfPhoto'
    BY <2>1, <2>3, <2>4, <2>5 DEF CallsOfPhoto
  <2>7. attempts'.speech <= 1 /\ post'.kind # "video" /\ post'.kind # "none"
    BY <2>5
  <2> QED
    BY <2>4, <2>5, <2>6, <2>7 DEF Calls
<1> QED
  BY <1>8, <1>9, <1>10, <1>11, <1>12 DEF IInv

LEMMA TranscribeStep ==
  ASSUME IInv, Transcribe
  PROVE  IInv'
<1>1. Typed /\ Flow /\ Unsent /\ Calls /\ Bills /\ NoFilesLeft
  BY DEF IInv
<1>2. /\ pc = "stt" /\ UNCHANGED <<post, recipe, slide, unread, frames, dirs, sent>>
      /\ recipe = {} /\ linked = {} /\ sent = << >> /\ post.kind = "video"
  BY <1>1 DEF Transcribe, Flow, Unsent, VideoStages, Closing
<1>3. /\ attempts \in [text : Nat, speech : Nat, image : Nat] /\ cents \in Nat
      /\ attempts.text <= 2 /\ attempts.speech = 0 /\ attempts.image = Len(sent)
  BY <1>1, <1>2, TypedFacts DEF Calls, CallsOfVideo
<1>4. /\ attempts' = [attempts EXCEPT !.speech = attempts.speech + 1]
      /\ \/ Goto("vision") /\ UNCHANGED <<cents, read, linked>>
         \/ \E c \in SpeechCents, heard \in {"nothing", "text", "link"} :
              /\ cents' = cents + c
              /\ read' = read \cup (IF heard = "nothing" THEN {} ELSE {"speech"})
              /\ linked' = linked \cup (IF heard = "link" THEN {"speech"} ELSE {})
              /\ Goto(IF heard = "nothing" THEN "vision" ELSE "spoken")
  BY DEF Transcribe
<1>5. /\ attempts' \in [text : Nat, speech : Nat, image : Nat]
      /\ attempts'.text = attempts.text /\ attempts'.image = attempts.image /\ attempts'.speech = 1
  BY <1>3, <1>4
<1>6. /\ Proceeds /\ pc' \in {"vision", "spoken"} /\ cents' \in Nat
      /\ read \subseteq read' /\ read' \subseteq read \cup {"speech"} /\ linked' \subseteq read'
      /\ linked' # {} => pc' = "spoken"
  <2>1. CASE Goto("vision") /\ UNCHANGED <<cents, read, linked>>
    <3>1. Proceeds /\ pc' = "vision"
      BY <2>1, Going
    <3> QED
      BY <1>2, <1>3, <2>1, <3>1
  <2>2. ASSUME NEW c \in SpeechCents, NEW heard \in {"nothing", "text", "link"},
               cents' = cents + c,
               read' = read \cup (IF heard = "nothing" THEN {} ELSE {"speech"}),
               linked' = linked \cup (IF heard = "link" THEN {"speech"} ELSE {}),
               Goto(IF heard = "nothing" THEN "vision" ELSE "spoken")
        PROVE  /\ Proceeds /\ pc' \in {"vision", "spoken"} /\ cents' \in Nat
               /\ read \subseteq read' /\ read' \subseteq read \cup {"speech"} /\ linked' \subseteq read'
               /\ linked' # {} => pc' = "spoken"
    <3>1. Proceeds /\ pc' = IF heard = "nothing" THEN "vision" ELSE "spoken"
      BY <2>2, Going
    <3>2. c \in Nat
      BY Limits
    <3>3. cents' \in Nat
      BY <1>3, <2>2, <3>2
    <3> QED
      BY <1>2, <2>2, <3>1, <3>3
  <2> QED
    BY <1>4, <2>1, <2>2
<1>7. /\ job' = [status |-> job'.status, error |-> job'.error, bills |-> job'.bills]
      /\ job'.status \in {"processing", "completed", "failed"} /\ Bills'
  BY <1>1, <1>2, <1>6, Proceeding
<1>8. Typed'
  BY <1>1, <1>2, <1>5, <1>6, <1>7 DEF Typed, TypeOK
<1>9. Flow' /\ NoFilesLeft'
  BY <1>2, <1>6 DEF Flow, PhotoStages, VideoStages, Closing, NoFilesLeft
<1>10. Unsent'
  BY <1>1, <1>2, <1>6 DEF Unsent, FramesSentOnce, Looking
<1>11. Calls'
  <2>1. PICK n, t : n = Len(Batches(Most)) /\ t = attempts'.text
    OBVIOUS
  <2>2. n \in Nat /\ t \in Nat /\ t <= 2
    BY <1>3, <1>5, <2>1, MostIs
  <2>3. t <= 4 /\ t <= 2 * (2 + n)
    BY <2>2
  <2>4. pc' \notin Looking
    BY <1>6 DEF Looking
  <2>5. attempts'.image = Len(sent')
    BY <1>2, <1>3, <1>5
  <2>6. CallsOfVideo'
    BY <2>1, <2>2, <2>3, <2>4, <2>5 DEF CallsOfVideo
  <2>7. pc' \notin {"start", "caption", "audio", "stt"} /\ pc' \notin PhotoStages
    BY <1>6 DEF PhotoStages
  <2>8. post'.kind = "video" /\ attempts'.speech <= 1
    BY <1>2, <1>5
  <2> QED
    BY <2>6, <2>7, <2>8 DEF Calls
<1> QED
  BY <1>7, <1>8, <1>9, <1>10, <1>11 DEF IInv

LEMMA AskSpokenStep ==
  ASSUME IInv, AskSpoken
  PROVE  IInv'
<1>1. Typed /\ Flow /\ Unsent /\ Calls /\ Bills /\ NoFilesLeft
  BY DEF IInv
<1>2. /\ pc = "spoken" /\ UNCHANGED <<post, read, linked, slide, unread, frames, dirs, sent>>
      /\ recipe = {} /\ sent = << >> /\ post.kind = "video"
  BY <1>1 DEF AskSpoken, Flow, Unsent, VideoStages, Closing
<1>3. /\ attempts \in [text : Nat, speech : Nat, image : Nat]
      /\ attempts.text <= 2 /\ attempts.speech <= 1 /\ attempts.image = Len(sent)
  BY <1>1, <1>2, TypedFacts DEF Calls, CallsOfVideo
<1>4. PICK end \in Endings : Ask(end) /\ Goto(IF end.verdict = "recipe" THEN "cover" ELSE "vision")
  BY DEF AskSpoken
<1>5. /\ cents' \in Nat /\ attempts' \in [text : Nat, speech : Nat, image : Nat]
      /\ attempts'.text <= attempts.text + 2
      /\ attempts'.image = attempts.image /\ attempts'.speech = attempts.speech
      /\ IF end.verdict = "recipe" THEN recipe' = read ELSE recipe' = recipe
  BY <1>1, <1>4, Asking
<1>6. /\ Proceeds /\ pc' \in {"cover", "vision"} /\ recipe' \subseteq read
      /\ recipe' # {} => pc' = "cover"
  <2>1. Proceeds /\ pc' = IF end.verdict = "recipe" THEN "cover" ELSE "vision"
    BY <1>4, Going
  <2> QED
    BY <1>2, <1>5, <2>1
<1>7. /\ job' = [status |-> job'.status, error |-> job'.error, bills |-> job'.bills]
      /\ job'.status \in {"processing", "completed", "failed"} /\ Bills'
  BY <1>1, <1>2, <1>6, Proceeding
<1>8. Typed'
  BY <1>1, <1>2, <1>5, <1>6, <1>7 DEF Typed, TypeOK
<1>9. Flow' /\ NoFilesLeft'
  BY <1>1, <1>2, <1>6 DEF Flow, PhotoStages, VideoStages, Closing, NoFilesLeft
<1>10. Unsent'
  BY <1>1, <1>2, <1>6 DEF Unsent, FramesSentOnce, Looking
<1>11. Calls'
  <2>1. PICK n, t : n = Len(Batches(Most)) /\ t = attempts'.text
    OBVIOUS
  <2>2. n \in Nat /\ t \in Nat /\ t <= 4
    BY <1>3, <1>5, <2>1, MostIs
  <2>3. t <= 2 * (2 + n)
    BY <2>2
  <2>4. pc' \notin Looking /\ pc' \notin {"audio", "stt", "spoken"}
    BY <1>6 DEF Looking
  <2>5. attempts'.image = Len(sent')
    BY <1>2, <1>3, <1>5
  <2>6. CallsOfVideo'
    BY <2>1, <2>2, <2>3, <2>4, <2>5 DEF CallsOfVideo
  <2>7. pc' \notin {"start", "caption", "audio", "stt"} /\ pc' \notin PhotoStages
    BY <1>6 DEF PhotoStages
  <2>8. post'.kind = "video" /\ attempts'.speech <= 1
    BY <1>2, <1>3, <1>5
  <2> QED
    BY <2>6, <2>7, <2>8 DEF Calls
<1> QED
  BY <1>7, <1>8, <1>9, <1>10, <1>11 DEF IInv

\* The budget only lowers the number of frames that are looked at.
LEMMA CapIs ==
  ASSUME cents \in Nat
  PROVE  Min({VideoFrames, Cap}) \in Nat /\ Min({VideoFrames, Cap}) <= Most
<1>1. LeftFor \in Nat
  <2>1. CASE cents < MaxJobCost
    <3>1. MaxJobCost - cents \in Nat
      BY <2>1, Limits
    <3>2. (MaxJobCost - cents) \div OcrCents \in Nat
      BY <3>1, Limits
    <3> QED
      BY <2>1, <3>2 DEF LeftFor
  <2> QED
    BY <2>1 DEF LeftFor
<1>2. PICK l, m, v : l = LeftFor /\ m = MaxVisionFrames /\ v = VideoFrames
  OBVIOUS
<1>3. l \in Nat /\ m \in Nat \ {0} /\ v \in Nat \ {0}
  BY <1>1, <1>2, Limits
<1>4. PICK a : a = Min({l, m})
  OBVIOUS
<1>5. a \in Nat /\ a <= m
  BY <1>3, <1>4, MinOfTwo
<1>6. PICK c : c = Max({1, a})
  OBVIOUS
<1>7. c \in Nat /\ c <= m
  BY <1>3, <1>5, <1>6, MaxOfTwo
<1>8. Min({v, c}) \in Nat /\ Min({v, c}) <= Min({v, m})
  BY <1>3, <1>7, MinOfTwo
<1> QED
  BY <1>2, <1>4, <1>6, <1>8 DEF Cap, Most

LEMMA VisionStep ==
  ASSUME IInv, Vision
  PROVE  IInv'
<1>1. Typed /\ Flow /\ Unsent /\ Calls /\ Bills /\ NoFilesLeft
  BY DEF IInv
<1>2. /\ pc = "vision" /\ UNCHANGED <<post, read, linked, cents, recipe, slide, unread, attempts, sent>>
      /\ recipe = {} /\ sent = << >> /\ post.kind = "video"
  BY <1>1 DEF Vision, Flow, Unsent, VideoStages, Closing
<1>3. /\ attempts \in [text : Nat, speech : Nat, image : Nat] /\ cents \in Nat
      /\ attempts.text <= 4 /\ attempts.speech <= 1 /\ attempts.image = Len(sent)
  BY <1>1, <1>2, TypedFacts DEF Calls, CallsOfVideo
<1>4. CASE Raise("link_in_bio") /\ UNCHANGED <<frames, dirs>>
  <2>1. frames' \in Seq(Seq(0..(Most - 1)))
    BY <1>1, <1>4 DEF Typed
  <2> QED
    BY <1>2, <1>4, <2>1, Stops
<1>5. ASSUME linked = {}, Proceeds, pc' \in {"judge", "frames"}, dirs' \subseteq dirs \cup {"frames"},
             \/ pc' = "judge" /\ frames' = frames
             \/ pc' = "frames" /\ \E n \in 1..Most : frames' = Batches(n)
      PROVE  IInv'
  <2>1. /\ job' = [status |-> job'.status, error |-> job'.error, bills |-> job'.bills]
        /\ job'.status \in {"processing", "completed", "failed"} /\ Bills'
    BY <1>1, <1>2, <1>5, Proceeding
  <2>2. pc' = "frames" => /\ frames' \in Seq(Seq(0..(Most - 1))) /\ frames' # << >> /\ Apart(frames')
                          /\ Len(frames') <= Len(Batches(Most))
    BY <1>5, MostIs
  <2>3. frames' \in Seq(Seq(0..(Most - 1)))
    BY <1>1, <1>5, <2>2 DEF Typed
  <2>4. Typed'
    BY <1>1, <1>2, <1>5, <2>1, <2>3 DEF Typed, TypeOK
  <2>5. Flow' /\ NoFilesLeft'
    BY <1>2, <1>5 DEF Flow, PhotoStages, VideoStages, Closing, NoFilesLeft
  <2>6. Unsent'
    <3>1. sent' = << >> /\ DOMAIN sent' = {}
      BY <1>2
    <3> QED
      BY <1>5, <2>2, <3>1 DEF Unsent, FramesSentOnce, Looking
  <2>7. Calls'
    <3>1. PICK n, t, f : n = Len(Batches(Most)) /\ t = attempts'.text /\ f = Len(frames')
      OBVIOUS
    <3>2. n \in Nat /\ t \in Nat /\ t <= 4 /\ f \in Nat
      BY <1>2, <1>3, <2>3, <3>1, MostIs, LenProperties
    <3>3. t <= 2 * (2 + n) /\ (pc' = "frames" => t + 2 * f <= 2 * (2 + n))
      BY <2>2, <3>1, <3>2
    <3>4. pc' \in Looking => pc' = "frames"
      BY <1>5 DEF Looking
    <3>5. attempts' = attempts /\ attempts'.image = Len(sent') /\ attempts'.speech <= 1
          /\ post'.kind = "video" /\ pc' \notin {"audio", "stt", "spoken", "vision", "start", "caption"}
      BY <1>2, <1>3, <1>5
    <3>6. CallsOfVideo'
      BY <3>1, <3>2, <3>3, <3>4, <3>5 DEF CallsOfVideo
    <3>7. pc' \notin PhotoStages
      BY <1>5 DEF PhotoStages
    <3> QED
      BY <3>5, <3>6, <3>7 DEF Calls
  <2> QED
    BY <2>1, <2>4, <2>5, <2>6, <2>7 DEF IInv
<1>6. CASE linked = {} /\ Goto("judge") /\ UNCHANGED <<frames, dirs>>
  <2>1. Proceeds /\ pc' = "judge"
    BY <1>6, Going
  <2> QED
    BY <1>5, <1>6, <2>1
<1>7. CASE /\ linked = {} /\ Goto("frames") /\ dirs' = dirs \cup {"frames"}
           /\ \E n \in 1..Min({VideoFrames, Cap}) : frames' = Batches(n)
  <2>1. Proceeds /\ pc' = "frames"
    BY <1>7, Going
  <2>2. PICK n \in 1..Min({VideoFrames, Cap}) : frames' = Batches(n)
    BY <1>7
  <2>3. n \in 1..Most
    BY <1>3, CapIs, MostIs
  <2> QED
    BY <1>5, <1>7, <2>1, <2>2, <2>3
<1> QED
  BY <1>4, <1>6, <1>7 DEF Vision, PointsToBio

-----------------------------------------------------------------------------
(* Frames *)

\* A sequence without repetitions and another one, of other elements.
NoRepeats(s) == \A i, j \in DOMAIN s : s[i] = s[j] => i = j
Others(b, s) == \A i \in DOMAIN b, x \in DOMAIN s : b[i] # s[x]
FromEither(r, s, b) ==
  \A x \in DOMAIN r : \/ x \in DOMAIN s /\ r[x] = s[x]
                      \/ \E i \in DOMAIN b : r[x] = b[i]

LEMMA SentAfter ==
  ASSUME NEW T, NEW s \in Seq(T), NEW b \in Seq(T), NoRepeats(s), NoRepeats(b), Others(b, s)
  PROVE  s \o b \in Seq(T) /\ NoRepeats(s \o b) /\ FromEither(s \o b, s, b)
<1> DEFINE both == s \o b
<1>1. /\ Len(s) \in Nat /\ Len(b) \in Nat /\ DOMAIN s = 1..Len(s) /\ DOMAIN b = 1..Len(b)
  BY LenProperties
<1>2. /\ both \in Seq(T) /\ Len(both) = Len(s) + Len(b)
      /\ \A x \in 1..(Len(s) + Len(b)) : both[x] = IF x <= Len(s) THEN s[x] ELSE b[x - Len(s)]
  BY ConcatProperties
<1>3. DOMAIN both = 1..(Len(s) + Len(b))
  BY <1>2, LenProperties
<1> HIDE DEF both
<1>4. ASSUME NEW x \in DOMAIN both
      PROVE  /\ x \in Int
             /\ \/ x \in DOMAIN s /\ both[x] = s[x]
                \/ x - Len(s) \in DOMAIN b /\ both[x] = b[x - Len(s)]
  BY <1>1, <1>2, <1>3
<1>5. ASSUME NEW x \in DOMAIN both, NEW y \in DOMAIN both, both[x] = both[y]
      PROVE  x = y
  <2>1. CASE /\ x \in DOMAIN s /\ both[x] = s[x]
             /\ y \in DOMAIN s /\ both[y] = s[y]
    BY <1>5, <2>1 DEF NoRepeats
  <2>2. CASE /\ x \in DOMAIN s /\ both[x] = s[x]
             /\ y - Len(s) \in DOMAIN b /\ both[y] = b[y - Len(s)]
    BY <1>5, <2>2 DEF Others
  <2>3. CASE /\ x - Len(s) \in DOMAIN b /\ both[x] = b[x - Len(s)]
             /\ y \in DOMAIN s /\ both[y] = s[y]
    BY <1>5, <2>3 DEF Others
  <2>4. CASE /\ x - Len(s) \in DOMAIN b /\ both[x] = b[x - Len(s)]
             /\ y - Len(s) \in DOMAIN b /\ both[y] = b[y - Len(s)]
    <3>1. x - Len(s) = y - Len(s)
      BY <1>5, <2>4 DEF NoRepeats
    <3> QED
      BY <1>1, <1>4, <3>1
  <2> QED
    BY <1>4, <2>1, <2>2, <2>3, <2>4
<1>6. ASSUME NEW x \in DOMAIN both
      PROVE  \/ x \in DOMAIN s /\ both[x] = s[x]
             \/ \E i \in DOMAIN b : both[x] = b[i]
  BY <1>4
<1>7. NoRepeats(both) /\ FromEither(both, s, b)
  BY <1>5, <1>6 DEF NoRepeats, FromEither
<1> QED
  BY <1>2, <1>7 DEF both

LEMMA LookStep ==
  ASSUME IInv, Look
  PROVE  IInv'
<1>1. Typed /\ Flow /\ Unsent /\ Calls /\ Bills /\ NoFilesLeft
  BY DEF IInv
<1>2. /\ pc = "frames" /\ Goto("ask frames")
      /\ UNCHANGED <<post, linked, recipe, slide, unread, frames, dirs>>
      /\ recipe = {} /\ linked = {} /\ post.kind = "video"
  BY <1>1 DEF Look, Flow, VideoStages, Closing
<1>3. /\ attempts \in [text : Nat, speech : Nat, image : Nat] /\ cents \in Nat
      /\ attempts.speech <= 1 /\ attempts.image = Len(sent)
      /\ attempts.text + 2 * Len(frames) <= 2 * (2 + Len(Batches(Most)))
      /\ attempts.text <= 2 * (2 + Len(Batches(Most)))
  BY <1>1, <1>2, TypedFacts DEF Calls, CallsOfVideo, Looking
<1>4. PICK batch : batch = Head(frames)
  OBVIOUS
<1>5. /\ frames \in Seq(Seq(0..(Most - 1))) /\ sent \in Seq(0..(Most - 1))
      /\ frames # << >> /\ Apart(frames) /\ FramesSentOnce
      /\ \A k \in DOMAIN frames : \A i \in DOMAIN frames[k], x \in DOMAIN sent : frames[k][i] # sent[x]
  BY <1>1, <1>2 DEF Typed, Unsent, Looking
<1>6. /\ batch \in Seq(0..(Most - 1)) /\ 1 \in DOMAIN frames /\ frames[1] = batch
      /\ Len(batch) \in Nat
  <2>1. batch \in Seq(0..(Most - 1))
    BY <1>4, <1>5, HeadTailProperties
  <2>2. Len(frames) \in Nat \ {0} /\ DOMAIN frames = 1..Len(frames)
    BY <1>5, EmptySeq, LenProperties
  <2>3. frames[1] = batch
    BY <1>4
  <2>4. 1 \in DOMAIN frames
    BY <2>2
  <2> QED
    BY <2>1, <2>3, <2>4, LenProperties
<1>7. /\ attempts' \in [text : Nat, speech : Nat, image : Nat] /\ cents' \in Nat
      /\ attempts'.text = attempts.text /\ attempts'.speech = attempts.speech
      /\ read \subseteq read' /\ read' \subseteq read \cup {"frames"}
      /\ \/ attempts'.image = attempts.image /\ sent' = sent
         \/ attempts'.image = attempts.image + Len(batch) /\ sent' = sent \o batch
  <2>1. CASE UNCHANGED <<attempts, sent, cents, read>>
    BY <1>3, <2>1
  <2>2. CASE /\ attempts' = [attempts EXCEPT !.image = attempts.image + Len(batch)]
             /\ sent' = sent \o batch
             /\ \/ UNCHANGED <<cents, read>>
                \/ \E c \in ImageCents, text \in SUBSET {"frames"} :
                     cents' = cents + Len(batch) * c /\ read' = read \cup text
    <3>1. attempts.image + Len(batch) \in Nat
      BY <1>3, <1>6
    <3>2. /\ attempts' \in [text : Nat, speech : Nat, image : Nat]
          /\ attempts'.text = attempts.text /\ attempts'.speech = attempts.speech
          /\ attempts'.image = attempts.image + Len(batch)
      BY <1>3, <2>2, <3>1
    <3>3. cents' \in Nat /\ read \subseteq read' /\ read' \subseteq read \cup {"frames"}
      <4>1. CASE UNCHANGED <<cents, read>>
        BY <1>3, <4>1
      <4>2. ASSUME NEW c \in ImageCents, NEW text \in SUBSET {"frames"},
                   cents' = cents + Len(batch) * c, read' = read \cup text
            PROVE  cents' \in Nat /\ read \subseteq read' /\ read' \subseteq read \cup {"frames"}
        <5>1. c \in Nat
          BY Limits
        <5>2. PICK p : p = Len(batch) * c
          OBVIOUS
        <5>3. p \in Nat
          BY <1>6, <5>1, <5>2
        <5>4. cents' = cents + p
          BY <4>2, <5>2
        <5>5. cents' \in Nat
          BY <1>3, <5>3, <5>4
        <5> QED
          BY <4>2, <5>5
      <4> QED
        BY <2>2, <4>1, <4>2
    <3> QED
      BY <2>2, <3>2, <3>3
  <2> QED
    BY <1>4, <2>1, <2>2 DEF Look
<1>8. Proceeds /\ pc' = "ask frames"
  BY <1>2, Going
<1>9. /\ job' = [status |-> job'.status, error |-> job'.error, bills |-> job'.bills]
      /\ job'.status \in {"processing", "completed", "failed"} /\ Bills'
  BY <1>1, <1>2, <1>8, Proceeding
<1>10. sent' \in Seq(0..(Most - 1)) /\ Len(sent') = attempts'.image
  <2>1. sent \o batch \in Seq(0..(Most - 1)) /\ Len(sent \o batch) = Len(sent) + Len(batch)
    BY <1>5, <1>6, ConcatProperties
  <2> QED
    BY <1>3, <1>5, <1>7, <2>1
<1>11. Typed'
  BY <1>1, <1>2, <1>7, <1>8, <1>9, <1>10 DEF Typed, TypeOK
<1>12. Flow' /\ NoFilesLeft'
  BY <1>2, <1>8 DEF Flow, PhotoStages, VideoStages, Closing, NoFilesLeft
<1>13. Unsent'
  <2>1. /\ FramesSentOnce'
        /\ \A k \in DOMAIN frames : \A i \in DOMAIN frames[k], x \in DOMAIN sent' :
             k # 1 => frames[k][i] # sent'[x]
    <3>1. CASE sent' = sent
      BY <1>5, <3>1 DEF FramesSentOnce
    <3>2. CASE sent' = sent \o batch
      <4>1. NoRepeats(batch)
        BY <1>5, <1>6 DEF Apart, NoRepeats
      <4>2. Others(batch, sent)
        BY <1>5, <1>6 DEF Others
      <4>3. NoRepeats(sent)
        BY <1>5 DEF FramesSentOnce, NoRepeats
      <4>4. NoRepeats(sent') /\ FromEither(sent', sent, batch)
        <5>1. PICK T : T = 0..(Most - 1)
          OBVIOUS
        <5>2. sent \in Seq(T) /\ batch \in Seq(T)
          BY <1>5, <1>6, <5>1
        <5>3. NoRepeats(sent \o batch) /\ FromEither(sent \o batch, sent, batch)
          BY <4>1, <4>2, <4>3, <5>2, SentAfter
        <5> QED
          BY <3>2, <5>3
      <4>5. ASSUME NEW k \in DOMAIN frames, NEW i \in DOMAIN frames[k], NEW x \in DOMAIN sent', k # 1
            PROVE  frames[k][i] # sent'[x]
        <5>1. CASE x \in DOMAIN sent /\ sent'[x] = sent[x]
          BY <1>5, <5>1
        <5>2. CASE \E j \in DOMAIN batch : sent'[x] = batch[j]
          <6>1. PICK j \in DOMAIN batch : sent'[x] = batch[j]
            BY <5>2
          <6>2. frames[k][i] # frames[1][j]
            BY <1>5, <1>6, <4>5, <6>1 DEF Apart
          <6> QED
            BY <1>6, <6>1, <6>2
        <5> QED
          BY <4>4, <5>1, <5>2 DEF FromEither
      <4> QED
        BY <4>4, <4>5 DEF FramesSentOnce, NoRepeats
    <3> QED
      BY <1>7, <3>1, <3>2
  <2>2. frames' = frames /\ pc' = "ask frames"
    BY <1>2, <1>8
  <2>3. Apart(frames') /\ frames' # << >>
    BY <1>5, <2>2
  <2>4. ASSUME NEW k \in DOMAIN frames', NEW i \in DOMAIN frames'[k], NEW x \in DOMAIN sent', k # 1
        PROVE  frames'[k][i] # sent'[x]
    BY <2>1, <2>2, <2>4
  <2> QED
    BY <2>1, <2>2, <2>3, <2>4 DEF Unsent
<1>14. Calls'
  <2>1. /\ attempts'.text + 2 * Len(frames') <= 2 * (2 + Len(Batches(Most)))
        /\ attempts'.text <= 2 * (2 + Len(Batches(Most)))
        /\ frames' = frames /\ post' = post /\ attempts'.speech <= 1
    BY <1>2, <1>3, <1>7
  <2>2. CallsOfVideo'
    BY <1>8, <1>10, <2>1 DEF CallsOfVideo
  <2>3. post'.kind = "video" /\ pc' \notin {"start", "caption", "audio", "stt"} /\ pc' \notin PhotoStages
    BY <1>2, <1>8 DEF PhotoStages
  <2> QED
    BY <2>1, <2>2, <2>3 DEF Calls
<1> QED
  BY <1>9, <1>11, <1>12, <1>13, <1>14 DEF IInv

LEMMA AskFramesStep ==
  ASSUME IInv, AskFrames
  PROVE  IInv'
<1>1. Typed /\ Flow /\ Unsent /\ Calls /\ Bills /\ NoFilesLeft
  BY DEF IInv
<1>2. /\ pc = "ask frames" /\ frames' = Tail(frames)
      /\ UNCHANGED <<post, linked, slide, unread, dirs, sent>>
      /\ recipe = {} /\ linked = {} /\ post.kind = "video"
  BY <1>1 DEF AskFrames, Flow, VideoStages, Closing
<1>3. /\ attempts \in [text : Nat, speech : Nat, image : Nat]
      /\ attempts.speech <= 1 /\ attempts.image = Len(sent)
      /\ attempts.text + 2 * Len(frames) <= 2 * (2 + Len(Batches(Most)))
  BY <1>1, <1>2, TypedFacts DEF Calls, CallsOfVideo, Looking
<1>4. /\ frames \in Seq(Seq(0..(Most - 1))) /\ frames # << >> /\ Apart(frames) /\ FramesSentOnce
      /\ \A k \in DOMAIN frames : \A i \in DOMAIN frames[k], x \in DOMAIN sent :
           k # 1 => frames[k][i] # sent[x]
  BY <1>1, <1>2 DEF Typed, Unsent, Looking
<1>5. /\ Len(frames) \in Nat \ {0} /\ DOMAIN frames = 1..Len(frames)
      /\ frames' \in Seq(Seq(0..(Most - 1))) /\ Len(frames') = Len(frames) - 1
      /\ DOMAIN frames' = 1..Len(frames') /\ \A k \in 1..Len(frames') : frames'[k] = frames[k + 1]
  <2>1. Len(frames) \in Nat \ {0} /\ DOMAIN frames = 1..Len(frames)
    BY <1>4, EmptySeq, LenProperties
  <2>2. /\ Tail(frames) \in Seq(Seq(0..(Most - 1))) /\ Len(Tail(frames)) = Len(frames) - 1
        /\ \A k \in 1..Len(Tail(frames)) : Tail(frames)[k] = frames[k + 1]
    BY <1>4, HeadTailProperties
  <2>3. DOMAIN Tail(frames) = 1..Len(Tail(frames))
    BY <2>2, LenProperties
  <2> QED
    BY <1>2, <2>1, <2>2, <2>3
<1>6. /\ Proceeds /\ pc' \in {"cover", "judge", "frames"}
      /\ pc' = "frames" => Len(frames) # 1
      /\ recipe' # {} => pc' = "cover"
      /\ recipe' \subseteq read' /\ read' \subseteq read
      /\ cents' \in Nat /\ attempts' \in [text : Nat, speech : Nat, image : Nat]
      /\ attempts'.text <= attempts.text + 2
      /\ attempts'.image = attempts.image /\ attempts'.speech = attempts.speech
  <2> DEFINE more == IF Len(frames) = 1 THEN "judge" ELSE "frames"
  <2>1. CASE read = {}
    <3>1. Goto(more) /\ UNCHANGED <<cents, attempts, recipe, reason, read>>
      BY <2>1 DEF AskFrames
    <3>2. Proceeds /\ pc' = more
      BY <3>1, Going
    <3>3. cents' \in Nat
      BY <1>1, <3>1, TypedFacts
    <3>4. recipe' = {} /\ read' = read /\ attempts' = attempts
      BY <1>2, <3>1
    <3>5. attempts.text <= attempts.text + 2
      BY <1>3
    <3>6. pc' \in {"cover", "judge", "frames"} /\ (pc' = "frames" => Len(frames) # 1)
      BY <3>2
    <3> QED
      BY <1>3, <3>2, <3>3, <3>4, <3>5, <3>6
  <2>2. CASE read # {}
    <3>1. PICK end \in Endings \cup {TooLarge} :
            /\ Ask(end)
            /\ read' = IF Raised(end) THEN read \ {"frames"} ELSE read
            /\ Goto(IF end.verdict = "recipe" THEN "cover" ELSE IF Raised(end) THEN "judge" ELSE more)
      BY <2>2 DEF AskFrames
    <3>2. /\ cents' \in Nat /\ attempts' \in [text : Nat, speech : Nat, image : Nat]
          /\ attempts'.text <= attempts.text + 2
          /\ attempts'.image = attempts.image /\ attempts'.speech = attempts.speech
          /\ IF end.verdict = "recipe" THEN recipe' = read ELSE recipe' = recipe
      BY <1>1, <3>1, Asking
    <3>3. Raised(end) => end.verdict # "recipe"
      BY DEF Raised
    <3>4. /\ Proceeds
          /\ pc' = IF end.verdict = "recipe" THEN "cover" ELSE IF Raised(end) THEN "judge" ELSE more
      BY <3>1, Going
    <3>5. read' \subseteq read /\ (end.verdict = "recipe" => read' = read)
      BY <3>1, <3>3
    <3>6. pc' \in {"cover", "judge", "frames"} /\ (pc' = "frames" => Len(frames) # 1)
      BY <3>4
    <3>7. recipe' \subseteq read' /\ (recipe' # {} => pc' = "cover")
      BY <1>2, <3>2, <3>4, <3>5
    <3> QED
      BY <3>2, <3>4, <3>5, <3>6, <3>7
  <2> QED
    BY <2>1, <2>2
<1>7. /\ job' = [status |-> job'.status, error |-> job'.error, bills |-> job'.bills]
      /\ job'.status \in {"processing", "completed", "failed"} /\ Bills'
  BY <1>1, <1>2, <1>6, Proceeding
<1>8. Typed'
  BY <1>1, <1>2, <1>5, <1>6, <1>7 DEF Typed, TypeOK
<1>9. Flow' /\ NoFilesLeft'
  BY <1>2, <1>6 DEF Flow, PhotoStages, VideoStages, Closing, NoFilesLeft
<1>10. Unsent'
  <2>1. FramesSentOnce'
    BY <1>2, <1>4 DEF FramesSentOnce
  <2>2. CASE pc' = "frames"
    <3>1. Len(frames') # 0
      BY <1>5, <1>6, <2>2
    <3>2. frames' # << >>
      BY <3>1, EmptySeq
    <3>3. ASSUME NEW k \in DOMAIN frames'
          PROVE  k + 1 \in DOMAIN frames /\ k + 1 # 1 /\ k \in Int /\ frames'[k] = frames[k + 1]
      BY <1>5
    <3>4. ASSUME NEW k \in DOMAIN frames', NEW l \in DOMAIN frames',
                 NEW i \in DOMAIN frames'[k], NEW j \in DOMAIN frames'[l],
                 frames'[k][i] = frames'[l][j]
          PROVE  k = l /\ i = j
      <4>1. /\ k + 1 \in DOMAIN frames /\ l + 1 \in DOMAIN frames /\ k \in Int /\ l \in Int
            /\ frames'[k] = frames[k + 1] /\ frames'[l] = frames[l + 1]
        BY <3>3
      <4>2. k + 1 = l + 1 /\ i = j
        BY <1>4, <3>4, <4>1 DEF Apart
      <4> QED
        BY <4>1, <4>2
    <3>5. Apart(frames')
      BY <3>4 DEF Apart
    <3>6. ASSUME NEW k \in DOMAIN frames', NEW i \in DOMAIN frames'[k], NEW x \in DOMAIN sent'
          PROVE  frames'[k][i] # sent'[x]
      <4>1. k + 1 \in DOMAIN frames /\ k + 1 # 1 /\ frames'[k] = frames[k + 1] /\ sent' = sent
        BY <1>2, <3>3
      <4> QED
        BY <1>4, <4>1
    <3> QED
      BY <2>1, <2>2, <3>2, <3>5, <3>6 DEF Unsent
  <2>3. CASE pc' # "frames"
    BY <1>6, <2>1, <2>3 DEF Unsent, Looking
  <2> QED
    BY <2>2, <2>3
<1>11. Calls'
  <2>1. PICK n, t, u, f : /\ n = Len(Batches(Most)) /\ t = attempts'.text /\ u = attempts.text
                          /\ f = Len(frames)
    OBVIOUS
  <2>2. n \in Nat /\ t \in Nat /\ u \in Nat /\ f \in Nat \ {0} /\ t <= u + 2 /\ u + 2 * f <= 2 * (2 + n)
    BY <1>3, <1>5, <1>6, <2>1, MostIs
  <2>3. t <= 2 * (2 + n) /\ t + 2 * (f - 1) <= 2 * (2 + n)
    BY <2>2
  <2>4. Len(frames') = f - 1 /\ attempts'.image = Len(sent') /\ attempts'.speech <= 1
    BY <1>2, <1>3, <1>5, <1>6, <2>1
  <2>5. pc' \notin {"audio", "stt", "spoken", "vision", "start", "caption"} /\ pc' \notin PhotoStages
    BY <1>6 DEF PhotoStages
  <2>6. CallsOfVideo'
    BY <2>1, <2>3, <2>4, <2>5 DEF CallsOfVideo
  <2>7. post'.kind = "video"
    BY <1>2
  <2> QED
    BY <2>4, <2>5, <2>6, <2>7 DEF Calls
<1> QED
  BY <1>7, <1>8, <1>9, <1>10, <1>11 DEF IInv

-----------------------------------------------------------------------------
(* The run *)

LEMMA InitEstablishes ==
  ASSUME Init
  PROVE  IInv
<1>1. /\ pc = "start" /\ post = NoPost /\ read = {} /\ linked = {} /\ recipe = {} /\ unread = {}
      /\ dirs = {} /\ cents = 0 /\ slide = 1 /\ frames = << >> /\ sent = << >> /\ job = NewJob
      /\ attempts = NoAttempt
  BY DEF Init
<1>2. 0 \in 0..MaxSlides /\ 1 \in 1..(0 + 1)
  BY Limits
<1>3. << >> \in Seq(Seq(0..(Most - 1))) /\ << >> \in Seq(0..(Most - 1)) /\ Len(sent) = 0
  BY <1>1, EmptySeq
<1>4. post.slides = 0 /\ post.kind = "none" /\ post.caption = "none" /\ job.bills = << >>
      /\ job.status = "processing"
  BY <1>1 DEF NoPost, NewJob
<1>5. TypeOK
  BY <1>1, <1>2, <1>4 DEF TypeOK, Captions
<1>6. Typed
  <2>1. post \in [kind : {"none", "photo", "video"}, caption : Captions, slides : 0..MaxSlides]
    BY <1>1, <1>2 DEF NoPost, Captions
  <2>2. attempts \in [text : Nat, speech : Nat, image : Nat]
    BY <1>1 DEF NoAttempt
  <2>3. job = [status |-> job.status, error |-> job.error, bills |-> job.bills]
    BY <1>1 DEF NewJob
  <2> QED
    BY <1>1, <1>3, <1>5, <2>1, <2>2, <2>3 DEF Typed
<1>7. Flow
  BY <1>1 DEF Flow, PhotoStages, VideoStages
<1>8. DOMAIN sent = {} /\ DOMAIN job.bills = {}
  BY <1>1, <1>4
<1>9. Unsent /\ Bills
  BY <1>1, <1>4, <1>8 DEF Unsent, FramesSentOnce, Looking, Bills, BillsAgree
<1>10. Calls
  <2>1. attempts.speech = 0
    BY <1>1 DEF NoAttempt
  <2> QED
    BY <1>1, <1>4, <2>1 DEF Calls
<1>11. NoFilesLeft
  BY <1>1 DEF NoFilesLeft
<1> QED
  BY <1>6, <1>7, <1>9, <1>10, <1>11 DEF IInv

LEMMA NextPreserves ==
  ASSUME IInv, [Next]_vars
  PROVE  IInv'
<1>1. CASE Paused \/ FetchFails \/ FetchSlides \/ FetchVideo
  BY <1>1, StartStep
<1>2. CASE AskCaption
  BY <1>2, AskCaptionStep
<1>3. CASE ReadSlide
  BY <1>3, ReadSlideStep
<1>4. CASE AskSlides
  BY <1>4, AskSlidesStep
<1>5. CASE EndSlides
  BY <1>5, EndSlidesStep
<1>6. CASE Audio \/ Cover
  BY <1>6, CoverStep
<1>7. CASE Transcribe
  BY <1>7, TranscribeStep
<1>8. CASE AskSpoken
  BY <1>8, AskSpokenStep
<1>9. CASE Vision
  BY <1>9, VisionStep
<1>10. CASE Look
  BY <1>10, LookStep
<1>11. CASE AskFrames
  BY <1>11, AskFramesStep
<1>12. CASE Judge
  BY <1>12, JudgeStep
<1>13. CASE Persist \/ Except \/ Finally
  BY <1>13, EndStep
<1>14. CASE Breaks
  BY <1>14, BreaksStep
<1>15. CASE UNCHANGED vars
  <2>1. Typed /\ Flow /\ Unsent /\ Calls /\ Bills /\ NoFilesLeft
    BY DEF IInv
  <2>2. Typed'
    BY <1>15, <2>1 DEF vars, Typed, TypeOK
  <2>3. Flow'
    BY <1>15, <2>1 DEF vars, Flow
  <2>4. Unsent'
    <3>1. pc' = pc /\ frames' = frames /\ sent' = sent
      BY <1>15 DEF vars
    <3>2. FramesSentOnce'
      BY <2>1, <3>1 DEF Unsent, FramesSentOnce
    <3>3. CASE pc \in Looking
      <4>1. /\ frames # << >> /\ Apart(frames)
            /\ \A k \in DOMAIN frames : \A i \in DOMAIN frames[k], x \in DOMAIN sent :
                 (pc = "ask frames" => k # 1) => frames[k][i] # sent[x]
        BY <2>1, <3>3 DEF Unsent
      <4>2. Apart(frames')
        BY <3>1, <4>1
      <4>3. pc \notin {"start", "caption", "audio", "stt", "spoken", "vision"}
        BY <3>3 DEF Looking
      <4>4. ASSUME NEW k \in DOMAIN frames', NEW i \in DOMAIN frames'[k], NEW x \in DOMAIN sent',
                   pc' = "ask frames" => k # 1
            PROVE  frames'[k][i] # sent'[x]
        BY <3>1, <4>1, <4>4
      <4> QED
        BY <3>1, <3>2, <4>1, <4>2, <4>3, <4>4 DEF Unsent
    <3>4. CASE pc \notin Looking
      BY <2>1, <3>1, <3>2, <3>4 DEF Unsent
    <3> QED
      BY <3>3, <3>4
  <2>5. Calls'
    BY <1>15, <2>1 DEF vars, Calls, CallsOfPhoto, CallsOfVideo
  <2>6. Bills' /\ NoFilesLeft'
    BY <1>15, <2>1 DEF vars, Bills, BillsAgree, NoFilesLeft
  <2> QED
    BY <2>2, <2>3, <2>4, <2>5, <2>6 DEF IInv
<1> QED
  BY <1>1, <1>2, <1>3, <1>4, <1>5, <1>6, <1>7, <1>8, <1>9, <1>10, <1>11, <1>12, <1>13, <1>14, <1>15
  DEF Next

\* The inductive invariant of a run.
THEOREM CascadeInvariant == Spec => []IInv
<1>1. Init => IInv
  BY InitEstablishes
<1>2. IInv /\ [Next]_vars => IInv'
  BY NextPreserves
<1> QED
  BY <1>1, <1>2, PTL DEF Spec

\* Every variable keeps its type along a run of _run_extract_job, whatever the limits.
THEOREM CascadeTypeCorrect == Spec => []TypeOK
<1>1. IInv => TypeOK
  BY DEF IInv, Typed
<1> QED
  BY <1>1, CascadeInvariant, PTL

\* The job, the usage event and the ledger record the same amount, all that was spent,
\* whichever stage a run ends in (the success path and the except clause of _run_extract_job).
THEOREM BillsAlwaysAgree == Spec => []BillsAgree
<1>1. IInv => BillsAgree
  BY DEF IInv, Bills
<1> QED
  BY <1>1, CascadeInvariant, PTL

\* No frame is sent twice, for any number of frames, size of a batch and first pass
\* (_vision_incremental_build, with what select_spread_frame_indexes gives it).
THEOREM FramesAlwaysSentOnce == Spec => []FramesSentOnce
<1>1. IInv => FramesSentOnce
  BY DEF IInv, Unsent
<1> QED
  BY <1>1, CascadeInvariant, PTL

\* A run that has ended leaves no temporary directory (the finally clauses of app/pipeline.py).
THEOREM NoFilesAlwaysLeft == Spec => []NoFilesLeft
<1>1. IInv => NoFilesLeft
  BY DEF IInv
<1> QED
  BY <1>1, CascadeInvariant, PTL

\* Frames that are sent once are no more than there are.
LEMMA SentFits ==
  ASSUME sent \in Seq(0..(Most - 1)), FramesSentOnce
  PROVE  Len(sent) <= Most
<1>1. PICK n, T : n = Len(sent) /\ T = 0..(Most - 1)
  OBVIOUS
<1>2. n \in Nat /\ sent \in [1..n -> T] /\ DOMAIN sent = 1..n
  BY <1>1, LenProperties
<1>3. OneToOne(sent, n)
  BY <1>2 DEF OneToOne, FramesSentOnce
<1>4. n \in 0..n
  BY <1>2
<1>5. Cardinality(FirstOf(sent, n)) = n
  BY <1>2, <1>3, <1>4, DistinctCount
<1>6. FirstOf(sent, n) \in SUBSET T
  BY <1>2 DEF FirstOf
<1>7. Most \in Nat
  BY MostIs
<1>8. IsFiniteSet(T) /\ Cardinality(T) = Most
  BY <1>1, <1>7, Indexes
<1>9. Cardinality(FirstOf(sent, n)) <= Cardinality(T)
  BY <1>6, <1>8, FS_Subset
<1> QED
  BY <1>1, <1>5, <1>8, <1>9

\* What one run may call of the models is bounded by its post: two tries for a question, one
\* question for the caption, for speech, and for each slide or batch of frames.
THEOREM CallsAlwaysBounded == Spec => []CallsBounded
<1>1. ASSUME IInv
      PROVE  CallsBounded
  <2>1. Typed /\ Unsent /\ Calls
    BY <1>1 DEF IInv
  <2>2. post.kind \in {"none", "photo", "video"} /\ post.slides \in Nat
    BY <2>1, TypedFacts DEF Typed
  <2>3. PICK m, n : m = Min({VideoFrames, MaxVisionFrames}) /\ n = Len(Batches(m))
    OBVIOUS
  <2>4. m = Most /\ m \in Nat /\ n \in Nat /\ n = Len(Batches(Most))
    BY <2>3, MostIs DEF Most
  <2>5. attempts.speech <= 1
    BY <2>1 DEF Calls
  <2>6. CASE post.kind = "none"
    <3>1. attempts.text = 0 /\ attempts.image = 0
      BY <2>1, <2>6 DEF Calls, NoAttempt
    <3>2. 0 <= 2 * (1 + (1 + n)) /\ 0 <= m
      BY <2>4
    <3> QED
      BY <2>3, <2>5, <2>6, <3>1, <3>2 DEF CallsBounded
  <2>7. CASE post.kind = "photo"
    BY <2>1, <2>5, <2>7 DEF Calls, CallsOfPhoto, CallsBounded
  <2>8. CASE post.kind = "video"
    <3>1. attempts.image <= m
      BY <2>1, <2>4, <2>8, SentFits DEF Calls, CallsOfVideo, Unsent, Typed
    <3>2. attempts.text <= 2 * (2 + n)
      BY <2>1, <2>4, <2>8 DEF Calls, CallsOfVideo
    <3>3. 2 * (2 + n) = 2 * (1 + (1 + n))
      BY <2>4
    <3> QED
      BY <2>3, <2>5, <2>8, <3>1, <3>2, <3>3 DEF CallsBounded
  <2> QED
    BY <2>2, <2>6, <2>7, <2>8
<1> QED
  BY <1>1, CascadeInvariant, PTL

-----------------------------------------------------------------------------
(* What a step may never do *)

LEMMA AttemptsBy ==
  ASSUME IInv, [Next]_vars, attempts' # attempts
  PROVE  \/ ReadSlide
         \/ Look
         \/ /\ pc \in {"caption", "ask slides", "stt", "spoken", "ask frames"}
            /\ attempts'.image = attempts.image
<1>1. Typed
  BY DEF IInv
<1>2. ASSUME NEW end \in Endings \cup {TooLarge}, Ask(end)
      PROVE  attempts'.image = attempts.image
  BY <1>1, <1>2, Asking
<1>3. attempts \in [text : Nat, speech : Nat, image : Nat]
  BY <1>1, TypedFacts
<1>4. CASE AskCaption
  <2>1. pc = "caption" /\ \E end \in Endings : Ask(end)
    BY <1>4 DEF AskCaption
  <2> QED
    BY <1>2, <2>1
<1>5. CASE AskSlides
  <2>1. pc = "ask slides" /\ \E end \in Endings \cup {TooLarge} : Ask(end)
    BY <1>5 DEF AskSlides
  <2> QED
    BY <1>2, <2>1
<1>6. CASE AskSpoken
  <2>1. pc = "spoken" /\ \E end \in Endings : Ask(end)
    BY <1>6 DEF AskSpoken
  <2> QED
    BY <1>2, <2>1
<1>7. CASE AskFrames
  <2>1. pc = "ask frames" /\ \E end \in Endings \cup {TooLarge} : Ask(end)
    BY <1>7 DEF AskFrames
  <2> QED
    BY <1>2, <2>1
<1>8. CASE Transcribe
  <2>1. pc = "stt" /\ attempts' = [attempts EXCEPT !.speech = attempts.speech + 1]
    BY <1>8 DEF Transcribe
  <2> QED
    BY <1>3, <2>1
<1>9. CASE Paused \/ FetchFails \/ FetchSlides \/ FetchVideo \/ EndSlides
  BY <1>9 DEF Paused, FetchFails, FetchSlides, FetchVideo, EndSlides
<1>10. CASE Audio \/ Vision \/ Judge \/ Cover \/ Persist \/ Breaks \/ Except \/ Finally
  BY <1>10 DEF Audio, Vision, Judge, Cover, Persist, Breaks, Except, Finally
<1>11. CASE UNCHANGED vars
  BY <1>11 DEF vars
<1> QED
  BY <1>4, <1>5, <1>6, <1>7, <1>8, <1>9, <1>10, <1>11 DEF Next

\* Once a recipe is complete no model is called any more, at whichever stage it was found.
THEOREM NothingPaidAfterRecipe == Spec => NothingAfterRecipe
<1>1. IInv /\ [Next]_vars => [recipe # {} => attempts' = attempts]_vars
  <2> SUFFICES ASSUME IInv, [Next]_vars, recipe # {}, attempts' # attempts
               PROVE  FALSE
    OBVIOUS
  <2>1. pc \in {"slide", "cover", "persist"} \cup Closing
    BY DEF IInv, Flow
  <2>2. ~ReadSlide
    BY DEF ReadSlide, MoreSlides
  <2>3. ~Look
    BY <2>1 DEF Look, Closing
  <2>4. pc \notin {"caption", "ask slides", "stt", "spoken", "ask frames"}
    BY <2>1 DEF Closing
  <2> QED
    BY <2>2, <2>3, <2>4, AttemptsBy
<1> QED
  BY <1>1, CascadeInvariant, PTL DEF Spec, NothingAfterRecipe

\* A run that has read "recipe in bio", in whatever it read, sends no image any more.
THEOREM NoImagesSentAfterLink == Spec => NoImagesAfterLink
<1>1. IInv /\ [Next]_vars => [linked # {} => attempts'.image = attempts.image]_vars
  <2> SUFFICES ASSUME IInv, [Next]_vars, linked # {}, attempts'.image # attempts.image
               PROVE  FALSE
    OBVIOUS
  <2>1. pc \in {"spoken", "vision", "cover", "persist"} \cup Closing
    BY DEF IInv, Flow
  <2>2. ~ReadSlide /\ ~Look
    BY <2>1 DEF ReadSlide, Look, Closing
  <2> QED
    BY <2>2, AttemptsBy
<1> QED
  BY <1>1, CascadeInvariant, PTL DEF Spec, NoImagesAfterLink

\* While images cost no more than their estimate, no batch of frames takes a run over
\* max_job_cost_cents, whatever was paid before (run_batch of _vision_incremental_build).
THEOREM ImagesStayWithinBudget == Spec => ImagesWithinBudget
<1>1. IInv /\ [Next]_vars =>
        [post.kind = "video" /\ attempts'.image > attempts.image => cents' <= MaxJobCost]_vars
  <2> SUFFICES ASSUME IInv, [Next]_vars, post.kind = "video", attempts'.image > attempts.image
               PROVE  cents' <= MaxJobCost
    OBVIOUS
  <2>1. Typed /\ Flow
    BY DEF IInv
  <2>2. attempts \in [text : Nat, speech : Nat, image : Nat] /\ cents \in Nat
    BY <2>1, TypedFacts
  <2>3. attempts'.image # attempts.image
    BY <2>2
  <2>4. ~ReadSlide
    BY <2>1 DEF ReadSlide, Flow, PhotoStages
  <2>5. Look
    BY <2>3, <2>4, AttemptsBy
  <2>6. PICK batch : batch = Head(frames)
    OBVIOUS
  <2>7. Len(batch) \in Nat
    <3>1. frames \in Seq(Seq(0..(Most - 1))) /\ frames # << >>
      BY <2>5 DEF IInv, Typed, Unsent, Look, Looking
    <3>2. batch \in Seq(0..(Most - 1))
      BY <2>6, <3>1, HeadTailProperties
    <3> QED
      BY <3>2, LenProperties
  <2>8. /\ cents + Len(batch) * OcrCents <= MaxJobCost
        /\ \/ cents' = cents
           \/ \E c \in ImageCents : cents' = cents + Len(batch) * c
    BY <2>3, <2>5, <2>6 DEF Look, Affordable
  <2>9. Len(batch) * OcrCents >= 0
    BY <2>7, Limits
  <2>10. CASE cents' = cents
    BY <2>2, <2>7, <2>8, <2>9, <2>10, Limits
  <2>11. CASE \E c \in ImageCents : cents' = cents + Len(batch) * c
    <3>1. PICK c \in ImageCents : cents' = cents + Len(batch) * c
      BY <2>11
    <3>2. PICK n, o : n = Len(batch) /\ o = OcrCents
      OBVIOUS
    <3>3. n \in Nat /\ o \in Nat /\ c \in 0..o
      BY <2>7, <3>2, Limits
    <3>4. n * o = n * c + n * (o - c) /\ n * (o - c) >= 0 /\ n * c \in Int /\ n * o \in Int
      BY <3>3
    <3>5. PICK x, y, z : x = n * c /\ y = n * o /\ z = n * (o - c)
      OBVIOUS
    <3>6. y = x + z /\ z >= 0 /\ x \in Int /\ y \in Int /\ z \in Int
      <4>1. o - c \in Nat
        BY <3>3
      <4>2. n * (o - c) \in Nat
        BY <3>3, <4>1
      <4> QED
        BY <3>4, <3>5, <4>2
    <3>7. x <= y
      BY <3>6
    <3>8. cents' = cents + x /\ cents + y <= MaxJobCost
      BY <2>8, <3>1, <3>2, <3>5
    <3> QED
      BY <2>2, <3>6, <3>7, <3>8, Limits
  <2> QED
    BY <2>8, <2>10, <2>11
<1> QED
  BY <1>1, CascadeInvariant, PTL DEF Spec, ImagesWithinBudget
=============================================================================
