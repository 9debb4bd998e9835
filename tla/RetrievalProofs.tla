-------------------------- MODULE RetrievalProofs --------------------------
(***************************************************************************)
(* What holds of every call of the retrieval service, whatever the         *)
(* documents, the questions and the limits are, and whatever is committed, *)
(* deleted, raised or cancelled between its statements: what it leaves in  *)
(* the log, how often it cites a source, which lineage answers a direct    *)
(* question, and what context the model is given for a bounded one.        *)
(*                                                                         *)
(* Sorting and choosing the first are specified by rank (Sorted,           *)
(* Foremost), and the merged windows by a fold.  The first sections prove  *)
(* what these return; the sections on the search, the lineages, the        *)
(* selections and the context follow the code's calls; the last two have   *)
(* the inductive invariants and the theorems.                              *)
(***************************************************************************)
EXTENDS Retrieval, FiniteSetTheorems, SequenceTheorems, TLAPS

-----------------------------------------------------------------------------
(* The first of a finite set, and its elements in order *)

Before(S, R, x) == {y \in S : <<y, x>> \in R}

IsOrder(S, R) ==
  /\ \A x \in S : <<x, x>> \notin R
  /\ \A x, y, z \in S : <<x, y>> \in R /\ <<y, z>> \in R => <<x, z>> \in R

\* Something in a finite set has nothing of the set before it: of the finite sets of
\* what comes before its elements one is the least.
LEMMA FirstExists ==
  ASSUME NEW S, IsFiniteSet(S), S # {}, NEW R, IsOrder(S, R)
  PROVE  \E x \in S : \A y \in S : <<y, x>> \notin R
<1> DEFINE T == {Before(S, R, x) : x \in S}
<1>1. T \subseteq FiniteSubsetsOf(S)
  BY FS_Subset DEF FiniteSubsetsOf, Before
<1>2. T # {}
  OBVIOUS
<1>3. PICK X \in T : \A Y \in T : ~ (<<Y, X>> \in StrictSubsetOrdering(S))
  <2> HIDE DEF T
  <2> QED
    BY <1>1, <1>2, FS_StrictSubsetOrderingWellFounded, WFMin
<1>4. PICK x \in S : X = Before(S, R, x)
  OBVIOUS
<1>5. ASSUME NEW y \in S, <<y, x>> \in R PROVE FALSE
  <2>1. Before(S, R, y) \in T
    OBVIOUS
  <2>2. Before(S, R, y) \subseteq X /\ y \in X /\ y \notin Before(S, R, y)
    BY <1>4, <1>5 DEF Before, IsOrder
  <2>3. Before(S, R, y) \in SUBSET S /\ X \in SUBSET S
    BY <1>4 DEF Before
  <2>4. <<Before(S, R, y), X>> \in StrictSubsetOrdering(S)
    BY <2>2, <2>3 DEF StrictSubsetOrdering
  <2> QED
    BY <1>3, <2>1, <2>4
<1> QED
  BY <1>5

\* How many come before an element: the more, the later it comes.
LEMMA RankGrows ==
  ASSUME NEW S, IsFiniteSet(S), NEW R, IsOrder(S, R), NEW x \in S
  PROVE  /\ Cardinality(Before(S, R, x)) \in 0..Cardinality(S) - 1
         /\ \A y \in S : <<x, y>> \in R =>
              Cardinality(Before(S, R, x)) < Cardinality(Before(S, R, y))
<1>1. \A y : Before(S, R, y) \subseteq S /\ IsFiniteSet(Before(S, R, y))
  BY FS_Subset DEF Before
<1>2. \A y : Cardinality(Before(S, R, y)) \in Nat
  BY <1>1, FS_CardinalityType
<1>3. Cardinality(S) \in Nat
  BY FS_CardinalityType
<1>4. Before(S, R, x) # S
  BY DEF Before, IsOrder
<1>5. Cardinality(Before(S, R, x)) < Cardinality(S)
  BY <1>1, <1>2, <1>3, <1>4, FS_Subset
<1>6. ASSUME NEW y \in S, <<x, y>> \in R
      PROVE  Cardinality(Before(S, R, x)) < Cardinality(Before(S, R, y))
  <2>1. Before(S, R, x) \subseteq Before(S, R, y) /\ Before(S, R, x) # Before(S, R, y)
    BY <1>6 DEF Before, IsOrder
  <2> QED
    BY <1>1, <1>2, <2>1, FS_Subset
<1> QED
  BY <1>2, <1>3, <1>5, <1>6

\* In a finite set that is ordered totally, every number of predecessors below its size
\* is that of an element.
LEMMA RankIsTaken ==
  ASSUME NEW S, IsFiniteSet(S), NEW R, IsOrder(S, R),
         \A x, y \in S : x # y => <<x, y>> \in R \/ <<y, x>> \in R,
         NEW n \in 1..Cardinality(S)
  PROVE  \E x \in S : Cardinality(Before(S, R, x)) = n - 1
<1> DEFINE N == 1..Cardinality(S)
           f == [x \in S |-> Cardinality(Before(S, R, x)) + 1]
<1>1. Cardinality(S) \in Nat
  BY FS_CardinalityType
<1>2. \A x \in S : Cardinality(Before(S, R, x)) \in 0..Cardinality(S) - 1
  BY RankGrows
<1>3. f \in [S -> N]
  BY <1>1, <1>2
<1>4. ASSUME NEW x \in S, NEW y \in S, x # y PROVE f[x] # f[y]
  <2>1. CASE <<x, y>> \in R
    BY <1>2, <2>1, RankGrows
  <2>2. CASE <<y, x>> \in R
    BY <1>2, <2>2, RankGrows
  <2> QED
    BY <1>4, <2>1, <2>2
<1>5. f \in Injection(S, N)
  BY <1>3, <1>4 DEF Injection, IsInjective
<1>6. IsFiniteSet(N) /\ Cardinality(N) = Cardinality(S)
  BY <1>1, FS_Interval
<1>7. f \in Surjection(S, N)
  <2> HIDE DEF f
  <2> QED BY <1>5, <1>6, FS_Injection
<1>8. PICK x \in S : f[x] = n
  <2> HIDE DEF f
  <2> QED BY <1>7 DEF Surjection
<1> QED
  BY <1>2, <1>8

\* Of a finite set of integers one is the least, and one the greatest.
LEMMA LeastOfFinite ==
  ASSUME NEW S \in SUBSET Int, IsFiniteSet(S), S # {}
  PROVE  \E x \in S : \A y \in S : x <= y
<1> DEFINE R == {p \in S \X S : p[1] < p[2]}
<1>1. \A x, y \in S : <<x, y>> \in R <=> x < y
  OBVIOUS
<1>2. IsOrder(S, R)
  BY <1>1 DEF IsOrder
<1>3. PICK x \in S : \A y \in S : <<y, x>> \notin R
  <2> HIDE DEF R
  <2> QED BY <1>2, FirstExists
<1>4. \A y \in S : ~(y < x)
  BY <1>1, <1>3
<1> QED
  BY <1>4

\* Min and Max of a finite set of numbers are its bounds.
LEMMA MinIs ==
  ASSUME NEW S \in SUBSET Int, IsFiniteSet(S), S # {}
  PROVE  Min(S) \in S /\ \A y \in S : Min(S) <= y
BY LeastOfFinite DEF Min

\* Likewise for the greatest.
LEMMA MaxIs ==
  ASSUME NEW S \in SUBSET Int, IsFiniteSet(S), S # {}
  PROVE  Max(S) \in S /\ \A y \in S : Max(S) >= y
<1> DEFINE R == {p \in S \X S : p[1] > p[2]}
<1>1. \A x, y \in S : <<x, y>> \in R <=> x > y
  OBVIOUS
<1>2. IsOrder(S, R)
  BY <1>1 DEF IsOrder
<1>3. PICK x \in S : \A y \in S : <<y, x>> \notin R
  <2> HIDE DEF R
  <2> QED BY <1>2, FirstExists
<1>4. \A y \in S : ~(y > x)
  BY <1>1, <1>3
<1>5. \A y \in S : x >= y
  BY <1>4
<1> QED
  BY <1>5 DEF Max

\* The lesser and the greater of two numbers.
LEMMA OfTwo ==
  ASSUME NEW a \in Int, NEW b \in Int
  PROVE  /\ Min({a, b}) = IF a <= b THEN a ELSE b
         /\ Max({a, b}) = IF a >= b THEN a ELSE b
<1>1. IsFiniteSet({a, b})
  <2>1. {a, b} = {a} \cup {b}
    OBVIOUS
  <2>2. IsFiniteSet({a})
    BY FS_Singleton
  <2> QED BY <2>1, <2>2, FS_AddElement
<1>2. Min({a, b}) \in {a, b} /\ Min({a, b}) <= a /\ Min({a, b}) <= b
  BY <1>1, MinIs
<1>3. Max({a, b}) \in {a, b} /\ Max({a, b}) >= a /\ Max({a, b}) >= b
  BY <1>1, MaxIs
<1> QED
  BY <1>2, <1>3

\* Of some natural numbers one is the least.
LEMMA LeastExists ==
  ASSUME NEW S \in SUBSET Nat, S # {}
  PROVE  \E x \in S : \A y \in S : x <= y
<1>1. PICK n \in S : TRUE
  OBVIOUS
<1> DEFINE T == {m \in S : m <= n}
<1>2. IsFiniteSet(T) /\ n \in T /\ T \in SUBSET Int
  <2>1. T \in SUBSET (0..n)
    <3>1. ASSUME NEW m \in S, m <= n PROVE m \in 0..n
      BY <3>1
    <3> QED BY <3>1
  <2>2. IsFiniteSet(0..n)
    BY FS_Interval
  <2>3. IsFiniteSet(T)
    <3> HIDE DEF T
    <3> QED BY <2>1, <2>2, FS_Subset
  <2>4. n \in T
    OBVIOUS
  <2>5. T \subseteq S
    OBVIOUS
  <2> HIDE DEF T
  <2> QED BY <2>3, <2>4, <2>5
<1>3. PICK x \in T : \A y \in T : x <= y
  <2> HIDE DEF T
  <2> QED BY <1>2, LeastOfFinite
<1> QED
  BY <1>3

\* A set of numbers that has 0 and with a number the next has them all.
LEMMA AllNumbers ==
  ASSUME NEW S \in SUBSET Nat, 0 \in S, \A n \in S : n + 1 \in S
  PROVE  S = Nat
<1> SUFFICES ASSUME Nat \ S # {} PROVE FALSE
  OBVIOUS
<1>1. PICK x \in Nat \ S : \A y \in Nat \ S : x <= y
  BY LeastExists
<1>2. x # 0 /\ x - 1 \in Nat /\ ~(x <= x - 1)
  OBVIOUS
<1>3. x - 1 \in S
  BY <1>1, <1>2
<1> QED
  BY <1>2, <1>3

-----------------------------------------------------------------------------
(* Keys *)

Keys(k) == [1..k -> Int]

\* Tuples of numbers are ordered totally.
LEMMA ExceedsIs ==
  ASSUME NEW k \in Nat, NEW a \in Keys(k), NEW b \in Keys(k)
  PROVE  Exceeds(a, b) <=> \E i \in 1..k : a[i] > b[i] /\ \A j \in 1..i - 1 : a[j] = b[j]
BY DEF Exceeds, Keys

\* No key comes before itself.
LEMMA ExceedsNotSelf == ASSUME NEW k \in Nat, NEW a \in Keys(k) PROVE ~Exceeds(a, a)
<1>1. \A i \in 1..k : a[i] \in Int
  BY DEF Keys
<1> QED BY <1>1, ExceedsIs

\* What comes before a key comes before those after it.
LEMMA ExceedsTransitive ==
  ASSUME NEW k \in Nat, NEW a \in Keys(k), NEW b \in Keys(k), NEW c \in Keys(k),
         Exceeds(a, b), Exceeds(b, c)
  PROVE  Exceeds(a, c)
<1>1. \A i \in 1..k : a[i] \in Int /\ b[i] \in Int /\ c[i] \in Int
  BY DEF Keys
<1>2. PICK i \in 1..k : a[i] > b[i] /\ \A n \in 1..i - 1 : a[n] = b[n]
  BY ExceedsIs
<1>3. PICK j \in 1..k : b[j] > c[j] /\ \A n \in 1..j - 1 : b[n] = c[n]
  BY ExceedsIs
<1>4. CASE i < j
  <2>1. a[i] > c[i]
    BY <1>1, <1>2, <1>3, <1>4
  <2>2. \A n \in 1..i - 1 : a[n] = c[n]
    BY <1>2, <1>3, <1>4
  <2> QED BY <2>1, <2>2, ExceedsIs
<1>5. CASE i >= j
  <2>1. a[j] > c[j]
    <3>1. CASE i = j
      BY <1>1, <1>2, <1>3, <3>1
    <3>2. CASE i > j
      BY <1>1, <1>2, <1>3, <3>2
    <3> QED BY <1>5, <3>1, <3>2
  <2>2. \A n \in 1..j - 1 : a[n] = c[n]
    BY <1>2, <1>3, <1>5
  <2> QED BY <2>1, <2>2, ExceedsIs
<1> QED BY <1>4, <1>5

\* Different keys are comparable.
LEMMA ExceedsTotal ==
  ASSUME NEW k \in Nat, NEW a \in Keys(k), NEW b \in Keys(k), a # b
  PROVE  Exceeds(a, b) \/ Exceeds(b, a)
<1>1. \A i \in 1..k : a[i] \in Int /\ b[i] \in Int
  BY DEF Keys
<1> DEFINE D == {i \in 1..k : a[i] # b[i]}
<1>2. D # {}
  BY DEF Keys
<1>3. PICK i \in D : \A j \in D : i <= j
  <2>1. D \in SUBSET Nat
    OBVIOUS
  <2> HIDE DEF D
  <2> QED BY <1>2, <2>1, LeastExists
<1>4. \A j \in 1..i - 1 : a[j] = b[j]
  <2> SUFFICES ASSUME NEW j \in 1..i - 1 PROVE j \notin D
    OBVIOUS
  <2>1. ~(i <= j)
    OBVIOUS
  <2> QED BY <1>3, <2>1
<1>5. a[i] > b[i] \/ b[i] > a[i]
  BY <1>1
<1> QED BY <1>4, <1>5, ExceedsIs

\* key gives each element of a finite set a tuple of its own.
IsKey(key, k) ==
  /\ IsFiniteSet(DOMAIN key)
  /\ key \in [DOMAIN key -> Keys(k)]
  /\ \A x, y \in DOMAIN key : x # y => key[x] # key[y]

KeyOrder(key) == {p \in (DOMAIN key) \X (DOMAIN key) : Exceeds(key[p[1]], key[p[2]])}

\* The keys order what they are keys of.
LEMMA KeyOrderIs ==
  ASSUME NEW k \in Nat, NEW key, IsKey(key, k)
  PROVE  LET D == DOMAIN key
             R == KeyOrder(key)
         IN  /\ \A x, y \in D : <<x, y>> \in R <=> Exceeds(key[x], key[y])
             /\ IsOrder(D, R)
             /\ \A x, y \in D : x # y => <<x, y>> \in R \/ <<y, x>> \in R
<1> DEFINE D == DOMAIN key
           R == KeyOrder(key)
<1>1. \A x, y \in D : <<x, y>> \in R <=> Exceeds(key[x], key[y])
  <2> SUFFICES ASSUME NEW x \in D, NEW y \in D PROVE <<x, y>> \in R <=> Exceeds(key[x], key[y])
    OBVIOUS
  <2>1. <<x, y>> \in D \X D /\ <<x, y>>[1] = x /\ <<x, y>>[2] = y
    OBVIOUS
  <2> QED BY <2>1 DEF KeyOrder
<1>2. \A x \in D : key[x] \in Keys(k)
  BY DEF IsKey
<1>3. \A x \in D : <<x, x>> \notin R
  BY <1>1, <1>2, ExceedsNotSelf
<1>4. ASSUME NEW x \in D, NEW y \in D, NEW z \in D, <<x, y>> \in R, <<y, z>> \in R
      PROVE  <<x, z>> \in R
  BY <1>1, <1>2, <1>4, ExceedsTransitive
<1>5. ASSUME NEW x \in D, NEW y \in D, x # y PROVE <<x, y>> \in R \/ <<y, x>> \in R
  <2>1. key[x] # key[y]
    BY <1>5 DEF IsKey
  <2> QED BY <1>1, <1>2, <2>1, ExceedsTotal
<1> QED
  BY <1>1, <1>3, <1>4, <1>5 DEF IsOrder

\* Foremost is the element with the greatest key.
LEMMA ForemostIs ==
  ASSUME NEW k \in Nat, NEW key, IsKey(key, k), DOMAIN key # {}
  PROVE  /\ Foremost(key) \in DOMAIN key
         /\ \A y \in DOMAIN key \ {Foremost(key)} : Exceeds(key[Foremost(key)], key[y])
<1> DEFINE D == DOMAIN key
           R == KeyOrder(key)
<1>1. PICK x \in D : \A y \in D : <<y, x>> \notin R
  BY FirstExists, KeyOrderIs DEF IsKey
<1>2. \A y \in D \ {x} : Exceeds(key[x], key[y])
  BY <1>1, KeyOrderIs
<1> QED
  BY <1>2 DEF Foremost

\* Sorted has every element once, those with greater keys first.
LEMMA SortedIs ==
  ASSUME NEW k \in Nat, NEW key, IsKey(key, k)
  PROVE  LET s == Sorted(key)
             n == Cardinality(DOMAIN key)
         IN  /\ n \in Nat
             /\ s \in [1..n -> DOMAIN key]
             /\ \A i, j \in 1..n : i < j => s[i] # s[j] /\ Exceeds(key[s[i]], key[s[j]])
             /\ \A x \in DOMAIN key : \E i \in 1..n : s[i] = x
<1> DEFINE D == DOMAIN key
           R == KeyOrder(key)
           s == Sorted(key)
           n == Cardinality(D)
           rank(x) == Cardinality(Before(D, R, x))
<1>1. n \in Nat /\ IsFiniteSet(D)
  BY FS_CardinalityType DEF IsKey
<1>2. /\ \A x, y \in D : <<x, y>> \in R <=> Exceeds(key[x], key[y])
      /\ IsOrder(D, R)
      /\ \A x, y \in D : x # y => <<x, y>> \in R \/ <<y, x>> \in R
  BY KeyOrderIs
<1>3. ASSUME NEW x \in D
      PROVE  Before(D, R, x) = {y \in D : Exceeds(key[y], key[x])}
  BY <1>2 DEF Before
<1> HIDE DEF D, R
<1>4. ASSUME NEW i \in 1..n
      PROVE  s[i] \in D /\ rank(s[i]) = i - 1
  <2>1. PICK x \in D : rank(x) = i - 1
    BY <1>1, <1>2, RankIsTaken
  <2>2. Cardinality({y \in D : Exceeds(key[y], key[x])}) = i - 1
    BY <1>3, <2>1
  <2>3. s[i] = CHOOSE z \in D : Cardinality({y \in D : Exceeds(key[y], key[z])}) = i - 1
    BY DEF Sorted, D
  <2>4. s[i] \in D /\ Cardinality({y \in D : Exceeds(key[y], key[s[i]])}) = i - 1
    BY <2>2, <2>3
  <2> QED BY <1>3, <2>4
<1>5. s \in [1..n -> D]
  <2>1. DOMAIN s = 1..n /\ s = [i \in 1..n |-> s[i]]
    BY DEF Sorted, D
  <2> QED BY <1>4, <2>1
<1>6. \A x \in D : rank(x) \in 0..n - 1 /\ \A y \in D : <<x, y>> \in R => rank(x) < rank(y)
  BY <1>1, <1>2, RankGrows
<1>7. ASSUME NEW x \in D, NEW y \in D, rank(x) = rank(y) PROVE x = y
  <2>1. rank(x) \in Int /\ rank(y) \in Int
    BY <1>6
  <2>2. <<x, y>> \notin R /\ <<y, x>> \notin R
    BY <1>6, <1>7, <2>1
  <2> QED BY <1>2, <2>2
<1>8. ASSUME NEW i \in 1..n, NEW j \in 1..n, i < j
      PROVE  s[i] # s[j] /\ Exceeds(key[s[i]], key[s[j]])
  <2>1. rank(s[i]) < rank(s[j])
    BY <1>4, <1>8
  <2>2. s[i] \in D /\ s[j] \in D
    BY <1>4
  <2>3. s[i] # s[j] /\ <<s[j], s[i]>> \notin R
    BY <1>6, <2>1, <2>2
  <2> QED BY <1>2, <2>2, <2>3
<1>9. ASSUME NEW x \in D PROVE \E i \in 1..n : s[i] = x
  <2>1. rank(x) \in 0..n - 1
    BY <1>6
  <2>2. PICK i \in 1..n : i - 1 = rank(x)
    <3>1. \A r \in 0..n - 1 : r + 1 \in 1..n /\ r + 1 - 1 = r
      BY <1>1
    <3>2. \A r \in 0..n - 1 : \E i \in 1..n : i - 1 = r
      BY <3>1
    <3> QED BY <2>1, <3>2
  <2>3. s[i] \in D /\ rank(s[i]) = rank(x)
    BY <1>4, <2>2
  <2> QED BY <1>7, <2>3
<1> QED
  BY <1>1, <1>5, <1>8, <1>9 DEF D

-----------------------------------------------------------------------------
(* Sequences *)

\* A sequence is a function on the numbers up to its length.
LEMMA SeqFrom ==
  ASSUME NEW S, NEW n \in Nat, NEW s \in [1..n -> S]
  PROVE  s \in Seq(S) /\ Len(s) = n /\ DOMAIN s = 1..n
OBVIOUS

\* A sequence is a function on an interval.
LEMMA SeqIs ==
  ASSUME NEW S, NEW s \in Seq(S)
  PROVE  Len(s) \in Nat /\ DOMAIN s = 1..Len(s) /\ s \in [1..Len(s) -> S]
         /\ IsFiniteSet(DOMAIN s)
BY FS_Interval

\* A sequence has finitely many elements.
LEMMA ElementsFinite ==
  ASSUME NEW S, NEW s \in Seq(S)
  PROVE  IsFiniteSet(ToSet(s)) /\ ToSet(s) \in SUBSET S
<1>1. s \in Surjection(DOMAIN s, ToSet(s))
  BY DEF Surjection, ToSet
<1> QED
  BY <1>1, SeqIs, FS_Surjection DEF ToSet

\* The elements of t are elements of s, in the same order.
Selects(t, s) ==
  \E p \in [DOMAIN t -> DOMAIN s] :
    /\ \A i, j \in DOMAIN t : i < j => p[i] < p[j]
    /\ \A i \in DOMAIN t : t[i] = s[p[i]]

\* p has the numbers in I in their order.
Enumerates(p, I) ==
  /\ p \in [1..Cardinality(I) -> I]
  /\ \A i, j \in 1..Cardinality(I) : i < j => p[i] < p[j]
  /\ \A x \in I : \E i \in 1..Cardinality(I) : p[i] = x

\* Sorting numbers puts them in their order.
LEMMA InOrderIs ==
  ASSUME NEW I \in SUBSET Nat, IsFiniteSet(I)
  PROVE  Cardinality(I) \in Nat /\ Enumerates(Sorted([i \in I |-> <<-i>>]), I)
<1> DEFINE key == [i \in I |-> <<-i>>]
           p == Sorted(key)
           m == Cardinality(I)
<1>1. DOMAIN key = I /\ IsKey(key, 1)
  <2>1. \A i \in I : <<-i>> \in Keys(1) /\ <<-i>>[1] = -i
    BY DEF Keys
  <2>2. \A i, j \in I : i # j => key[i] # key[j]
    BY <2>1
  <2> QED BY <2>1, <2>2 DEF IsKey
<1>2. /\ m \in Nat
      /\ p \in [1..m -> I]
      /\ \A i, j \in 1..m : i < j => p[i] # p[j] /\ Exceeds(key[p[i]], key[p[j]])
      /\ \A x \in I : \E i \in 1..m : p[i] = x
  <2> HIDE DEF key
  <2> QED BY <1>1, SortedIs
<1>3. ASSUME NEW i \in I, NEW j \in I, Exceeds(key[i], key[j]) PROVE i < j
  <2>1. <<-i>> \in Keys(1) /\ <<-j>> \in Keys(1)
    BY DEF Keys
  <2>2. PICK n \in 1..1 : <<-i>>[n] > <<-j>>[n]
    BY <1>3, <2>1, ExceedsIs
  <2>3. -i > -j
    BY <2>2
  <2> QED BY <2>3
<1>4. \A i, j \in 1..m : i < j => p[i] < p[j]
  <2> HIDE DEF key, p
  <2> QED BY <1>2, <1>3
<1>5. Enumerates(p, I)
  <2> HIDE DEF p
  <2> QED BY <1>2, <1>4 DEF Enumerates
<1> HIDE DEF p
<1> QED
  BY <1>2, <1>5 DEF p

\* At takes the positions in their order.
LEMMA AtIs ==
  ASSUME NEW s, NEW I \in SUBSET Nat, IsFiniteSet(I)
  PROVE  /\ Cardinality(I) \in Nat
         /\ \E p : Enumerates(p, I) /\ At(s, I) = [n \in 1..Cardinality(I) |-> s[p[n]]]
<1> DEFINE p == Sorted([i \in I |-> <<-i>>])
           m == Cardinality(I)
<1>1. m \in Nat /\ Enumerates(p, I)
  BY InOrderIs
<1>2. At(s, I) = [n \in DOMAIN p |-> s[p[n]]]
  BY DEF At
<1> HIDE DEF p
<1>3. DOMAIN p = 1..m
  BY <1>1 DEF Enumerates
<1> QED
  BY <1>1, <1>2, <1>3

\* What At selects: the elements at the positions, each once, in their order.
LEMMA AtSelects ==
  ASSUME NEW S, NEW s \in Seq(S), NEW I \in SUBSET DOMAIN s
  PROVE  /\ IsFiniteSet(I)
         /\ At(s, I) \in Seq(S) /\ Len(At(s, I)) = Cardinality(I)
         /\ Selects(At(s, I), s)
         /\ \A n \in DOMAIN At(s, I) : \E i \in I : At(s, I)[n] = s[i]
         /\ \A i \in I : \E n \in DOMAIN At(s, I) : At(s, I)[n] = s[i]
<1> DEFINE m == Cardinality(I)
           t == At(s, I)
<1>1. IsFiniteSet(I) /\ I \in SUBSET Nat
  BY SeqIs, FS_Subset
<1>2. PICK p \in [1..m -> I] :
        /\ \A i, j \in 1..m : i < j => p[i] < p[j]
        /\ \A x \in I : \E i \in 1..m : p[i] = x
        /\ t = [n \in 1..m |-> s[p[n]]]
  <2>1. PICK p : Enumerates(p, I) /\ t = [n \in 1..m |-> s[p[n]]]
    BY <1>1, AtIs
  <2> QED BY <2>1 DEF Enumerates
<1>3. m \in Nat
  BY <1>1, FS_CardinalityType
<1>4. \A i \in I : s[i] \in S
  BY SeqIs
<1>5. t \in [1..m -> S] /\ DOMAIN t = 1..m
  BY <1>2, <1>4
<1> HIDE DEF m, t
<1>6. t \in Seq(S) /\ Len(t) = m
  BY <1>3, <1>5, SeqFrom
<1>7. p \in [DOMAIN t -> DOMAIN s]
  BY <1>5
<1>8. Selects(t, s)
  BY <1>2, <1>5, <1>7 DEF Selects
<1>9. ASSUME NEW n \in DOMAIN t PROVE \E i \in I : t[n] = s[i]
  <2>1. p[n] \in I /\ t[n] = s[p[n]]
    BY <1>2, <1>5
  <2> QED BY <2>1
<1>10. ASSUME NEW i \in I PROVE \E n \in DOMAIN t : t[n] = s[i]
  <2>1. PICK n \in 1..m : p[n] = i
    BY <1>2
  <2>2. n \in DOMAIN t /\ t[n] = s[i]
    BY <1>2, <1>5, <2>1
  <2> QED BY <2>2
<1> QED
  BY <1>1, <1>6, <1>8, <1>9, <1>10 DEF m, t

\* The first elements of a sequence.
LEMMA PrefixSelects ==
  ASSUME NEW S, NEW s \in Seq(S), NEW k \in 0..Len(s)
  PROVE  /\ SubSeq(s, 1, k) \in Seq(S) /\ Len(SubSeq(s, 1, k)) = k
         /\ \A i \in 1..k : SubSeq(s, 1, k)[i] = s[i]
         /\ Selects(SubSeq(s, 1, k), s)
<1> DEFINE t == SubSeq(s, 1, k)
<1>1. t \in Seq(S) /\ Len(t) = k /\ \A i \in 1..k : t[i] = s[i]
  OBVIOUS
<1>2. DOMAIN t = 1..k
  BY <1>1
<1>3. [i \in 1..k |-> i] \in [DOMAIN t -> DOMAIN s]
  BY <1>2, SeqIs
<1> HIDE DEF t
<1>4. Selects(t, s)
  BY <1>1, <1>2, <1>3 DEF Selects
<1> QED
  BY <1>1, <1>4 DEF t

-----------------------------------------------------------------------------
(* How often a source is cited *)

OfSource(s, l) == {i \in DOMAIN s : s[i].locator = l}
Limited(s) == \A l : Cardinality(OfSource(s, l)) <= MaxPerSource

\* The citations of a source can be counted.
LEMMA OfSourceFinite ==
  ASSUME NEW S, NEW s \in Seq(S), NEW l
  PROVE  IsFiniteSet(OfSource(s, l)) /\ Cardinality(OfSource(s, l)) \in Nat
<1>1. OfSource(s, l) \in SUBSET DOMAIN s
  BY DEF OfSource
<1> QED
  BY <1>1, SeqIs, FS_Subset, FS_CardinalityType

\* A selection cites no source more often than what it is selected from.
LEMMA SelectionLimited ==
  ASSUME NEW S, NEW s \in Seq(S), NEW t \in Seq(S), Selects(t, s), Limited(s)
  PROVE  Limited(t)
<1> SUFFICES ASSUME NEW l PROVE Cardinality(OfSource(t, l)) <= MaxPerSource
  BY DEF Limited
<1>1. PICK p \in [DOMAIN t -> DOMAIN s] :
        /\ \A i, j \in DOMAIN t : i < j => p[i] < p[j]
        /\ \A i \in DOMAIN t : t[i] = s[p[i]]
  BY DEF Selects
<1> DEFINE A == OfSource(t, l)
           B == OfSource(s, l)
           f == [i \in A |-> p[i]]
<1>2. A \subseteq DOMAIN t /\ f \in [A -> B]
  BY <1>1 DEF OfSource
<1>3. ASSUME NEW i \in A, NEW j \in A, f[i] = f[j] PROVE i = j
  <2>1. i \in Nat /\ j \in Nat /\ p[i] \in Nat /\ p[j] \in Nat /\ p[i] = p[j]
    BY <1>2, <1>3, SeqIs
  <2>2. ~(i < j) /\ ~(j < i)
    BY <1>1, <1>2, <2>1
  <2> QED BY <2>1, <2>2
<1>4. f \in Injection(A, B)
  BY <1>2, <1>3 DEF Injection, IsInjective
<1>5. IsFiniteSet(B) /\ Cardinality(B) \in Nat /\ Cardinality(A) \in Nat
  BY OfSourceFinite
<1>6. Cardinality(A) <= Cardinality(B)
  <2> HIDE DEF f, A, B
  <2> QED BY <1>4, <1>5, FS_Injection
<1>7. Cardinality(B) <= MaxPerSource
  BY DEF Limited
<1> QED
  BY <1>5, <1>6, <1>7, BoundsAssumption

\* prune_citations keeps the limit: before the last that is kept of a source there
\* are fewer of it than the limit.
LEMMA PrunedLimited ==
  ASSUME NEW S, NEW s \in Seq(S)
  PROVE  Pruned(s) \in Seq(S) /\ Limited(Pruned(s))
<1> DEFINE Earlier(i) == {k \in 1..i - 1 : s[k].locator = s[i].locator}
           I == {i \in DOMAIN s : Cardinality(Earlier(i)) < MaxPerSource}
           m == Cardinality(I)
           t == Pruned(s)
<1>1. I \in SUBSET DOMAIN s /\ t = At(s, I)
  BY DEF Pruned
<1> HIDE DEF I
<1>2. t \in Seq(S) /\ IsFiniteSet(I)
  BY <1>1, AtSelects
<1> SUFFICES ASSUME NEW l PROVE Cardinality(OfSource(t, l)) <= MaxPerSource
  BY <1>2 DEF Limited
<1>3. I \in SUBSET Nat
  BY <1>1, SeqIs
<1>4. PICK p \in [1..m -> I] :
        /\ \A i, j \in 1..m : i < j => p[i] < p[j]
        /\ t = [n \in 1..m |-> s[p[n]]]
  <2>1. PICK p : Enumerates(p, I) /\ t = [n \in 1..m |-> s[p[n]]]
    BY <1>1, <1>2, <1>3, AtIs
  <2> QED BY <2>1 DEF Enumerates
<1>5. m \in Nat
  BY <1>2, <1>3, AtIs
<1> HIDE DEF t, m
<1> DEFINE A == OfSource(t, l)
<1>6. A = {n \in 1..m : s[p[n]].locator = l}
  BY <1>4 DEF OfSource
<1>7. CASE A = {}
  BY <1>7, FS_EmptySet, BoundsAssumption
<1>8. CASE A # {}
  <2>1. A \in SUBSET Int /\ IsFiniteSet(A)
    <3>1. IsFiniteSet(A)
      BY <1>2, OfSourceFinite
    <3>2. A \in SUBSET Int
      BY <1>6
    <3> QED BY <3>1, <3>2
  <2>2. PICK n \in A : \A k \in A : n >= k
    BY <1>8, <2>1, MaxIs
  <2> DEFINE i == p[n]
             B == Earlier(i)
             C == A \ {n}
             f == [k \in C |-> p[k]]
  <2>3. n \in 1..m /\ i \in I /\ i \in Nat /\ s[i].locator = l
    BY <1>3, <1>6
  <2>4. ASSUME NEW k \in C PROVE p[k] \in B
    <3>1. k \in 1..m /\ k < n /\ s[p[k]].locator = l
      BY <1>6, <2>1, <2>2, <2>3
    <3>2. p[k] < i /\ p[k] \in I /\ p[k] \in Nat
      BY <1>3, <1>4, <2>3, <3>1
    <3>3. p[k] \in DOMAIN s
      BY <1>1, <3>2
    <3>4. p[k] \in 1..i - 1
      BY <2>3, <3>2, <3>3, SeqIs
    <3> QED BY <2>3, <3>1, <3>4
  <2>5. ASSUME NEW j \in C, NEW k \in C, f[j] = f[k] PROVE j = k
    <3>1. j \in 1..m /\ k \in 1..m /\ p[j] = p[k] /\ p[j] \in Nat
      BY <1>3, <1>6, <2>5
    <3>2. ~(j < k) /\ ~(k < j)
      BY <1>4, <3>1
    <3> QED BY <3>1, <3>2
  <2>6. f \in Injection(C, B)
    BY <2>4, <2>5 DEF Injection, IsInjective
  <2>7. IsFiniteSet(B) /\ Cardinality(B) \in Nat
    <3>1. B \in SUBSET (1..i - 1)
      OBVIOUS
    <3>2. i - 1 \in Int /\ 1 \in Int
      BY <2>3
    <3>3. IsFiniteSet(1..i - 1)
      BY <3>2, FS_Interval
    <3> HIDE DEF B
    <3> QED BY <3>1, <3>3, FS_Subset, FS_CardinalityType
  <2>8. Cardinality(C) <= Cardinality(B)
    <3> HIDE DEF C, B, f
    <3> QED BY <2>6, <2>7, FS_Injection
  <2>9. Cardinality(B) < MaxPerSource
    BY <2>3 DEF I
  <2>10. Cardinality(C) = Cardinality(A) - 1 /\ Cardinality(A) \in Nat
    <3> HIDE DEF A
    <3> QED BY <2>1, <2>2, FS_RemoveElement, FS_CardinalityType
  <2> HIDE DEF A, B, C
  <2> QED BY <2>7, <2>8, <2>9, <2>10, BoundsAssumption DEF A
<1> QED
  BY <1>7, <1>8

-----------------------------------------------------------------------------
(* The search *)

Locators == UNION {{Locator[d][n] : n \in DOMAIN Words[d]} : d \in Docs}

\* c is a chunk of a version that its document has, has had or will have.
Exists(c) == c.version < Len(Words[c.doc]) /\ c.index < Len(Words[c.doc][c.version + 1])

Chunks == {c \in [doc : Docs, version : Nat, index : Nat] : Exists(c)}
Citations ==
  {c \in [doc : Docs, version : Nat, index : Nat, locator : Locators, score : Int] :
     Exists(c) /\ c.locator = LocatorOf(c)}

VersionType ==
  /\ version \in [Docs -> Int]
  /\ \A d \in Docs : version[d] \in Absent..Len(Words[d]) - 1

\* A document has a sequence of versions, each a sequence of chunks.
LEMMA WordsType ==
  ASSUME NEW d \in Docs
  PROVE  /\ Words[d] \in Seq(Seq(SUBSET Terms)) /\ Len(Words[d]) \in Nat
         /\ \A n \in DOMAIN Words[d] :
              Words[d][n] \in Seq(SUBSET Terms) /\ Len(Words[d][n]) \in Nat
<1>1. Words[d] \in Seq(Seq(SUBSET Terms))
  BY CorpusAssumption
<1>2. \A n \in DOMAIN Words[d] : Words[d][n] \in Seq(SUBSET Terms)
  BY <1>1, SeqIs
<1> QED
  BY <1>1, <1>2, SeqIs

\* The chunks of a version are finitely many, and are those that exist.
LEMMA ChunksOfIs ==
  ASSUME NEW d \in Docs, NEW v \in Int, v \in Absent..Len(Words[d]) - 1
  PROVE  /\ IsFiniteSet(ChunksOf(d, v)) /\ ChunksOf(d, v) \subseteq Chunks
         /\ \A c \in ChunksOf(d, v) : c.doc = d /\ c.version = v
         /\ v # Absent => \A c \in Chunks : c.doc = d /\ c.version = v => c \in ChunksOf(d, v)
<1>1. CASE v = Absent
  BY <1>1, FS_EmptySet DEF ChunksOf
<1>2. CASE v # Absent
  <2> DEFINE w == Words[d][v + 1]
             f == [i \in DOMAIN w |-> [doc |-> d, version |-> v, index |-> i - 1]]
  <2>1. v \in Nat /\ v < Len(Words[d]) /\ v + 1 \in DOMAIN Words[d]
    BY <1>2, WordsType, SeqIs DEF Absent
  <2>2. DOMAIN w = 1..Len(w) /\ Len(w) \in Nat /\ IsFiniteSet(DOMAIN w)
    BY <2>1, WordsType, SeqIs
  <2>3. ChunksOf(d, v) = {[doc |-> d, version |-> v, index |-> i - 1] : i \in DOMAIN w}
    BY <1>2 DEF ChunksOf
  <2> HIDE DEF w
  <2>4. f \in Surjection(DOMAIN w, ChunksOf(d, v))
    BY <2>3 DEF Surjection
  <2>5. IsFiniteSet(ChunksOf(d, v))
    <3> HIDE DEF f
    <3> QED BY <2>2, <2>4, FS_Surjection
  <2>6. ASSUME NEW c \in ChunksOf(d, v) PROVE c \in Chunks /\ c.doc = d /\ c.version = v
    <3>1. PICK i \in DOMAIN w : c = [doc |-> d, version |-> v, index |-> i - 1]
      BY <2>3
    <3>2. i - 1 \in Nat /\ i - 1 < Len(w)
      BY <2>2
    <3> QED BY <2>1, <3>1, <3>2 DEF Chunks, Exists, w
  <2>7. ASSUME NEW c \in Chunks, c.doc = d, c.version = v PROVE c \in ChunksOf(d, v)
    <3>1. c.index \in Nat /\ c.index < Len(w)
         /\ c = [doc |-> d, version |-> v, index |-> c.index]
      BY <2>7 DEF Chunks, Exists, w
    <3>2. c.index + 1 \in DOMAIN w /\ c.index + 1 - 1 = c.index
      BY <2>2, <3>1
    <3> QED BY <2>3, <3>1, <3>2
  <2> QED BY <2>5, <2>6, <2>7
<1> QED
  BY <1>1, <1>2

\* What is stored are chunks, finitely many.
LEMMA StoredIs ==
  ASSUME VersionType
  PROVE  IsFiniteSet(Stored) /\ Stored \subseteq Chunks
<1> DEFINE T == {ChunksOf(d, version[d]) : d \in Docs}
           f == [d \in Docs |-> ChunksOf(d, version[d])]
<1>1. \A d \in Docs : version[d] \in Int /\ version[d] \in Absent..Len(Words[d]) - 1
  BY DEF VersionType
<1>2. \A d \in Docs : IsFiniteSet(ChunksOf(d, version[d])) /\ ChunksOf(d, version[d]) \subseteq Chunks
  BY <1>1, ChunksOfIs
<1>3. f \in Surjection(Docs, T)
  BY DEF Surjection
<1>4. IsFiniteSet(T)
  <2> HIDE DEF f, T
  <2> QED BY <1>3, CorpusAssumption, FS_Surjection
<1>5. IsFiniteSet(UNION T)
  <2>1. \A t \in T : IsFiniteSet(t)
    BY <1>2
  <2> HIDE DEF T
  <2> QED BY <1>4, <2>1, FS_UNION
<1> QED
  BY <1>2, <1>5 DEF Stored

\* A search may return a number of chunks.
LEMMA LimitIs == CandidateLimit \in Nat
<1>1. Max({2, MaxPerSource + 1}) \in Nat
  <2>1. \A m \in Nat : Max({2, m}) \in Nat
    BY OfTwo
  <2>2. MaxPerSource + 1 \in Nat
    BY BoundsAssumption
  <2> QED BY <2>1, <2>2
<1> QED
  BY <1>1, BoundsAssumption DEF CandidateLimit

\* A search returns chunks, none twice.
LEMMA RankedIs ==
  ASSUME NEW S, IsFiniteSet(S), NEW s \in Ranked(S)
  PROVE  s \in Seq(S) /\ IsInjective(s)
<1> DEFINE n == Cardinality(S)
           k == Min({n, CandidateLimit})
<1>1. n \in Nat
  BY FS_CardinalityType
<1>2. k \in 0..n
  BY <1>1, LimitIs, OfTwo
<1> HIDE DEF n, k
<1>3. PICK u \in SetToSeqs(S) : s = SubSeq(u, 1, k)
  BY DEF Ranked, n, k
<1>4. u \in [1..n -> S] /\ \A i, j \in 1..n : i # j => u[i] # u[j]
  BY <1>3 DEF SetToSeqs, n
<1>5. u \in Seq(S) /\ Len(u) = n
  BY <1>1, <1>4, SeqFrom
<1>6. s \in Seq(S) /\ Len(s) = k /\ \A i \in 1..k : s[i] = u[i]
  BY <1>2, <1>3, <1>5, PrefixSelects
<1>7. DOMAIN s = 1..k
  BY <1>6, SeqIs
<1>8. \A i, j \in 1..k : i # j => s[i] # s[j]
  BY <1>1, <1>2, <1>4, <1>6
<1> QED
  BY <1>6, <1>7, <1>8 DEF IsInjective

HitsType == keyword \in Seq(Chunks) /\ semantic \in Seq(Chunks)

\* The score that a search gives is a number,
LEMMA ReciprocalRankIs ==
  ASSUME NEW S, NEW s \in Seq(S), NEW c
  PROVE  ReciprocalRank(s, c) \in Int
<1>1. CASE c \in ToSet(s)
  <2> DEFINE i == CHOOSE i \in DOMAIN s : s[i] = c
  <2>1. i \in DOMAIN s
    BY <1>1 DEF ToSet
  <2> HIDE DEF i
  <2>2. i \in Nat /\ i > 0
    BY <2>1, SeqIs
  <2>3. \A n \in Nat : n > 0 => Unit \div (60 + n) \in Int
    BY DEF Unit
  <2> QED BY <1>1, <2>2, <2>3 DEF ReciprocalRank, i
<1>2. CASE c \notin ToSet(s)
  BY <1>2 DEF ReciprocalRank
<1> QED
  BY <1>1, <1>2

\* and so is the sum of both.
LEMMA RawScoreIs ==
  ASSUME HitsType, NEW c
  PROVE  RawScore(c) \in Int
BY ReciprocalRankIs DEF RawScore, HitsType

\* A chunk is of a version whose text is known.
LEMMA NumberedVersion ==
  ASSUME NEW c \in Chunks
  PROVE  c.doc \in Docs /\ c.version + 1 \in DOMAIN Words[c.doc]
<1>1. c.doc \in Docs /\ c.version \in Nat /\ c.version < Len(Words[c.doc])
  BY DEF Chunks, Exists
<1>2. Len(Words[c.doc]) \in Nat /\ DOMAIN Words[c.doc] = 1..Len(Words[c.doc])
  BY <1>1, WordsType
<1> QED
  BY <1>1, <1>2

\* A hit becomes a citation.
LEMMA CitedIs ==
  ASSUME HitsType, NEW c \in Chunks
  PROVE  Cited(c) \in Citations
<1>1. RawScore(c) * Weight[LocatorOf(c)] \in Int
  <2>1. c.doc \in Docs /\ c.version + 1 \in DOMAIN Words[c.doc]
    BY NumberedVersion
  <2>2. RawScore(c) \in Int /\ Weight[LocatorOf(c)] \in Int
    BY <2>1, RawScoreIs, ScoresAssumption DEF LocatorOf
  <2> QED BY <2>2
<1>2. LocatorOf(c) \in Locators
  BY NumberedVersion DEF LocatorOf, Locators
<1>3. /\ Cited(c).locator = LocatorOf(c) /\ LocatorOf(Cited(c)) = LocatorOf(c)
      /\ Exists(Cited(c))
  BY DEF Cited, LocatorOf, Chunks, Exists
<1> QED
  BY <1>1, <1>2, <1>3 DEF Cited, Citations, Chunks

\* Documents can be numbered.
LEMMA DocNumberIs ==
  /\ DocNumber \in [Docs -> 1..Cardinality(Docs)]
  /\ \A d, e \in Docs : DocNumber[d] = DocNumber[e] => d = e
  /\ Cardinality(Docs) \in Nat
<1> DEFINE n == Cardinality(Docs)
<1>1. IsFiniteSet(Docs) /\ n \in Nat
  BY CorpusAssumption, FS_CardinalityType
<1>2. IsFiniteSet(1..n) /\ Cardinality(1..n) = n
  BY <1>1, FS_Interval
<1>3. ExistsBijection(Docs, 1..n)
  BY <1>1, <1>2, FS_SameCardinalityBij
<1>4. \E f \in [Docs -> 1..n] : IsInjective(f)
  BY <1>3 DEF ExistsBijection, Bijection, Injection
<1>5. DocNumber \in [Docs -> 1..n] /\ IsInjective(DocNumber)
  BY <1>4 DEF DocNumber
<1> QED
  BY <1>1, <1>5 DEF IsInjective

\* The sort keys of citations tell them apart.
LEMMA SortKeyIs ==
  ASSUME NEW c \in Citations
  PROVE  /\ SortKey(c) \in Keys(4)
         /\ SortKey(c)[2] = -DocNumber[c.doc] /\ SortKey(c)[3] = -c.index
         /\ SortKey(c)[4] = -c.version
<1>1. c.doc \in Docs /\ c.index \in Nat /\ c.version \in Nat /\ c.score \in Int
  BY DEF Citations
<1>2. DocNumber[c.doc] \in Int
  BY <1>1, DocNumberIs
<1> QED
  BY <1>1, <1>2 DEF SortKey, Keys

\* The results of a search are chunks that exist, and no source has more of them than
\* it may.
LEMMA ResultsIs ==
  ASSUME HitsType
  PROVE  Results \in Seq(Citations) /\ Limited(Results)
<1> DEFINE hits == {c \in ToSet(keyword) \cup ToSet(semantic) :
                 /\ <<c.doc, c.version>> \in sourced \/ version[c.doc] # Absent
                 /\ RawScore(c) >= MinScore}
           D == {Cited(c) : c \in hits}
           key == [c \in D |-> SortKey(c)]
           sorted == Sorted(key)
           n == Cardinality(D)
           pruned == Pruned(sorted)
           k == Min({TopK, Len(pruned)})
<1>1. IsFiniteSet(hits) /\ hits \subseteq Chunks
  <2>1. /\ IsFiniteSet(ToSet(keyword) \cup ToSet(semantic))
        /\ ToSet(keyword) \cup ToSet(semantic) \subseteq Chunks
    BY ElementsFinite, FS_Union DEF HitsType
  <2>2. hits \in SUBSET (ToSet(keyword) \cup ToSet(semantic))
    OBVIOUS
  <2> HIDE DEF hits
  <2> QED BY <2>1, <2>2, FS_Subset
<1> HIDE DEF hits
<1>2. D \subseteq Citations
  BY <1>1, CitedIs
<1>3. IsFiniteSet(D)
  <2> DEFINE f == [c \in hits |-> Cited(c)]
  <2>1. f \in Surjection(hits, D)
    BY DEF Surjection
  <2> HIDE DEF f, D
  <2> QED BY <1>1, <2>1, FS_Surjection
<1>4. ASSUME NEW a \in D, NEW b \in D, SortKey(a) = SortKey(b) PROVE a = b
  <2>1. PICK x \in hits : a = Cited(x)
    OBVIOUS
  <2>2. PICK y \in hits : b = Cited(y)
    OBVIOUS
  <2>3. a \in Citations /\ b \in Citations /\ x \in Chunks /\ y \in Chunks
    BY <1>1, <1>2
  <2>4. a.doc = x.doc /\ a.version = x.version /\ a.index = x.index
        /\ b.doc = y.doc /\ b.version = y.version /\ b.index = y.index
    BY <2>1, <2>2 DEF Cited
  <2>5. -DocNumber[a.doc] = -DocNumber[b.doc] /\ -a.index = -b.index /\ -a.version = -b.version
    BY <1>4, <2>3, SortKeyIs
  <2>6. x.doc \in Docs /\ x.version \in Nat /\ x.index \in Nat
        /\ y.doc \in Docs /\ y.version \in Nat /\ y.index \in Nat
        /\ x = [doc |-> x.doc, version |-> x.version, index |-> x.index]
        /\ y = [doc |-> y.doc, version |-> y.version, index |-> y.index]
    BY <2>3 DEF Chunks
  <2>7. DocNumber[x.doc] \in Int /\ DocNumber[y.doc] \in Int
    BY <2>6, DocNumberIs
  <2>8. DocNumber[x.doc] = DocNumber[y.doc] /\ x.index = y.index /\ x.version = y.version
    BY <2>4, <2>5, <2>6, <2>7
  <2>9. x = y
    BY <2>6, <2>8, DocNumberIs
  <2> QED BY <2>1, <2>2, <2>9
<1> HIDE DEF D
<1>5. DOMAIN key = D /\ IsKey(key, 4)
  BY <1>2, <1>3, <1>4, SortKeyIs DEF IsKey
<1>6. n \in Nat /\ sorted \in [1..n -> D]
  <2> HIDE DEF key
  <2> QED BY <1>5, SortedIs
<1> HIDE DEF sorted, n
<1>7. sorted \in Seq(Citations)
  <2>1. sorted \in [1..n -> Citations]
    BY <1>2, <1>6
  <2> QED BY <1>6, <2>1, SeqFrom
<1>8. pruned \in Seq(Citations) /\ Limited(pruned)
  BY <1>7, PrunedLimited
<1> HIDE DEF pruned
<1>9. k \in 0..Len(pruned)
  BY <1>8, OfTwo, SeqIs, BoundsAssumption
<1> HIDE DEF k
<1>10. SubSeq(pruned, 1, k) \in Seq(Citations) /\ Limited(SubSeq(pruned, 1, k))
  <2>1. SubSeq(pruned, 1, k) \in Seq(Citations) /\ Selects(SubSeq(pruned, 1, k), pruned)
    BY <1>8, <1>9, PrefixSelects
  <2> QED BY <1>8, <2>1, SelectionLimited
<1> QED
  BY <1>10 DEF Results, k, pruned, sorted, key, D, hits

-----------------------------------------------------------------------------
(* Sums *)

\* g adds up f over the subsets of S that have at most n elements.
AddsUp(g, f, S, n) ==
  LET T == {s \in SUBSET S : Cardinality(s) <= n}
  IN  /\ g \in [T -> Int]
      /\ \A s \in T : g[s] = IF s = {} THEN 0
                             ELSE f[CHOOSE x \in s : TRUE] + g[s \ {CHOOSE x \in s : TRUE}]

\* By induction on how many elements the subsets may have.
LEMMA SumExists ==
  ASSUME NEW S, IsFiniteSet(S), NEW f, \A x \in S : f[x] \in Int, NEW n \in Nat
  PROVE  \E g : AddsUp(g, f, S, n)
<1> DEFINE N == {m \in Nat : \E g : AddsUp(g, f, S, m)}
           T(m) == {s \in SUBSET S : Cardinality(s) <= m}
           x(s) == CHOOSE x \in s : TRUE
<1>1. \A s \in SUBSET S : IsFiniteSet(s) /\ Cardinality(s) \in Nat
  BY FS_Subset, FS_CardinalityType
<1>2. 0 \in N
  <2> DEFINE g == [s \in T(0) |-> 0]
  <2>1. \A s \in T(0) : s = {}
    BY <1>1, FS_EmptySet
  <2>2. AddsUp(g, f, S, 0)
    BY <2>1 DEF AddsUp
  <2> QED
    BY <2>2
<1>3. ASSUME NEW m \in N PROVE m + 1 \in N
  <2>1. PICK g : AddsUp(g, f, S, m)
    OBVIOUS
  <2>2. m \in Nat
    OBVIOUS
  <2> DEFINE h == [s \in T(m + 1) |-> IF s = {} THEN 0 ELSE f[x(s)] + g[s \ {x(s)}]]
  <2>3. ASSUME NEW s \in T(m + 1), s # {}
        PROVE  s \ {x(s)} \in T(m) /\ f[x(s)] \in Int
    <3>1. x(s) \in s /\ x(s) \in S
      BY <2>3
    <3>2. IsFiniteSet(s) /\ Cardinality(s) \in Nat /\ Cardinality(s) <= m + 1
      BY <1>1, <2>3
    <3>3. Cardinality(s \ {x(s)}) = Cardinality(s) - 1
      BY <3>1, <3>2, FS_RemoveElement
    <3> QED BY <2>2, <3>1, <3>2, <3>3
  <2>4. g \in [T(m) -> Int]
    BY <2>1 DEF AddsUp
  <2>5. h \in [T(m + 1) -> Int]
    <3>1. ASSUME NEW s \in T(m + 1), s # {} PROVE f[x(s)] + g[s \ {x(s)}] \in Int
      BY <2>3, <2>4, <3>1
    <3> QED BY <3>1
  <2>6. ASSUME NEW s \in T(m) PROVE s \in T(m + 1) /\ h[s] = g[s]
    <3>1. s \in T(m + 1)
      BY <1>1, <2>2
    <3>2. g[s] = IF s = {} THEN 0 ELSE f[x(s)] + g[s \ {x(s)}]
      BY <2>1 DEF AddsUp
    <3> QED BY <3>1, <3>2
  <2>7. ASSUME NEW s \in T(m + 1)
        PROVE  h[s] = IF s = {} THEN 0 ELSE f[x(s)] + h[s \ {x(s)}]
    <3>1. CASE s = {}
      BY <3>1
    <3>2. CASE s # {}
      <4>1. h[s \ {x(s)}] = g[s \ {x(s)}]
        BY <2>3, <2>6, <3>2
      <4> QED BY <3>2, <4>1
    <3> QED BY <3>1, <3>2
  <2>8. AddsUp(h, f, S, m + 1)
    <3> HIDE DEF h
    <3> QED BY <2>5, <2>7 DEF AddsUp
  <2> QED
    BY <2>2, <2>8
<1> HIDE DEF N
<1>4. N = Nat
  <2>1. N \in SUBSET Nat
    BY DEF N
  <2> QED
    BY <1>2, <1>3, <2>1, AllNumbers
<1> QED
  BY <1>4 DEF N

\* A sum of integers is an integer.
LEMMA SumIs ==
  ASSUME NEW S, IsFiniteSet(S), NEW f, \A x \in S : f[x] \in Int
  PROVE  SumFunctionOnSet(f, S) \in Int
<1> DEFINE Sums(g) == g = [s \in SUBSET S |->
                            IF s = {} THEN 0
                            ELSE f[CHOOSE x \in s : TRUE] + g[s \ {CHOOSE x \in s : TRUE}]]
           F == CHOOSE g : Sums(g)
           n == Cardinality(S)
<1>1. n \in Nat /\ \A s \in SUBSET S : Cardinality(s) <= n
  BY FS_Subset, FS_CardinalityType
<1>2. PICK h : AddsUp(h, f, S, n)
  <2> HIDE DEF n
  <2> QED BY <1>1, SumExists
<1>3. {s \in SUBSET S : Cardinality(s) <= n} = SUBSET S
  BY <1>1
<1>4. h \in [SUBSET S -> Int] /\ Sums(h)
  BY <1>2, <1>3 DEF AddsUp
<1>5. Sums(F)
  <2> HIDE DEF Sums
  <2> QED BY <1>4
<1>6. SumFunctionOnSet(f, S) = F[S]
  BY DEF SumFunctionOnSet, FoldFunctionOnSet, MapThenFoldSet
<1> DEFINE bad == {s \in SUBSET S : F[s] \notin Int}
           K == {Cardinality(s) : s \in bad}
<1>7. CASE bad = {}
  BY <1>6, <1>7
<1>8. CASE bad # {}
  <2> HIDE DEF F
  <2>1. \A s \in SUBSET S : IsFiniteSet(s) /\ Cardinality(s) \in Nat
    BY FS_Subset, FS_CardinalityType
  <2>2. PICK k \in K : \A j \in K : k <= j
    <3>1. K \in SUBSET Nat /\ K # {}
      BY <1>8, <2>1
    <3> HIDE DEF K
    <3> QED BY <3>1, LeastExists
  <2>3. PICK s \in bad : k = Cardinality(s)
    OBVIOUS
  <2>4. \A t \in SUBSET S : Cardinality(t) < Cardinality(s) => F[t] \in Int
    <3> SUFFICES ASSUME NEW t \in SUBSET S, Cardinality(t) < Cardinality(s), t \in bad
                 PROVE  FALSE
      OBVIOUS
    <3>1. Cardinality(t) \in K
      OBVIOUS
    <3> QED BY <2>1, <2>2, <2>3, <3>1
  <2> DEFINE x == CHOOSE x \in s : TRUE
  <2>5. F[s] = IF s = {} THEN 0 ELSE f[x] + F[s \ {x}]
    BY <1>5
  <2>6. s # {}
    BY <2>5
  <2>7. x \in s /\ x \in S
    BY <2>6
  <2> HIDE DEF x
  <2>8. Cardinality(s \ {x}) < Cardinality(s) /\ s \ {x} \in SUBSET S
    BY <2>1, <2>7, FS_RemoveElement
  <2> QED BY <2>4, <2>5, <2>6, <2>7, <2>8
<1> QED
  BY <1>7, <1>8

-----------------------------------------------------------------------------
(* Lineages *)

\* What a question has.
LEMMA QuestionIs ==
  ASSUME question \in Questions
  PROVE  /\ question.strategy \in Strategies
         /\ question.strict \in BOOLEAN /\ question.connector \in BOOLEAN
         /\ IsFiniteSet(question.terms)
BY QuestionsAssumption

\* Overlaps and the least overlap are numbers.
LEMMA OverlapIs ==
  ASSUME question \in Questions
  PROVE  /\ \A c : Overlap(c) \in Nat
         /\ \A s, l : TotalOverlap(s, l) \in Nat
         /\ MinimumMatch \in Nat
<1>1. \A T : Cardinality(question.terms \cap T) \in Nat
  BY QuestionIs, FS_Intersection, FS_CardinalityType
<1> QED
  BY <1>1 DEF Overlap, TotalOverlap, MinimumMatch

\* A lineage has positions among the citations that it is of.
LEMMA PositionsIs ==
  ASSUME NEW s \in Seq(Citations), NEW l \in Lineages(s)
  PROVE  /\ Positions(s, l) \in SUBSET DOMAIN s /\ Positions(s, l) \in SUBSET Nat
         /\ IsFiniteSet(Positions(s, l)) /\ Positions(s, l) # {}
<1>1. Positions(s, l) \in SUBSET DOMAIN s /\ Positions(s, l) # {}
  BY DEF Positions, Lineages
<1>2. DOMAIN s \in SUBSET Nat /\ IsFiniteSet(DOMAIN s)
  BY SeqIs
<1> QED
  BY <1>1, <1>2, FS_Subset

\* The greatest of some integers of the positions of a lineage.
LEMMA GreatestIs ==
  ASSUME NEW P, IsFiniteSet(P), P # {}, NEW f \in [P -> Int]
  PROVE  Max({f[i] : i \in P}) \in Int
<1> DEFINE T == {f[i] : i \in P}
<1>1. T \in SUBSET Int /\ T # {}
  OBVIOUS
<1>2. f \in Surjection(P, T)
  BY DEF Surjection
<1>3. IsFiniteSet(T)
  <2> HIDE DEF T
  <2> QED BY <1>2, FS_Surjection
<1> HIDE DEF T
<1>4. Max(T) \in Int
  BY <1>1, <1>3, MaxIs
<1> QED
  BY <1>4 DEF T

\* What lineages are ranked by are numbers; the first rank is a position of the lineage.
LEMMA LineageKeys ==
  ASSUME question \in Questions, NEW s \in Seq(Citations), NEW l \in Lineages(s)
  PROVE  /\ BestOverlap(s, l) \in Int /\ BestScore(s, l) \in Int /\ TotalScore(s, l) \in Int
         /\ FirstRank(s, l) \in DOMAIN s /\ Lineage(s[FirstRank(s, l)]) = l
<1> DEFINE P == Positions(s, l)
<1>1. P \in SUBSET DOMAIN s /\ P \in SUBSET Nat /\ IsFiniteSet(P) /\ P # {}
  BY PositionsIs
<1>2. \A i \in P : Lineage(s[i]) = l
  BY DEF Positions
<1>3. \A i \in DOMAIN s : s[i].score \in Int
  BY SeqIs DEF Citations
<1> HIDE DEF P
<1>4. BestOverlap(s, l) \in Int
  <2> DEFINE f == [i \in P |-> Overlap(s[i])]
  <2>1. f \in [P -> Int] /\ \A i \in P : f[i] = Overlap(s[i])
    BY OverlapIs
  <2> HIDE DEF f
  <2>2. Max({f[i] : i \in P}) \in Int
    BY <1>1, <2>1, GreatestIs
  <2>3. {f[i] : i \in P} = {Overlap(s[i]) : i \in P}
    BY <2>1
  <2> QED BY <2>2, <2>3 DEF BestOverlap, P
<1>5. BestScore(s, l) \in Int
  <2> DEFINE f == [i \in P |-> s[i].score]
  <2>1. f \in [P -> Int] /\ \A i \in P : f[i] = s[i].score
    BY <1>1, <1>3
  <2> HIDE DEF f
  <2>2. Max({f[i] : i \in P}) \in Int
    BY <1>1, <2>1, GreatestIs
  <2>3. {f[i] : i \in P} = {s[i].score : i \in P}
    BY <2>1
  <2> QED BY <2>2, <2>3 DEF BestScore, P
<1>6. TotalScore(s, l) \in Int
  <2> DEFINE f == [i \in DOMAIN s |-> s[i].score]
  <2>1. \A i \in P : f[i] \in Int
    BY <1>1, <1>3
  <2> HIDE DEF f
  <2>2. SumFunctionOnSet(f, P) \in Int
    BY <1>1, <2>1, SumIs
  <2> QED BY <2>2 DEF TotalScore, P, f
<1>7. FirstRank(s, l) \in P
  <2>1. P \in SUBSET Int
    BY <1>1
  <2>2. Min(P) \in P
    BY <1>1, <2>1, MinIs
  <2> QED BY <2>2 DEF FirstRank, P
<1> QED
  BY <1>1, <1>2, <1>4, <1>5, <1>6, <1>7

\* There are finitely many lineages.
LEMMA LineagesFinite ==
  ASSUME NEW s \in Seq(Citations)
  PROVE  IsFiniteSet(Lineages(s))
<1> DEFINE f == [i \in DOMAIN s |-> Lineage(s[i])]
<1>1. f \in Surjection(DOMAIN s, Lineages(s))
  BY DEF Surjection, Lineages
<1> HIDE DEF f
<1> QED
  BY <1>1, SeqIs, FS_Surjection

\* The rank key of a lineage is a tuple of seven numbers, the last its own.
LEMMA RankKeyIs ==
  ASSUME question \in Questions, NEW s \in Seq(Citations), NEW l \in Lineages(s),
         NEW preferLocal \in BOOLEAN
  PROVE  /\ RankKey(s, l, preferLocal) \in Keys(7)
         /\ RankKey(s, l, preferLocal)[7] = -FirstRank(s, l)
<1>1. FirstRank(s, l) \in Nat
  BY LineageKeys, SeqIs
<1>2. Priority[s[FirstRank(s, l)].locator] \in Int
  <2>1. s[FirstRank(s, l)] \in Citations
    BY LineageKeys, SeqIs
  <2>2. s[FirstRank(s, l)].locator \in Locators
    BY <2>1 DEF Citations
  <2> QED BY <2>2, ScoresAssumption DEF Locators
<1>3. TotalOverlap(s, l) \in Nat /\ BestOverlap(s, l) \in Int /\ BestScore(s, l) \in Int
      /\ TotalScore(s, l) \in Int
  BY OverlapIs, LineageKeys
<1> DEFINE p == Priority[s[FirstRank(s, l)].locator]
           u == preferLocal /\ ~question.connector
           t == TotalOverlap(s, l)
           a == IF u /\ p = 0 /\ t > 0 THEN t + 1 ELSE t
           b == IF u THEN -p ELSE 0
<1>4. a \in Int /\ b \in Int /\ t \in Int /\ -FirstRank(s, l) \in Int
  BY <1>1, <1>2, <1>3
<1>5. RankKey(s, l, preferLocal)
        = <<a, b, t, BestOverlap(s, l), BestScore(s, l), TotalScore(s, l), -FirstRank(s, l)>>
  BY DEF RankKey
<1> HIDE DEF a, b, t
<1> QED
  BY <1>3, <1>4, <1>5 DEF Keys

\* Only lineages of the candidates qualify.
LEMMA QualifiedIs == \A s : Qualified(s) \subseteq Lineages(s)
BY DEF Qualified

\* The best lineage is one that qualifies, and has the greatest key of those.
LEMMA BestLineageIs ==
  ASSUME question \in Questions, NEW s \in Seq(Citations), Qualified(s) # {},
         NEW preferLocal \in BOOLEAN
  PROVE  LET b == BestLineage(s, preferLocal)
         IN  /\ b \in Qualified(s)
             /\ \A l \in Qualified(s) \ {b} :
                  Exceeds(RankKey(s, b, preferLocal), RankKey(s, l, preferLocal))
<1> DEFINE Q == Qualified(s)
           key == [l \in Q |-> RankKey(s, l, preferLocal)]
<1>1. Q \in SUBSET Lineages(s) /\ IsFiniteSet(Q)
  BY QualifiedIs, LineagesFinite, FS_Subset
<1>2. ASSUME NEW l \in Q, NEW m \in Q, l # m
      PROVE  RankKey(s, l, preferLocal) # RankKey(s, m, preferLocal)
  <2>1. FirstRank(s, l) # FirstRank(s, m) /\ FirstRank(s, l) \in Int /\ FirstRank(s, m) \in Int
    BY <1>1, <1>2, LineageKeys, SeqIs
  <2>2. -FirstRank(s, l) # -FirstRank(s, m)
    BY <2>1
  <2> QED BY <1>1, <2>2, RankKeyIs
<1> HIDE DEF Q
<1>3. \A l \in Q : RankKey(s, l, preferLocal) \in Keys(7)
  BY <1>1, RankKeyIs
<1>4. DOMAIN key = Q /\ \A l \in Q : key[l] = RankKey(s, l, preferLocal)
  OBVIOUS
<1>5. IsKey(key, 7)
  BY <1>1, <1>2, <1>3 DEF IsKey
<1>6. BestLineage(s, preferLocal) = Foremost(key)
  BY DEF BestLineage, Q
<1> HIDE DEF key
<1>7. Foremost(key) \in Q /\ \A l \in Q \ {Foremost(key)} : Exceeds(key[Foremost(key)], key[l])
  BY <1>4, <1>5, ForemostIs DEF Q
<1> QED
  BY <1>4, <1>6, <1>7 DEF Q

-----------------------------------------------------------------------------
(* Selections of the evidence *)

Listing(s) == s \in Seq(Citations) /\ Limited(s)
OneLineage(s) == \A i, j \in DOMAIN s : Lineage(s[i]) = Lineage(s[j])

\* No citations at all are a listing.
LEMMA NothingListed == Listing(<<>>) /\ OneLineage(<<>>) /\ DOMAIN <<>> = {}
<1>1. <<>> \in Seq(Citations) /\ DOMAIN <<>> = {}
  OBVIOUS
<1>2. \A l : OfSource(<<>>, l) = {}
  BY <1>1 DEF OfSource
<1> QED
  BY <1>1, <1>2, FS_EmptySet, BoundsAssumption DEF Listing, Limited, OneLineage

\* What is selected from a listing is one, with the elements selected.
LEMMA AtListing ==
  ASSUME NEW s, Listing(s), NEW I \in SUBSET DOMAIN s
  PROVE  /\ Listing(At(s, I))
         /\ \A n \in DOMAIN At(s, I) : \E i \in I : At(s, I)[n] = s[i]
         /\ \A i \in I : \E n \in DOMAIN At(s, I) : At(s, I)[n] = s[i]
<1>1. s \in Seq(Citations) /\ Limited(s)
  BY DEF Listing
<1>2. At(s, I) \in Seq(Citations) /\ Selects(At(s, I), s)
  BY <1>1, AtSelects
<1>3. Listing(At(s, I))
  BY <1>1, <1>2, SelectionLimited DEF Listing
<1> QED
  BY <1>1, <1>3, AtSelects

\* Numbers that grow and reach every number up to m are those numbers.
LEMMA EnumeratesAll ==
  ASSUME NEW m \in Nat, NEW p, Enumerates(p, 1..m)
  PROVE  p = [n \in 1..m |-> n]
<1>1. Cardinality(1..m) = m
  BY FS_Interval
<1>2. /\ p \in [1..m -> 1..m]
      /\ \A i, j \in 1..m : i < j => p[i] < p[j]
      /\ \A x \in 1..m : \E i \in 1..m : p[i] = x
  BY <1>1 DEF Enumerates
<1> DEFINE B == {n \in 1..m : p[n] # n}
<1>3. ASSUME B # {} PROVE FALSE
  <2>1. PICK n \in B : \A k \in B : n <= k
    <3>1. B \in SUBSET Nat
      OBVIOUS
    <3> HIDE DEF B
    <3> QED BY <1>3, <3>1, LeastExists
  <2>2. \A k \in 1..m : k < n => p[k] = k
    <3> SUFFICES ASSUME NEW k \in 1..m, k < n, k \in B PROVE FALSE
      OBVIOUS
    <3> QED BY <2>1
  <2>3. n \in 1..m /\ p[n] # n /\ p[n] \in 1..m
    BY <1>2
  <2>4. PICK j \in 1..m : p[j] = n
    BY <1>2, <2>3
  <2>5. n < j
    BY <2>2, <2>3, <2>4
  <2>6. p[n] < n
    BY <1>2, <2>3, <2>4, <2>5
  <2>7. p[p[n]] = p[n]
    BY <2>2, <2>3, <2>6
  <2>8. p[p[n]] < p[n]
    BY <1>2, <2>3, <2>6
  <2> QED BY <2>3, <2>7, <2>8
<1>4. \A n \in 1..m : p[n] = n
  BY <1>3
<1> QED
  BY <1>2, <1>4

\* Selecting every position changes nothing.
LEMMA AtAll ==
  ASSUME NEW S, NEW s \in Seq(S)
  PROVE  At(s, DOMAIN s) = s
<1> DEFINE m == Len(s)
<1>1. m \in Nat /\ DOMAIN s = 1..m /\ s \in [1..m -> S] /\ IsFiniteSet(DOMAIN s)
  BY SeqIs
<1>2. Cardinality(1..m) = m
  BY <1>1, FS_Interval
<1> HIDE DEF m
<1>3. 1..m \in SUBSET Nat /\ IsFiniteSet(1..m)
  BY <1>1
<1>6. \E p : Enumerates(p, 1..m) /\ At(s, 1..m) = [n \in 1..Cardinality(1..m) |-> s[p[n]]]
  BY <1>3, AtIs
<1>4. PICK p : Enumerates(p, 1..m) /\ At(s, 1..m) = [n \in 1..m |-> s[p[n]]]
  BY <1>2, <1>6
<1>5. p = [n \in 1..m |-> n]
  BY <1>1, <1>4, EnumeratesAll
<1> QED
  BY <1>1, <1>4, <1>5

\* Selecting no position leaves nothing.
LEMMA AtNone == \A s : At(s, {}) = <<>>
<1>1. ASSUME NEW s PROVE At(s, {}) = <<>>
  <2>1. IsFiniteSet({}) /\ Cardinality({}) = 0 /\ {} \in SUBSET Nat
    BY FS_EmptySet
  <2>4. \E p : Enumerates(p, {}) /\ At(s, {}) = [n \in 1..Cardinality({}) |-> s[p[n]]]
    BY <2>1, AtIs
  <2>2. PICK p : At(s, {}) = [n \in 1..Cardinality({}) |-> s[p[n]]]
    BY <2>4
  <2>3. 1..0 = {}
    OBVIOUS
  <2> QED BY <2>1, <2>2, <2>3
<1> QED
  BY <1>1

\* The citations of a lineage are a listing of their own.
LEMMA OfLineageIs ==
  ASSUME NEW s, Listing(s), NEW l \in Lineages(s)
  PROVE  /\ Listing(OfLineage(s, l)) /\ OfLineage(s, l) # <<>>
         /\ \A n \in DOMAIN OfLineage(s, l) : Lineage(OfLineage(s, l)[n]) = l
<1> DEFINE t == OfLineage(s, l)
           I == Positions(s, l)
<1>1. t = At(s, I) /\ I \in SUBSET DOMAIN s /\ I # {} /\ \A i \in I : Lineage(s[i]) = l
  BY DEF OfLineage, Positions, Lineages
<1> HIDE DEF t, I
<1>2. /\ Listing(t)
      /\ \A n \in DOMAIN t : \E i \in I : t[n] = s[i]
      /\ \A i \in I : \E n \in DOMAIN t : t[n] = s[i]
  BY <1>1, AtListing
<1>3. DOMAIN t # {}
  BY <1>1, <1>2
<1>4. t # <<>>
  BY <1>3
<1> QED
  BY <1>1, <1>2, <1>4 DEF t

-----------------------------------------------------------------------------
(* The best lineage *)

\* Chunks of one lineage are of one source and one version.
LEMMA LineageIs ==
  ASSUME NEW c \in Citations, NEW d \in Citations, Lineage(c) = Lineage(d)
  PROVE  c.locator = d.locator /\ c.version = d.version /\ (c.version # 0 => c.doc = d.doc)
<1>1. c.locator = LocatorOf(c) /\ d.locator = LocatorOf(d)
  BY DEF Citations
<1>2. CASE c.version # 0 /\ d.version # 0
  <2>1. <<"version", c.doc, c.version>> = <<"version", d.doc, d.version>>
    BY <1>2 DEF Lineage
  <2> QED BY <1>1, <1>2, <2>1 DEF LocatorOf
<1>3. CASE c.version = 0 /\ d.version = 0
  <2>1. <<"locator", c.locator>> = <<"locator", d.locator>>
    BY <1>3 DEF Lineage
  <2> QED BY <1>3, <2>1
<1>4. CASE c.version # 0 /\ d.version = 0
  <2>1. <<"version", c.doc, c.version>> = <<"locator", d.locator>>
    BY <1>4 DEF Lineage
  <2> QED BY <2>1
<1>5. CASE c.version = 0 /\ d.version # 0
  <2>1. <<"locator", c.locator>> = <<"version", d.doc, d.version>>
    BY <1>5 DEF Lineage
  <2> QED BY <2>1
<1> QED
  BY <1>2, <1>3, <1>4, <1>5

\* A key that comes first has a first number that is not less.
LEMMA ExceedsFirst ==
  ASSUME NEW k \in Nat \ {0}, NEW a \in Keys(k), NEW b \in Keys(k), Exceeds(a, b)
  PROVE  a[1] >= b[1]
<1>1. PICK i \in 1..k : a[i] > b[i] /\ \A j \in 1..i - 1 : a[j] = b[j]
  BY ExceedsIs
<1>2. a[1] \in Int /\ b[1] \in Int
  BY DEF Keys
<1>3. CASE i = 1
  BY <1>1, <1>2, <1>3
<1>4. CASE i # 1
  BY <1>1, <1>2, <1>4
<1> QED
  BY <1>3, <1>4

OverlapWith(q, s, l) ==
  Cardinality(q.terms \cap UNION {WordsOf(s[i]) : i \in Positions(s, l)})

\* c is of a lineage that has as many of the terms of q as any in s, but for the one
\* that one whose locator begins with local:// may lack.
Best(q, s, c) ==
  LET bonus == IF Priority[c.locator] = 0 /\ ~q.connector THEN 1 ELSE 0
  IN  \A l \in Lineages(s) : OverlapWith(q, s, l) <= OverlapWith(q, s, Lineage(c)) + bonus

\* The overlap of a lineage with the question that is asked.
LEMMA OverlapWithQuestion == \A s, l : TotalOverlap(s, l) = OverlapWith(question, s, l)
BY DEF TotalOverlap, OverlapWith

\* The rank key puts the overlap first, with one more for a locator that begins with local://.
LEMMA BestLineageIsBest ==
  ASSUME question \in Questions, NEW s \in Seq(Citations), Qualified(s) # {},
         NEW c \in Citations, NEW b, Lineage(c) = b, b = BestLineage(s, TRUE)
  PROVE  Best(question, s, c)
<1> DEFINE bonus == IF Priority[c.locator] = 0 /\ ~question.connector THEN 1 ELSE 0
           L == Lineages(s)
           total == [l \in L |-> TotalOverlap(s, l)]
           first == [l \in L |-> RankKey(s, l, TRUE)[1]]
           local == {l \in L : Priority[s[FirstRank(s, l)].locator] = 0}
<1>1. /\ b \in Qualified(s) /\ b \in Lineages(s)
      /\ \A l \in Qualified(s) \ {b} : Exceeds(RankKey(s, b, TRUE), RankKey(s, l, TRUE))
  BY BestLineageIs, QualifiedIs
<1>2. \A l \in L : total[l] \in Nat
  BY OverlapIs
<1>3. /\ MinimumMatch \in Nat /\ bonus \in Nat
      /\ Priority[c.locator] = 0 /\ ~question.connector => bonus = 1
  BY OverlapIs
<1>4. \A l \in L : first[l] = IF ~question.connector /\ l \in local /\ total[l] > 0
                        THEN total[l] + 1 ELSE total[l]
  BY DEF RankKey
<1>5. b \in local => Priority[c.locator] = 0
  <2>1. FirstRank(s, b) \in DOMAIN s /\ Lineage(s[FirstRank(s, b)]) = b
    BY <1>1, LineageKeys
  <2>2. s[FirstRank(s, b)] \in Citations
    BY <2>1, SeqIs
  <2>3. s[FirstRank(s, b)].locator = c.locator
    BY <2>1, <2>2, LineageIs
  <2> QED BY <2>3
<1>6. \A l \in Lineages(s) : l \notin Qualified(s) => ~(total[l] >= MinimumMatch)
  BY DEF Qualified
<1>7. total[b] >= MinimumMatch
  BY <1>1 DEF Qualified
<1>8. ASSUME NEW l \in Qualified(s), l # b PROVE l \in L /\ first[b] >= first[l]
  <2> DEFINE k == RankKey(s, b, TRUE)
             m == RankKey(s, l, TRUE)
  <2>1. k \in Keys(7) /\ m \in Keys(7) /\ Exceeds(k, m)
    BY <1>1, <1>8, RankKeyIs, QualifiedIs
  <2> HIDE DEF k, m
  <2>2. k[1] >= m[1]
    BY <2>1, ExceedsFirst
  <2> QED BY <1>1, <2>2, QualifiedIs DEF k, m
<1>12. /\ \A t, u \in Nat : t <= t + u
       /\ \A t, u, m, k \in Nat : ~(t >= m) /\ u >= m => t <= u + k
       /\ \A x, y \in Int, t, u, k \in Nat : x >= y /\ y >= t /\ x <= u + k => t <= u + k
  OBVIOUS
<1>9. first[b] <= total[b] + bonus /\ first[b] \in Int
  <2> HIDE DEF total, first, local, bonus
  <2>1. total[b] \in Nat /\ bonus \in Nat
    BY <1>1, <1>2, <1>3
  <2>2. \/ first[b] = total[b]
        \/ first[b] = total[b] + 1 /\ bonus = 1
    BY <1>1, <1>3, <1>4, <1>5
  <2>3. /\ \A x, t, k \in Nat : x = t => x \in Int /\ x <= t + k
        /\ \A t, k \in Nat : \A x : x = t + 1 /\ k = 1 => x \in Int /\ x <= t + k
        /\ \A t \in Nat : t \in Int
    OBVIOUS
  <2> QED BY <2>1, <2>2, <2>3
<1>10. \A l \in L : first[l] >= total[l] /\ first[l] \in Int
  <2> HIDE DEF total, first, local, bonus
  <2> QED BY <1>2, <1>4
<1> HIDE DEF total, first, local, bonus
<1>11. ASSUME NEW l \in Lineages(s) PROVE total[l] <= total[b] + bonus
  <2>1. CASE l = b
    BY <1>1, <1>2, <1>3, <1>12, <2>1
  <2>2. CASE l \notin Qualified(s)
    <3>1. total[l] \in Nat /\ total[b] \in Nat /\ ~(total[l] >= MinimumMatch)
      BY <1>1, <1>2, <1>6, <2>2
    <3> QED BY <1>3, <1>7, <1>12, <3>1
  <2>3. CASE l \in Qualified(s) /\ l # b
    <3>1. first[b] >= first[l] /\ first[l] >= total[l] /\ first[l] \in Int /\ total[l] \in Nat
      BY <1>1, <1>2, <1>8, <1>10, <2>3
    <3> QED BY <1>1, <1>2, <1>3, <1>9, <1>12, <3>1
  <2> QED BY <2>1, <2>2, <2>3
<1>13. /\ \A l \in L : total[l] = OverlapWith(question, s, l)
       /\ bonus = IF Priority[c.locator] = 0 /\ ~question.connector THEN 1 ELSE 0
  BY OverlapWithQuestion DEF total, bonus
<1> QED
  BY <1>1, <1>11, <1>13 DEF Best

\* A direct question is narrowed to one lineage, the best.
LEMMA NarrowedIs ==
  ASSUME question \in Questions, NEW s, Listing(s), s # <<>>
  PROVE  LET t == Narrowed(s)
         IN  Listing(t) /\ OneLineage(t) /\ (t # <<>> => Best(question, s, t[1]))
<1> DEFINE t == Narrowed(s)
<1>1. s \in Seq(Citations)
  BY DEF Listing
<1>2. ASSUME NEW l \in Lineages(s), t = OfLineage(s, l)
      PROVE  /\ Listing(t) /\ OneLineage(t) /\ t # <<>>
             /\ t[1] \in Citations /\ Lineage(t[1]) = l
  <2>1. Listing(t) /\ t # <<>> /\ \A n \in DOMAIN t : Lineage(t[n]) = l
    BY <1>2, OfLineageIs
  <2>2. t \in Seq(Citations)
    BY <2>1 DEF Listing
  <2> HIDE DEF t
  <2>3. 1 \in DOMAIN t /\ t[1] \in Citations
    BY <2>1, <2>2
  <2> QED BY <2>1, <2>3 DEF OneLineage
<1>3. CASE Qualified(s) # {}
  <2>1. t = OfLineage(s, BestLineage(s, TRUE))
    BY <1>3 DEF Narrowed
  <2>2. BestLineage(s, TRUE) \in Lineages(s)
    BY <1>1, <1>3, BestLineageIs, QualifiedIs
  <2> HIDE DEF t
  <2>3. Listing(t) /\ OneLineage(t) /\ t[1] \in Citations /\ Lineage(t[1]) = BestLineage(s, TRUE)
    BY <1>2, <2>1, <2>2
  <2> QED BY <1>1, <1>3, <2>3, BestLineageIsBest DEF t
<1>4. CASE Qualified(s) = {} /\ SemanticOnly(s)
  <2>1. t = OfLineage(s, Lineage(s[1]))
    BY <1>4 DEF Narrowed
  <2>2. Lineage(s[1]) \in Lineages(s)
    BY <1>1 DEF Lineages
  <2> HIDE DEF t
  <2>3. Listing(t) /\ OneLineage(t) /\ t[1] \in Citations /\ Lineage(t[1]) = Lineage(s[1])
    BY <1>2, <2>1, <2>2
  <2>4. \A l \in Lineages(s) : TotalOverlap(s, l) = 0
    BY <1>4 DEF SemanticOnly
  <2>5. Best(question, s, t[1])
    BY <2>2, <2>3, <2>4, OverlapWithQuestion DEF Best
  <2> QED BY <2>3, <2>5 DEF t
<1>5. CASE Qualified(s) = {} /\ ~SemanticOnly(s)
  <2>1. t = <<>>
    BY <1>5 DEF Narrowed
  <2> QED BY <2>1, NothingListed
<1> QED
  BY <1>3, <1>4, <1>5

\* The evidence is selected from what it is given: of one lineage, all or nothing.
LEMMA SelectedIs ==
  ASSUME NEW s, Listing(s)
  PROVE  /\ Listing(Selected(s))
         /\ OneLineage(s) /\ question.strategy # "multi_source" => Selected(s) \in {<<>>, s}
<1> DEFINE I == {i \in DOMAIN s : Lineage(s[i]) \in Qualified(s)}
<1>1. Selected(s) \in {<<>>, s, At(s, I)}
  BY DEF Selected
<1>2. Listing(At(s, I))
  <2>1. I \in SUBSET DOMAIN s
    OBVIOUS
  <2> HIDE DEF I
  <2> QED BY <2>1, AtListing
<1>3. ASSUME OneLineage(s) PROVE At(s, I) \in {<<>>, s}
  <2>1. I = {} \/ I = DOMAIN s
    BY <1>3 DEF OneLineage
  <2>2. At(s, DOMAIN s) = s
    BY AtAll DEF Listing
  <2> HIDE DEF I
  <2> QED BY <2>1, <2>2, AtNone
<1> HIDE DEF I
<1> QED
  BY <1>1, <1>2, <1>3, NothingListed

-----------------------------------------------------------------------------
(* The anchors of a bounded question *)

\* The best chunk is one of the citations.
LEMMA BestChunkIs ==
  ASSUME question \in Questions, NEW s \in Seq(Citations), NEW l \in Lineages(s)
  PROVE  \E i \in DOMAIN s : BestChunk(s, l) = s[i]
<1> DEFINE P == Positions(s, l)
           key == [i \in P |-> <<Overlap(s[i]), s[i].score, -i>>]
<1>1. P \in SUBSET DOMAIN s /\ P \in SUBSET Nat /\ IsFiniteSet(P) /\ P # {}
  BY PositionsIs
<1> HIDE DEF P
<1>2. \A i \in P : Overlap(s[i]) \in Int /\ s[i].score \in Int /\ -i \in Int
  BY <1>1, OverlapIs, SeqIs DEF Citations
<1>3. \A i \in P : key[i] \in Keys(3) /\ key[i][3] = -i
  <2> SUFFICES ASSUME NEW i \in P PROVE key[i] \in Keys(3) /\ key[i][3] = -i
    OBVIOUS
  <2>1. key[i] = <<Overlap(s[i]), s[i].score, -i>>
    OBVIOUS
  <2> HIDE DEF key
  <2> QED BY <1>2, <2>1 DEF Keys
<1>4. \A i, j \in P : i # j => key[i] # key[j]
  BY <1>1, <1>3
<1>5. DOMAIN key = P /\ key \in [P -> Keys(3)]
  BY <1>3
<1>6. BestChunk(s, l) = s[Foremost(key)]
  BY DEF BestChunk, P
<1> HIDE DEF key
<1>7. IsKey(key, 3)
  BY <1>1, <1>3, <1>4, <1>5 DEF IsKey
<1>8. Foremost(key) \in P
  BY <1>1, <1>5, <1>7, ForemostIs
<1> QED
  BY <1>1, <1>6, <1>8

\* The lineage with the highest score is one of the candidates.
LEMMA HighestScoredIs ==
  ASSUME question \in Questions, NEW s \in Seq(Citations), s # <<>>
  PROVE  HighestScored(s) \in Lineages(s)
<1> DEFINE L == Lineages(s)
           key == [l \in L |-> <<TotalScore(s, l), BestScore(s, l), -FirstRank(s, l)>>]
<1>1. IsFiniteSet(L) /\ L # {}
  BY LineagesFinite DEF Lineages
<1>2. \A l \in L : TotalScore(s, l) \in Int /\ BestScore(s, l) \in Int
                   /\ FirstRank(s, l) \in Int /\ -FirstRank(s, l) \in Int
                   /\ Lineage(s[FirstRank(s, l)]) = l
  BY LineageKeys, SeqIs
<1> HIDE DEF L
<1>3. \A l \in L : key[l] \in Keys(3) /\ key[l][3] = -FirstRank(s, l)
  <2> SUFFICES ASSUME NEW l \in L PROVE key[l] \in Keys(3) /\ key[l][3] = -FirstRank(s, l)
    OBVIOUS
  <2>1. key[l] = <<TotalScore(s, l), BestScore(s, l), -FirstRank(s, l)>>
    OBVIOUS
  <2> HIDE DEF key
  <2> QED BY <1>2, <2>1 DEF Keys
<1>4. ASSUME NEW l \in L, NEW m \in L, l # m PROVE key[l] # key[m]
  <2>1. -FirstRank(s, l) # -FirstRank(s, m)
    BY <1>2, <1>4
  <2> HIDE DEF key
  <2> QED BY <1>3, <2>1
<1>5. DOMAIN key = L /\ key \in [L -> Keys(3)]
  BY <1>3
<1>6. HighestScored(s) = Foremost(key)
  BY DEF HighestScored, L
<1> HIDE DEF key
<1>7. IsKey(key, 3)
  BY <1>1, <1>3, <1>4, <1>5 DEF IsKey
<1> QED
  BY <1>1, <1>5, <1>6, <1>7, ForemostIs DEF L

\* One citation is a listing.
LEMMA SingleListing ==
  ASSUME NEW c \in Citations
  PROVE  Listing(<<c>>) /\ OneLineage(<<c>>)
<1> DEFINE s == <<c>>
<1>1. s \in Seq(Citations) /\ DOMAIN s = {1}
  OBVIOUS
<1> HIDE DEF s
<1>2. \A l : Cardinality(OfSource(s, l)) <= 1
  <2>1. \A l : OfSource(s, l) = {} \/ OfSource(s, l) = {1}
    BY <1>1 DEF OfSource
  <2>2. Cardinality({}) = 0 /\ Cardinality({1}) = 1
    BY FS_EmptySet, FS_Singleton
  <2>3. \A l : Cardinality(OfSource(s, l)) \in {0, 1}
    BY <2>1, <2>2
  <2> QED BY <2>3
<1>3. \A l : Cardinality(OfSource(s, l)) \in Nat
  BY <1>1, OfSourceFinite
<1>4. \A l : Cardinality(OfSource(s, l)) <= MaxPerSource
  BY <1>2, <1>3, BoundsAssumption
<1>5. Listing(s) /\ OneLineage(s)
  BY <1>1, <1>4 DEF Listing, Limited, OneLineage
<1> QED
  BY <1>5 DEF s

\* The anchors come from one lineage.
LEMMA DocumentFirstIs ==
  ASSUME question \in Questions, NEW s, Listing(s), s # <<>>
  PROVE  Listing(DocumentFirst(s)) /\ OneLineage(DocumentFirst(s))
<1> DEFINE t == DocumentFirst(s)
<1>1. s \in Seq(Citations)
  BY DEF Listing
<1>2. CASE Qualified(s) # {}
  <2>1. t = <<BestChunk(s, BestLineage(s, FALSE))>>
    BY <1>2 DEF DocumentFirst
  <2>2. BestLineage(s, FALSE) \in Lineages(s)
    BY <1>1, <1>2, BestLineageIs, QualifiedIs
  <2>3. BestChunk(s, BestLineage(s, FALSE)) \in Citations
    <3>1. PICK i \in DOMAIN s : BestChunk(s, BestLineage(s, FALSE)) = s[i]
      BY <1>1, <2>2, BestChunkIs
    <3> QED BY <1>1, <3>1, SeqIs
  <2> QED BY <2>1, <2>3, SingleListing
<1>3. CASE Qualified(s) = {} /\ SemanticOnly(s)
  <2>1. t = OfLineage(s, HighestScored(s))
    BY <1>3 DEF DocumentFirst
  <2>2. HighestScored(s) \in Lineages(s)
    BY <1>1, HighestScoredIs
  <2> QED BY <2>1, <2>2, OfLineageIs DEF OneLineage
<1>4. CASE Qualified(s) = {} /\ ~SemanticOnly(s)
  <2>1. t = <<>>
    BY <1>4 DEF DocumentFirst
  <2> QED BY <2>1, NothingListed
<1> QED
  BY <1>2, <1>3, <1>4

\* The anchors of a context: of one lineage, with different places in the document,
\* and no more than the context may have.
Anchoring(s) ==
  /\ Listing(s) /\ OneLineage(s)
  /\ \A i, j \in DOMAIN s : i # j => s[i].index # s[j].index
  /\ Len(s) <= MaxExpanded

\* The subset has each place once, and is cut to what a context may have.
LEMMA AnchorSubsetIs ==
  ASSUME NEW s, Listing(s), OneLineage(s)
  PROVE  Anchoring(AnchorSubset(s))
<1> DEFINE I == {i \in DOMAIN s : \A k \in 1..i - 1 : s[k].index # s[i].index}
           t == At(s, I)
           n == Min({MaxExpanded, Len(t)})
           a == SubSeq(t, 1, n)
<1>1. s \in Seq(Citations) /\ I \in SUBSET DOMAIN s /\ Limited(s)
  BY DEF Listing
<1>2. /\ \A i \in I : i \in DOMAIN s /\ i \in Nat
      /\ \A i, j \in I : i < j => s[i].index # s[j].index
  BY <1>1, SeqIs
<1>3. AnchorSubset(s) = a
  BY DEF AnchorSubset
<1> HIDE DEF I
<1>4. t \in Seq(Citations) /\ IsFiniteSet(I) /\ I \in SUBSET Nat /\ Selects(t, s)
  BY <1>1, <1>2, AtSelects
<1>5. PICK p : Enumerates(p, I) /\ t = [k \in 1..Cardinality(I) |-> s[p[k]]]
  BY <1>4, AtIs
<1>6. DOMAIN t = 1..Cardinality(I) /\ Cardinality(I) \in Nat
  BY <1>4, <1>5, FS_CardinalityType
<1>7. /\ \A k \in DOMAIN t : p[k] \in I /\ t[k] = s[p[k]]
      /\ \A j, k \in DOMAIN t : j < k => p[j] < p[k]
  BY <1>5, <1>6 DEF Enumerates
<1>8. \A j, k \in DOMAIN t : j # k => t[j].index # t[k].index
  <2>1. \A j, k \in DOMAIN t : j < k => t[j].index # t[k].index
    BY <1>2, <1>7
  <2>2. \A j, k \in DOMAIN t : j # k => j < k \/ k < j
    BY <1>6
  <2> HIDE DEF t
  <2> QED BY <2>1, <2>2
<1>9. \A j, k \in DOMAIN t : Lineage(t[j]) = Lineage(t[k])
  BY <1>2, <1>7 DEF OneLineage
<1> HIDE DEF t
<1>10. Len(t) \in Nat /\ DOMAIN t = 1..Len(t)
  BY <1>4, SeqIs
<1>11. n \in 0..Len(t) /\ n <= MaxExpanded
  <2>1. n = IF MaxExpanded <= Len(t) THEN MaxExpanded ELSE Len(t)
    BY <1>10, BoundsAssumption, OfTwo
  <2> QED BY <1>10, <2>1, BoundsAssumption
<1> HIDE DEF n
<1>12. /\ a \in Seq(Citations) /\ Len(a) = n /\ Selects(a, t)
       /\ \A i \in 1..n : a[i] = t[i]
  BY <1>4, <1>11, PrefixSelects
<1> HIDE DEF a
<1>13. DOMAIN a = 1..n /\ 1..n \subseteq DOMAIN t
  BY <1>10, <1>11, <1>12
<1>14. Limited(a)
  BY <1>1, <1>4, <1>12, SelectionLimited
<1> QED
  BY <1>3, <1>8, <1>9, <1>11, <1>12, <1>13, <1>14 DEF Anchoring, Listing, OneLineage

-----------------------------------------------------------------------------
(* The windows around the anchors *)

\* g merges the windows W[x] for the x in each subset of 1..m that has at most n
\* elements.
Merges(g, W, m, n) ==
  g = [s \in {s \in SUBSET (1..m) : Cardinality(s) <= n} |->
         IF s = {} THEN <<>> ELSE Extend(g[s \ {Max(s)}], W[Max(s)])]

\* Taking the greatest from some numbers leaves one less.
LEMMA GreatestOfSome ==
  ASSUME NEW m \in Nat, NEW s \in SUBSET (1..m)
  PROVE  /\ IsFiniteSet(s) /\ Cardinality(s) \in Nat /\ Cardinality(s) <= m
         /\ s # {} => /\ Max(s) \in s
                      /\ Cardinality(s \ {Max(s)}) = Cardinality(s) - 1
<1>1. IsFiniteSet(1..m) /\ Cardinality(1..m) = m
  BY FS_Interval
<1>2. IsFiniteSet(s) /\ Cardinality(s) \in Nat /\ Cardinality(s) <= m
  BY <1>1, FS_Subset, FS_CardinalityType
<1>3. s # {} => Max(s) \in s
  <2>1. s \in SUBSET Int
    OBVIOUS
  <2> QED BY <1>2, <2>1, MaxIs
<1> QED
  BY <1>2, <1>3, FS_RemoveElement

\* By induction on how many elements the subsets may have.
LEMMA MergeExists ==
  ASSUME NEW W, NEW m \in Nat, NEW n \in Nat
  PROVE  \E g : Merges(g, W, m, n)
<1> DEFINE N == {k \in Nat : \E g : Merges(g, W, m, k)}
           T(k) == {s \in SUBSET (1..m) : Cardinality(s) <= k}
<1>1. 0 \in N
  <2> DEFINE g == [s \in T(0) |-> <<>>]
  <2>1. \A s \in T(0) : s = {}
    <3> SUFFICES ASSUME NEW s \in T(0) PROVE s = {}
      OBVIOUS
    <3>1. IsFiniteSet(s) /\ Cardinality(s) \in Nat /\ Cardinality(s) <= 0
      BY GreatestOfSome
    <3> QED BY <3>1, FS_EmptySet
  <2>2. Merges(g, W, m, 0)
    BY <2>1 DEF Merges
  <2> QED
    BY <2>2
<1>2. ASSUME NEW k \in N PROVE k + 1 \in N
  <2>1. PICK g : Merges(g, W, m, k)
    OBVIOUS
  <2>2. k \in Nat
    OBVIOUS
  <2> DEFINE F(f, s) == IF s = {} THEN <<>> ELSE Extend(f[s \ {Max(s)}], W[Max(s)])
             h == [s \in T(k + 1) |-> F(g, s)]
  <2>3. ASSUME NEW s \in T(k + 1), s # {} PROVE s \ {Max(s)} \in T(k)
    <3>1. /\ Cardinality(s) \in Nat /\ Cardinality(s) <= k + 1
          /\ Cardinality(s \ {Max(s)}) = Cardinality(s) - 1
      BY <2>3, GreatestOfSome
    <3>2. s \ {Max(s)} \in SUBSET (1..m)
      OBVIOUS
    <3> QED BY <2>2, <3>1, <3>2
  <2>4. ASSUME NEW s \in T(k) PROVE s \in T(k + 1) /\ h[s] = g[s]
    <3>1. s \in T(k + 1)
      <4>1. Cardinality(s) \in Nat /\ Cardinality(s) <= k /\ s \in SUBSET (1..m)
        BY GreatestOfSome
      <4>2. Cardinality(s) <= k + 1
        BY <2>2, <4>1
      <4> QED BY <4>1, <4>2
    <3>2. g[s] = F(g, s)
      BY <2>1 DEF Merges
    <3> QED BY <3>1, <3>2
  <2>5. ASSUME NEW s \in T(k + 1) PROVE F(g, s) = F(h, s)
    <3>1. CASE s = {}
      BY <3>1
    <3>2. CASE s # {}
      <4>1. h[s \ {Max(s)}] = g[s \ {Max(s)}]
        BY <2>3, <2>4, <3>2
      <4> HIDE DEF h
      <4> QED BY <3>2, <4>1
    <3> QED BY <3>1, <3>2
  <2>6. h = [s \in T(k + 1) |-> F(h, s)]
    BY <2>5
  <2>7. Merges(h, W, m, k + 1)
    <3> HIDE DEF h
    <3> QED BY <2>6 DEF Merges
  <2> QED
    BY <2>2, <2>7
<1> HIDE DEF N
<1>3. N = Nat
  <2>1. N \in SUBSET Nat
    BY DEF N
  <2> QED
    BY <1>1, <1>2, <2>1, AllNumbers
<1> QED
  BY <1>3 DEF N

\* What a fold of the windows does, one window after the other.
LEMMA FoldIs ==
  ASSUME NEW m \in Nat, NEW W, DOMAIN W = 1..m
  PROVE  \E M : /\ M[0] = <<>>
                /\ \A k \in 1..m : M[k] = Extend(M[k - 1], W[k])
                /\ FoldLeft(Extend, <<>>, W) = M[m]
<1> DEFINE Folds(g) == g = [s \in SUBSET (1..m) |->
                             IF s = {} THEN <<>> ELSE Extend(g[s \ {Max(s)}], W[Max(s)])]
           G == CHOOSE g : Folds(g)
           M == [k \in 0..m |-> G[1..k]]
<1>1. Folds(G)
  <2>1. PICK h : Merges(h, W, m, m)
    BY MergeExists
  <2>2. {s \in SUBSET (1..m) : Cardinality(s) <= m} = SUBSET (1..m)
    BY GreatestOfSome
  <2>3. Folds(h)
    BY <2>1, <2>2 DEF Merges
  <2> HIDE DEF Folds
  <2> QED BY <2>3
<1>2. FoldLeft(Extend, <<>>, W) = G[1..m]
  BY DEF FoldLeft, MapThenFoldSet
<1> HIDE DEF G
<1>3. G[{}] = <<>>
  BY <1>1
<1>4. ASSUME NEW k \in 1..m PROVE G[1..k] = Extend(G[1..k - 1], W[k])
  <2>6. k \in Nat /\ k >= 1
    OBVIOUS
  <2>1. 1..k \in SUBSET (1..m) /\ k \in 1..k /\ 1..k \in SUBSET Int
    BY <2>6
  <2>2. Max(1..k) \in 1..k /\ \A y \in 1..k : Max(1..k) >= y
    BY <2>1, GreatestOfSome, MaxIs
  <2>3. Max(1..k) = k
    BY <2>1, <2>2, <2>6
  <2>4. (1..k) \ {k} = 1..k - 1
    OBVIOUS
  <2>5. G[1..k] = Extend(G[(1..k) \ {Max(1..k)}], W[Max(1..k)])
    BY <1>1, <2>1
  <2> QED BY <2>3, <2>4, <2>5
<1>5. M[0] = <<>>
  <2>1. 1..0 = {} /\ 0 \in 0..m
    OBVIOUS
  <2> QED BY <1>3, <2>1
<1>6. \A k \in 1..m : M[k] = Extend(M[k - 1], W[k])
  <2>1. \A k \in 1..m : k \in 0..m /\ k - 1 \in 0..m
    OBVIOUS
  <2> QED BY <1>4, <2>1
<1>7. M[m] = G[1..m]
  OBVIOUS
<1> HIDE DEF M
<1> QED
  BY <1>2, <1>5, <1>6, <1>7

\* A window that does not begin before the last one, and does not end before it
\* either, adds what is in it and nothing else.
LEMMA ExtendIs ==
  ASSUME NEW v \in Seq(Keys(2)), NEW w \in Keys(2), w[1] <= w[2],
         v # <<>> => Last(v)[1] <= w[1] /\ Last(v)[2] <= w[2]
  PROVE  LET e == Extend(v, w)
         IN  /\ e \in Seq(Keys(2)) /\ e # <<>>
             /\ Last(e)[1] <= w[1] /\ Last(e)[2] = w[2]
             /\ \A x \in Int : InWindows(x, e) <=> InWindows(x, v) \/ (w[1] <= x /\ x <= w[2])
<1> DEFINE n == Len(v)
           e == Extend(v, w)
<1>1. n \in Nat /\ DOMAIN v = 1..n /\ \A i \in 1..n : v[i] \in Keys(2)
  BY SeqIs
<1> HIDE DEF n
<1>2. w[1] \in Int /\ w[2] \in Int /\ \A z \in Keys(2) : z[1] \in Int /\ z[2] \in Int
  BY DEF Keys
<1>3. CASE v # <<>> /\ w[1] <= Last(v)[2] + 1
  <2> DEFINE u == SubSeq(v, 1, n - 1)
             z == <<v[n][1], w[2]>>
  <2>1. n \in 1..n /\ v[n] = Last(v)
    BY <1>1, <1>3 DEF Last, n
  <2>2. v[n][1] \in Int /\ v[n][2] \in Int /\ v[n][1] <= w[1] /\ v[n][2] <= w[2]
        /\ w[1] <= v[n][2] + 1
    BY <1>1, <1>2, <1>3, <2>1
  <2>3. Max({v[n][2], w[2]}) = w[2]
    <3>1. Max({v[n][2], w[2]}) = IF v[n][2] >= w[2] THEN v[n][2] ELSE w[2]
      BY <1>2, <2>2, OfTwo
    <3>2. v[n][2] \in Int /\ w[2] \in Int /\ v[n][2] <= w[2]
      BY <1>2, <2>2
    <3>3. \A a, b \in Int : a <= b => (IF a >= b THEN a ELSE b) = b
      OBVIOUS
    <3>4. (IF v[n][2] >= w[2] THEN v[n][2] ELSE w[2]) = w[2]
      BY <3>2, <3>3
    <3> QED BY <3>1, <3>4
  <2>4. e = Append(u, z)
    BY <1>3, <2>1, <2>3 DEF Extend, Front, n
  <2>5. z \in Keys(2) /\ z[1] = v[n][1] /\ z[2] = w[2]
    BY <1>2, <2>2 DEF Keys
  <2>6. u \in Seq(Keys(2)) /\ Len(u) = n - 1 /\ \A i \in 1..n - 1 : u[i] = v[i]
    <3>1. n - 1 \in 0..Len(v)
      BY <1>1, <2>1 DEF n
    <3> DEFINE k == n - 1
    <3> HIDE DEF k
    <3>2. SubSeq(v, 1, k) \in Seq(Keys(2)) /\ Len(SubSeq(v, 1, k)) = k
          /\ \A i \in 1..k : SubSeq(v, 1, k)[i] = v[i]
      BY <3>1, PrefixSelects DEF k
    <3> QED BY <3>2 DEF k
  <2> HIDE DEF u, z, e
  <2>7. e \in Seq(Keys(2)) /\ Len(e) = n /\ e[n] = z /\ \A i \in 1..n - 1 : e[i] = v[i]
    BY <2>1, <2>4, <2>5, <2>6
  <2>8. DOMAIN e = 1..n /\ e # <<>> /\ Last(e) = z
    BY <2>1, <2>7 DEF Last
  <2>9. ASSUME NEW x \in Int
        PROVE  InWindows(x, e) <=> InWindows(x, v) \/ (w[1] <= x /\ x <= w[2])
    <3>1. z[1] <= x /\ x <= z[2] <=>
            \/ v[n][1] <= x /\ x <= v[n][2]
            \/ w[1] <= x /\ x <= w[2]
      BY <1>2, <2>2, <2>5
    <3>2. InWindows(x, e) <=>
            \/ \E i \in 1..n - 1 : v[i][1] <= x /\ x <= v[i][2]
            \/ z[1] <= x /\ x <= z[2]
      <4>1. \A i \in 1..n : i \in 1..n - 1 \/ i = n
        BY <1>1
      <4>2. \A i \in 1..n - 1 : i \in 1..n
        BY <1>1
      <4> QED BY <2>1, <2>7, <2>8, <4>1, <4>2 DEF InWindows
    <3>3. InWindows(x, v) <=>
            \/ \E i \in 1..n - 1 : v[i][1] <= x /\ x <= v[i][2]
            \/ v[n][1] <= x /\ x <= v[n][2]
      <4>1. \A i \in 1..n : i \in 1..n - 1 \/ i = n
        BY <1>1
      <4>2. \A i \in 1..n - 1 : i \in 1..n
        BY <1>1
      <4> QED BY <1>1, <2>1, <4>1, <4>2 DEF InWindows
    <3> QED BY <3>1, <3>2, <3>3
  <2>10. Last(e)[1] <= w[1] /\ Last(e)[2] = w[2]
    BY <2>2, <2>5, <2>8
  <2> QED BY <2>7, <2>8, <2>9, <2>10 DEF e
<1>4. CASE v = <<>> \/ ~(w[1] <= Last(v)[2] + 1)
  <2>1. e = Append(v, w)
    BY <1>4 DEF Extend
  <2> HIDE DEF e
  <2>2. e \in Seq(Keys(2)) /\ Len(e) = n + 1 /\ e[n + 1] = w /\ \A i \in 1..n : e[i] = v[i]
    BY <1>1, <2>1 DEF n
  <2>3. DOMAIN e = 1..n + 1 /\ e # <<>> /\ Last(e) = w
    BY <1>1, <2>2 DEF Last
  <2>4. ASSUME NEW x \in Int
        PROVE  InWindows(x, e) <=> InWindows(x, v) \/ (w[1] <= x /\ x <= w[2])
    <3>1. \A i \in 1..n + 1 : i \in 1..n \/ i = n + 1
      BY <1>1
    <3>2. \A i \in 1..n : i \in 1..n + 1
      BY <1>1
    <3>3. n + 1 \in 1..n + 1
      BY <1>1
    <3> QED BY <1>1, <2>2, <2>3, <3>1, <3>2, <3>3 DEF InWindows
  <2> QED BY <1>2, <2>2, <2>3, <2>4 DEF e
<1> QED
  BY <1>3, <1>4

Places(I) == I \in SUBSET Nat /\ IsFiniteSet(I) /\ I # {}

\* The distance to the nearest of some places.
LEMMA DistanceIs ==
  ASSUME NEW I, Places(I), NEW x \in Nat
  PROVE  /\ Distance(x, I) \in Nat
         /\ \E k \in I : Distance(x, I) = IF x > k THEN x - k ELSE k - x
         /\ \A k \in I : Distance(x, I) <= IF x > k THEN x - k ELSE k - x
<1> DEFINE f == [k \in I |-> IF x > k THEN x - k ELSE k - x]
           D == {f[k] : k \in I}
<1>1. I \in SUBSET Nat /\ IsFiniteSet(I) /\ I # {}
  BY DEF Places
<1>2. \A k \in I : f[k] \in Nat /\ f[k] = IF x > k THEN x - k ELSE k - x
  BY <1>1
<1>3. D = {IF x > k THEN x - k ELSE k - x : k \in I}
  OBVIOUS
<1>4. Distance(x, I) = Min(D)
  BY <1>3 DEF Distance
<1>5. f \in Surjection(I, D)
  BY DEF Surjection
<1> HIDE DEF f
<1>6. D \in SUBSET Int /\ D \in SUBSET Nat /\ D # {}
  <2>1. \A y \in D : y \in Nat /\ y \in Int
    BY <1>2
  <2>2. PICK k : k \in I
    BY <1>1
  <2>3. f[k] \in D
    BY <2>2
  <2> HIDE DEF D
  <2> QED BY <2>1, <2>3
<1> HIDE DEF D
<1>7. IsFiniteSet(D)
  BY <1>1, <1>5, FS_Surjection
<1>8. Min(D) \in D /\ \A y \in D : Min(D) <= y
  BY <1>6, <1>7, MinIs
<1> QED
  BY <1>2, <1>4, <1>6, <1>8 DEF D

\* The merged windows have the places that are near enough, and no other.
LEMMA WindowsAre ==
  ASSUME NEW I, Places(I), NEW x \in Nat
  PROVE  InWindows(x, MergedWindows(I)) <=> Distance(x, I) <= Window
<1> DEFINE p == Sorted([i \in I |-> <<-i>>])
           m == Cardinality(I)
           W == [i \in DOMAIN p |-> <<Max({0, p[i] - Window}), p[i] + Window>>]
<1>1. I \in SUBSET Nat /\ IsFiniteSet(I) /\ I # {} /\ Window \in Nat
  BY BoundsAssumption DEF Places
<1>2. m \in Nat /\ Enumerates(p, I)
  BY <1>1, InOrderIs
<1>3. MergedWindows(I) = FoldLeft(Extend, <<>>, W)
  BY DEF MergedWindows
<1> HIDE DEF p, m
<1>4. /\ p \in [1..m -> I]
      /\ \A i, j \in 1..m : i < j => p[i] < p[j]
      /\ \A y \in I : \E i \in 1..m : p[i] = y
  BY <1>2 DEF Enumerates, m
<1>5. \A n \in 1..m : p[n] \in Nat
  BY <1>1, <1>4
<1>6. ASSUME NEW n \in 1..m
      PROVE  /\ W[n] \in Keys(2) /\ W[n][1] <= W[n][2]
             /\ W[n][2] = p[n] + Window
             /\ W[n][1] = IF p[n] >= Window THEN p[n] - Window ELSE 0
  <2>1. p[n] \in Nat /\ p[n] - Window \in Int
    BY <1>1, <1>5
  <2>2. Max({0, p[n] - Window}) = IF p[n] >= Window THEN p[n] - Window ELSE 0
    <3>2. 0 \in Int
      OBVIOUS
    <3>1. Max({0, p[n] - Window}) = IF 0 >= p[n] - Window THEN 0 ELSE p[n] - Window
      BY <2>1, <3>2, OfTwo
    <3> QED BY <1>1, <2>1, <3>1
  <2>3. W[n] = <<Max({0, p[n] - Window}), p[n] + Window>>
    BY <1>4
  <2> HIDE DEF W
  <2>4. p[n] + Window \in Int /\ Max({0, p[n] - Window}) \in Int
    BY <1>1, <2>1, <2>2
  <2>5. W[n] \in Keys(2) /\ W[n][1] = Max({0, p[n] - Window}) /\ W[n][2] = p[n] + Window
    BY <2>3, <2>4 DEF Keys
  <2>6. W[n][1] <= W[n][2]
    BY <1>1, <2>1, <2>2, <2>5
  <2> QED BY <2>2, <2>5, <2>6
<1>7. DOMAIN W = 1..m
  BY <1>4
<1> HIDE DEF W
<1>8. PICK M : /\ M[0] = <<>>
               /\ \A k \in 1..m : M[k] = Extend(M[k - 1], W[k])
               /\ FoldLeft(Extend, <<>>, W) = M[m]
  BY <1>2, <1>7, FoldIs
<1>9. \A n \in 1..m : n + 1 \in 1..m => W[n][1] <= W[n + 1][1] /\ W[n][2] <= W[n + 1][2]
  <2> SUFFICES ASSUME NEW n \in 1..m, n + 1 \in 1..m
               PROVE  W[n][1] <= W[n + 1][1] /\ W[n][2] <= W[n + 1][2]
    OBVIOUS
  <2>1. p[n] \in Nat /\ p[n + 1] \in Nat /\ p[n] < p[n + 1]
    BY <1>4, <1>5
  <2>2. W[n][2] = p[n] + Window /\ W[n + 1][2] = p[n + 1] + Window
    BY <1>6
  <2>3. /\ W[n][1] = IF p[n] >= Window THEN p[n] - Window ELSE 0
        /\ W[n + 1][1] = IF p[n + 1] >= Window THEN p[n + 1] - Window ELSE 0
    BY <1>6
  <2> QED BY <1>1, <2>1, <2>2, <2>3
<1> DEFINE Covers(k) ==
             /\ M[k] \in Seq(Keys(2))
             /\ M[k] # <<>> => k \in 1..m /\ Last(M[k])[1] <= W[k][1] /\ Last(M[k])[2] = W[k][2]
             /\ \A y \in Int : InWindows(y, M[k]) <=> \E n \in 1..k : W[n][1] <= y /\ y <= W[n][2]
           N == {k \in Nat : k <= m => Covers(k)}
<1>10. 0 \in N
  <2>1. \A y : ~InWindows(y, <<>>)
    BY DEF InWindows
  <2>2. 1..0 = {} /\ <<>> \in Seq(Keys(2))
    OBVIOUS
  <2> QED BY <1>8, <2>1, <2>2
<1>11. ASSUME NEW k \in N PROVE k + 1 \in N
  <2> SUFFICES ASSUME k + 1 <= m PROVE Covers(k + 1)
    OBVIOUS
  <2>1. k \in Nat /\ k <= m /\ k + 1 \in 1..m /\ Covers(k) /\ (k + 1) - 1 = k
    BY <1>2
  <2> DEFINE v == M[k]
             w == W[k + 1]
             e == M[k + 1]
  <2>2. e = Extend(v, w)
    <3>1. M[k + 1] = Extend(M[(k + 1) - 1], W[k + 1])
      BY <1>8, <2>1
    <3> QED BY <2>1, <3>1
  <2>3. v \in Seq(Keys(2)) /\ w \in Keys(2) /\ w[1] <= w[2]
    BY <1>6, <2>1
  <2>4. v # <<>> => Last(v)[1] <= w[1] /\ Last(v)[2] <= w[2]
    <3> SUFFICES ASSUME v # <<>> PROVE Last(v)[1] <= w[1] /\ Last(v)[2] <= w[2]
      OBVIOUS
    <3>1. k \in 1..m /\ Last(v)[1] <= W[k][1] /\ Last(v)[2] = W[k][2]
      BY <2>1
    <3>2. W[k][1] <= w[1] /\ W[k][2] <= w[2]
      BY <1>9, <2>1, <3>1
    <3>3. Last(v) \in Keys(2) /\ W[k] \in Keys(2)
      <4>1. Len(v) \in DOMAIN v
        BY <2>3
      <4> QED BY <1>6, <2>3, <3>1, <4>1, SeqIs DEF Last
    <3> HIDE DEF v, w
    <3>4. Last(v)[1] \in Int /\ Last(v)[2] \in Int /\ W[k][1] \in Int /\ W[k][2] \in Int
          /\ w[1] \in Int /\ w[2] \in Int
      BY <2>3, <3>3 DEF Keys
    <3>5. \A a, b, c \in Int : a <= b /\ b <= c => a <= c
      OBVIOUS
    <3> QED BY <3>1, <3>2, <3>4, <3>5
  <2> HIDE DEF v, w, e
  <2>5. /\ e \in Seq(Keys(2)) /\ e # <<>>
        /\ Last(e)[1] <= w[1] /\ Last(e)[2] = w[2]
        /\ \A y \in Int : InWindows(y, e) <=> InWindows(y, v) \/ (w[1] <= y /\ y <= w[2])
    BY <2>2, <2>3, <2>4, ExtendIs
  <2>6. \A n : n \in 1..k + 1 <=> n \in 1..k \/ n = k + 1
    BY <2>1
  <2>7. \A y \in Int : InWindows(y, v) <=> \E n \in 1..k : W[n][1] <= y /\ y <= W[n][2]
    BY <2>1 DEF v
  <2>8. \A y \in Int : InWindows(y, e) <=> \E n \in 1..k + 1 : W[n][1] <= y /\ y <= W[n][2]
    BY <2>5, <2>6, <2>7 DEF w
  <2> QED BY <2>1, <2>5, <2>8 DEF e, w
<1>12. N = Nat
  <2>1. N \in SUBSET Nat
    OBVIOUS
  <2> HIDE DEF N
  <2> QED BY <1>10, <1>11, <2>1, AllNumbers
<1>13. InWindows(x, MergedWindows(I)) <=> \E n \in 1..m : W[n][1] <= x /\ x <= W[n][2]
  <2>1. Covers(m)
    <3>1. m \in N
      BY <1>2, <1>12
    <3> QED BY <1>2, <3>1
  <2> QED BY <1>3, <1>8, <2>1
<1>14. InWindows(x, MergedWindows(I)) <=>
         \E k \in I : (IF x > k THEN x - k ELSE k - x) <= Window
  <2>1. ASSUME NEW n \in 1..m
        PROVE  W[n][1] <= x /\ x <= W[n][2] <=>
                 (IF x > p[n] THEN x - p[n] ELSE p[n] - x) <= Window
    <3>1. p[n] \in Nat /\ W[n][2] = p[n] + Window
          /\ W[n][1] = IF p[n] >= Window THEN p[n] - Window ELSE 0
      BY <1>5, <1>6
    <3> QED BY <1>1, <3>1
  <2> QED BY <1>4, <1>13, <2>1
<1>15. /\ Distance(x, I) \in Nat
       /\ \E k \in I : Distance(x, I) = IF x > k THEN x - k ELSE k - x
       /\ \A k \in I : Distance(x, I) <= IF x > k THEN x - k ELSE k - x
  BY DistanceIs
<1>16. \A k \in I : (IF x > k THEN x - k ELSE k - x) \in Int
  BY <1>1
<1>17. \A a, b, c \in Int : a <= b /\ b <= c => a <= c
  OBVIOUS
<1> QED
  BY <1>1, <1>14, <1>15, <1>16, <1>17

-----------------------------------------------------------------------------
(* The chunks of a context *)

\* Chunks of different places, as those of one version are.
Apart(S) == \A j, k \in S : j.index = k.index => j = k
Indices(S) == {k.index : k \in S}

\* As many places as chunks.
LEMMA IndicesAre ==
  ASSUME NEW S, IsFiniteSet(S), Apart(S)
  PROVE  IsFiniteSet(Indices(S)) /\ Cardinality(Indices(S)) = Cardinality(S)
         /\ Cardinality(S) \in Nat
<1> DEFINE f == [k \in S |-> k.index]
<1>1. f \in Surjection(S, Indices(S)) /\ f \in Injection(S, Indices(S))
  BY DEF Surjection, Injection, IsInjective, Apart, Indices
<1> HIDE DEF f
<1> QED
  BY <1>1, FS_Surjection, FS_CardinalityType

\* The chunks that are kept are among those that were read.  Where those have the
\* anchors, they stay, with as many of the nearest others as there is room for.
LEMMA TrimmedIs ==
  ASSUME NEW rows \in SUBSET Chunks, IsFiniteSet(rows), Apart(rows), NEW I, Places(I)
  PROVE  LET T == Trimmed(rows, I)
         IN  /\ T \in SUBSET rows
             /\ I \subseteq Indices(rows) /\ Cardinality(I) <= MaxExpanded =>
                  /\ \A k \in rows : k.index \in I => k \in T
                  /\ Cardinality(T) =
                       IF Cardinality(rows) <= MaxExpanded THEN Cardinality(rows) ELSE MaxExpanded
                  /\ \A j \in T, k \in rows \ T :
                       j.index \notin I => Distance(j.index, I) <= Distance(k.index, I)
<1> DEFINE T == Trimmed(rows, I)
           N == {k \in rows : k.index \notin I}
           A == rows \ N
           key == [k \in N |-> <<-Distance(k.index, I), -k.index>>]
           nearest == Sorted(key)
           n == Cardinality(N)
           q == Max({0, MaxExpanded - Cardinality(I)})
           picked == {nearest[i] : i \in 1..q \cap DOMAIN nearest}
<1>1. N \in SUBSET rows /\ A \in SUBSET rows /\ \A k \in rows : k \in A <=> k.index \in I
  OBVIOUS
<1>2. IsFiniteSet(N) /\ IsFiniteSet(A) /\ n \in Nat /\ Cardinality(A) \in Nat
      /\ Cardinality(rows) \in Nat
  <2> HIDE DEF N, A
  <2> QED BY <1>1, FS_Subset, FS_CardinalityType
<1>3. \A k \in rows : k.index \in Nat
  BY DEF Chunks
<1>4. \A k \in N : Distance(k.index, I) \in Nat
  BY <1>3, DistanceIs
<1>5. IsFiniteSet(I) /\ Cardinality(I) \in Nat
  BY FS_CardinalityType DEF Places
<1>6. T = IF Cardinality(rows) <= MaxExpanded THEN A \cup N ELSE A \cup picked
  BY DEF Trimmed
<1> HIDE DEF N, A
<1>7. \A k \in N : key[k] \in Keys(2) /\ key[k][1] = -Distance(k.index, I) /\ key[k][2] = -k.index
  <2> SUFFICES ASSUME NEW k \in N
               PROVE  key[k] \in Keys(2) /\ key[k][1] = -Distance(k.index, I)
                      /\ key[k][2] = -k.index
    OBVIOUS
  <2>1. -Distance(k.index, I) \in Int /\ -k.index \in Int
    BY <1>1, <1>3, <1>4
  <2>2. key[k] = <<-Distance(k.index, I), -k.index>>
    OBVIOUS
  <2> HIDE DEF key
  <2> QED BY <2>1, <2>2 DEF Keys
<1>8. DOMAIN key = N /\ key \in [N -> Keys(2)]
  BY <1>7
<1> HIDE DEF key
<1>9. \A j, k \in N : j # k => key[j] # key[k]
  <2> SUFFICES ASSUME NEW j \in N, NEW k \in N, key[j] = key[k] PROVE j = k
    OBVIOUS
  <2>1. -j.index = -k.index /\ j.index \in Nat /\ k.index \in Nat
    BY <1>1, <1>3, <1>7
  <2>2. j.index = k.index
    BY <2>1
  <2> QED BY <1>1, <2>2 DEF Apart
<1>10. IsKey(key, 2)
  BY <1>2, <1>8, <1>9 DEF IsKey
<1>11. /\ nearest \in [1..n -> N]
       /\ \A i, j \in 1..n : i < j => nearest[i] # nearest[j] /\ Exceeds(key[nearest[i]], key[nearest[j]])
       /\ \A k \in N : \E i \in 1..n : nearest[i] = k
  BY <1>8, <1>10, SortedIs
<1>12. \A i, j \in 1..n : i < j =>
         Distance(nearest[i].index, I) <= Distance(nearest[j].index, I)
  <2> SUFFICES ASSUME NEW i \in 1..n, NEW j \in 1..n, i < j
               PROVE  Distance(nearest[i].index, I) <= Distance(nearest[j].index, I)
    OBVIOUS
  <2> DEFINE a == nearest[i]
             b == nearest[j]
  <2>1. a \in N /\ b \in N /\ Exceeds(key[a], key[b])
    BY <1>11
  <2> HIDE DEF a, b, nearest
  <2>2. key[a][1] >= key[b][1]
    BY <1>8, <2>1, ExceedsFirst
  <2>3. -Distance(a.index, I) >= -Distance(b.index, I)
    BY <1>7, <2>1, <2>2
  <2>4. Distance(a.index, I) \in Nat /\ Distance(b.index, I) \in Nat
    BY <1>4, <2>1
  <2>5. Distance(a.index, I) <= Distance(b.index, I)
    BY <2>3, <2>4
  <2> QED BY <2>5 DEF a, b
<1> HIDE DEF nearest, n
<1>13. picked \in SUBSET N
  BY <1>11
<1>14. T \in SUBSET rows
  <2> HIDE DEF T, picked
  <2> QED BY <1>1, <1>6, <1>13
<1>15. ASSUME I \subseteq Indices(rows), Cardinality(I) <= MaxExpanded
       PROVE  /\ \A k \in rows : k.index \in I => k \in T
              /\ Cardinality(T) =
                   IF Cardinality(rows) <= MaxExpanded THEN Cardinality(rows) ELSE MaxExpanded
              /\ \A j \in T, k \in rows \ T :
                   j.index \notin I => Distance(j.index, I) <= Distance(k.index, I)
  <2> HIDE DEF T
  <2>1. \A k \in rows : k.index \in I => k \in T
    <3> HIDE DEF picked
    <3> QED BY <1>1, <1>6
  <2>2. CASE Cardinality(rows) <= MaxExpanded
    <3>1. T = rows
      <4>1. \A k \in rows : k \in A \/ k \in N
        BY <1>1 DEF A
      <4> QED BY <1>1, <1>6, <2>2, <4>1
    <3> QED BY <2>1, <2>2, <3>1
  <2>3. CASE ~(Cardinality(rows) <= MaxExpanded)
    <3>1. Cardinality(A) = Cardinality(I)
      <4>1. Indices(A) = I
        BY <1>1, <1>15 DEF Indices
      <4>2. Apart(A)
        BY <1>1 DEF Apart
      <4> QED BY <1>2, <4>1, <4>2, IndicesAre
    <3>2. n = Cardinality(rows) - Cardinality(I)
      <4>1. N = rows \ A /\ rows \cap A = A
        BY <1>1 DEF A
      <4>2. Cardinality(rows \ A) = Cardinality(rows) - Cardinality(rows \cap A)
        BY FS_Difference
      <4> QED BY <3>1, <4>1, <4>2 DEF n
    <3>3. q = MaxExpanded - Cardinality(I) /\ q \in Nat /\ q <= n
      <4>1. 0 \in Int /\ MaxExpanded - Cardinality(I) \in Int /\ MaxExpanded \in Nat
        BY <1>5, BoundsAssumption
      <4>2. Max({0, MaxExpanded - Cardinality(I)}) =
              IF 0 >= MaxExpanded - Cardinality(I) THEN 0 ELSE MaxExpanded - Cardinality(I)
        BY <4>1, OfTwo
      <4> QED BY <1>2, <1>5, <1>15, <2>3, <3>2, <4>1, <4>2
    <3> HIDE DEF q
    <3>4. 1..q \cap DOMAIN nearest = 1..q
      BY <1>2, <1>11, <3>3
    <3>5. picked = {nearest[i] : i \in 1..q} /\ \A i \in 1..q : i \in 1..n
      BY <1>2, <3>3, <3>4
    <3> HIDE DEF picked
    <3>6. IsFiniteSet(picked) /\ Cardinality(picked) = q
      <4> DEFINE f == [i \in 1..q |-> nearest[i]]
      <4>1. f \in Surjection(1..q, picked)
        BY <3>5 DEF Surjection
      <4>2. f \in Injection(1..q, picked)
        <5>1. \A i, j \in 1..q : i < j => nearest[i] # nearest[j]
          BY <1>11, <3>5
        <5>2. \A i, j \in 1..q : nearest[i] = nearest[j] => i = j
          <6>1. \A i, j \in 1..q : i = j \/ i < j \/ j < i
            OBVIOUS
          <6> QED BY <5>1, <6>1
        <5> QED BY <3>5, <5>2 DEF Injection, IsInjective
      <4>3. IsFiniteSet(1..q) /\ Cardinality(1..q) = q
        BY <3>3, FS_Interval
      <4> HIDE DEF f
      <4> QED BY <4>1, <4>2, <4>3, FS_Surjection
    <3>7. T = A \cup picked /\ A \cap picked = {}
      BY <1>1, <1>6, <1>13, <2>3 DEF A
    <3>8. Cardinality(T) = MaxExpanded
      <4>1. Cardinality(A \cup picked) = Cardinality(A) + Cardinality(picked) - 0
        BY <1>2, <3>6, <3>7, FS_Union, FS_EmptySet
      <4> QED BY <1>5, <3>1, <3>3, <3>6, <3>7, <4>1, BoundsAssumption
    <3>9. ASSUME NEW j \in T, NEW k \in rows \ T, j.index \notin I
          PROVE  Distance(j.index, I) <= Distance(k.index, I)
      <4>1. PICK a \in 1..q : nearest[a] = j
        <5>1. j \in picked
          BY <1>1, <3>7, <3>9
        <5> QED BY <3>5, <5>1
      <4>2. PICK b \in 1..n : nearest[b] = k
        <5>1. k \in N
          BY <1>1, <2>1 DEF N
        <5> QED BY <1>11, <5>1
      <4>3. b \notin 1..q
        BY <3>5, <3>7, <4>2
      <4>4. a \in 1..n /\ a < b
        BY <1>2, <3>3, <3>5, <4>1, <4>2, <4>3
      <4> QED BY <1>12, <4>1, <4>2, <4>4
    <3> QED BY <2>1, <2>3, <3>8, <3>9
  <2> QED BY <2>2, <2>3
<1> HIDE DEF T
<1>16. T = Trimmed(rows, I)
  BY DEF T
<1> QED
  BY <1>14, <1>15, <1>16

\* The rows that are read for the anchors are of the document's current version.
LEMMA RowsAre ==
  ASSUME VersionType, NEW c \in Citations, NEW windows
  PROVE  LET rows == WindowRows(c, windows)
         IN  /\ rows \in SUBSET Chunks /\ IsFiniteSet(rows) /\ Apart(rows)
             /\ \A k \in rows : k.doc = c.doc /\ k.version = version[c.doc]
<1> DEFINE K == ChunksOf(c.doc, version[c.doc])
           rows == WindowRows(c, windows)
<1>1. c.doc \in Docs
  BY DEF Citations
<1>2. IsFiniteSet(K) /\ K \subseteq Chunks /\ \A k \in K : k.doc = c.doc /\ k.version = version[c.doc]
  BY <1>1, ChunksOfIs DEF VersionType
<1>3. rows \in SUBSET K
  BY DEF WindowRows
<1> HIDE DEF K, rows
<1>4. IsFiniteSet(rows)
  BY <1>2, <1>3, FS_Subset
<1>5. \A k \in Chunks : k = [doc |-> k.doc, version |-> k.version, index |-> k.index]
  BY DEF Chunks
<1>6. Apart(rows)
  <2> SUFFICES ASSUME NEW j \in rows, NEW k \in rows, j.index = k.index PROVE j = k
    BY DEF Apart
  <2>1. j \in Chunks /\ k \in Chunks /\ j.doc = k.doc /\ j.version = k.version
    BY <1>2, <1>3
  <2> QED BY <1>5, <2>1
<1>7. rows \in SUBSET Chunks /\ \A k \in rows : k.doc = c.doc /\ k.version = version[c.doc]
  BY <1>2, <1>3
<1> QED
  BY <1>4, <1>6, <1>7 DEF rows

\* What ContextIsGrounded says of a context c for the evidence e.
GroundedIn(e, c) ==
  LET I == {e[i].index : i \in DOMAIN e}
      given == {c[i].index : i \in DOMAIN c}
      near  == {k.index : k \in {k \in ChunksOf(e[1].doc, e[1].version) :
                                   Distance(k.index, I) <= Window}}
  IN /\ \A i \in DOMAIN c : c[i].doc = e[1].doc /\ c[i].version = e[1].version
     /\ I \subseteq given /\ given \subseteq near
     /\ Cardinality(given) = Min({Cardinality(near), Max({MaxExpanded, Cardinality(I)})})
     /\ \A i \in given \ I, k \in near \ given : Distance(i, I) <= Distance(k, I)

OfOneDocument(e) == \A i \in DOMAIN e : e[i].doc = e[1].doc

\* The places of the anchors are places, as many as fit.
LEMMA AnchorsAre ==
  ASSUME NEW s, Anchoring(s), s # <<>>
  PROVE  LET I == {s[i].index : i \in DOMAIN s}
         IN  /\ Places(I) /\ Cardinality(I) <= MaxExpanded
             /\ 1 \in DOMAIN s /\ \A i \in DOMAIN s : s[i] \in Citations /\ s[i].version = s[1].version
<1> DEFINE I == {s[i].index : i \in DOMAIN s}
           f == [i \in DOMAIN s |-> s[i].index]
<1>1. s \in Seq(Citations) /\ OneLineage(s) /\ Len(s) <= MaxExpanded
  BY DEF Anchoring, Listing
<1>2. 1 \in DOMAIN s /\ \A i \in DOMAIN s : s[i] \in Citations /\ s[i].index \in Nat
  BY <1>1 DEF Citations
<1>3. \A i \in DOMAIN s : s[i].version = s[1].version
  BY <1>1, <1>2, LineageIs DEF OneLineage
<1>4. f \in Surjection(DOMAIN s, I)
  BY DEF Surjection
<1>5. IsFiniteSet(DOMAIN s) /\ Cardinality(DOMAIN s) = Len(s) /\ Len(s) \in Nat
  BY <1>1, SeqIs, FS_Interval
<1>6. I \in SUBSET Nat /\ I # {}
  BY <1>2
<1> HIDE DEF f, I
<1>7. IsFiniteSet(I) /\ Cardinality(I) <= Len(s) /\ Cardinality(I) \in Nat
  BY <1>4, <1>5, FS_Surjection, FS_CardinalityType
<1>8. Cardinality(I) <= MaxExpanded
  BY <1>1, <1>5, <1>7, BoundsAssumption
<1> QED
  BY <1>2, <1>3, <1>6, <1>7, <1>8 DEF Places, I

\* The context of a bounded question: chunks that exist, each place once, and what
\* ContextIsGrounded says when they are of one document.
LEMMA ExpandedIs ==
  ASSUME VersionType, NEW s, Anchoring(s), s # <<>>
  PROVE  LET e == Expanded(s)
         IN  /\ e \in Seq(Chunks)
             /\ \A i, j \in DOMAIN e : e[i].index = e[j].index => i = j
             /\ e # <<>> /\ OfOneDocument(s) /\ (s[1].version # 0 \/ version[s[1].doc] = 0) =>
                  GroundedIn(s, e)
<1> DEFINE I == {s[i].index : i \in DOMAIN s}
           W == MergedWindows(I)
           R == WindowRows(s[1], W)
           T == Trimmed(R, I)
           as(k) == IF k.index \in I
                    THEN Chunk(s[CHOOSE i \in DOMAIN s : s[i].index = k.index]) ELSE k
           D == {as(k) : k \in T}
           key == [k \in D |-> <<-k.index>>]
           e == Expanded(s)
           n == Cardinality(D)
<1>1. /\ Places(I) /\ Cardinality(I) <= MaxExpanded
      /\ 1 \in DOMAIN s /\ \A i \in DOMAIN s : s[i] \in Citations /\ s[i].version = s[1].version
  BY AnchorsAre
<1>2. s[1] \in Citations
  BY <1>1
<1>3. e = Sorted(key)
  BY DEF Expanded
<1>4. R \in SUBSET Chunks /\ IsFiniteSet(R) /\ Apart(R)
      /\ \A k \in R : k.doc = s[1].doc /\ k.version = version[s[1].doc]
  <2> HIDE DEF W
  <2> QED BY <1>2, RowsAre
<1>5. /\ T \in SUBSET R
      /\ I \subseteq Indices(R) /\ Cardinality(I) <= MaxExpanded =>
           /\ \A k \in R : k.index \in I => k \in T
           /\ Cardinality(T) =
                IF Cardinality(R) <= MaxExpanded THEN Cardinality(R) ELSE MaxExpanded
           /\ \A j \in T, k \in R \ T :
                j.index \notin I => Distance(j.index, I) <= Distance(k.index, I)
  <2> HIDE DEF I, R
  <2> QED BY <1>1, <1>4, TrimmedIs
<1>6. \A k : k.index \in I => \E i \in DOMAIN s : as(k) = Chunk(s[i]) /\ s[i].index = k.index
  OBVIOUS
<1>7. \A k : k.index \notin I => as(k) = k
  OBVIOUS
<1>8. \A c \in Citations : Chunk(c) \in Chunks /\ Chunk(c).index = c.index
  BY DEF Citations, Chunks, Chunk, Exists
<1> HIDE DEF as, T, R, W
<1>9. \A k \in T : as(k) \in Chunks /\ as(k).index = k.index
  <2> SUFFICES ASSUME NEW k \in T PROVE as(k) \in Chunks /\ as(k).index = k.index
    OBVIOUS
  <2>1. CASE k.index \in I
    <3>1. PICK i \in DOMAIN s : as(k) = Chunk(s[i]) /\ s[i].index = k.index
      BY <1>6, <2>1
    <3> QED BY <1>1, <1>8, <3>1
  <2>2. CASE k.index \notin I
    BY <1>4, <1>5, <1>7, <2>2
  <2> QED BY <2>1, <2>2
<1>10. IsFiniteSet(T) /\ Apart(T)
  BY <1>4, <1>5, FS_Subset DEF Apart
<1>11. IsFiniteSet(D)
  <2> DEFINE f == [k \in T |-> as(k)]
  <2>1. f \in Surjection(T, D)
    BY DEF Surjection
  <2> HIDE DEF f, D
  <2> QED BY <1>10, <2>1, FS_Surjection
<1>12. D \in SUBSET Chunks /\ Apart(D)
  <2>1. ASSUME NEW x \in D, NEW y \in D, x.index = y.index PROVE x = y
    <3>1. PICK j \in T : x = as(j)
      OBVIOUS
    <3>2. PICK k \in T : y = as(k)
      OBVIOUS
    <3>3. j = k
      BY <1>9, <1>10, <2>1, <3>1, <3>2 DEF Apart
    <3> QED BY <3>1, <3>2, <3>3
  <2> QED BY <1>9, <2>1 DEF Apart
<1> HIDE DEF D
<1>13. DOMAIN key = D /\ IsKey(key, 1)
  <2>1. \A k \in D : k.index \in Nat
    BY <1>12 DEF Chunks
  <2>2. ASSUME NEW k \in D PROVE <<-k.index>> \in Keys(1) /\ <<-k.index>>[1] = -k.index
    BY <2>1 DEF Keys
  <2>3. ASSUME NEW j \in D, NEW k \in D, key[j] = key[k] PROVE j = k
    <3>1. -j.index = -k.index
      BY <2>2, <2>3
    <3>2. j.index = k.index
      BY <2>1, <3>1
    <3> QED BY <1>12, <3>2 DEF Apart
  <2>4. DOMAIN key = D /\ key \in [D -> Keys(1)]
    BY <2>2
  <2> HIDE DEF key
  <2> QED BY <1>11, <2>3, <2>4 DEF IsKey
<1> HIDE DEF key, e
<1>14. /\ n \in Nat /\ e \in [1..n -> D]
       /\ \A i, j \in 1..n : i < j => e[i] # e[j]
       /\ \A x \in D : \E i \in 1..n : e[i] = x
  BY <1>3, <1>13, SortedIs
<1> HIDE DEF n
<1>15. e \in Seq(Chunks) /\ DOMAIN e = 1..n
  <2>1. e \in [1..n -> Chunks]
    BY <1>12, <1>14
  <2> QED BY <1>14, <2>1, SeqFrom
<1>16. ASSUME NEW i \in DOMAIN e, NEW j \in DOMAIN e, e[i].index = e[j].index PROVE i = j
  <2>1. e[i] = e[j]
    BY <1>12, <1>14, <1>15, <1>16 DEF Apart
  <2>2. i = j \/ i < j \/ j < i
    BY <1>14, <1>15
  <2> QED BY <1>14, <1>15, <2>1, <2>2
<1>17. ASSUME e # <<>>, OfOneDocument(s), s[1].version # 0 \/ version[s[1].doc] = 0
       PROVE  GroundedIn(s, e)
  <2> DEFINE d == s[1].doc
             v == s[1].version
             K == ChunksOf(d, v)
             near == {k.index : k \in {k \in K : Distance(k.index, I) <= Window}}
             given == {e[i].index : i \in DOMAIN e}
  <2>1. d \in Docs /\ v \in Nat /\ v \in Absent..Len(Words[d]) - 1 /\ v # Absent
    <3>1. d \in Docs /\ v \in Nat /\ v < Len(Words[d])
      BY <1>2 DEF Citations, Exists
    <3>2. Len(Words[d]) \in Nat
      BY <3>1, WordsType
    <3> QED BY <3>1, <3>2 DEF Absent
  <2>2. version[d] = v
    <3>1. PICK k : k \in R
      <4>1. DOMAIN e # {}
        <5>1. Len(e) \in Nat /\ DOMAIN e = 1..Len(e) /\ Len(e) # 0
          BY <1>15, <1>17, EmptySeq, SeqIs
        <5>2. 1 \in DOMAIN e
          BY <5>1
        <5> QED BY <5>2
      <4>2. D # {}
        BY <1>14, <1>15, <4>1
      <4> QED BY <1>5, <4>2 DEF D
    <3>2. v # 0 => k.version = v
      BY <3>1 DEF R, WindowRows
    <3> QED BY <1>4, <1>17, <3>1, <3>2
  <2>3. K \subseteq Chunks /\ \A c \in Chunks : c.doc = d /\ c.version = v => c \in K
    BY <2>1, ChunksOfIs
  <2>4. \A c \in K : c.doc = d /\ c.version = v /\ c.index \in Nat
    BY <2>1, <2>3, ChunksOfIs DEF Chunks
  <2>5. R = {k \in K : Distance(k.index, I) <= Window}
    <3>1. R = {k \in K : (v # 0 => k.version = v) /\ InWindows(k.index, W)}
      BY <2>2 DEF R, WindowRows
    <3>2. \A k \in K : InWindows(k.index, W) <=> Distance(k.index, I) <= Window
      <4> HIDE DEF I, K
      <4> QED BY <1>1, <2>4, WindowsAre DEF W
    <3> HIDE DEF K, I
    <3> QED BY <2>4, <3>1, <3>2
  <2>6. near = Indices(R)
    BY <2>5 DEF Indices
  <2>7. I \subseteq Indices(R)
    <3> SUFFICES ASSUME NEW i \in DOMAIN s PROVE s[i].index \in Indices(R)
      OBVIOUS
    <3> DEFINE c == Chunk(s[i])
    <3>1. s[i] \in Citations /\ s[i].doc = d /\ s[i].version = v /\ s[i].index \in I /\ s[i].index \in Nat
      BY <1>1, <1>17 DEF OfOneDocument, Citations
    <3>2. c \in Chunks /\ c.doc = d /\ c.version = v /\ c.index = s[i].index
      BY <1>8, <3>1 DEF Chunk
    <3>3. c \in K
      BY <2>3, <3>2
    <3>4. Distance(s[i].index, I) <= Window
      <4> HIDE DEF I
      <4>1. Distance(s[i].index, I) \in Nat
            /\ Distance(s[i].index, I) <= IF s[i].index > s[i].index
                                          THEN s[i].index - s[i].index ELSE s[i].index - s[i].index
        BY <1>1, <3>1, DistanceIs
      <4> QED BY <3>1, <4>1, BoundsAssumption
    <3> HIDE DEF c
    <3>5. c \in R
      BY <2>5, <3>2, <3>3, <3>4
    <3> QED BY <3>2, <3>5 DEF Indices
  <2>8. \A k \in T : as(k) = k
    <3> SUFFICES ASSUME NEW k \in T PROVE as(k) = k
      OBVIOUS
    <3>1. CASE k.index \in I
      <4>1. PICK i \in DOMAIN s : as(k) = Chunk(s[i]) /\ s[i].index = k.index
        BY <1>6, <3>1
      <4>2. s[i].doc = d /\ s[i].version = v
        BY <1>1, <1>17 DEF OfOneDocument
      <4>3. k \in Chunks /\ k.doc = d /\ k.version = v
        BY <1>4, <1>5, <2>2
      <4>4. k = [doc |-> k.doc, version |-> k.version, index |-> k.index]
        BY <4>3 DEF Chunks
      <4> QED BY <4>1, <4>2, <4>3, <4>4 DEF Chunk
    <3>2. CASE k.index \notin I
      BY <1>7, <3>2
    <3> QED BY <3>1, <3>2
  <2>9. D = T
    BY <2>8 DEF D
  <2>10. given = Indices(T)
    BY <1>14, <1>15, <2>9 DEF Indices
  <2> HIDE DEF near, given
  <2>11. \A i \in DOMAIN e : e[i].doc = d /\ e[i].version = v
    BY <1>4, <1>5, <1>14, <1>15, <2>2, <2>9
  <2>12. /\ \A k \in R : k.index \in I => k \in T
         /\ Cardinality(T) =
              IF Cardinality(R) <= MaxExpanded THEN Cardinality(R) ELSE MaxExpanded
         /\ \A j \in T, k \in R \ T :
              j.index \notin I => Distance(j.index, I) <= Distance(k.index, I)
    BY <1>1, <1>5, <2>7
  <2> HIDE DEF I
  <2>13. I \subseteq given /\ given \subseteq near
    BY <1>5, <2>6, <2>7, <2>10, <2>12 DEF Indices
  <2>14. Cardinality(given) = Min({Cardinality(near), Max({MaxExpanded, Cardinality(I)})})
    <3>1. Cardinality(given) = Cardinality(T) /\ Cardinality(near) = Cardinality(R)
          /\ Cardinality(R) \in Nat
      BY <1>4, <1>10, <2>6, <2>10, IndicesAre
    <3>2. Cardinality(I) \in Nat /\ MaxExpanded \in Nat /\ MaxExpanded \in Int
          /\ Cardinality(I) \in Int /\ Cardinality(R) \in Int
      BY <1>1, <3>1, BoundsAssumption, FS_CardinalityType DEF Places
    <3>3. Max({MaxExpanded, Cardinality(I)}) = MaxExpanded
      <4>1. Max({MaxExpanded, Cardinality(I)}) =
              IF MaxExpanded >= Cardinality(I) THEN MaxExpanded ELSE Cardinality(I)
        BY <3>2, OfTwo
      <4> QED BY <1>1, <3>2, <4>1
    <3>4. Min({Cardinality(R), MaxExpanded}) =
            IF Cardinality(R) <= MaxExpanded THEN Cardinality(R) ELSE MaxExpanded
      BY <3>2, OfTwo
    <3> QED BY <2>12, <3>1, <3>3, <3>4
  <2>15. ASSUME NEW i \in given \ I, NEW k \in near \ given
         PROVE  Distance(i, I) <= Distance(k, I)
    <3>1. PICK j \in T : j.index = i
      BY <2>10 DEF Indices
    <3>2. PICK r \in R : r.index = k
      BY <2>6 DEF Indices
    <3>3. r \notin T
      BY <2>10, <2>15, <3>2 DEF Indices
    <3> QED BY <2>12, <2>15, <3>1, <3>2, <3>3
  <2> QED BY <2>11, <2>13, <2>14, <2>15 DEF GroundedIn, near, given, I
<1> HIDE DEF I
<1> QED
  BY <1>15, <1>16, <1>17 DEF e

-----------------------------------------------------------------------------
(* What a call leaves in the log *)

Retrieving == {"keyword", "semantic", "sources", "documents", "expand"}

\* Until it ends a call has logged nothing, and there is evidence only once the
\* strategy has concluded.
NothingLogged ==
  /\ Active => records = <<>>
  /\ rpc \in Retrieving => evidence = <<>>
  /\ rpc = "synthesis" => evidence # <<>>

LogInv == rpc \in PCs /\ NothingLogged /\ OneRecordPerCall

\* Log appends the one record of a call.
LEMMA LogEnds ==
  ASSUME LogInv, Active, NEW outcome, NEW label, Log(outcome, label)
  PROVE  records' = <<outcome>> /\ rpc' = label /\ evidence' = evidence
BY DEF Log, Goto, LogInv, NothingLogged

\* Conclude either ends the call with the one record that says what it returns, or
\* goes on to the synthesis with evidence.
LEMMA ConcludeKeeps ==
  ASSUME LogInv, Active, NEW e, NEW c, Conclude(e, c)
  PROVE  LogInv'
<1>1. records = <<>> /\ evidence' = e
  BY DEF LogInv, NothingLogged, Conclude
<1>2. CASE e = <<>> /\ records' = Append(records, "no_content") /\ Goto("returned")
  <2>1. records' = <<"no_content">>
    BY <1>1, <1>2
  <2> QED BY <1>1, <1>2, <2>1
      DEF LogInv, NothingLogged, OneRecordPerCall, Ended, Active, Retrieving, PCs, Goto
<1>3. CASE e # <<>> /\ ~question.synthesise /\ records' = Append(records, "success") /\ Goto("returned")
  <2>1. records' = <<"success">>
    BY <1>1, <1>3
  <2> QED BY <1>1, <1>3, <2>1
      DEF LogInv, NothingLogged, OneRecordPerCall, Ended, Active, Retrieving, PCs, Goto
<1>4. CASE e # <<>> /\ question.synthesise /\ UNCHANGED records /\ Goto("synthesis")
  BY <1>1, <1>4 DEF LogInv, NothingLogged, OneRecordPerCall, Ended, Active, Retrieving, PCs, Goto
<1> QED BY <1>2, <1>3, <1>4 DEF Conclude

\* A statement that goes on to another one logs nothing.
LEMMA StatementKeeps ==
  ASSUME LogInv, rpc \in Retrieving, rpc' \in Retrieving, UNCHANGED <<evidence, records>>
  PROVE  LogInv'
BY DEF LogInv, NothingLogged, OneRecordPerCall, Ended, Active, Retrieving, PCs

\* Every step keeps the strengthened invariant.
LEMMA LogInvInductive ==
  ASSUME LogInv, [Next]_vars
  PROVE  LogInv'
<1>1. ASSUME UNCHANGED <<rpc, evidence, records>> PROVE LogInv'
  BY <1>1 DEF LogInv, NothingLogged, OneRecordPerCall, Ended, Active, PCs
<1>2. ASSUME NEW d \in Docs, NewVersion(d) \/ CleanUp(d) PROVE LogInv'
  BY <1>1, <1>2 DEF NewVersion, CleanUp
<1>3. CASE KeywordSearch
  BY <1>3, StatementKeeps DEF KeywordSearch, Goto, Retrieving
<1>4. CASE SemanticSearch
  BY <1>4, StatementKeeps DEF SemanticSearch, Goto, Retrieving
<1>5. CASE FindSources
  BY <1>5, StatementKeeps DEF FindSources, Goto, Retrieving
<1>6. CASE FindDocuments
  <2>1. rpc = "documents" /\ Active
    BY <1>6 DEF FindDocuments, Active
  <2>2. ASSUME NEW e, NEW c, Conclude(e, c) PROVE LogInv'
    BY <2>1, <2>2, ConcludeKeeps
  <2>3. CASE Goto("expand") /\ UNCHANGED <<evidence, context, records>>
    BY <2>1, <2>3, StatementKeeps DEF Goto, Retrieving
  <2> QED BY <1>6, <2>2, <2>3 DEF FindDocuments
<1>7. CASE Expand
  BY <1>7, ConcludeKeeps DEF Expand, Active
<1>8. CASE Synthesise
  <2>1. PICK outcome \in {"success", "synthesis_degraded"} : Log(outcome, "returned")
    BY <1>8 DEF Synthesise
  <2>2. rpc = "synthesis" /\ Active
    BY <1>8 DEF Synthesise, Active
  <2>3. records' = <<outcome>> /\ rpc' = "returned" /\ evidence' = evidence
    BY <2>1, <2>2, LogEnds
  <2>4. Len(records') = 1 /\ records'[1] = outcome
    BY <2>3
  <2>5. evidence' # <<>> /\ outcome # "no_content" /\ outcome # "retrieval_failed"
    BY <2>2, <2>3 DEF LogInv, NothingLogged, Synthesise
  <2> QED BY <2>3, <2>4, <2>5
      DEF LogInv, NothingLogged, OneRecordPerCall, Ended, Active, Retrieving, PCs
<1>9. CASE Raise
  <2>1. rpc \in Retrieving /\ Active /\ Log("retrieval_failed", "raised")
    BY <1>9 DEF Raise, Retrieving, Active
  <2>2. records' = <<"retrieval_failed">> /\ rpc' = "raised"
    BY <2>1, LogEnds
  <2>3. Len(records') = 1 /\ records'[1] = "retrieval_failed"
    BY <2>2
  <2> QED BY <2>2, <2>3
      DEF LogInv, NothingLogged, OneRecordPerCall, Ended, Active, Retrieving, PCs
<1>10. CASE Cancel
  BY <1>10 DEF Cancel, Goto, LogInv, NothingLogged, OneRecordPerCall, Ended, Active, Retrieving, PCs
<1>11. CASE UNCHANGED vars
  BY <1>1, <1>11 DEF vars
<1> QED
  BY <1>2, <1>3, <1>4, <1>5, <1>6, <1>7, <1>8, <1>9, <1>10, <1>11 DEF Next

\* Whatever the documents, the questions and the limits are, and whatever is
\* committed, deleted, raised or cancelled between its statements, a call that ends
\* has logged one record, which says what it returned; a cancelled one has logged
\* none (_emit_retrieval_log in retrieve, answer and _retrieve_with_telemetry).
THEOREM LoggedOnce == Spec => []OneRecordPerCall
<1>1. Init => LogInv
  BY DEF Init, LogInv, NothingLogged, OneRecordPerCall, Ended, Active, Retrieving, PCs
<1>2. LogInv /\ [Next]_vars => LogInv'
  BY LogInvInductive
<1>3. LogInv => OneRecordPerCall
  BY DEF LogInv
<1> QED BY <1>1, <1>2, <1>3, PTL DEF Spec

-----------------------------------------------------------------------------
(* What a call cites and gives the model *)

\* What is so of the evidence e and the context c of a question q, when s are the
\* candidates and v the versions of the documents.
Given(q, s, e, c) ==
  /\ Listing(e)
  /\ c # <<>> => e # <<>>
  /\ \A i \in DOMAIN c : Chunk(c[i]) \in Chunks
  /\ q.strategy = "bounded" => \A i, j \in DOMAIN c : c[i].index = c[j].index => i = j
  /\ q.strategy # "bounded" => c = e
  /\ q.strategy = "default" /\ e # <<>> => OneLineage(e) /\ Best(q, s, e[1])

Grounded(q, v, e, c) ==
  q.strategy = "bounded" /\ c # <<>> /\ OfOneDocument(e) /\ (e[1].version # 0 \/ v[e[1].doc] = 0)
    => GroundedIn(e, c)

SearchType ==
  /\ rpc \in PCs /\ question \in Questions /\ VersionType
  /\ HitsType /\ IsInjective(keyword) /\ IsInjective(semantic)
  /\ records \in Seq(Outcomes)

\* The inductive invariant: between the search and the expansion there are anchors,
\* before a strategy has concluded there is neither evidence nor context.
RetrievalInv ==
  /\ SearchType
  /\ rpc = "expand" => Anchoring(anchors) /\ anchors # <<>> /\ question.strategy = "bounded"
  /\ rpc \in Retrieving => evidence = <<>> /\ context = <<>>
  /\ Given(question, candidates, evidence, context)
  /\ Grounded(question, version, evidence, context)

\* Without evidence nothing is given.
LEMMA NothingGiven ==
  \A q, s, v : Given(q, s, <<>>, <<>>) /\ Grounded(q, v, <<>>, <<>>)
BY NothingListed DEF Given, Grounded

\* No hits at all are hits of the right type.
LEMMA EmptyIs == <<>> \in Seq(Chunks) /\ IsInjective(<<>>)
<1>1. <<>> \in Seq(Chunks) /\ DOMAIN <<>> = {}
  OBVIOUS
<1> QED
  BY <1>1 DEF IsInjective

\* What a strategy that concludes leaves.
LEMMA ConcludeIs ==
  ASSUME records \in Seq(Outcomes), NEW e, NEW c, Conclude(e, c)
  PROVE  /\ rpc' \in {"returned", "synthesis"} /\ records' \in Seq(Outcomes)
         /\ evidence' = e /\ context' = IF e = <<>> THEN <<>> ELSE c
<1>1. "no_content" \in Outcomes /\ "success" \in Outcomes
  BY DEF Outcomes
<1>2. \A x \in Outcomes : Append(records, x) \in Seq(Outcomes)
  OBVIOUS
<1> QED
  BY <1>1, <1>2 DEF Conclude, Goto

\* The evidence of a direct or a multi-source question is also its context.
LEMMA CitationsGiven ==
  ASSUME NEW q, NEW s, NEW e, q.strategy # "bounded", Listing(e),
         q.strategy = "default" /\ e # <<>> => OneLineage(e) /\ Best(q, s, e[1])
  PROVE  Given(q, s, e, e)
<1>1. \A i \in DOMAIN e : e[i] \in Citations
  BY SeqIs DEF Listing
<1>2. \A c \in Citations : Chunk(c) \in Chunks
  BY DEF Citations, Chunks, Chunk, Exists
<1> QED
  BY <1>1, <1>2 DEF Given

\* A document that gets a version, or goes, does not make grounded what was not: it
\* does not come back to chunks without a version.
LEMMA VersionKeeps ==
  ASSUME RetrievalInv, NEW d \in Docs, NewVersion(d) \/ CleanUp(d)
  PROVE  RetrievalInv'
<1>1. UNCHANGED <<rpc, question, keyword, semantic, sourced, candidates, anchors, evidence,
                  context, records>>
  BY DEF NewVersion, CleanUp, found
<1>2. VersionType /\ version[d] \in Int /\ Len(Words[d]) \in Nat
  BY WordsType DEF RetrievalInv, SearchType, VersionType
<1>3. /\ version' \in [Docs -> Int]
      /\ \A x \in Docs : /\ version'[x] \in Absent..Len(Words[x]) - 1
                         /\ version'[x] = 0 => version[x] = 0
  <2>1. CASE NewVersion(d)
    <3>1. version' = [version EXCEPT ![d] = version[d] + 1] /\ version[d] # Absent
          /\ version[d] + 2 <= Len(Words[d]) /\ version[d] \in Absent..Len(Words[d]) - 1
      BY <1>2, <2>1 DEF NewVersion, VersionType
    <3>2. version[d] + 1 \in Int /\ version[d] + 1 \in Absent..Len(Words[d]) - 1
          /\ version[d] + 1 # 0
      BY <1>2, <3>1 DEF Absent
    <3> QED BY <1>2, <3>1, <3>2 DEF VersionType
  <2>2. CASE CleanUp(d)
    <3>1. version' = [version EXCEPT ![d] = Absent]
      BY <2>2 DEF CleanUp
    <3>2. Absent \in Int /\ Absent \in Absent..Len(Words[d]) - 1 /\ Absent # 0
      BY <1>2 DEF Absent
    <3> QED BY <1>2, <3>1, <3>2 DEF VersionType
  <2> QED BY <2>1, <2>2
<1>4. Grounded(question, version', evidence, context)
  <2>1. Listing(evidence) /\ (context # <<>> => evidence # <<>>)
        /\ Grounded(question, version, evidence, context)
    BY DEF RetrievalInv, Given
  <2>2. evidence # <<>> => evidence[1].doc \in Docs
    <3> SUFFICES ASSUME evidence # <<>> PROVE evidence[1].doc \in Docs
      OBVIOUS
    <3>1. evidence \in Seq(Citations)
      BY <2>1 DEF Listing
    <3>2. evidence[1] \in Citations
      BY <3>1
    <3> QED BY <3>2 DEF Citations
  <2> QED BY <1>3, <2>1, <2>2 DEF Grounded
<1> QED
  BY <1>1, <1>3, <1>4 DEF RetrievalInv, SearchType, VersionType, HitsType

\* A statement of the search goes on to another one.
LEMMA SearchKeeps ==
  ASSUME RetrievalInv, rpc \in Retrieving, rpc' \in {"semantic", "sources", "documents"},
         UNCHANGED <<version, question, candidates, anchors, evidence, context, records>>,
         keyword' \in Seq(Chunks), semantic' \in Seq(Chunks),
         IsInjective(keyword'), IsInjective(semantic')
  PROVE  RetrievalInv'
BY DEF RetrievalInv, SearchType, VersionType, HitsType, PCs, Retrieving

\* A call that ends, or goes on to the synthesis, keeps what it has.
LEMMA EndKeeps ==
  ASSUME RetrievalInv, rpc' \in {"synthesis", "returned", "raised", "cancelled"},
         UNCHANGED <<version, question, keyword, semantic, candidates, evidence, context>>,
         records' \in Seq(Outcomes)
  PROVE  RetrievalInv'
BY DEF RetrievalInv, SearchType, VersionType, HitsType, PCs, Retrieving

\* The search ends with candidates, of which the strategy makes evidence or anchors.
LEMMA FindDocumentsKeeps ==
  ASSUME RetrievalInv, FindDocuments
  PROVE  RetrievalInv'
<1> DEFINE s == candidates'
<1>1. /\ rpc = "documents" /\ question \in Questions /\ HitsType /\ records \in Seq(Outcomes)
      /\ evidence = <<>> /\ context = <<>> /\ UNCHANGED <<version, question>>
      /\ s = Results /\ keyword' = <<>> /\ semantic' = <<>>
  BY DEF RetrievalInv, SearchType, FindDocuments, Retrieving
<1>2. Listing(s)
  BY <1>1, ResultsIs DEF Listing
<1>3. question.strategy \in Strategies
  BY <1>1, QuestionIs
<1>4. SearchType' \/ ~(rpc' \in PCs /\ records' \in Seq(Outcomes))
  BY <1>1, EmptyIs DEF RetrievalInv, SearchType, VersionType, HitsType
<1>5. ASSUME NEW e, Conclude(e, e), question.strategy # "bounded", Listing(e),
             question.strategy = "default" /\ e # <<>> => OneLineage(e) /\ Best(question, s, e[1])
      PROVE  RetrievalInv'
  <2>1. /\ rpc' \in {"returned", "synthesis"} /\ records' \in Seq(Outcomes)
        /\ evidence' = e /\ context' = e
    BY <1>1, <1>5, ConcludeIs
  <2>2. Given(question, s, e, e) /\ Grounded(question, version, e, e)
    BY <1>5, CitationsGiven DEF Grounded
  <2> QED BY <1>1, <1>4, <2>1, <2>2 DEF RetrievalInv, PCs, Retrieving
<1>6. ASSUME Conclude(<<>>, <<>>) PROVE RetrievalInv'
  <2>1. /\ rpc' \in {"returned", "synthesis"} /\ records' \in Seq(Outcomes)
        /\ evidence' = <<>> /\ context' = <<>>
    BY <1>1, <1>6, ConcludeIs
  <2> QED BY <1>1, <1>4, <2>1, NothingGiven DEF RetrievalInv, PCs, Retrieving
<1>7. CASE s # <<>> /\ question.strategy = "default"
  <2> DEFINE t == Narrowed(s)
             e == Selected(t)
  <2>1. Conclude(e, e)
    BY <1>7 DEF FindDocuments
  <2>2. Listing(t) /\ OneLineage(t) /\ (t # <<>> => Best(question, s, t[1]))
    BY <1>1, <1>2, <1>7, NarrowedIs
  <2> HIDE DEF t
  <2>3. Listing(e) /\ e \in {<<>>, t}
    BY <1>7, <2>2, SelectedIs
  <2> HIDE DEF e
  <2> QED BY <1>5, <1>7, <2>1, <2>2, <2>3
<1>8. CASE s # <<>> /\ question.strategy = "multi_source"
  <2> DEFINE e == Selected(s)
  <2>1. Conclude(e, e)
    BY <1>8 DEF FindDocuments
  <2>2. Listing(e)
    BY <1>2, SelectedIs
  <2> HIDE DEF e
  <2> QED BY <1>5, <1>8, <2>1, <2>2
<1>9. CASE s # <<>> /\ question.strategy = "bounded"
  <2>1. /\ anchors' = AnchorSubset(DocumentFirst(s))
        /\ IF anchors' = <<>> THEN Conclude(<<>>, <<>>)
           ELSE Goto("expand") /\ UNCHANGED <<evidence, context, records>>
    BY <1>9 DEF FindDocuments
  <2>2. Listing(DocumentFirst(s)) /\ OneLineage(DocumentFirst(s))
    BY <1>1, <1>2, <1>9, DocumentFirstIs
  <2>3. Anchoring(anchors')
    BY <2>1, <2>2, AnchorSubsetIs
  <2>4. CASE anchors' # <<>>
    <3>1. rpc' = "expand" /\ evidence' = <<>> /\ context' = <<>> /\ records' \in Seq(Outcomes)
      BY <1>1, <2>1, <2>4 DEF Goto
    <3>2. Given(question, s, <<>>, <<>>) /\ Grounded(question, version, <<>>, <<>>)
      BY NothingGiven
    <3>3. question'.strategy = "bounded"
      BY <1>1, <1>9
    <3> QED BY <1>1, <1>4, <2>3, <2>4, <3>1, <3>2, <3>3 DEF RetrievalInv, PCs
  <2> QED BY <1>6, <2>1, <2>4
<1>10. CASE s = <<>>
  <2>1. Conclude(<<>>, <<>>)
    BY <1>10 DEF FindDocuments
  <2> QED BY <1>6, <2>1
<1> QED
  BY <1>3, <1>7, <1>8, <1>9, <1>10 DEF Strategies

\* The anchors become the evidence, all of them or none.
LEMMA ExpandKeeps ==
  ASSUME RetrievalInv, Expand
  PROVE  RetrievalInv'
<1> DEFINE s == anchors
           e == Selected(s)
           c == Expanded(s)
<1>1. /\ rpc = "expand" /\ Conclude(e, c) /\ records \in Seq(Outcomes) /\ VersionType
      /\ UNCHANGED <<version, question, keyword, semantic, candidates>>
      /\ Anchoring(s) /\ s # <<>> /\ question.strategy = "bounded"
  BY DEF RetrievalInv, SearchType, Expand, found
<1>2. Listing(e) /\ e \in {<<>>, s}
  BY <1>1, SelectedIs DEF Anchoring
<1>3. /\ c \in Seq(Chunks)
      /\ \A i, j \in DOMAIN c : c[i].index = c[j].index => i = j
      /\ c # <<>> /\ OfOneDocument(s) /\ (s[1].version # 0 \/ version[s[1].doc] = 0) =>
           GroundedIn(s, c)
  BY <1>1, ExpandedIs
<1>4. \A i \in DOMAIN c : Chunk(c[i]) \in Chunks
  <2>1. \A k \in Chunks : Chunk(k) \in Chunks
    BY DEF Chunk, Chunks, Exists
  <2> QED BY <1>3, <2>1, SeqIs
<1> HIDE DEF e, c
<1>5. /\ rpc' \in {"returned", "synthesis"} /\ records' \in Seq(Outcomes)
      /\ evidence' = e /\ context' = IF e = <<>> THEN <<>> ELSE c
  BY <1>1, ConcludeIs
<1>6. SearchType'
  BY <1>1, <1>5 DEF RetrievalInv, SearchType, VersionType, HitsType, PCs
<1>7. CASE e = <<>>
  <2>1. evidence' = <<>> /\ context' = <<>>
    BY <1>5, <1>7
  <2> QED BY <1>5, <1>6, <2>1, NothingGiven DEF RetrievalInv, Retrieving
<1>8. CASE e # <<>>
  <2>1. evidence' = s /\ context' = c /\ Listing(s)
    BY <1>1, <1>2, <1>5, <1>8 DEF Anchoring
  <2>2. Given(question, candidates, s, c)
    BY <1>1, <1>3, <1>4, <2>1 DEF Given
  <2>3. Grounded(question, version, s, c)
    BY <1>3 DEF Grounded
  <2>4. Given(question, candidates, evidence, context)' /\ Grounded(question, version, evidence, context)'
    BY <1>1, <2>1, <2>2, <2>3
  <2> QED BY <1>5, <1>6, <2>4 DEF RetrievalInv, Retrieving
<1> QED
  BY <1>7, <1>8

\* Every step keeps the invariant.
LEMMA RetrievalInvInductive ==
  ASSUME RetrievalInv, [Next]_vars
  PROVE  RetrievalInv'
<1>1. VersionType /\ HitsType /\ IsInjective(keyword) /\ IsInjective(semantic)
      /\ records \in Seq(Outcomes)
  BY DEF RetrievalInv, SearchType
<1>2. ASSUME NEW S, IsFiniteSet(S), S \subseteq Chunks, NEW t \in Ranked(S)
      PROVE  t \in Seq(Chunks) /\ IsInjective(t)
  <2>1. t \in Seq(S) /\ IsInjective(t)
    BY <1>2, RankedIs
  <2> QED BY <1>2, <2>1
<1>3. CASE KeywordSearch
  <2> DEFINE S == {c \in Stored : question.lexemes # {} /\ question.lexemes \subseteq WordsOf(c)}
  <2>1. IsFiniteSet(S) /\ S \subseteq Chunks
    <3>1. S \in SUBSET Stored
      OBVIOUS
    <3> HIDE DEF S
    <3> QED BY <1>1, <3>1, StoredIs, FS_Subset
  <2>2. keyword' \in Ranked(S)
    BY <1>3 DEF KeywordSearch
  <2> HIDE DEF S
  <2>3. keyword' \in Seq(Chunks) /\ IsInjective(keyword')
    BY <1>2, <2>1, <2>2
  <2> QED BY <1>1, <1>3, <2>3, SearchKeeps DEF KeywordSearch, Goto, HitsType, Retrieving
<1>4. CASE SemanticSearch
  <2>1. PICK S \in SUBSET Stored : semantic' \in Ranked(S)
    BY <1>4 DEF SemanticSearch
  <2>2. IsFiniteSet(S) /\ S \subseteq Chunks
    BY <1>1, StoredIs, FS_Subset
  <2>3. semantic' \in Seq(Chunks) /\ IsInjective(semantic')
    BY <1>2, <2>1, <2>2
  <2> QED BY <1>1, <1>4, <2>3, SearchKeeps DEF SemanticSearch, Goto, HitsType, Retrieving
<1>5. CASE FindSources
  BY <1>1, <1>5, SearchKeeps DEF FindSources, Goto, HitsType, Retrieving
<1>6. ASSUME NEW outcome \in Outcomes, NEW label \in {"returned", "raised"}, Log(outcome, label)
      PROVE  RetrievalInv'
  <2>1. Append(records, outcome) \in Seq(Outcomes)
    BY <1>1
  <2> QED BY <1>6, <2>1, EndKeeps DEF Log, Goto, found
<1>7. CASE Synthesise \/ Raise
  <2>1. {"success", "synthesis_degraded", "retrieval_failed"} \subseteq Outcomes
    BY DEF Outcomes
  <2> QED BY <1>6, <1>7, <2>1 DEF Synthesise, Raise
<1>8. CASE Cancel
  BY <1>1, <1>8, EndKeeps DEF Cancel, Goto, found
<1>9. CASE UNCHANGED vars
  BY <1>9 DEF vars, found, RetrievalInv, SearchType, VersionType, HitsType
<1> QED
  BY <1>3, <1>4, <1>5, <1>7, <1>8, <1>9, VersionKeeps, FindDocumentsKeeps, ExpandKeeps DEF Next

\* The invariant holds at first,
LEMMA RetrievalInvInit == Init => RetrievalInv
<1> SUFFICES ASSUME Init PROVE RetrievalInv
  OBVIOUS
<1>1. VersionType
  BY CorpusAssumption DEF Init, VersionType
<1>2. records \in Seq(Outcomes)
  BY DEF Init
<1> QED
  BY <1>1, <1>2, NothingGiven, EmptyIs DEF Init, RetrievalInv, SearchType, HitsType, PCs

\* and always.
LEMMA RetrievalInvHolds == Spec => []RetrievalInv
BY RetrievalInvInit, RetrievalInvInductive, PTL DEF Spec

\* Whatever the documents, questions and limits are, the variables have their types:
\* what a search returns has no chunk twice, what is cited and given to the model are
\* chunks of a version that the document had, and an expanded context has no place of
\* the document twice (expand_bounded_context).
THEOREM TypeCorrect == Spec => []TypeOK
<1>1. RetrievalInv => TypeOK
  <2> SUFFICES ASSUME RetrievalInv PROVE TypeOK
    OBVIOUS
  <2>1. ASSUME NEW c, Chunk(c) \in Chunks PROVE Chunk(c) \in ChunksOf(c.doc, c.version)
    <3>1. Chunk(c).doc = c.doc /\ Chunk(c).version = c.version
      BY DEF Chunk
    <3>2. c.doc \in Docs /\ c.version \in Nat /\ c.version < Len(Words[c.doc])
      BY <2>1, <3>1 DEF Chunks, Exists
    <3>3. Len(Words[c.doc]) \in Nat
      BY <3>2, WordsType
    <3>4. c.version \in Absent..Len(Words[c.doc]) - 1 /\ c.version # Absent /\ c.version \in Int
      BY <3>2, <3>3 DEF Absent
    <3> QED BY <2>1, <3>1, <3>2, <3>4, ChunksOfIs
  <2>2. \A i \in DOMAIN evidence : Chunk(evidence[i]) \in Chunks
    <3>1. evidence \in Seq(Citations)
      BY DEF RetrievalInv, Given, Listing
    <3>2. \A c \in Citations : Chunk(c) \in Chunks
      BY DEF Citations, Chunks, Chunk, Exists
    <3> QED BY <3>1, <3>2, SeqIs
  <2>3. \A i \in DOMAIN context : Chunk(context[i]) \in Chunks
    BY DEF RetrievalInv, Given
  <2>4. \A c \in ToSet(evidence) \cup ToSet(context) : Chunk(c) \in ChunksOf(c.doc, c.version)
    BY <2>1, <2>2, <2>3 DEF ToSet
  <2>5. IsInjective([i \in DOMAIN context |-> context[i].index]) \/ question.strategy # "bounded"
    BY DEF RetrievalInv, Given, IsInjective
  <2> QED BY <2>4, <2>5 DEF TypeOK, RetrievalInv, SearchType, VersionType
<1> QED
  BY <1>1, RetrievalInvHolds, PTL

\* No source is cited more often than max_chunks_per_source, whatever is committed or
\* deleted while the search runs and whatever the strategy selects afterwards
\* (prune_citations, before the narrowing and the selection of the evidence).
THEOREM SourcesAreLimited == Spec => []PerSourceLimit
<1>1. RetrievalInv => PerSourceLimit
  BY DEF RetrievalInv, Given, Listing, Limited, OfSource, PerSourceLimit
<1> QED
  BY <1>1, RetrievalInvHolds, PTL

\* The evidence of a direct question is of one lineage, and no candidate lineage has
\* more of the question's terms, but for the one that a lineage with a local:// locator may lack
\* (_query_ranked_lineages, narrow_to_lineage, select_synthesis_evidence).
THEOREM AnswersFromBestLineage == Spec => []DefaultIsBestLineage
<1>1. RetrievalInv => DefaultIsBestLineage
  <2> SUFFICES ASSUME RetrievalInv, question.strategy = "default", evidence # <<>>,
                      NEW l \in Lineages(candidates)
               PROVE  LET mine == Lineage(evidence[1])
                          bonus == IF Priority[evidence[1].locator] = 0 /\ ~question.connector
                                   THEN 1 ELSE 0
                      IN /\ Lineages(evidence) = {mine}
                         /\ TotalOverlap(candidates, l) <= TotalOverlap(candidates, mine) + bonus
    BY DEF DefaultIsBestLineage
  <2>1. /\ evidence \in Seq(Citations) /\ OneLineage(evidence)
        /\ Best(question, candidates, evidence[1])
    BY DEF RetrievalInv, Given, Listing
  <2>2. 1 \in DOMAIN evidence
    BY <2>1
  <2>3. Lineages(evidence) = {Lineage(evidence[1])}
    BY <2>1, <2>2 DEF Lineages, OneLineage
  <2> QED BY <2>1, <2>3, OverlapWithQuestion DEF Best
<1> QED
  BY <1>1, RetrievalInvHolds, PTL

\* The model is given the evidence or, for a bounded question, the evidence with its
\* nearest neighbours of the same version: all that are near enough when they fit, and
\* never a part of the anchors; when the version has been replaced before the
\* neighbours are read, nothing (expand_bounded_context, _merge_windows,
\* _fetch_window_rows and _trim_synthesis_chunks).
THEOREM ContextsAreGrounded == Spec => []ContextIsGrounded
<1>1. RetrievalInv => ContextIsGrounded
  BY DEF RetrievalInv, Given, Grounded, GroundedIn, OfOneDocument, ContextIsGrounded
<1> QED
  BY <1>1, RetrievalInvHolds, PTL
=============================================================================
