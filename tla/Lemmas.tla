------------------------------- MODULE Lemmas -------------------------------
(***************************************************************************)
(* Facts about natural numbers, folds and sorted sequences that theorems   *)
(* about several components rest on.  An induction is told here as "take   *)
(* the least counterexample".                                              *)
(***************************************************************************)
EXTENDS SequencesExt, FunctionTheorems, FiniteSetTheorems, SequenceTheorems, TLAPS

-----------------------------------------------------------------------------
\* Every set of natural numbers but the empty one has a least element.
LEMMA LeastNumber ==
  ASSUME NEW T, T \subseteq Nat, T # {}
  PROVE  \E x \in T : \A y \in T : x <= y
<1> DEFINE R == OpToRel(<, Nat)
<1>1. R = {r \in Nat \X Nat : r[1] < r[2]}
  BY DEF OpToRel
<1>2. IsWellFoundedOn(R, Nat)
  BY NatLessThanWellFounded
<1> HIDE DEF R
<1>3. PICK x \in T : \A y \in T : <<y, x>> \notin R
  BY <1>2, WFMin
<1>4. ASSUME NEW y \in T PROVE x <= y
  <2>1. ~ (y < x)
    BY <1>1, <1>3
  <2> QED BY <2>1
<1> QED BY <1>4

LEMMA LeastIsMin ==
  ASSUME NEW T, T \subseteq Nat, T # {}
  PROVE  /\ Min(T) \in T
         /\ \A x \in T : Min(T) <= x
<1>1. \E m \in T : \A x \in T : m <= x
  BY LeastNumber
<1> QED BY <1>1 DEF Min

\* A set of natural numbers with a bound has a greatest element.
LEMMA GreatestNumber ==
  ASSUME NEW T, T \subseteq Nat, T # {}, NEW n \in Nat, \A x \in T : x <= n
  PROVE  /\ Max(T) \in T
         /\ \A x \in T : x <= Max(T)
<1> DEFINE Bounds == {b \in Nat : \A x \in T : x <= b}
<1>1. PICK b \in Bounds : \A c \in Bounds : b <= c
  BY LeastNumber
<1>2. b \in T
  <2> SUFFICES ASSUME b \notin T PROVE FALSE
    OBVIOUS
  <2>1. \A x \in T : x <= b - 1
    BY <1>1
  <2>2. b - 1 \in Nat
    <3>1. PICK x \in T : TRUE
      OBVIOUS
    <3> QED BY <2>1, <3>1, <1>1
  <2>3. b - 1 \in Bounds
    BY <2>2, <2>1
  <2> QED BY <1>1, <2>3
<1>3. \E m \in T : \A x \in T : m >= x
  BY <1>1, <1>2
<1> QED BY <1>3 DEF Max

\* The greatest and the least element of a set are what they are called.
LEMMA MaxIs ==
  ASSUME NEW T, T \subseteq Int, NEW m \in T, \A x \in T : x <= m
  PROVE  Max(T) = m
<1> DEFINE e == Max(T)
<1>1. e \in T /\ \A x \in T : e >= x
  BY DEF Max
<1> HIDE DEF e
<1>2. e = m
  BY <1>1
<1> QED BY <1>2 DEF e

LEMMA MinIs ==
  ASSUME NEW T, T \subseteq Int, NEW m \in T, \A x \in T : m <= x
  PROVE  Min(T) = m
<1> DEFINE e == Min(T)
<1>1. e \in T /\ \A x \in T : e <= x
  BY DEF Min
<1> HIDE DEF e
<1>2. e = m
  BY <1>1
<1> QED BY <1>2 DEF e

-----------------------------------------------------------------------------
(***************************************************************************)
(* Induction and recursion over a prefix of the natural numbers.           *)
(***************************************************************************)
\* What holds at 0 and from one number to the next holds up to n; h is the
\* characteristic function of what is to be shown.
LEMMA UpTo ==
  ASSUME NEW n \in Nat, NEW P,
         0 \in P, \A k \in 1..n : k - 1 \in P => k \in P
  PROVE  0..n \subseteq P
<1> DEFINE Bad == 0..n \ P
<1> SUFFICES ASSUME Bad # {} PROVE FALSE
  OBVIOUS
<1>0. Bad \subseteq Nat
  OBVIOUS
<1> HIDE DEF Bad
<1>1. PICK k \in Bad : \A j \in Bad : k <= j
  BY <1>0, LeastNumber
<1> USE DEF Bad
<1>2. k \in 1..n /\ k - 1 \in 0..n /\ k - 1 \in Int
  BY <1>1
<1>3. k - 1 \notin Bad
  BY <1>1, <1>2
<1> QED BY <1>1, <1>2, <1>3

\* The recursion behind FoldLeft: a set of indices is folded by taking off
\* its greatest element.
Unfolds(g, n, base, F) ==
  \A s \in SUBSET (1..n) :
    g[s] = IF s = {} THEN base ELSE F[<<g[s \ {Max(s)}], Max(s)>>]

\* There is a function that obeys it.
LEMMA FoldExists ==
  ASSUME NEW V, NEW base \in V, NEW n \in Nat, NEW F \in [V \X (1..n) -> V]
  PROVE  \E g \in [SUBSET (1..n) -> V] : Unfolds(g, n, base, F)
<1> DEFINE Obeys(g, m) ==
             \A s \in SUBSET (1..m) :
               g[s] = IF s = {} THEN base ELSE F[<<g[s \ {Max(s)}], Max(s)>>]
           P == {m \in 0..n : \E g \in [SUBSET (1..m) -> V] : Obeys(g, m)}
<1>1. 0 \in P
  <2> DEFINE g == [s \in SUBSET (1..0) |-> base]
  <2>1. g \in [SUBSET (1..0) -> V]
    OBVIOUS
  <2>2. ASSUME NEW s \in SUBSET (1..0) PROVE s = {} /\ g[s] = base
    OBVIOUS
  <2>3. Obeys(g, 0)
    BY <2>2
  <2> HIDE DEF g, Obeys
  <2>4. \E f \in [SUBSET (1..0) -> V] : Obeys(f, 0)
    BY <2>1, <2>3
  <2>5. 0 \in 0..n
    OBVIOUS
  <2> QED BY <2>4, <2>5
<1>2. ASSUME NEW k \in 1..n, k - 1 \in P PROVE k \in P
  <2>1. PICK g \in [SUBSET (1..(k - 1)) -> V] : Obeys(g, k - 1)
    BY <1>2
  <2> DEFINE h == [s \in SUBSET (1..k) |->
                     IF k \in s THEN F[<<g[s \ {k}], k>>] ELSE g[s]]
  <2>2. ASSUME NEW s \in SUBSET (1..k)
        PROVE  /\ k \in s => s \ {k} \in SUBSET (1..(k - 1)) /\ Max(s) = k
               /\ k \notin s => s \in SUBSET (1..(k - 1))
    <3>1. CASE k \in s
      <4>1. s \subseteq Int /\ \A x \in s : x <= k
        OBVIOUS
      <4>2. Max(s) = k
        BY <4>1, <3>1, MaxIs
      <4>3. \A x \in s \ {k} : x \in 1..(k - 1)
        OBVIOUS
      <4> QED BY <4>2, <4>3, <3>1
    <3>2. CASE k \notin s
      <4>1. \A x \in s : x \in 1..(k - 1)
        BY <3>2
      <4> QED BY <4>1, <3>2
    <3> QED BY <3>1, <3>2
  <2>3. ASSUME NEW s \in SUBSET (1..k) PROVE h[s] \in V
    <3>1. CASE k \in s
      <4>1. g[s \ {k}] \in V
        BY <2>2, <3>1
      <4>2. <<g[s \ {k}], k>> \in V \X (1..n)
        BY <4>1
      <4> QED BY <4>2, <3>1
    <3>2. CASE k \notin s
      BY <2>2, <3>2
    <3> QED BY <3>1, <3>2
  <2>4. h \in [SUBSET (1..k) -> V]
    BY <2>3
  <2>5. ASSUME NEW s \in SUBSET (1..k)
        PROVE  h[s] = IF s = {} THEN base ELSE F[<<h[s \ {Max(s)}], Max(s)>>]
    <3>1. CASE k \in s
      <4>1. s \ {k} \in SUBSET (1..(k - 1)) /\ s \ {k} \in SUBSET (1..k) /\ Max(s) = k
        BY <2>2, <3>1
      <4>2. h[s \ {k}] = g[s \ {k}]
        BY <4>1
      <4> QED BY <4>1, <4>2, <3>1
    <3>2. CASE k \notin s
      <4>1. s \in SUBSET (1..(k - 1)) /\ s \ {Max(s)} \in SUBSET (1..k)
            /\ k \notin s \ {Max(s)}
        BY <2>2, <3>2
      <4>2. h[s] = g[s] /\ h[s \ {Max(s)}] = g[s \ {Max(s)}]
        BY <4>1, <3>2
      <4> QED BY <4>1, <4>2, <2>1
    <3> QED BY <3>1, <3>2
  <2>6. Obeys(h, k)
    BY <2>5
  <2> HIDE DEF h, Obeys
  <2>7. \E f \in [SUBSET (1..k) -> V] : Obeys(f, k)
    BY <2>4, <2>6
  <2> QED BY <2>7
<1>3. n \in P
  <2> HIDE DEF P
  <2>1. 0..n \subseteq P
    BY <1>1, <1>2, UpTo
  <2> QED BY <2>1
<1> QED BY <1>3 DEF Unfolds

\* The sets that a fold of 1..n goes through.
LEMMA Prefix ==
  ASSUME NEW n \in Nat, NEW k \in 1..n
  PROVE  /\ 1..k # {} /\ 1..k \in SUBSET (1..n)
         /\ Max(1..k) = k /\ (1..k) \ {k} = 1..(k - 1)
<1>1. 1..k \subseteq Int /\ k \in 1..k /\ \A x \in 1..k : x <= k
  OBVIOUS
<1>2. Max(1..k) = k
  BY <1>1, MaxIs
<1> QED BY <1>1, <1>2

-----------------------------------------------------------------------------
(***************************************************************************)
(* Sets in the order of their members.                                     *)
(***************************************************************************)
Increasing(s, n) == \A i, j \in 1..n : i < j => s[i] < s[j]

\* A finite set of natural numbers can be listed with the least first.
LEMMA Ranking ==
  ASSUME NEW T, T \subseteq Nat, IsFiniteSet(T)
  PROVE  \E s \in [1..Cardinality(T) -> T] : Increasing(s, Cardinality(T))
<1> DEFINE n == Cardinality(T)
           Below(x) == {y \in T : y <= x}
           rank == [x \in T |-> Cardinality(Below(x))]
<1>1. n \in Nat /\ IsFiniteSet(1..n) /\ Cardinality(1..n) = n
  BY FS_CardinalityType, FS_Interval
<1>2. ASSUME NEW x \in T
      PROVE  IsFiniteSet(Below(x)) /\ rank[x] \in 1..n
  <2>1. Below(x) \in SUBSET T /\ x \in Below(x)
    OBVIOUS
  <2> HIDE DEF Below
  <2>2. IsFiniteSet(Below(x)) /\ Cardinality(Below(x)) <= n
    BY <2>1, FS_Subset
  <2>3. Cardinality(Below(x)) \in Nat
    BY <2>2, FS_CardinalityType
  <2>4. Cardinality(Below(x)) # 0
    BY <2>1, <2>2, FS_EmptySet
  <2> QED BY <2>2, <2>3, <2>4, <1>1
<1>3. ASSUME NEW x \in T, NEW y \in T, x < y
      PROVE  rank[x] < rank[y]
  <2>0. x \in Nat /\ y \in Nat /\ x < y /\ \A z \in T : z \in Nat
    BY <1>3
  <2>1. Below(x) \in SUBSET Below(y) /\ y \in Below(y) /\ y \notin Below(x)
    <3>1. \A z \in T : z <= x => z <= y
      BY <2>0
    <3>2. ~ (y <= x) /\ y <= y
      BY <2>0
    <3> QED BY <3>1, <3>2
  <2> HIDE DEF Below
  <2>2. IsFiniteSet(Below(y))
    BY <1>2
  <2>3. Cardinality(Below(x)) <= Cardinality(Below(y))
        /\ (Cardinality(Below(x)) = Cardinality(Below(y)) => Below(x) = Below(y))
    BY <2>1, <2>2, FS_Subset
  <2>4. Cardinality(Below(x)) # Cardinality(Below(y))
    BY <2>1, <2>3
  <2> QED BY <2>3, <2>4, <1>2
<1> HIDE DEF Below
<1>4. rank \in [T -> 1..n]
  BY <1>2
<1>5. \A x, y \in T : rank[x] = rank[y] => x = y
  <2> TAKE x, y \in T
  <2>1. x < y \/ y < x \/ x = y
    OBVIOUS
  <2> QED BY <2>1, <1>2, <1>3
<1> HIDE DEF rank
<1>6. rank \in Injection(T, 1..n)
  BY <1>4, <1>5 DEF Injection, IsInjective
<1>7. rank \in Surjection(T, 1..n)
  BY <1>6, <1>1, FS_Injection
<1>8. \A i \in 1..n : \E x \in T : rank[x] = i
  BY <1>7 DEF Surjection
<1> DEFINE s == [i \in 1..n |-> CHOOSE x \in T : rank[x] = i]
<1>9. ASSUME NEW i \in 1..n PROVE s[i] \in T /\ rank[s[i]] = i
  BY <1>8
<1>10. s \in [1..n -> T]
  BY <1>9
<1>11. ASSUME NEW i \in 1..n, NEW j \in 1..n, i < j PROVE s[i] < s[j]
  <2> HIDE DEF s
  <2>1. s[i] \in T /\ s[j] \in T /\ rank[s[i]] = i /\ rank[s[j]] = j
    BY <1>9
  <2>2. ~ (s[j] < s[i])
    <3>1. s[j] < s[i] => j < i
      BY <2>1, <1>3
    <3> QED BY <3>1, <1>1, <1>11
  <2>3. s[i] # s[j]
    BY <2>1, <1>1, <1>11
  <2>4. s[i] \in Nat /\ s[j] \in Nat
    BY <2>1
  <2> QED BY <2>2, <2>3, <2>4
<1> HIDE DEF s
<1>12. Increasing(s, n)
  BY <1>11 DEF Increasing
<1> QED BY <1>10, <1>12

\* Such a list has all of the set in it, each element once.
LEMMA RankedIsAll ==
  ASSUME NEW T, T \subseteq Nat, IsFiniteSet(T),
         NEW s \in [1..Cardinality(T) -> T], Increasing(s, Cardinality(T))
  PROVE  /\ \A i, j \in 1..Cardinality(T) : s[i] = s[j] => i = j
         /\ \A x \in T : \E i \in 1..Cardinality(T) : s[i] = x
<1> DEFINE n == Cardinality(T)
<1>1. n \in Nat /\ IsFiniteSet(1..n) /\ Cardinality(1..n) = n
  BY FS_CardinalityType, FS_Interval
<1>2. \A i, j \in 1..n : s[i] = s[j] => i = j
  <2> TAKE i, j \in 1..n
  <2>1. i < j \/ j < i \/ i = j
    BY <1>1
  <2>2. s[i] \in Nat /\ s[j] \in Nat
    OBVIOUS
  <2> QED BY <2>1, <2>2 DEF Increasing
<1> HIDE DEF n
<1>3. s \in Injection(1..n, T)
  BY <1>2 DEF Injection, IsInjective, n
<1>4. s \in Surjection(1..n, T)
  BY <1>3, <1>1, FS_Injection DEF n
<1> QED BY <1>2, <1>4 DEF Surjection, n
=============================================================================
