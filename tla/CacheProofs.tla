---------------------------- MODULE CacheProofs ----------------------------
(***************************************************************************)
(* Theorems about the browser's cache, for any number of series, times and *)
(* appends and arrays of every length: the binary search finds the first   *)
(* accepted element, ends and stays within the array; the merge in place   *)
(* reads every point before it is written over and is stable; the rows     *)
(* show what drawing all points at once shows, repeat nothing but gaps,    *)
(* and end at the newest point; the loop over the queue makes these rows.  *)
(***************************************************************************)
EXTENDS Cache, BinarySearch, SortedArrayMerge, Lemmas

-----------------------------------------------------------------------------
(***************************************************************************)
(* binarySearch.                                                           *)
(***************************************************************************)
\* The middle lies between the two ends.
LEMMA MidBetween ==
  ASSUME left \in Nat, right \in Int, left <= right
  PROVE  mid \in left..right
BY DEF mid

\* The invariant holds when the loop begins.
LEMMA SearchInitIInv == SearchInit => SearchIInv
BY BinarySearchAssumption DEF SearchInit, SearchIInv, Monotone

\* Each half of the loop's body keeps the invariant.
LEMMA SearchStepIInv == SearchIInv /\ [SearchNext]_searchVars => SearchIInv'
<1> SUFFICES ASSUME SearchIInv, [SearchNext]_searchVars PROVE SearchIInv'
  OBVIOUS
<1> USE DEF SearchIInv
<1>1. CASE SearchLeft
  <2>1. mid \in left..right
    BY <1>1, MidBetween DEF SearchLeft
  <2> QED
    BY <1>1, <2>1 DEF SearchLeft, Monotone
<1>2. CASE SearchRight
  <2>1. mid \in left..right
    BY <1>2, MidBetween DEF SearchRight
  <2>2. \A p \in 0..mid : ~accepts[p]
    BY <1>2, <2>1 DEF SearchRight, Monotone
  <2> QED
    BY <1>2, <2>1, <2>2 DEF SearchRight, Monotone
<1>3. CASE UNCHANGED searchVars
  BY <1>3 DEF searchVars, Monotone
<1> QED
  BY <1>1, <1>2, <1>3 DEF SearchNext

\* The loop's invariant holds.
THEOREM SearchInvariance == SearchSpec => []SearchIInv
<1>1. SearchInit => SearchIInv
  BY SearchInitIInv
<1>2. SearchIInv /\ [SearchNext]_searchVars => SearchIInv'
  BY SearchStepIInv
<1> QED
  BY <1>1, <1>2, PTL DEF SearchSpec

\* What binarySearch returns is the first accepted position, or the value
\* given for none.
THEOREM FirstFound == SearchSpec => []FindsFirst
<1>1. SearchIInv => FindsFirst
  <2> SUFFICES ASSUME SearchIInv, left > right PROVE FindsFirst
    BY DEF FindsFirst, SearchReturned
  <2>1. left = right + 1
    BY DEF SearchIInv
  <2>2. CASE result = NotFound /\ right = len - 1
    BY <2>1, <2>2 DEF SearchIInv, FindsFirst
  <2>3. CASE result = right + 1 /\ result < len /\ accepts[result]
    BY <2>1, <2>3 DEF SearchIInv, FindsFirst
  <2> QED
    BY <2>2, <2>3 DEF SearchIInv
<1> QED
  BY <1>1, SearchInvariance, PTL

\* Each turn of the loop looks inside the array and leaves less to search.
THEOREM LoopNarrows == SearchSpec => Narrows
<1>1. SearchIInv /\ [SearchNext]_searchVars => [right' - left' < right - left /\ mid \in 0..(len - 1)]_searchVars
  <2> SUFFICES ASSUME SearchIInv, SearchNext
               PROVE  right' - left' < right - left /\ mid \in 0..(len - 1)
    OBVIOUS
  <2> USE DEF SearchIInv
  <2>1. CASE SearchLeft
    <3>1. mid \in left..right
      BY <2>1, MidBetween DEF SearchLeft
    <3> QED
      BY <2>1, <3>1 DEF SearchLeft
  <2>2. CASE SearchRight
    <3>1. mid \in left..right
      BY <2>2, MidBetween DEF SearchRight
    <3> QED
      BY <2>2, <3>1 DEF SearchRight
  <2> QED
    BY <2>1, <2>2 DEF SearchNext
<1> QED
  BY <1>1, SearchInvariance, PTL DEF SearchSpec, Narrows

-----------------------------------------------------------------------------
(***************************************************************************)
(* sortedArrayMerge.                                                       *)
(***************************************************************************)
\* The arrays that are passed are sorted sequences of points.
LEMMA ArraysAreSorted ==
  ASSUME NEW tag \in Nat, NEW s \in Arrays(tag)
  PROVE  Len(s) \in Nat /\ s \in [1..Len(s) -> MergePoint] /\ Sorted(s)
<1> DEFINE Times(n) == {f \in [1..n -> MergeTime] : \A p, q \in 1..n : p <= q => f[p] <= f[q]}
<1>0. PICK n \in 0..MergeLen :
        s \in {[p \in 1..n |-> [t |-> ts[p], v |-> <<tag, p>>]] : ts \in Times(n)}
  BY DEF Arrays
<1>1. PICK ts \in Times(n) : s = [p \in 1..n |-> [t |-> ts[p], v |-> <<tag, p>>]]
  BY <1>0
<1>2. n \in Nat
  BY SortedArrayMergeAssumption
<1>3. \A p \in 1..n : ts[p] \in Nat
  BY SortedArrayMergeAssumption
<1>4. s \in [1..n -> MergePoint]
  BY <1>1, <1>2, <1>3 DEF MergePoint
<1>5. Len(s) = n
  BY <1>2, <1>4
<1>6. Sorted(s)
  BY <1>1, <1>2 DEF Sorted
<1> QED
  BY <1>2, <1>4, <1>5, <1>6

\* The invariant holds when arr1 has been lengthened.
LEMMA MergeInitIInv == MergeInit => MergeIInv
<1> SUFFICES ASSUME MergeInit PROVE MergeIInv
  OBVIOUS
<1>1. m \in Nat /\ old \in [1..m -> MergePoint] /\ Sorted(old)
  BY ArraysAreSorted DEF MergeInit
<1>2. Len(arr2) \in Nat /\ arr2 \in [1..Len(arr2) -> MergePoint] /\ Sorted(arr2)
  BY ArraysAreSorted DEF MergeInit
<1>3. arr1 \in [1..(m + Len(arr2)) -> MergePoint]
  BY <1>1, <1>2 DEF MergeInit, Unset, MergePoint
<1>4. i = m /\ j = Len(arr2) /\ k = m + Len(arr2)
  BY DEF MergeInit
<1>5. InPlace
  BY <1>1, <1>2, <1>4 DEF MergeInit, InPlace
<1> QED
  BY <1>1, <1>2, <1>3, <1>4, <1>5 DEF MergeIInv

\* What the steps use of the invariant, about times alone.
LEMMA Times ==
  ASSUME MergeIInv
  PROVE  /\ \A p \in 1..m : old[p].t \in Nat
         /\ \A p \in 1..Len(arr2) : arr2[p].t \in Nat
         /\ \A p \in 1..(m + Len(arr2)) : arr1[p].t \in Nat
         /\ \A p, q \in 1..m : p <= q => old[p].t <= old[q].t
         /\ \A p, q \in 1..Len(arr2) : p <= q => arr2[p].t <= arr2[q].t
<1>1. m \in Nat /\ Len(arr2) \in Nat
  BY DEF MergeIInv
<1>2. \A p \in 1..m : old[p].t \in Nat
  BY DEF MergeIInv, MergePoint
<1>3. \A p \in 1..Len(arr2) : arr2[p].t \in Nat
  BY DEF MergeIInv, MergePoint
<1>4. \A p \in 1..(m + Len(arr2)) : arr1[p].t \in Nat
  BY DEF MergeIInv, MergePoint
<1>5. DOMAIN old = 1..m /\ DOMAIN arr2 = 1..Len(arr2)
  BY DEF MergeIInv
<1>6. /\ \A p, q \in DOMAIN old : p <= q => old[p].t <= old[q].t
      /\ \A p, q \in DOMAIN arr2 : p <= q => arr2[p].t <= arr2[q].t
  BY DEF MergeIInv, Sorted
<1> QED
  BY <1>2, <1>3, <1>4, <1>5, <1>6

\* Putting at k a point that is not earlier than those left and not later
\* than those already merged.
LEMMA Put ==
  ASSUME MergeIInv, NEW x \in MergePoint, k \in Nat, k > 0,
         NEW ii \in 0..i, NEW jj \in 0..j, ii + jj = k - 1,
         arr1' = [arr1 EXCEPT ![k] = x],
         i' = ii, j' = jj, k' = k - 1, UNCHANGED <<arr2, m, old>>,
         k > ii, k <= m + Len(arr2),
         \A p \in 1..ii : old[p].t <= x.t,
         \A p \in 1..jj : arr2[p].t <= x.t,
         \A q \in (k + 1)..(m + Len(arr2)) : x.t <= arr1[q].t
  PROVE  MergeIInv'
<1>1. m \in Nat /\ Len(arr2) \in Nat /\ i \in 0..m /\ j \in 0..Len(arr2)
  BY DEF MergeIInv
<1>2. arr1' \in [1..(m + Len(arr2)) -> MergePoint]
  BY DEF MergeIInv
<1>3. arr1'[k] = x /\ \A p \in 1..(m + Len(arr2)) : p # k => arr1'[p] = arr1[p]
  BY <1>1 DEF MergeIInv
<1>4. \A p \in 1..ii : arr1'[p] = old[p]
  BY <1>1, <1>3 DEF MergeIInv, InPlace
<1>5. \A q \in k..(m + Len(arr2)) : x.t <= arr1'[q].t
  <2>1. x.t \in Nat
    BY DEF MergePoint
  <2> QED
    BY <1>1, <1>3, <2>1
<1>6. \A p, q \in k..(m + Len(arr2)) : p <= q => arr1'[p].t <= arr1'[q].t
  <2> SUFFICES ASSUME NEW p \in k..(m + Len(arr2)), NEW q \in k..(m + Len(arr2)), p <= q
               PROVE  arr1'[p].t <= arr1'[q].t
    OBVIOUS
  <2>1. CASE p = k
    BY <1>3, <1>5, <2>1
  <2>2. CASE p # k
    <3>1. p \in (k + 1)..(m + Len(arr2)) /\ q \in (k + 1)..(m + Len(arr2))
      BY <1>1, <2>2
    <3>2. arr1[p].t <= arr1[q].t
      BY <3>1 DEF MergeIInv, InPlace
    <3> QED
      BY <1>1, <1>3, <3>1, <3>2
  <2> QED
    BY <2>1, <2>2
<1>7. \A q \in k..(m + Len(arr2)) :
        /\ \A p \in 1..ii : old[p].t <= arr1'[q].t
        /\ \A p \in 1..jj : arr2[p].t <= arr1'[q].t
  <2> SUFFICES ASSUME NEW q \in k..(m + Len(arr2))
               PROVE  /\ \A p \in 1..ii : old[p].t <= arr1'[q].t
                      /\ \A p \in 1..jj : arr2[p].t <= arr1'[q].t
    OBVIOUS
  <2>1. CASE q = k
    BY <1>3, <2>1
  <2>2. CASE q # k
    <3>1. q \in (k + 1)..(m + Len(arr2)) /\ arr1'[q] = arr1[q]
      BY <1>1, <1>3, <2>2
    <3>2. /\ \A p \in 1..i : old[p].t <= arr1[q].t
          /\ \A p \in 1..j : arr2[p].t <= arr1[q].t
      BY <3>1 DEF MergeIInv
    <3> QED
      BY <1>1, <3>1, <3>2
  <2> QED
    BY <2>1, <2>2
<1>8. k' + 1 = k /\ k' = i' + j' /\ i' \in 0..m /\ j' \in 0..Len(arr2)
  BY <1>1
<1>9. InPlace'
  BY <1>4, <1>6, <1>8 DEF InPlace
<1>10. Sorted(old)' /\ Sorted(arr2)'
  BY DEF MergeIInv, Sorted
<1> QED
  BY <1>2, <1>7, <1>8, <1>9, <1>10 DEF MergeIInv

\* Taking the later of the two last points keeps the invariant.
LEMMA MergeStepIInv == MergeIInv /\ [MergeNext]_mergeVars => MergeIInv'
<1> SUFFICES ASSUME MergeIInv, [MergeNext]_mergeVars PROVE MergeIInv'
  OBVIOUS
<1>0. m \in Nat /\ Len(arr2) \in Nat /\ i \in 0..m /\ j \in 0..Len(arr2) /\ k = i + j
  BY DEF MergeIInv
<1>1. CASE TakeFirst
  <2>1. arr1[i] = old[i] /\ i \in 1..m /\ j \in 1..Len(arr2)
    BY <1>0, <1>1 DEF TakeFirst, MergeIInv, InPlace
  <2>2. old[i] \in MergePoint
    BY <2>1 DEF MergeIInv
  <2>3. arr2[j].t <= old[i].t
    BY <1>1, <2>1, Times DEF TakeFirst
  <2>4. \A p \in 1..j : arr2[p].t <= old[i].t
    <3> SUFFICES ASSUME NEW p \in 1..j PROVE arr2[p].t <= old[i].t
      OBVIOUS
    <3>1. arr2[p].t <= arr2[j].t /\ p \in 1..Len(arr2)
      BY <1>0, Times
    <3> QED
      BY <2>1, <2>3, <3>1, Times
  <2>5. \A p \in 1..(i - 1) : old[p].t <= old[i].t
    BY <1>0, <2>1, Times
  <2>6. \A q \in (k + 1)..(m + Len(arr2)) : old[i].t <= arr1[q].t
    BY <1>0, <2>1 DEF MergeIInv
  <2>7. /\ arr1' = [arr1 EXCEPT ![k] = old[i]]
        /\ i' = i - 1 /\ j' = j /\ k' = k - 1 /\ UNCHANGED <<arr2, m, old>>
    BY <1>1, <2>1 DEF TakeFirst
  <2>8. /\ k \in Nat /\ k > 0 /\ i - 1 \in 0..i /\ j \in 0..j
        /\ (i - 1) + j = k - 1 /\ k > i - 1 /\ k <= m + Len(arr2)
    BY <1>0, <2>1
  <2> QED
    BY <2>2, <2>4, <2>5, <2>6, <2>7, <2>8, Put
<1>2. CASE TakeSecond
  <2>1. j \in 1..Len(arr2) /\ arr2[j] \in MergePoint
    <3>1. j > 0
      BY <1>2 DEF TakeSecond
    <3>2. j \in 1..Len(arr2)
      BY <1>0, <3>1
    <3> QED
      BY <3>2 DEF MergeIInv
  <2>2. \A p \in 1..(j - 1) : arr2[p].t <= arr2[j].t
    BY <1>0, <2>1, Times
  <2>3. \A p \in 1..i : old[p].t <= arr2[j].t
    <3> SUFFICES ASSUME NEW p \in 1..i PROVE old[p].t <= arr2[j].t
      OBVIOUS
    <3>1. i > 0 /\ arr1[i] = old[i]
      BY <1>0 DEF MergeIInv, InPlace
    <3>2. old[i].t <= arr2[j].t
      BY <1>2, <3>1 DEF TakeSecond
    <3>3. old[p].t <= old[i].t
      BY <1>0, Times
    <3> QED
      BY <1>0, <2>1, <3>2, <3>3, Times
  <2>4. \A q \in (k + 1)..(m + Len(arr2)) : arr2[j].t <= arr1[q].t
    BY <1>0, <2>1 DEF MergeIInv
  <2>5. /\ arr1' = [arr1 EXCEPT ![k] = arr2[j]]
        /\ i' = i /\ j' = j - 1 /\ k' = k - 1 /\ UNCHANGED <<arr2, m, old>>
    BY <1>2 DEF TakeSecond
  <2>6. /\ k \in Nat /\ k > 0 /\ i \in 0..i /\ j - 1 \in 0..j
        /\ i + (j - 1) = k - 1 /\ k > i /\ k <= m + Len(arr2)
    BY <1>0, <2>1
  <2> QED
    BY <2>1, <2>2, <2>3, <2>4, <2>5, <2>6, Put
<1>3. CASE UNCHANGED mergeVars
  BY <1>3 DEF mergeVars, MergeIInv, InPlace, Sorted
<1> QED
  BY <1>1, <1>2, <1>3 DEF MergeNext

\* The invariant of the loops holds.
THEOREM MergeInvariance == MergeSpec => []MergeIInv
<1>1. MergeInit => MergeIInv
  BY MergeInitIInv
<1>2. MergeIInv /\ [MergeNext]_mergeVars => MergeIInv'
  BY MergeStepIInv
<1> QED
  BY <1>1, <1>2, PTL DEF MergeSpec

\* No point of arr1 is written over before it has been read.
THEOREM MergedInPlace == MergeSpec => []InPlace
<1>1. MergeIInv => InPlace
  BY DEF MergeIInv
<1> QED
  BY <1>1, MergeInvariance, PTL

\* The array that is returned is in the order of time.
THEOREM ResultSorted == MergeSpec => [](MergeReturned => Sorted(arr1))
<1>1. ASSUME MergeIInv, MergeReturned PROVE Sorted(arr1)
  <2>1. m \in Nat /\ Len(arr2) \in Nat /\ i \in 0..m /\ k = i
    BY <1>1 DEF MergeIInv, MergeReturned
  <2>2. DOMAIN arr1 = 1..(m + Len(arr2))
    BY <1>1 DEF MergeIInv
  <2> SUFFICES ASSUME NEW p \in 1..(m + Len(arr2)), NEW q \in 1..(m + Len(arr2)), p <= q
               PROVE  arr1[p].t <= arr1[q].t
    BY <2>2 DEF Sorted
  <2>3. CASE p > k
    BY <1>1, <2>1, <2>3 DEF MergeIInv, InPlace
  <2>4. CASE q <= k
    <3>1. arr1[p] = old[p] /\ arr1[q] = old[q] /\ p \in 1..m /\ q \in 1..m
      BY <1>1, <2>1, <2>4 DEF MergeIInv, InPlace
    <3> QED
      BY <1>1, <3>1, Times
  <2>5. CASE p <= k /\ q > k
    <3>1. arr1[p] = old[p] /\ p \in 1..i /\ q \in (k + 1)..(m + Len(arr2))
      BY <1>1, <2>1, <2>5 DEF MergeIInv, InPlace
    <3> QED
      BY <1>1, <3>1 DEF MergeIInv
  <2> QED
    BY <2>1, <2>3, <2>4, <2>5
<1> QED
  BY <1>1, MergeInvariance, PTL

-----------------------------------------------------------------------------
(***************************************************************************)
(* StableMerge: where the points of two sorted arrays go.                  *)
(***************************************************************************)
\* The size of a set of positions that holds, or is held by, the first a.
LEMMA CountPositions ==
  ASSUME NEW n \in Nat, NEW D \in SUBSET (1..n)
  PROVE  /\ Cardinality(D) \in 0..n
         /\ \A a \in 0..n : 1..a \subseteq D => a <= Cardinality(D)
         /\ \A a \in 0..n : D \subseteq 1..a => Cardinality(D) <= a
<1>1. \A a \in 0..n : IsFiniteSet(1..a) /\ Cardinality(1..a) = a
  BY FS_Interval
<1>2. IsFiniteSet(D) /\ Cardinality(D) <= n
  <2>1. IsFiniteSet(1..n) /\ Cardinality(1..n) = n
    BY FS_Interval
  <2>2. D \subseteq 1..n
    OBVIOUS
  <2> QED
    BY <2>1, <2>2, FS_Subset
<1>3. Cardinality(D) \in Nat
  BY <1>2, FS_CardinalityType
<1>4. \A a \in 0..n : 1..a \subseteq D => Cardinality(1..a) <= Cardinality(D)
  BY <1>2, FS_Subset
<1>5. \A a \in 0..n : D \subseteq 1..a => Cardinality(D) <= Cardinality(1..a)
  BY <1>1, FS_Subset
<1> QED
  BY <1>1, <1>2, <1>3, <1>4, <1>5

\* n points in the order of time.
Rising(s, n) ==
  /\ n \in Nat /\ \A p \in 1..n : s[p].t \in Nat
  /\ \A p, q \in 1..n : p <= q => s[p].t <= s[q].t

Before(s, n, x) == {q \in 1..n : s[q].t < x.t}
UpToTime(s, n, x) == {q \in 1..n : s[q].t <= x.t}

\* The positions of the two arrays' points in the merged one.
Place1(s1, s2, n, p) == p + Cardinality(Before(s2, n, s1[p]))
Place2(s1, s2, n, q) == q + Cardinality(UpToTime(s1, n, s2[q]))

\* What the place of a point says of the points of the other array.
LEMMA Places ==
  ASSUME NEW s1, NEW s2, NEW n1, NEW n2, Rising(s1, n1), Rising(s2, n2)
  PROVE  /\ \A p \in 1..n1 :
              /\ Place1(s1, s2, n2, p) \in p..(p + n2)
              /\ \A q \in 1..n2 :
                   /\ s2[q].t < s1[p].t => p + q <= Place1(s1, s2, n2, p)
                   /\ s1[p].t <= s2[q].t => Place1(s1, s2, n2, p) < p + q
         /\ \A q \in 1..n2 :
              /\ Place2(s1, s2, n1, q) \in q..(q + n1)
              /\ \A p \in 1..n1 :
                   /\ s1[p].t <= s2[q].t => p + q <= Place2(s1, s2, n1, q)
                   /\ s2[q].t < s1[p].t => Place2(s1, s2, n1, q) < p + q
<1> USE DEF Rising
<1>1. ASSUME NEW p \in 1..n1
      PROVE  /\ Place1(s1, s2, n2, p) \in p..(p + n2)
             /\ \A q \in 1..n2 :
                  /\ s2[q].t < s1[p].t => p + q <= Place1(s1, s2, n2, p)
                  /\ s1[p].t <= s2[q].t => Place1(s1, s2, n2, p) < p + q
  <2> DEFINE D == Before(s2, n2, s1[p])
  <2>1. D \in SUBSET (1..n2)
    BY DEF Before
  <2>2. \A q \in 1..n2 : s2[q].t < s1[p].t => 1..q \subseteq D
    BY DEF Before
  <2>3. \A q \in 1..n2 : s1[p].t <= s2[q].t => D \subseteq 1..(q - 1)
    <3> SUFFICES ASSUME NEW q \in 1..n2, s1[p].t <= s2[q].t, NEW r \in D
                 PROVE  r \in 1..(q - 1)
      OBVIOUS
    <3>1. r \in 1..n2 /\ s2[r].t < s1[p].t
      BY DEF Before
    <3>2. ~(q <= r)
      BY <3>1
    <3> QED
      BY <3>1, <3>2
  <2> HIDE DEF D
  <2>4. /\ Cardinality(D) \in 0..n2
        /\ \A a \in 0..n2 : 1..a \subseteq D => a <= Cardinality(D)
        /\ \A a \in 0..n2 : D \subseteq 1..a => Cardinality(D) <= a
    BY <2>1, CountPositions
  <2>5. Place1(s1, s2, n2, p) = p + Cardinality(D)
    BY DEF Place1, D
  <2>6. ASSUME NEW q \in 1..n2, s2[q].t < s1[p].t PROVE q <= Cardinality(D)
    BY <2>2, <2>4, <2>6
  <2>7. ASSUME NEW q \in 1..n2, s1[p].t <= s2[q].t PROVE Cardinality(D) <= q - 1
    <3>1. q - 1 \in 0..n2
      OBVIOUS
    <3> QED
      BY <2>3, <2>4, <2>7, <3>1
  <2> QED
    BY <2>4, <2>5, <2>6, <2>7
<1>2. ASSUME NEW q \in 1..n2
      PROVE  /\ Place2(s1, s2, n1, q) \in q..(q + n1)
             /\ \A p \in 1..n1 :
                  /\ s1[p].t <= s2[q].t => p + q <= Place2(s1, s2, n1, q)
                  /\ s2[q].t < s1[p].t => Place2(s1, s2, n1, q) < p + q
  <2> DEFINE D == UpToTime(s1, n1, s2[q])
  <2>1. D \in SUBSET (1..n1)
    BY DEF UpToTime
  <2>2. \A p \in 1..n1 : s1[p].t <= s2[q].t => 1..p \subseteq D
    <3> SUFFICES ASSUME NEW p \in 1..n1, s1[p].t <= s2[q].t, NEW r \in 1..p
                 PROVE  r \in D
      OBVIOUS
    <3>1. r \in 1..n1 /\ s1[r].t <= s1[p].t
      OBVIOUS
    <3> QED
      BY <3>1 DEF UpToTime
  <2>3. \A p \in 1..n1 : s2[q].t < s1[p].t => D \subseteq 1..(p - 1)
    <3> SUFFICES ASSUME NEW p \in 1..n1, s2[q].t < s1[p].t, NEW r \in D
                 PROVE  r \in 1..(p - 1)
      OBVIOUS
    <3>1. r \in 1..n1 /\ s1[r].t <= s2[q].t
      BY DEF UpToTime
    <3>2. ~(p <= r)
      BY <3>1
    <3> QED
      BY <3>1, <3>2
  <2> HIDE DEF D
  <2>4. /\ Cardinality(D) \in 0..n1
        /\ \A a \in 0..n1 : 1..a \subseteq D => a <= Cardinality(D)
        /\ \A a \in 0..n1 : D \subseteq 1..a => Cardinality(D) <= a
    BY <2>1, CountPositions
  <2>5. Place2(s1, s2, n1, q) = q + Cardinality(D)
    BY DEF Place2, D
  <2>6. ASSUME NEW p \in 1..n1, s1[p].t <= s2[q].t PROVE p <= Cardinality(D)
    BY <2>2, <2>4, <2>6
  <2>7. ASSUME NEW p \in 1..n1, s2[q].t < s1[p].t PROVE Cardinality(D) <= p - 1
    <3>1. p - 1 \in 0..n1
      OBVIOUS
    <3> QED
      BY <2>3, <2>4, <2>7, <3>1
  <2> QED
    BY <2>4, <2>5, <2>6, <2>7
<1> QED
  BY <1>1, <1>2

\* No two points have the same place, and later points later ones.
LEMMA PlacesApart ==
  ASSUME NEW s1, NEW s2, NEW n1, NEW n2, Rising(s1, n1), Rising(s2, n2)
  PROVE  /\ \A p, r \in 1..n1 : p < r => Place1(s1, s2, n2, p) < Place1(s1, s2, n2, r)
         /\ \A q, r \in 1..n2 : q < r => Place2(s1, s2, n1, q) < Place2(s1, s2, n1, r)
         /\ \A p \in 1..n1, q \in 1..n2 :
              IF s2[q].t < s1[p].t
              THEN Place2(s1, s2, n1, q) < Place1(s1, s2, n2, p)
              ELSE Place1(s1, s2, n2, p) < Place2(s1, s2, n1, q)
<1> DEFINE P1(p) == Place1(s1, s2, n2, p)
           P2(q) == Place2(s1, s2, n1, q)
<1>1. /\ \A p \in 1..n1 :
           /\ P1(p) \in p..(p + n2)
           /\ \A q \in 1..n2 : /\ s2[q].t < s1[p].t => p + q <= P1(p)
                               /\ s1[p].t <= s2[q].t => P1(p) < p + q
      /\ \A q \in 1..n2 :
           /\ P2(q) \in q..(q + n1)
           /\ \A p \in 1..n1 : /\ s1[p].t <= s2[q].t => p + q <= P2(q)
                               /\ s2[q].t < s1[p].t => P2(q) < p + q
  BY Places
<1> HIDE DEF P1, P2
<1> USE DEF Rising
<1>2. ASSUME NEW p \in 1..n1, NEW r \in 1..n1, p < r PROVE P1(p) < P1(r)
  <2>1. P1(p) - p \in 0..n2 /\ P1(p) \in Int /\ P1(r) \in Int /\ P1(r) >= r
    BY <1>1
  <2>2. CASE P1(p) = p
    BY <1>2, <2>1, <2>2
  <2>3. CASE P1(p) # p
    <3> DEFINE q == P1(p) - p
    <3>1. q \in 1..n2 /\ p + q = P1(p) /\ r + q > P1(p)
      BY <1>2, <2>1, <2>3
    <3> HIDE DEF q
    <3>2. ~(s1[p].t <= s2[q].t)
      <4>1. s1[p].t <= s2[q].t => P1(p) < p + q
        BY <1>1, <3>1
      <4> QED
        BY <2>1, <3>1, <4>1
    <3>3. s2[q].t < s1[r].t
      <4>1. s1[p].t <= s1[r].t /\ s1[p].t \in Nat /\ s1[r].t \in Nat /\ s2[q].t \in Nat
        BY <1>2, <3>1
      <4> QED
        BY <3>2, <4>1
    <3>4. r + q <= P1(r)
      BY <1>1, <3>1, <3>3
    <3> QED
      BY <2>1, <3>1, <3>4
  <2> QED
    BY <2>2, <2>3
<1>3. ASSUME NEW q \in 1..n2, NEW r \in 1..n2, q < r PROVE P2(q) < P2(r)
  <2>1. P2(q) - q \in 0..n1 /\ P2(q) \in Int /\ P2(r) \in Int /\ P2(r) >= r
    BY <1>1
  <2>2. CASE P2(q) = q
    BY <1>3, <2>1, <2>2
  <2>3. CASE P2(q) # q
    <3> DEFINE p == P2(q) - q
    <3>1. p \in 1..n1 /\ p + q = P2(q) /\ p + r > P2(q)
      BY <1>3, <2>1, <2>3
    <3> HIDE DEF p
    <3>2. ~(s2[q].t < s1[p].t)
      <4>1. s2[q].t < s1[p].t => P2(q) < p + q
        BY <1>1, <3>1
      <4> QED
        BY <2>1, <3>1, <4>1
    <3>3. s1[p].t <= s2[r].t
      <4>1. s2[q].t <= s2[r].t /\ s2[q].t \in Nat /\ s2[r].t \in Nat /\ s1[p].t \in Nat
        BY <1>3, <3>1
      <4> QED
        BY <3>2, <4>1
    <3>4. p + r <= P2(r)
      BY <1>1, <3>1, <3>3
    <3> QED
      BY <2>1, <3>1, <3>4
  <2> QED
    BY <2>2, <2>3
<1>4. ASSUME NEW p \in 1..n1, NEW q \in 1..n2
      PROVE  IF s2[q].t < s1[p].t THEN P2(q) < P1(p) ELSE P1(p) < P2(q)
  <2>1. s2[q].t \in Nat /\ s1[p].t \in Nat /\ P1(p) \in Int /\ P2(q) \in Int
    BY <1>1
  <2>2. s2[q].t < s1[p].t => p + q <= P1(p) /\ P2(q) < p + q
    BY <1>1
  <2>3. ~(s2[q].t < s1[p].t) => P1(p) < p + q /\ p + q <= P2(q)
    BY <1>1, <2>1
  <2> QED
    BY <2>1, <2>2, <2>3
<1> QED
  BY <1>2, <1>3, <1>4 DEF P1, P2

\* Every place is taken.
Taken(s1, s2, n1, n2, e) ==
  \/ \E p \in 1..n1 : Place1(s1, s2, n2, p) = e
  \/ \E q \in 1..n2 : Place2(s1, s2, n1, q) = e

LEMMA PlaceTaken ==
  ASSUME NEW s1, NEW s2, NEW n1, NEW n2, Rising(s1, n1), Rising(s2, n2),
         NEW e \in 1..(n1 + n2)
  PROVE  Taken(s1, s2, n1, n2, e)
<1> DEFINE P1(p) == Place1(s1, s2, n2, p)
           P2(q) == Place2(s1, s2, n1, q)
<1>1. /\ \A p \in 1..n1 :
           /\ P1(p) \in p..(p + n2)
           /\ \A q \in 1..n2 : /\ s2[q].t < s1[p].t => p + q <= P1(p)
                               /\ s1[p].t <= s2[q].t => P1(p) < p + q
      /\ \A q \in 1..n2 :
           /\ P2(q) \in q..(q + n1)
           /\ \A p \in 1..n1 : /\ s1[p].t <= s2[q].t => p + q <= P2(q)
                               /\ s2[q].t < s1[p].t => P2(q) < p + q
  BY Places
<1>2. \A p, r \in 1..n1 : p < r => P1(p) < P1(r)
  BY PlacesApart
<1> SUFFICES ASSUME \A p \in 1..n1 : P1(p) # e PROVE \E q \in 1..n2 : P2(q) = e
  BY DEF Taken
<1> HIDE DEF P1, P2
<1> USE DEF Rising
<1> DEFINE First == {p \in 0..n1 : p = 0 \/ P1(p) < e}
           a == Max(First)
<1>3. a \in First /\ \A p \in First : p <= a
  <2>0. n1 \in Nat
    BY DEF Rising
  <2>1. First \subseteq 0..n1 /\ 0 \in First /\ n1 \in Nat
    BY <2>0
  <2>2. n1 \in Nat /\ First \subseteq Nat /\ First # {} /\ \A p \in First : p <= n1
    BY <2>1
  <2> HIDE DEF First
  <2> QED
    BY <2>2, GreatestNumber
<1>4. a \in 0..n1 /\ (a # 0 => P1(a) < e) /\ \A p \in 1..n1 : P1(p) < e => p <= a
  BY <1>3
<1> HIDE DEF a
<1>5. ASSUME NEW p \in 1..n1 PROVE P1(p) \in Nat /\ (p > a => e < P1(p))
  <2>1. P1(p) \in p..(p + n2) /\ P1(p) # e /\ (P1(p) < e => p <= a)
    BY <1>1, <1>4
  <2> QED
    BY <1>4, <2>1
<1> DEFINE b == e - a
<1>6. b \in 1..n2
  <2>1. b >= 1
    <3>1. a # 0 => a <= P1(a) /\ P1(a) \in Nat
      BY <1>1, <1>4
    <3> QED
      BY <1>4, <3>1
  <2>2. CASE a = n1
    BY <2>1, <2>2
  <2>3. CASE a # n1
    <3>1. a + 1 \in 1..n1
      BY <1>4, <2>3
    <3>2. P1(a + 1) \in (a + 1)..((a + 1) + n2) /\ e < P1(a + 1)
      BY <1>1, <1>4, <1>5, <3>1
    <3> QED
      BY <1>4, <2>1, <3>2
  <2> QED
    BY <2>2, <2>3
<1>7. a + b = e
  BY <1>4
<1> HIDE DEF b
<1>8. a # 0 => s1[a].t <= s2[b].t
  <2>1. SUFFICES ASSUME a # 0, s2[b].t < s1[a].t PROVE FALSE
    BY <1>4, <1>6
  <2>2. a + b <= P1(a)
    BY <1>1, <1>4, <1>6, <2>1
  <2> QED
    BY <1>4, <1>5, <1>7, <2>1, <2>2
<1>9. a # n1 => a + 1 \in 1..n1 /\ s2[b].t < s1[a + 1].t
  <2>1. SUFFICES ASSUME a # n1, s1[a + 1].t <= s2[b].t PROVE FALSE
    BY <1>4, <1>6
  <2>2. a + 1 \in 1..n1
    BY <1>4, <2>1
  <2>3. P1(a + 1) < (a + 1) + b
    BY <1>1, <1>6, <2>1, <2>2
  <2>4. e < P1(a + 1) /\ P1(a + 1) \in Nat
    BY <1>4, <1>5, <2>2
  <2> QED
    BY <1>4, <1>6, <1>7, <2>3, <2>4
<1>10. P2(b) \in Nat /\ e <= P2(b)
  <2>1. P2(b) \in b..(b + n1)
    BY <1>1, <1>6
  <2>2. a # 0 => a + b <= P2(b)
    BY <1>1, <1>4, <1>6, <1>8
  <2> QED
    BY <1>4, <1>6, <1>7, <2>1, <2>2
<1>11. P2(b) <= e
  <2>1. P2(b) \in b..(b + n1)
    BY <1>1, <1>6
  <2>2. a # n1 => P2(b) < (a + 1) + b
    BY <1>1, <1>4, <1>6, <1>9
  <2> QED
    BY <1>4, <1>6, <1>7, <2>1, <2>2
<1> QED
  BY <1>6, <1>10, <1>11

\* What the merged array has at each place.
LEMMA StableMergeAt ==
  ASSUME NEW s1, NEW s2, NEW n1, NEW n2, Rising(s1, n1), Rising(s2, n2),
         Len(s1) = n1, Len(s2) = n2
  PROVE  /\ StableMerge(s1, s2) = [e \in 1..(n1 + n2) |-> StableMerge(s1, s2)[e]]
         /\ \A p \in 1..n1 : /\ Place1(s1, s2, n2, p) \in 1..(n1 + n2)
                             /\ StableMerge(s1, s2)[Place1(s1, s2, n2, p)] = s1[p]
         /\ \A q \in 1..n2 : /\ Place2(s1, s2, n1, q) \in 1..(n1 + n2)
                             /\ StableMerge(s1, s2)[Place2(s1, s2, n1, q)] = s2[q]
<1> DEFINE P1(p) == Place1(s1, s2, n2, p)
           P2(q) == Place2(s1, s2, n1, q)
<1>1. StableMerge(s1, s2) =
        [e \in 1..(n1 + n2) |->
           IF \E p \in 1..n1 : P1(p) = e THEN s1[CHOOSE p \in 1..n1 : P1(p) = e]
           ELSE s2[CHOOSE q \in 1..n2 : P2(q) = e]]
  BY DEF StableMerge, Place1, Place2, Before, UpToTime
<1>2. /\ \A p \in 1..n1 : P1(p) \in p..(p + n2)
      /\ \A q \in 1..n2 : P2(q) \in q..(q + n1)
  BY Places
<1>3. /\ \A p, r \in 1..n1 : P1(p) = P1(r) => p = r
      /\ \A q, r \in 1..n2 : P2(q) = P2(r) => q = r
      /\ \A p \in 1..n1, q \in 1..n2 : P1(p) # P2(q)
  <2>1. /\ \A p, r \in 1..n1 : p < r => P1(p) < P1(r)
        /\ \A q, r \in 1..n2 : q < r => P2(q) < P2(r)
        /\ \A p \in 1..n1, q \in 1..n2 :
             IF s2[q].t < s1[p].t THEN P2(q) < P1(p) ELSE P1(p) < P2(q)
    BY PlacesApart
  <2> HIDE DEF P1, P2
  <2>2. n1 \in Nat /\ n2 \in Nat
    BY DEF Rising
  <2>3. /\ \A p \in 1..n1 : P1(p) \in Int
        /\ \A q \in 1..n2 : P2(q) \in Int
    BY <1>2, <2>2
  <2>4. ASSUME NEW p \in 1..n1, NEW r \in 1..n1, P1(p) = P1(r) PROVE p = r
    BY <2>1, <2>2, <2>3, <2>4
  <2>5. ASSUME NEW q \in 1..n2, NEW r \in 1..n2, P2(q) = P2(r) PROVE q = r
    BY <2>1, <2>2, <2>3, <2>5
  <2>6. ASSUME NEW p \in 1..n1, NEW q \in 1..n2 PROVE P1(p) # P2(q)
    BY <2>1, <2>3
  <2> QED
    BY <2>4, <2>5, <2>6
<1> HIDE DEF P1, P2
<1>4. n1 \in Nat /\ n2 \in Nat
  BY DEF Rising
<1>5. ASSUME NEW p \in 1..n1 PROVE P1(p) \in 1..(n1 + n2) /\ StableMerge(s1, s2)[P1(p)] = s1[p]
  <2>1. P1(p) \in 1..(n1 + n2)
    BY <1>2, <1>4
  <2>2. (CHOOSE r \in 1..n1 : P1(r) = P1(p)) = p
    BY <1>3
  <2> QED
    BY <1>1, <2>1, <2>2
<1>6. ASSUME NEW q \in 1..n2 PROVE P2(q) \in 1..(n1 + n2) /\ StableMerge(s1, s2)[P2(q)] = s2[q]
  <2>1. P2(q) \in 1..(n1 + n2)
    BY <1>2, <1>4
  <2>2. (CHOOSE r \in 1..n2 : P2(r) = P2(q)) = q
    BY <1>3
  <2>3. ~\E p \in 1..n1 : P1(p) = P2(q)
    BY <1>3
  <2> QED
    BY <1>1, <2>1, <2>2, <2>3
<1> QED
  BY <1>1, <1>5, <1>6 DEF P1, P2

\* The merge of two sorted arrays has the points of both, in the order of time.
LEMMA StableMergeSorted ==
  ASSUME NEW S, NEW s1 \in Seq(S), NEW s2 \in Seq(S),
         Rising(s1, Len(s1)), Rising(s2, Len(s2))
  PROVE  /\ StableMerge(s1, s2) \in Seq(S)
         /\ Len(StableMerge(s1, s2)) = Len(s1) + Len(s2)
         /\ Rising(StableMerge(s1, s2), Len(s1) + Len(s2))
<1> DEFINE n1 == Len(s1)
           n2 == Len(s2)
           P1(p) == Place1(s1, s2, n2, p)
           P2(q) == Place2(s1, s2, n1, q)
           sm == StableMerge(s1, s2)
<1>1. /\ n1 \in Nat /\ n2 \in Nat
      /\ \A p \in 1..n1 : s1[p] \in S
      /\ \A q \in 1..n2 : s2[q] \in S
  OBVIOUS
<1>2. /\ sm = [e \in 1..(n1 + n2) |-> sm[e]]
      /\ \A p \in 1..n1 : P1(p) \in 1..(n1 + n2) /\ sm[P1(p)] = s1[p]
      /\ \A q \in 1..n2 : P2(q) \in 1..(n1 + n2) /\ sm[P2(q)] = s2[q]
  BY StableMergeAt
<1>3. /\ \A p, r \in 1..n1 : p < r => P1(p) < P1(r)
      /\ \A q, r \in 1..n2 : q < r => P2(q) < P2(r)
      /\ \A p \in 1..n1, q \in 1..n2 :
           IF s2[q].t < s1[p].t THEN P2(q) < P1(p) ELSE P1(p) < P2(q)
  BY PlacesApart
<1>4. ASSUME NEW e \in 1..(n1 + n2)
      PROVE  (\E p \in 1..n1 : P1(p) = e) \/ (\E q \in 1..n2 : P2(q) = e)
  <2>1. Taken(s1, s2, n1, n2, e)
    BY PlaceTaken
  <2> QED
    BY <2>1 DEF Taken
<1>r. /\ \A p \in 1..n1 : s1[p].t \in Nat
      /\ \A q \in 1..n2 : s2[q].t \in Nat
      /\ \A p, r \in 1..n1 : p <= r => s1[p].t <= s1[r].t
      /\ \A q, r \in 1..n2 : q <= r => s2[q].t <= s2[r].t
  BY DEF Rising
<1> HIDE DEF n1, n2, P1, P2, sm
<1>5. \A e \in 1..(n1 + n2) : \/ \E p \in 1..n1 : P1(p) = e /\ sm[e] = s1[p]
                              \/ \E q \in 1..n2 : P2(q) = e /\ sm[e] = s2[q]
  BY <1>2, <1>4
<1>6. ASSUME NEW e \in 1..(n1 + n2) PROVE sm[e] \in S /\ sm[e].t \in Nat
  <2>1. (\E p \in 1..n1 : sm[e] = s1[p]) \/ (\E q \in 1..n2 : sm[e] = s2[q])
    BY <1>5
  <2>2. ASSUME NEW p \in 1..n1, sm[e] = s1[p] PROVE sm[e] \in S /\ sm[e].t \in Nat
    <3>1. s1[p] \in S
      BY <1>1
    <3>2. s1[p].t \in Nat
      BY <1>r
    <3> QED
      BY <3>1, <3>2, <2>2
  <2>3. ASSUME NEW q \in 1..n2, sm[e] = s2[q] PROVE sm[e] \in S /\ sm[e].t \in Nat
    <3>1. s2[q] \in S
      BY <1>1
    <3>2. s2[q].t \in Nat
      BY <1>r
    <3> QED
      BY <3>1, <3>2, <2>3
  <2> QED
    BY <2>1, <2>2, <2>3
<1>7. ASSUME NEW d \in 1..(n1 + n2), NEW e \in 1..(n1 + n2), d <= e PROVE sm[d].t <= sm[e].t
  <2>0. d < e \/ d = e
    BY <1>1, <1>7
  <2>1. CASE d = e
    BY <1>6, <2>1
  <2>2. CASE d < e
    <3>1. ASSUME NEW p \in 1..n1, P1(p) = d, sm[d] = s1[p],
                 NEW r \in 1..n1, P1(r) = e, sm[e] = s1[r]
          PROVE  sm[d].t <= sm[e].t
      <4>1. ~(r < p)
        BY <1>1, <1>3, <2>2, <3>1
      <4>2. p <= r
        BY <1>1, <4>1
      <4> QED
        BY <1>r, <3>1, <4>2
    <3>2. ASSUME NEW p \in 1..n1, P1(p) = d, sm[d] = s1[p],
                 NEW r \in 1..n2, P2(r) = e, sm[e] = s2[r]
          PROVE  sm[d].t <= sm[e].t
      <4>1. ~(s2[r].t < s1[p].t)
        BY <1>1, <1>3, <2>2, <3>2
      <4> QED
        BY <1>6, <3>2, <4>1
    <3>3. ASSUME NEW q \in 1..n2, P2(q) = d, sm[d] = s2[q],
                 NEW r \in 1..n1, P1(r) = e, sm[e] = s1[r]
          PROVE  sm[d].t <= sm[e].t
      <4>1. s2[q].t < s1[r].t
        BY <1>1, <1>3, <2>2, <3>3
      <4> QED
        BY <1>6, <3>3, <4>1
    <3>4. ASSUME NEW q \in 1..n2, P2(q) = d, sm[d] = s2[q],
                 NEW r \in 1..n2, P2(r) = e, sm[e] = s2[r]
          PROVE  sm[d].t <= sm[e].t
      <4>1. ~(r < q)
        BY <1>1, <1>3, <2>2, <3>4
      <4>2. q <= r
        BY <1>1, <4>1
      <4> QED
        BY <1>r, <3>4, <4>2
    <3> QED
      BY <1>5, <3>1, <3>2, <3>3, <3>4
  <2> QED
    BY <2>0, <2>1, <2>2
<1>8. sm \in Seq(S) /\ Len(sm) = n1 + n2
  <2>1. sm \in [1..(n1 + n2) -> S]
    BY <1>2, <1>6
  <2> QED
    BY <1>1, <2>1, LenProperties
<1>9. Rising(sm, n1 + n2)
  <2>1. n1 + n2 \in Nat
    BY <1>1
  <2>2. \A p \in 1..(n1 + n2) : sm[p].t \in Nat
    BY <1>6
  <2>3. \A p, q \in 1..(n1 + n2) : p <= q => sm[p].t <= sm[q].t
    BY <1>7
  <2> QED
    BY <2>1, <2>2, <2>3, Zenon DEF Rising
<1> QED
  BY <1>8, <1>9 DEF sm, n1, n2

-----------------------------------------------------------------------------
(***************************************************************************)
(* The loops compute the stable merge.                                     *)
(***************************************************************************)
\* The arrays as Rising has them.
LEMMA LoopRising ==
  ASSUME MergeIInv
  PROVE  /\ Rising(old, m) /\ Rising(arr2, Len(arr2))
         /\ Len(old) = m /\ m \in Nat /\ Len(arr2) \in Nat
         /\ i \in 0..m /\ j \in 0..Len(arr2) /\ k = i + j
<1>1. /\ m \in Nat /\ Len(arr2) \in Nat
      /\ i \in 0..m /\ j \in 0..Len(arr2) /\ k = i + j
      /\ old \in [1..m -> MergePoint]
  BY DEF MergeIInv
<1>2. Len(old) = m
  BY <1>1, LenProperties
<1> QED
  BY <1>1, <1>2, Times, Zenon DEF Rising

\* The last point of arr1 left goes to k if it is later than the last of arr2.
LEMMA FirstGoesToK ==
  ASSUME MergeIInv, MergedSoFar, i > 0, j > 0 => arr2[j].t < old[i].t
  PROVE  StableMerge(old, arr2)[k] = old[i]
<1> DEFINE n == Len(arr2)
<1>1. /\ Rising(old, m) /\ Rising(arr2, n)
      /\ Len(old) = m /\ m \in Nat /\ n \in Nat
      /\ i \in 1..m /\ j \in 0..n /\ k = i + j
  BY LoopRising
<1>2. /\ Place1(old, arr2, n, i) \in i..(i + n)
      /\ \A q \in 1..n : /\ arr2[q].t < old[i].t => i + q <= Place1(old, arr2, n, i)
                         /\ old[i].t <= arr2[q].t => Place1(old, arr2, n, i) < i + q
  BY <1>1, Places
<1>3. j < n => old[i].t <= arr2[j + 1].t
  BY <1>1 DEF MergedSoFar
<1> DEFINE e == Place1(old, arr2, n, i)
<1>4. e \in i..(i + n) /\ (j > 0 => i + j <= e) /\ (j < n => e < i + (j + 1))
  <2>1. j > 0 => j \in 1..n
    BY <1>1
  <2>2. j < n => j + 1 \in 1..n
    BY <1>1
  <2> QED
    BY <1>2, <1>3, <2>1, <2>2
<1> HIDE DEF e
<1>5. e = k
  BY <1>1, <1>4
<1>6. StableMerge(old, arr2)[e] = old[i]
  BY <1>1, StableMergeAt DEF e
<1> QED
  BY <1>5, <1>6

\* And else the last point of arr2 left.
LEMMA SecondGoesToK ==
  ASSUME MergeIInv, MergedSoFar, j > 0, i > 0 => old[i].t <= arr2[j].t
  PROVE  StableMerge(old, arr2)[k] = arr2[j]
<1> DEFINE n == Len(arr2)
<1>1. /\ Rising(old, m) /\ Rising(arr2, n)
      /\ Len(old) = m /\ m \in Nat /\ n \in Nat
      /\ i \in 0..m /\ j \in 1..n /\ k = i + j
  BY LoopRising
<1>2. /\ Place2(old, arr2, m, j) \in j..(j + m)
      /\ \A p \in 1..m : /\ old[p].t <= arr2[j].t => p + j <= Place2(old, arr2, m, j)
                         /\ arr2[j].t < old[p].t => Place2(old, arr2, m, j) < p + j
  BY <1>1, Places
<1>3. i < m => arr2[j].t < old[i + 1].t
  BY <1>1 DEF MergedSoFar
<1> DEFINE e == Place2(old, arr2, m, j)
<1>4. e \in j..(j + m) /\ (i > 0 => i + j <= e) /\ (i < m => e < (i + 1) + j)
  <2>1. i > 0 => i \in 1..m
    BY <1>1
  <2>2. i < m => i + 1 \in 1..m
    BY <1>1
  <2> QED
    BY <1>2, <1>3, <2>1, <2>2
<1> HIDE DEF e
<1>5. e = k
  BY <1>1, <1>4
<1>6. StableMerge(old, arr2)[e] = arr2[j]
  BY <1>1, StableMergeAt DEF e
<1> QED
  BY <1>5, <1>6

\* Each turn of the loops puts a point where the stable merge has it.
LEMMA MergedSoFarStep ==
  MergeIInv /\ MergedSoFar /\ [MergeNext]_mergeVars => MergedSoFar'
<1> SUFFICES ASSUME MergeIInv, MergedSoFar, [MergeNext]_mergeVars PROVE MergedSoFar'
  OBVIOUS
<1>0. /\ m \in Nat /\ Len(arr2) \in Nat /\ i \in 0..m /\ j \in 0..Len(arr2) /\ k = i + j
      /\ arr1 \in [1..(m + Len(arr2)) -> MergePoint]
      /\ \A p \in 1..i : arr1[p] = old[p]
  BY DEF MergeIInv, InPlace
<1>a. /\ \A p \in 1..m : old[p].t \in Nat
      /\ \A p \in 1..Len(arr2) : arr2[p].t \in Nat
      /\ \A p, q \in 1..m : p <= q => old[p].t <= old[q].t
      /\ \A p, q \in 1..Len(arr2) : p <= q => arr2[p].t <= arr2[q].t
  BY Times
\* The rest of the merged array is not touched.
<1>b. ASSUME NEW x, StableMerge(old, arr2)[k] = x, k \in 1..(m + Len(arr2)),
             arr1' = [arr1 EXCEPT ![k] = x], k' = k - 1, UNCHANGED <<arr2, m, old>>
      PROVE  \A q \in (k' + 1)..(m + Len(arr2)) : arr1'[q] = StableMerge(old, arr2)[q]
  <2> SUFFICES ASSUME NEW q \in k..(m + Len(arr2))
               PROVE  arr1'[q] = StableMerge(old, arr2)[q]
    BY <1>0, <1>b
  <2>1. CASE q = k
    BY <1>0, <1>b, <2>1
  <2>2. CASE q # k
    <3>1. q \in (k + 1)..(m + Len(arr2))
      BY <1>0, <2>2
    <3> QED
      BY <1>0, <1>b, <3>1 DEF MergedSoFar
  <2> QED
    BY <2>1, <2>2
<1>1. CASE TakeFirst
  <2>1. /\ i \in 1..m /\ j \in 1..Len(arr2) /\ arr1[i] = old[i] /\ arr2[j].t < old[i].t
    <3>1. i > 0 /\ j > 0 /\ arr1[i].t > arr2[j].t
      BY <1>1 DEF TakeFirst
    <3>2. i \in 1..m /\ j \in 1..Len(arr2) /\ arr1[i] = old[i]
      BY <1>0, <3>1
    <3> QED
      BY <1>a, <3>1, <3>2
  <2>2. StableMerge(old, arr2)[k] = old[i]
    BY <2>1, FirstGoesToK
  <2>3. /\ arr1' = [arr1 EXCEPT ![k] = old[i]] /\ i' = i - 1 /\ j' = j /\ k' = k - 1
        /\ UNCHANGED <<arr2, m, old>>
    BY <1>1, <2>1 DEF TakeFirst
  <2>4. \A q \in (k' + 1)..(m + Len(arr2)) : arr1'[q] = StableMerge(old, arr2)[q]
    <3>1. k \in 1..(m + Len(arr2))
      BY <1>0, <2>1
    <3> QED
      BY <1>b, <2>2, <2>3, <3>1
  <2>5. \A p \in 1..(i - 1), q \in (j + 1)..Len(arr2) : old[p].t <= arr2[q].t
    <3>1. \A p \in 1..(i - 1) : p \in 1..i
      BY <2>1
    <3> QED
      BY <3>1 DEF MergedSoFar
  <2>6. \A p \in i..m, q \in 1..j : arr2[q].t < old[p].t
    <3> SUFFICES ASSUME NEW p \in i..m, NEW q \in 1..j PROVE arr2[q].t < old[p].t
      OBVIOUS
    <3>1. p \in 1..m /\ q \in 1..Len(arr2)
      BY <2>1
    <3>2. arr2[q].t <= arr2[j].t /\ old[i].t <= old[p].t
      BY <1>a, <2>1, <3>1
    <3> QED
      BY <1>a, <2>1, <3>1, <3>2
  <2>7. i' + 1 = i /\ i' \in Int
    BY <2>1, <2>3
  <2> QED
    BY <2>3, <2>4, <2>5, <2>6, <2>7 DEF MergedSoFar
<1>2. CASE TakeSecond
  <2>1. /\ j \in 1..Len(arr2) /\ (i > 0 => i \in 1..m /\ old[i].t <= arr2[j].t)
    BY <1>0, <1>2 DEF TakeSecond
  <2>2. StableMerge(old, arr2)[k] = arr2[j]
    BY <2>1, SecondGoesToK
  <2>3. /\ arr1' = [arr1 EXCEPT ![k] = arr2[j]] /\ i' = i /\ j' = j - 1 /\ k' = k - 1
        /\ UNCHANGED <<arr2, m, old>>
    BY <1>2 DEF TakeSecond
  <2>4. \A q \in (k' + 1)..(m + Len(arr2)) : arr1'[q] = StableMerge(old, arr2)[q]
    <3>1. k \in 1..(m + Len(arr2))
      BY <1>0, <2>1
    <3> QED
      BY <1>b, <2>2, <2>3, <3>1
  <2>5. \A p \in 1..i, q \in j..Len(arr2) : old[p].t <= arr2[q].t
    <3> SUFFICES ASSUME NEW p \in 1..i, NEW q \in j..Len(arr2) PROVE old[p].t <= arr2[q].t
      OBVIOUS
    <3>1. p \in 1..m /\ q \in 1..Len(arr2) /\ i > 0 /\ p <= i
      BY <1>0, <2>1
    <3>2. old[p].t <= old[i].t /\ arr2[j].t <= arr2[q].t
      BY <1>a, <2>1, <3>1
    <3> QED
      BY <1>a, <2>1, <3>1, <3>2
  <2>6. \A p \in (i + 1)..m, q \in 1..(j - 1) : arr2[q].t < old[p].t
    BY <1>0, <2>1 DEF MergedSoFar
  <2>7. j' + 1 = j /\ j' \in Int
    BY <2>1, <2>3
  <2> QED
    BY <2>3, <2>4, <2>5, <2>6, <2>7 DEF MergedSoFar
<1>3. CASE UNCHANGED mergeVars
  BY <1>3 DEF mergeVars, MergedSoFar
<1> QED
  BY <1>1, <1>2, <1>3 DEF MergeNext

\* The array that is returned is the stable merge of the two: every point of
\* both once, by time, and of equal times those of the first array first.
THEOREM StablyMerged == MergeSpec => []MergesStably
<1> DEFINE I == MergeIInv /\ MergedSoFar
<1>1. MergeInit => I
  <2>1. MergeInit => MergeIInv
    BY MergeInitIInv
  <2>2. MergeInit => MergedSoFar
    <3> SUFFICES ASSUME MergeInit PROVE MergedSoFar
      OBVIOUS
    <3>1. /\ m \in Nat /\ Len(arr2) \in Nat
      BY <2>1 DEF MergeIInv
    <3>2. i = m /\ j = Len(arr2) /\ k = m + Len(arr2)
      BY DEF MergeInit
    <3> QED
      BY <3>1, <3>2 DEF MergedSoFar
  <2> QED
    BY <2>1, <2>2
<1>2. I /\ [MergeNext]_mergeVars => I'
  BY MergeStepIInv, MergedSoFarStep
<1>3. I => MergesStably
  <2> SUFFICES ASSUME I, j = 0 PROVE arr1 = StableMerge(old, arr2)
    BY DEF MergesStably, MergeReturned
  <2> DEFINE n == Len(arr2)
  <2>1. /\ Rising(old, m) /\ Rising(arr2, n)
        /\ Len(old) = m /\ m \in Nat /\ n \in Nat
        /\ i \in 0..m /\ k = i
    BY LoopRising
  <2>2. arr1 = [e \in 1..(m + n) |-> arr1[e]]
    BY DEF MergeIInv
  <2>3. StableMerge(old, arr2) = [e \in 1..(m + n) |-> StableMerge(old, arr2)[e]]
    BY <2>1, StableMergeAt
  <2>4. ASSUME NEW p \in 1..i PROVE StableMerge(old, arr2)[p] = arr1[p]
    <3>1. p \in 1..m /\ arr1[p] = old[p]
      BY <2>1 DEF MergeIInv, InPlace
    <3>2. /\ Place1(old, arr2, n, p) \in p..(p + n)
          /\ 0 < n => Place1(old, arr2, n, p) < p + 1
      <4>1. /\ Place1(old, arr2, n, p) \in p..(p + n)
            /\ \A q \in 1..n : old[p].t <= arr2[q].t => Place1(old, arr2, n, p) < p + q
        BY <2>1, <3>1, Places
      <4>2. 0 < n => 1 \in 1..n /\ old[p].t <= arr2[1].t
        BY <2>1 DEF MergedSoFar
      <4> QED
        BY <4>1, <4>2
    <3>3. Place1(old, arr2, n, p) = p
      BY <2>1, <3>2
    <3>4. StableMerge(old, arr2)[Place1(old, arr2, n, p)] = old[p]
      <4>1. Len(arr2) = n
        OBVIOUS
      <4> HIDE DEF n
      <4> QED
        BY <2>1, <3>1, <4>1, StableMergeAt
    <3> QED
      BY <3>1, <3>3, <3>4
  <2>5. ASSUME NEW p \in 1..(m + n) PROVE StableMerge(old, arr2)[p] = arr1[p]
    <3>1. CASE p \in 1..i
      BY <2>4, <3>1
    <3>2. CASE p \notin 1..i
      <4>1. p \in (k + 1)..(m + n)
        BY <2>1, <3>2
      <4> QED
        BY <4>1 DEF MergedSoFar
    <3> QED
      BY <3>1, <3>2
  <2> HIDE DEF n
  <2> QED
    BY <2>2, <2>3, <2>5
<1> QED
  <2>1. MergeSpec => []I
    BY <1>1, <1>2, PTL DEF MergeSpec
  <2> QED
    BY <1>3, <2>1, PTL

-----------------------------------------------------------------------------
(***************************************************************************)
(* Cache: sets in order and first indices.                                 *)
(***************************************************************************)
\* What Ascending yields.
LEMMA AscendingIs ==
  ASSUME NEW T, T \subseteq Nat, IsFiniteSet(T)
  PROVE  /\ Cardinality(T) \in Nat
         /\ Ascending(T) \in [1..Cardinality(T) -> T]
         /\ Len(Ascending(T)) = Cardinality(T)
         /\ Increasing(Ascending(T), Cardinality(T))
         /\ \A x \in T : \E a \in 1..Cardinality(T) : Ascending(T)[a] = x
<1> DEFINE n == Cardinality(T)
           Rank(x) == Cardinality({y \in T : y < x})
<1>1. n \in Nat
  BY FS_CardinalityType
<1>2. PICK r \in [1..n -> T] : Increasing(r, n)
  BY Ranking
<1>3. /\ \A a, b \in 1..n : r[a] = r[b] => a = b
      /\ \A x \in T : \E a \in 1..n : r[a] = x
  BY <1>2, RankedIsAll
<1>4. ASSUME NEW a \in 1..n PROVE Rank(r[a]) = a - 1
  <2> DEFINE D == {y \in T : y < r[a]}
             g == [b \in 1..(a - 1) |-> r[b]]
  <2>1. IsFiniteSet(1..(a - 1)) /\ Cardinality(1..(a - 1)) = a - 1
    <3>1. a - 1 \in Nat
      BY <1>1
    <3> QED
      BY <3>1, FS_Interval
  <2>2. \A b \in 1..(a - 1) : b \in 1..n /\ b < a
    BY <1>1
  <2>3. \A b \in 1..(a - 1) : g[b] = r[b] /\ g[b] \in D
    BY <1>2, <2>2 DEF Increasing
  <2>4. \A b, c \in 1..(a - 1) : g[b] = g[c] => b = c
    BY <1>3, <2>2, <2>3
  <2>5. \A y \in D : \E b \in 1..(a - 1) : g[b] = y
    <3> SUFFICES ASSUME NEW y \in D PROVE \E b \in 1..(a - 1) : r[b] = y
      BY <2>3
    <3>1. PICK b \in 1..n : r[b] = y
      BY <1>3
    <3>2. r[b] < r[a] /\ r[b] \in Nat /\ r[a] \in Nat
      BY <3>1
    <3>3. ~(a <= b)
      <4>1. a < b => r[a] < r[b]
        BY <1>2 DEF Increasing
      <4> QED
        BY <1>1, <3>2, <4>1
    <3>4. b \in 1..(a - 1)
      BY <1>1, <3>3
    <3> QED
      BY <3>1, <3>4
  <2> HIDE DEF D, g
  <2>6. g \in [1..(a - 1) -> D]
    BY <2>3 DEF g
  <2>7. g \in Bijection(1..(a - 1), D)
    BY <2>4, <2>5, <2>6 DEF Bijection, Injection, IsInjective, Surjection
  <2>8. Cardinality(D) = a - 1
    BY <2>1, <2>7, FS_Bijection DEF ExistsBijection
  <2> QED
    BY <2>8 DEF D
<1> HIDE DEF Rank
<1>5. ASSUME NEW a \in 1..n PROVE (CHOOSE x \in T : Rank(x) = a - 1) = r[a]
  <2>1. \A x \in T : Rank(x) = a - 1 => x = r[a]
    <3> SUFFICES ASSUME NEW x \in T, Rank(x) = a - 1 PROVE x = r[a]
      OBVIOUS
    <3>1. PICK b \in 1..n : r[b] = x
      BY <1>3
    <3>2. b - 1 = a - 1
      BY <1>4, <3>1
    <3> QED
      BY <3>1, <3>2
  <2>2. r[a] \in T /\ Rank(r[a]) = a - 1
    BY <1>4
  <2> QED
    BY <2>1, <2>2
<1>6. Ascending(T) = [a \in 1..n |-> r[a]]
  BY <1>5 DEF Ascending, Rank
<1> HIDE DEF n
<1>7. Ascending(T) = r
  BY <1>6
<1>8. Len(r) = n
  BY <1>1
<1> QED
  BY <1>1, <1>2, <1>3, <1>7, <1>8 DEF n

\* What FirstIndex finds.
LEMMA FirstIndexIs ==
  ASSUME NEW s, NEW t \in Nat, Rising(s, Len(s))
  PROVE  /\ FirstIndex(s, t) \in 1..(Len(s) + 1)
         /\ \A a \in 1..Len(s) : s[a].t < t <=> a < FirstIndex(s, t)
<1> DEFINE n == Len(s)
           found == {a \in 1..n : s[a].t >= t}
<1>1. n \in Nat /\ \A a \in 1..n : s[a].t \in Nat
  BY DEF Rising
<1>2. CASE found = {}
  BY <1>1, <1>2 DEF FirstIndex
<1>3. CASE found # {}
  <2>0. found \subseteq Nat
    BY <1>1
  <2>1. PICK a \in found : \A b \in found : a <= b
    <3> HIDE DEF found
    <3> QED
      BY <1>3, <2>0, LeastNumber
  <2> DEFINE f == FirstIndex(s, t)
  <2>2. f = CHOOSE b \in found : \A c \in found : b <= c
    BY <1>3 DEF FirstIndex
  <2>3. f \in found /\ \A b \in found : f <= b
    BY <2>1, <2>2
  <2> HIDE DEF f
  <2>4. f \in 1..n /\ s[f].t >= t
    BY <2>3
  <2>5. ASSUME NEW b \in 1..n PROVE s[b].t < t <=> b < f
    <3>1. CASE b < f
      <4>1. b \notin found
        BY <1>1, <2>3, <2>4, <3>1
      <4> QED
        BY <1>1, <3>1, <4>1
    <3>2. CASE f <= b
      <4>1. s[f].t <= s[b].t
        BY <2>4, <3>2 DEF Rising
      <4> QED
        BY <1>1, <2>4, <3>2, <4>1
    <3> QED
      BY <1>1, <2>4, <3>1, <3>2
  <2> QED
    BY <1>1, <2>4, <2>5 DEF f
<1> QED
  BY <1>2, <1>3

-----------------------------------------------------------------------------
(***************************************************************************)
(* Cache: what is drawn of sorted series.                                  *)
(***************************************************************************)
Point == [t : Time, v : Nat]

SeriesOK(ss) ==
  /\ ss \in [Pos -> Seq(Point)]
  /\ \A p \in Pos : Rising(ss[p], Len(ss[p]))

Row == [t : Nat, cells : [Pos -> Nat \cup {NaN, Null}]]

\* All points are drawn.
All == [p \in Pos |-> 1]

Froms == [Pos -> Nat \ {0}]

LEMMA AllIsFrom == All \in Froms /\ \A p \in Pos : All[p] = 1
BY DEF All, Froms

\* A point of a sorted series.
LEMMA PointOf ==
  ASSUME NEW ss, SeriesOK(ss), NEW p \in Pos
  PROVE  /\ Len(ss[p]) \in Nat /\ Rising(ss[p], Len(ss[p]))
         /\ \A a \in 1..Len(ss[p]) :
              ss[p][a] \in Point /\ ss[p][a].t \in Time /\ ss[p][a].v \in Nat
              /\ ss[p][a].t \in Nat /\ ss[p][a].t > 0
<1>1. ss[p] \in Seq(Point) /\ Rising(ss[p], Len(ss[p]))
  BY DEF SeriesOK
<1>2. Len(ss[p]) \in Nat /\ \A a \in 1..Len(ss[p]) : ss[p][a] \in Point
  <2> HIDE DEF Point
  <2> QED
    BY <1>1
<1>3. \A x \in Point : x.t \in Time /\ x.v \in Nat /\ x.t \in Nat /\ x.t > 0
  <2>1. \A x \in Point : x.t \in Time /\ x.v \in Nat
    BY DEF Point
  <2>2. \A x \in Time : x \in Nat /\ x > 0
    BY CacheAssumption
  <2> QED
    BY <2>1, <2>2
<1> QED
  BY <1>1, <1>2, <1>3

\* The times at which something can be drawn are finitely many.
Spots == Time \cup {x - 1 : x \in Time}

LEMMA SpotsFinite == Spots \subseteq Nat /\ IsFiniteSet(Spots)
<1> DEFINE g == [x \in Time |-> x - 1]
           D == {x - 1 : x \in Time}
<1>1. IsFiniteSet(Time) /\ Time \subseteq Nat \ {0}
  BY CacheAssumption
<1>2. g \in Surjection(Time, D)
  BY DEF Surjection
<1>3. IsFiniteSet(D)
  <2> HIDE DEF g, D
  <2> QED
    BY <1>1, <1>2, FS_Surjection
<1>4. IsFiniteSet(Time \cup D)
  BY <1>1, <1>3, FS_Union
<1>5. D \subseteq Nat
  BY <1>1
<1> QED
  BY <1>1, <1>4, <1>5 DEF Spots

\* A series has no point where a gap before one of its points is.
LEMMA GapIsFree ==
  ASSUME NEW ss, SeriesOK(ss), NEW from \in Froms, NEW start \in Froms, NEW p \in Pos,
         NEW t \in Nat, GapAt(ss, from, p, t)
  PROVE  PointsAt(ss, start, p, t) = {}
<1>1. /\ Len(ss[p]) \in Nat /\ Rising(ss[p], Len(ss[p]))
      /\ \A a \in 1..Len(ss[p]) : ss[p][a].t \in Nat
  BY PointOf
<1>2. from[p] \in Nat \ {0} /\ start[p] \in Nat \ {0} /\ MaxGap \in Nat \ {0}
  BY CacheAssumption DEF Froms
<1>3. PICK a \in from[p]..Len(ss[p]) : PauseBefore(ss[p], a) /\ ss[p][a].t = t + 1
  BY DEF GapAt
<1>4. a \in 1..Len(ss[p]) /\ a - 1 \in 1..Len(ss[p]) /\ ss[p][a - 1].t < t
  BY <1>1, <1>2, <1>3 DEF PauseBefore
<1>5. ASSUME NEW b \in 1..Len(ss[p]) PROVE ss[p][b].t # t
  <2>1. CASE a <= b
    BY <1>1, <1>3, <1>4, <2>1 DEF Rising
  <2>2. CASE b <= a - 1
    BY <1>1, <1>4, <2>2 DEF Rising
  <2> QED
    BY <1>4, <2>1, <2>2
<1> QED
  BY <1>1, <1>2, <1>5 DEF PointsAt

\* What a cell shows.
LEMMA CellIs ==
  ASSUME NEW ss, SeriesOK(ss), NEW from \in Froms, NEW p \in Pos, NEW t \in Nat
  PROVE  /\ PointsAt(ss, from, p, t) \in SUBSET (1..Len(ss[p]))
         /\ PointsAt(ss, from, p, t) # {} =>
              /\ CellAt(ss, from, p, t) = ss[p][Max(PointsAt(ss, from, p, t))].v
              /\ CellAt(ss, from, p, t) \in Nat
         /\ PointsAt(ss, from, p, t) = {} =>
              CellAt(ss, from, p, t) = IF GapAt(ss, from, p, t) THEN NaN ELSE Null
         /\ CellAt(ss, from, p, t) \in Nat \cup {NaN, Null}
         /\ CellAt(ss, from, p, t) = Null <=>
              PointsAt(ss, from, p, t) = {} /\ ~GapAt(ss, from, p, t)
<1> DEFINE at == PointsAt(ss, from, p, t)
           n == Len(ss[p])
<1>1. n \in Nat /\ \A a \in 1..n : ss[p][a].v \in Nat
  BY PointOf
<1>2. from[p] \in Nat \ {0}
  BY DEF Froms
<1>3. at \subseteq 1..n
  BY <1>1, <1>2 DEF PointsAt
<1>4. ASSUME at # {} PROVE Max(at) \in at
  <2>1. at \subseteq Nat /\ \A x \in at : x <= n
    BY <1>1, <1>3
  <2> HIDE DEF at, n
  <2> QED
    BY <1>1, <1>4, <2>1, GreatestNumber
<1>5. NaN # Null /\ NaN \notin Nat /\ Null \notin Nat
  BY CacheAssumption
<1>6. CASE at # {}
  <2>1. CellAt(ss, from, p, t) = ss[p][Max(at)].v
    BY <1>6 DEF CellAt
  <2> HIDE DEF at
  <2>2. CellAt(ss, from, p, t) \in Nat
    BY <1>1, <1>3, <1>4, <1>6, <2>1
  <2> QED
    BY <1>3, <1>5, <1>6, <2>1, <2>2 DEF at
<1>7. CASE at = {}
  <2>1. CellAt(ss, from, p, t) = IF GapAt(ss, from, p, t) THEN NaN ELSE Null
    BY <1>7 DEF CellAt
  <2> QED
    BY <1>3, <1>5, <1>7, <2>1
<1> QED
  BY <1>6, <1>7

\* There is a row for each time at which a cell is filled.
LEMMA RowTimesIs ==
  ASSUME NEW ss, SeriesOK(ss), NEW from \in Froms
  PROVE  /\ RowTimes(ss, from) \subseteq Nat
         /\ IsFiniteSet(RowTimes(ss, from))
         /\ \A t \in Nat : t \in RowTimes(ss, from) <=>
                             \E p \in Pos : CellAt(ss, from, p, t) # Null
<1> DEFINE Ts(p) == {ss[p][a].t : a \in from[p]..Len(ss[p])}
           Gs(p) == {ss[p][a].t - 1 : a \in {b \in from[p]..Len(ss[p]) : PauseBefore(ss[p], b)}}
<1>1. RowTimes(ss, from) = UNION {Ts(p) \cup Gs(p) : p \in Pos}
  BY DEF RowTimes
<1>2. ASSUME NEW p \in Pos
      PROVE  /\ Len(ss[p]) \in Nat /\ from[p] \in Nat \ {0}
             /\ \A a \in from[p]..Len(ss[p]) :
                  ss[p][a].t \in Time /\ ss[p][a].t \in Nat
  <2>1. from[p] \in Nat \ {0} /\ Len(ss[p]) \in Nat
    BY PointOf DEF Froms
  <2>2. \A a \in from[p]..Len(ss[p]) : a \in 1..Len(ss[p])
    BY <2>1
  <2> QED
    BY <2>1, <2>2, PointOf
<1>3. ASSUME NEW p \in Pos PROVE Ts(p) \cup Gs(p) \subseteq Spots
  BY <1>2 DEF Spots
<1>4. RowTimes(ss, from) \subseteq Spots
  BY <1>1, <1>3
<1>5. ASSUME NEW t \in Nat, NEW p \in Pos
      PROVE  t \in Ts(p) \cup Gs(p) <=> CellAt(ss, from, p, t) # Null
  <2>1. t \in Ts(p) <=> PointsAt(ss, from, p, t) # {}
    BY DEF PointsAt
  <2>2. t \in Gs(p) <=> GapAt(ss, from, p, t)
    <3>1. \A a \in from[p]..Len(ss[p]) : ss[p][a].t - 1 = t <=> ss[p][a].t = t + 1
      BY <1>2
    <3> QED
      BY <3>1 DEF GapAt
  <2> QED
    BY <2>1, <2>2, CellIs
<1>6. IsFiniteSet(RowTimes(ss, from)) /\ RowTimes(ss, from) \subseteq Nat
  BY <1>4, SpotsFinite, FS_Subset
<1> QED
  BY <1>1, <1>5, <1>6

\* The rows that are drawn.
LEMMA DrawIs ==
  ASSUME NEW ss, SeriesOK(ss), NEW from \in Froms
  PROVE  /\ Draw(ss, from) \in Seq(Row)
         /\ \A a, b \in 1..Len(Draw(ss, from)) :
              a < b => Draw(ss, from)[a].t < Draw(ss, from)[b].t
         /\ \A a \in 1..Len(Draw(ss, from)) :
              /\ Draw(ss, from)[a].t \in RowTimes(ss, from)
              /\ \A p \in Pos : Draw(ss, from)[a].cells[p] = CellAt(ss, from, p, Draw(ss, from)[a].t)
         /\ \A t \in RowTimes(ss, from) :
              \E a \in 1..Len(Draw(ss, from)) : Draw(ss, from)[a].t = t
<1> DEFINE T == RowTimes(ss, from)
           times == Ascending(T)
           n == Cardinality(T)
           d == Draw(ss, from)
<1>1. T \subseteq Nat /\ IsFiniteSet(T)
  BY RowTimesIs
<1>2. /\ n \in Nat /\ times \in [1..n -> T] /\ Len(times) = n
      /\ Increasing(times, n) /\ \A x \in T : \E a \in 1..n : times[a] = x
  <2> HIDE DEF T
  <2> QED
    BY <1>1, AscendingIs
<1>3. d = [a \in 1..n |->
             [t |-> times[a], cells |-> [p \in Pos |-> CellAt(ss, from, p, times[a])]]]
  BY <1>2 DEF Draw
<1> HIDE DEF T, times, n, d
<1>4. ASSUME NEW a \in 1..n
      PROVE  /\ d[a] \in Row /\ d[a].t = times[a] /\ d[a].t \in T
             /\ \A p \in Pos : d[a].cells[p] = CellAt(ss, from, p, d[a].t)
  <2>1. times[a] \in T /\ times[a] \in Nat
    BY <1>1, <1>2
  <2>2. \A p \in Pos : CellAt(ss, from, p, times[a]) \in Nat \cup {NaN, Null}
    BY <2>1, CellIs
  <2> QED
    BY <1>3, <2>1, <2>2 DEF Row
<1>5. Len(d) = n /\ d \in Seq(Row)
  <2>1. d \in [1..n -> Row]
    <3> HIDE DEF Row
    <3> QED
      BY <1>3, <1>4
  <2> HIDE DEF Row
  <2> QED
    BY <1>2, <2>1
<1>6. \A a, b \in 1..n : a < b => d[a].t < d[b].t
  BY <1>2, <1>4 DEF Increasing
<1>7. \A t \in T : \E a \in 1..n : d[a].t = t
  BY <1>2, <1>4
<1> QED
  BY <1>4, <1>5, <1>6, <1>7 DEF d, T

-----------------------------------------------------------------------------
(***************************************************************************)
(* Cache: merging points that are not before minT.                         *)
(***************************************************************************)
\* What stays where it was: f is the first of the points from B on.
MergedFrom(s1, sm, B, f) ==
  /\ f \in 1..(Len(s1) + 1) /\ Len(s1) <= Len(sm)
  /\ \A a \in 1..Len(s1) : s1[a].t < B <=> a < f
  /\ \A a \in 1..Len(sm) : sm[a].t < B <=> a < f
  /\ \A a \in 1..Len(s1) : s1[a].t <= B => sm[a] = s1[a]

LEMMA MergeSingleIs ==
  ASSUME NEW s1 \in Seq(Point), Rising(s1, Len(s1)),
         NEW s2 \in Seq(Point), Rising(s2, Len(s2)),
         NEW B \in Nat, \A a \in 1..Len(s2) : B <= s2[a].t
  PROVE  /\ MergeSingleSeries(s1, s2) \in Seq(Point)
         /\ Rising(MergeSingleSeries(s1, s2), Len(MergeSingleSeries(s1, s2)))
         /\ MergedFrom(s1, MergeSingleSeries(s1, s2), B, FirstIndex(s1, B))
<1> DEFINE n1 == Len(s1)
           n2 == Len(s2)
           sm == MergeSingleSeries(s1, s2)
           f  == FirstIndex(s1, B)
<1>1. /\ n1 \in Nat /\ \A a \in 1..n1 : s1[a].t \in Nat
      /\ n2 \in Nat /\ \A a \in 1..n2 : s2[a].t \in Nat
  BY DEF Rising
<1>2. f \in 1..(n1 + 1) /\ \A a \in 1..n1 : s1[a].t < B <=> a < f
  BY FirstIndexIs
<1>3. CASE s1 = <<>>
  <2>1. n1 = 0 /\ f = 1 /\ sm = s2
    BY <1>1, <1>2, <1>3 DEF MergeSingleSeries
  <2>2. \A a \in 1..n2 : s2[a].t < B <=> a < 1
    BY <1>1
  <2> HIDE DEF n1, f, sm, Point
  <2>3. MergedFrom(s1, s2, B, f)
    BY <1>1, <2>1, <2>2 DEF MergedFrom, n1
  <2> QED
    BY <2>1, <2>3 DEF f, sm
<1>4. CASE s1 # <<>>
  <2>1. sm = StableMerge(s1, s2)
    BY <1>4 DEF MergeSingleSeries
  <2>2. sm \in Seq(Point) /\ Len(sm) = n1 + n2 /\ Rising(sm, n1 + n2)
    <3> HIDE DEF sm, Point
    <3> QED
      BY <2>1, StableMergeSorted
  <2> DEFINE P1(p) == Place1(s1, s2, n2, p)
             P2(q) == Place2(s1, s2, n1, q)
  <2>3. /\ \A p \in 1..n1 : P1(p) \in 1..(n1 + n2) /\ sm[P1(p)] = s1[p]
        /\ \A q \in 1..n2 : P2(q) \in 1..(n1 + n2) /\ sm[P2(q)] = s2[q]
    BY <2>1, StableMergeAt
  <2>4. ASSUME NEW p \in 1..n1, s1[p].t <= B PROVE sm[p] = s1[p] /\ P1(p) = p
    <3>1. P1(p) \in p..(p + n2)
      BY Places
    <3>2. P1(p) = p
      <4> SUFFICES ASSUME P1(p) # p PROVE FALSE
        OBVIOUS
      <4> HIDE DEF P1
      <4>1. 1 \in 1..n2
        BY <1>1, <3>1
      <4>2. s1[p].t <= s2[1].t
        BY <1>1, <2>4, <4>1
      <4>3. P1(p) < p + 1
        BY <4>1, <4>2, Places DEF P1
      <4> QED
        BY <1>1, <3>1, <4>3
    <3> QED
      BY <2>3, <3>2
  <2>5. ASSUME NEW e \in 1..(n1 + n2) PROVE sm[e].t < B <=> e < f
    <3>1. CASE e < f
      <4>1. e \in 1..n1 /\ s1[e].t < B
        BY <1>1, <1>2, <3>1
      <4>2. sm[e] = s1[e]
        BY <1>1, <2>4, <4>1
      <4> QED
        BY <3>1, <4>1, <4>2
    <3>2. CASE ~(e < f)
      <4> SUFFICES ASSUME sm[e].t < B PROVE FALSE
        BY <3>2
      <4>1. Taken(s1, s2, n1, n2, e)
        BY PlaceTaken
      <4>2. PICK p \in 1..n1 : P1(p) = e
        <5>1. ASSUME NEW q \in 1..n2, P2(q) = e PROVE FALSE
          <6>1. sm[e] = s2[q]
            BY <2>3, <5>1
          <6> QED
            BY <1>1, <6>1
        <5> QED
          BY <4>1, <5>1 DEF Taken
      <4>3. sm[e] = s1[p]
        BY <2>3, <4>2
      <4>4. p < f /\ s1[p].t <= B
        BY <1>1, <1>2, <4>3
      <4>5. P1(p) = p
        BY <2>4, <4>4
      <4> HIDE DEF P1
      <4> QED
        BY <1>2, <3>2, <4>2, <4>4, <4>5
    <3> QED
      BY <3>1, <3>2
  <2> HIDE DEF sm, f, Point
  <2>6. MergedFrom(s1, sm, B, f)
    BY <1>1, <1>2, <2>2, <2>4, <2>5 DEF MergedFrom
  <2> QED
    BY <2>2, <2>6 DEF sm, f
<1> QED
  BY <1>3, <1>4

\* Every series grows by points from B on, and is drawn from its first such
\* point.
Grown(ss, ss2, B, from) ==
  /\ SeriesOK(ss) /\ SeriesOK(ss2) /\ B \in Nat \ {0} /\ from \in Froms
  /\ \A p \in Pos : MergedFrom(ss[p], ss2[p], B, from[p])

\* The cells before B show what they showed, but that a gap may open just
\* before B.
LEMMA CellsBefore ==
  ASSUME NEW ss, NEW ss2, NEW B, NEW from, Grown(ss, ss2, B, from),
         NEW p \in Pos, NEW t \in Nat, t < B
  PROVE  /\ PointsAt(ss2, All, p, t) = PointsAt(ss, All, p, t)
         /\ PointsAt(ss, All, p, t) # {} => CellAt(ss2, All, p, t) = CellAt(ss, All, p, t)
         /\ t + 1 < B => CellAt(ss2, All, p, t) = CellAt(ss, All, p, t)
         /\ CellAt(ss, All, p, t) # Null => CellAt(ss2, All, p, t) = CellAt(ss, All, p, t)
<1> DEFINE s == ss[p]
           sm == ss2[p]
           f == from[p]
           at == PointsAt(ss, All, p, t)
           at2 == PointsAt(ss2, All, p, t)
<1>1. /\ Len(s) \in Nat /\ Rising(s, Len(s)) /\ \A a \in 1..Len(s) : s[a].t \in Nat
      /\ Len(sm) \in Nat /\ Rising(sm, Len(sm)) /\ \A a \in 1..Len(sm) : sm[a].t \in Nat
  BY PointOf DEF Grown
<1>2. /\ SeriesOK(ss) /\ SeriesOK(ss2) /\ All \in Froms /\ All[p] = 1 /\ B \in Nat \ {0}
  BY AllIsFrom DEF Grown
<1>3. /\ f \in 1..(Len(s) + 1) /\ Len(s) <= Len(sm)
      /\ \A a \in 1..Len(s) : s[a].t < B <=> a < f
      /\ \A a \in 1..Len(sm) : sm[a].t < B <=> a < f
      /\ \A a \in 1..Len(s) : s[a].t <= B => sm[a] = s[a]
  BY DEF Grown, MergedFrom
<1>4. /\ at = {a \in 1..Len(s) : s[a].t = t}
      /\ at2 = {a \in 1..Len(sm) : sm[a].t = t}
      /\ GapAt(ss, All, p, t) <=>
           \E a \in 1..Len(s) : PauseBefore(s, a) /\ s[a].t = t + 1
      /\ GapAt(ss2, All, p, t) <=>
           \E a \in 1..Len(sm) : PauseBefore(sm, a) /\ sm[a].t = t + 1
  BY <1>2 DEF PointsAt, GapAt
<1> HIDE DEF s, sm, f, at, at2
<1>5. \A a \in 1..Len(sm) : sm[a].t = t => a \in 1..Len(s) /\ sm[a] = s[a]
  <2> SUFFICES ASSUME NEW a \in 1..Len(sm), sm[a].t = t PROVE a \in 1..Len(s) /\ sm[a] = s[a]
    OBVIOUS
  <2>1. a < f /\ a \in 1..Len(s)
    BY <1>1, <1>2, <1>3
  <2>2. s[a].t < B
    BY <1>3, <2>1
  <2> QED
    BY <1>1, <1>2, <1>3, <2>1, <2>2
<1>6. \A a \in 1..Len(s) : s[a].t = t => a \in 1..Len(sm) /\ sm[a] = s[a]
  BY <1>1, <1>2, <1>3
<1>7. at2 = at
  BY <1>4, <1>5, <1>6
<1>8. at # {} => CellAt(ss2, All, p, t) = CellAt(ss, All, p, t)
  <2> SUFFICES ASSUME at # {} PROVE CellAt(ss2, All, p, t) = CellAt(ss, All, p, t)
    OBVIOUS
  <2>1. /\ CellAt(ss, All, p, t) = s[Max(at)].v
        /\ CellAt(ss2, All, p, t) = sm[Max(at)].v
    BY <1>2, <1>7, CellIs DEF s, sm, at, at2
  <2>2. Max(at) \in at
    <3>1. at \subseteq Nat /\ \A x \in at : x <= Len(s)
      BY <1>1, <1>4
    <3> QED
      BY <1>1, <3>1, GreatestNumber
  <2> QED
    BY <1>4, <1>6, <2>1, <2>2
<1>9. GapAt(ss, All, p, t) => GapAt(ss2, All, p, t)
  <2> SUFFICES ASSUME NEW a \in 1..Len(s), PauseBefore(s, a), s[a].t = t + 1
               PROVE  GapAt(ss2, All, p, t)
    BY <1>4
  <2>1. a > 1 /\ a - 1 \in 1..Len(s) /\ s[a].t - s[a - 1].t > MaxGap
    BY <1>1 DEF PauseBefore
  <2>2. s[a].t <= B /\ s[a - 1].t <= s[a].t
    BY <1>1, <1>2, <2>1 DEF Rising
  <2>3. sm[a] = s[a] /\ sm[a - 1] = s[a - 1] /\ a \in 1..Len(sm)
    <3>1. s[a - 1].t <= B
      BY <1>1, <1>2, <2>1, <2>2
    <3> QED
      BY <1>1, <1>3, <2>1, <2>2, <3>1
  <2> QED
    BY <1>4, <2>1, <2>3 DEF PauseBefore
<1>10. t + 1 < B => (GapAt(ss2, All, p, t) => GapAt(ss, All, p, t))
  <2> SUFFICES ASSUME t + 1 < B, NEW a \in 1..Len(sm), PauseBefore(sm, a), sm[a].t = t + 1
               PROVE  GapAt(ss, All, p, t)
    BY <1>4
  <2>1. a > 1 /\ a - 1 \in 1..Len(sm) /\ sm[a].t - sm[a - 1].t > MaxGap
    BY <1>1 DEF PauseBefore
  <2>2. a < f /\ a - 1 < f /\ a \in 1..Len(s) /\ a - 1 \in 1..Len(s)
    BY <1>1, <1>3, <2>1
  <2>3. s[a].t < B /\ s[a - 1].t < B
    BY <1>3, <2>2
  <2>4. sm[a] = s[a] /\ sm[a - 1] = s[a - 1]
    BY <1>1, <1>2, <1>3, <2>2, <2>3
  <2> QED
    BY <1>4, <2>1, <2>2, <2>4 DEF PauseBefore
<1>11. at = {} => /\ CellAt(ss, All, p, t) = IF GapAt(ss, All, p, t) THEN NaN ELSE Null
                  /\ CellAt(ss2, All, p, t) = IF GapAt(ss2, All, p, t) THEN NaN ELSE Null
  BY <1>2, <1>7, CellIs DEF at, at2
<1> QED
  BY <1>7, <1>8, <1>9, <1>10, <1>11 DEF at, at2

\* What is drawn is all there is from B on, and just before B the gaps.
LEMMA CellsFrom ==
  ASSUME NEW ss, NEW ss2, NEW B, NEW from, Grown(ss, ss2, B, from),
         NEW p \in Pos, NEW t \in Nat
  PROVE  /\ B <= t => CellAt(ss2, from, p, t) = CellAt(ss2, All, p, t)
         /\ t + 1 < B => CellAt(ss2, from, p, t) = Null
         /\ t + 1 = B => CellAt(ss2, from, p, t) =
                           IF GapAt(ss2, All, p, t) THEN NaN ELSE Null
<1> DEFINE sm == ss2[p]
           f == from[p]
<1>1. Len(sm) \in Nat /\ \A a \in 1..Len(sm) : sm[a].t \in Nat
  BY PointOf DEF Grown
<1>2. SeriesOK(ss2) /\ All \in Froms /\ from \in Froms /\ All[p] = 1 /\ B \in Nat \ {0}
  BY AllIsFrom DEF Grown
<1>3. f \in Nat \ {0} /\ \A a \in 1..Len(sm) : sm[a].t < B <=> a < f
  BY DEF Grown, MergedFrom, Froms
<1>4. \A a : a \in f..Len(sm) <=> a \in 1..Len(sm) /\ B <= sm[a].t
  BY <1>1, <1>2, <1>3
<1>5. /\ PointsAt(ss2, from, p, t) = {a \in f..Len(sm) : sm[a].t = t}
      /\ PointsAt(ss2, All, p, t) = {a \in 1..Len(sm) : sm[a].t = t}
      /\ GapAt(ss2, from, p, t) <=> \E a \in f..Len(sm) : PauseBefore(sm, a) /\ sm[a].t = t + 1
      /\ GapAt(ss2, All, p, t) <=> \E a \in 1..Len(sm) : PauseBefore(sm, a) /\ sm[a].t = t + 1
  BY <1>2 DEF PointsAt, GapAt
<1> HIDE DEF sm, f
<1>6. ASSUME B <= t PROVE CellAt(ss2, from, p, t) = CellAt(ss2, All, p, t)
  <2>1. PointsAt(ss2, from, p, t) = PointsAt(ss2, All, p, t)
    BY <1>1, <1>4, <1>5, <1>6
  <2>2. GapAt(ss2, from, p, t) <=> GapAt(ss2, All, p, t)
    <3>1. \A a \in 1..Len(sm) : sm[a].t = t + 1 => a \in f..Len(sm)
      BY <1>1, <1>2, <1>4, <1>6
    <3>2. \A a \in f..Len(sm) : a \in 1..Len(sm)
      BY <1>4
    <3> QED
      BY <1>5, <3>1, <3>2
  <2> QED
    BY <2>1, <2>2 DEF CellAt
<1>7. ASSUME t < B PROVE PointsAt(ss2, from, p, t) = {}
  BY <1>1, <1>2, <1>4, <1>5, <1>7
<1>8. t < B => CellAt(ss2, from, p, t) = IF GapAt(ss2, from, p, t) THEN NaN ELSE Null
  BY <1>2, <1>7, CellIs
<1>9. t + 1 < B => ~GapAt(ss2, from, p, t)
  BY <1>1, <1>2, <1>4, <1>5
<1>10. t + 1 = B => (GapAt(ss2, from, p, t) <=> GapAt(ss2, All, p, t))
  <2> SUFFICES ASSUME t + 1 = B PROVE GapAt(ss2, from, p, t) <=> GapAt(ss2, All, p, t)
    OBVIOUS
  <2>1. \A a \in 1..Len(sm) : sm[a].t = t + 1 => a \in f..Len(sm)
    BY <1>2, <1>4
  <2>2. \A a \in f..Len(sm) : a \in 1..Len(sm)
    BY <1>4
  <2> QED
    BY <1>5, <2>1, <2>2
<1>11. (t + 1 < B => t < B) /\ (t + 1 = B => t < B)
  BY <1>2
<1> QED
  BY <1>6, <1>8, <1>9, <1>10, <1>11

-----------------------------------------------------------------------------
(***************************************************************************)
(* Cache: the rows and the points.                                         *)
(***************************************************************************)
RowsInOrder(d) ==
  \A a, b \in 1..Len(d) : a < b =>
    \/ d[a].t < d[b].t
    \/ d[a].t = d[b].t /\ \A p \in Pos : d[b].cells[p] \in {NaN, Null}

\* A row shows what there is at its time, or part of it; one row shows the
\* cell of a series if there is any; and no row is empty.
ShowsCells(ss, d) ==
  \A a \in 1..Len(d), p \in Pos : d[a].cells[p] \in {Null, CellAt(ss, All, p, d[a].t)}

ShowsAll(ss, d) ==
  \A t \in Nat, p \in Pos :
    CellAt(ss, All, p, t) # Null =>
      \E a \in 1..Len(d) : d[a].t = t /\ d[a].cells[p] = CellAt(ss, All, p, t)

NoEmptyRow(d) == \A a \in 1..Len(d) : \E p \in Pos : d[a].cells[p] # Null

RowsOK(ss, d) ==
  d \in Seq(Row) /\ RowsInOrder(d) /\ ShowsCells(ss, d) /\ ShowsAll(ss, d) /\ NoEmptyRow(d)

\* A row of a sequence of rows.
LEMMA RowOf ==
  ASSUME NEW d \in Seq(Row), NEW a \in 1..Len(d)
  PROVE  d[a].t \in Nat /\ \A p \in Pos : d[a].cells[p] \in Nat \cup {NaN, Null}
<1>1. d[a] \in Row
  <2> HIDE DEF Row
  <2> QED
    OBVIOUS
<1> QED
  BY <1>1 DEF Row

\* The rows kept, and those drawn after them.
LEMMA Joined ==
  ASSUME NEW U, NEW d \in Seq(U), NEW w \in Seq(U), NEW g \in 0..Len(d)
  PROVE  LET e == SubSeq(d, 1, g) \o w
         IN  /\ e \in Seq(U) /\ Len(e) = g + Len(w)
             /\ \A a \in 1..g : e[a] = d[a]
             /\ \A b \in 1..Len(w) : e[g + b] = w[b]
             /\ \A a \in 1..Len(e) : a \notin 1..g => a - g \in 1..Len(w) /\ e[a] = w[a - g]
<1> DEFINE k1 == SubSeq(d, 1, g)
           e == k1 \o w
<1>1. Len(d) \in Nat /\ Len(w) \in Nat /\ g \in Nat
  OBVIOUS
<1>2. k1 \in Seq(U) /\ Len(k1) = g /\ \A a \in 1..g : k1[a] = d[a]
  <2>1. k1 = [a \in 1..g |-> d[a]]
    BY <1>1 DEF SubSeq
  <2>2. \A a \in 1..g : d[a] \in U
    BY <1>1
  <2> HIDE DEF k1
  <2>3. k1 \in [1..g -> U]
    BY <2>1, <2>2
  <2> QED
    BY <1>1, <2>1, <2>3
<1> HIDE DEF k1
<1>3. e \in Seq(U) /\ Len(e) = g + Len(w)
  BY <1>1, <1>2, ConcatProperties
<1>4. \A a \in 1..Len(e) : e[a] = IF a <= g THEN k1[a] ELSE w[a - g]
  BY <1>1, <1>2
<1> HIDE DEF e
<1>5. \A a \in 1..g : e[a] = d[a]
  BY <1>1, <1>2, <1>3, <1>4
<1>6. \A b \in 1..Len(w) : e[g + b] = w[b]
  BY <1>1, <1>3, <1>4
<1>7. \A a \in 1..Len(e) : a \notin 1..g => a - g \in 1..Len(w) /\ e[a] = w[a - g]
  BY <1>1, <1>3, <1>4
<1> QED
  BY <1>3, <1>5, <1>6, <1>7 DEF e, k1

\* An append keeps the rows before B and draws those from B on, a gap just
\* before B among them.
LEMMA RowsGrow ==
  ASSUME NEW ss, NEW ss2, NEW B, NEW from, Grown(ss, ss2, B, from),
         NEW d, RowsOK(ss, d), NEW g \in 0..Len(d),
         \A a \in 1..Len(d) : a <= g <=> d[a].t < B
  PROVE  RowsOK(ss2, SubSeq(d, 1, g) \o Draw(ss2, from))
<1> DEFINE w == Draw(ss2, from)
           e == SubSeq(d, 1, g) \o w
           Old(p, t) == CellAt(ss, All, p, t)
           New(p, t) == CellAt(ss2, All, p, t)
           Drawn(p, t) == CellAt(ss2, from, p, t)
<1>1. /\ SeriesOK(ss) /\ SeriesOK(ss2) /\ B \in Nat \ {0} /\ from \in Froms
      /\ d \in Seq(Row) /\ Len(d) \in Nat /\ g \in Nat /\ All \in Froms
  BY AllIsFrom DEF Grown, RowsOK
<1>2. /\ w \in Seq(Row) /\ Len(w) \in Nat
      /\ \A a, b \in 1..Len(w) : a < b => w[a].t < w[b].t
      /\ \A a \in 1..Len(w) : \A p \in Pos : w[a].cells[p] = Drawn(p, w[a].t)
      /\ \A a \in 1..Len(w) : w[a].t \in Nat /\ \E p \in Pos : Drawn(p, w[a].t) # Null
      /\ \A t \in Nat, p \in Pos : Drawn(p, t) # Null => \E a \in 1..Len(w) : w[a].t = t
  <2>1. /\ w \in Seq(Row)
        /\ \A a, b \in 1..Len(w) : a < b => w[a].t < w[b].t
        /\ \A a \in 1..Len(w) :
             /\ w[a].t \in RowTimes(ss2, from)
             /\ \A p \in Pos : w[a].cells[p] = Drawn(p, w[a].t)
        /\ \A t \in RowTimes(ss2, from) : \E a \in 1..Len(w) : w[a].t = t
    BY <1>1, DrawIs
  <2>2. /\ RowTimes(ss2, from) \subseteq Nat
        /\ \A t \in Nat : t \in RowTimes(ss2, from) <=> \E p \in Pos : Drawn(p, t) # Null
    BY <1>1, RowTimesIs
  <2> HIDE DEF w, Drawn
  <2>3. Len(w) \in Nat
    BY <2>1
  <2> QED
    BY <2>1, <2>2, <2>3
<1> HIDE DEF w
<1>3. /\ e \in Seq(Row) /\ Len(e) = g + Len(w)
      /\ \A a \in 1..g : e[a] = d[a]
      /\ \A b \in 1..Len(w) : e[g + b] = w[b]
      /\ \A a \in 1..Len(e) : a \notin 1..g => a - g \in 1..Len(w) /\ e[a] = w[a - g]
  <2> HIDE DEF Row
  <2> QED
    BY <1>1, <1>2, Joined
<1> HIDE DEF e
<1>4. \A a \in 1..g : a \in 1..Len(d) /\ e[a] = d[a] /\ d[a].t \in Nat /\ d[a].t < B
  BY <1>1, <1>3, RowOf
<1>5. \A p \in Pos, t \in Nat :
        /\ t < B => /\ PointsAt(ss2, All, p, t) = PointsAt(ss, All, p, t)
                    /\ PointsAt(ss, All, p, t) # {} => New(p, t) = Old(p, t)
                    /\ Old(p, t) # Null => New(p, t) = Old(p, t)
        /\ t + 1 < B => New(p, t) = Old(p, t)
  <2> SUFFICES ASSUME NEW p \in Pos, NEW t \in Nat
               PROVE  /\ t < B => /\ PointsAt(ss2, All, p, t) = PointsAt(ss, All, p, t)
                                  /\ PointsAt(ss, All, p, t) # {} => New(p, t) = Old(p, t)
                                  /\ Old(p, t) # Null => New(p, t) = Old(p, t)
                      /\ t + 1 < B => New(p, t) = Old(p, t)
    OBVIOUS
  <2>1. t + 1 < B => t < B
    BY <1>1
  <2> QED
    BY <2>1, CellsBefore
<1>6. \A p \in Pos, t \in Nat :
        /\ B <= t => Drawn(p, t) = New(p, t)
        /\ t + 1 < B => Drawn(p, t) = Null
        /\ t + 1 = B => Drawn(p, t) = IF GapAt(ss2, All, p, t) THEN NaN ELSE Null
  BY CellsFrom
<1>7. \A p \in Pos, t \in Nat : GapAt(ss2, All, p, t) => New(p, t) = NaN
  BY <1>1, GapIsFree, CellIs
<1>8. \A p \in Pos, t \in Nat :
        PointsAt(ss2, All, p, t) = {} => New(p, t) = IF GapAt(ss2, All, p, t) THEN NaN ELSE Null
  BY <1>1, CellIs
<1>9. \A b \in 1..Len(w) : ~(w[b].t + 1 < B)
  BY <1>2, <1>6
<1> HIDE DEF Old, New, Drawn
<1>10. RowsInOrder(e)
  <2> SUFFICES ASSUME NEW a \in 1..Len(e), NEW b \in 1..Len(e), a < b
               PROVE  \/ e[a].t < e[b].t
                      \/ e[a].t = e[b].t /\ \A p \in Pos : e[b].cells[p] \in {NaN, Null}
    BY DEF RowsInOrder
  <2>1. CASE b \in 1..g
    <3>1. a \in 1..g
      BY <1>1, <2>1
    <3> QED
      BY <1>4, <2>1, <3>1 DEF RowsOK, RowsInOrder
  <2>2. CASE a \notin 1..g
    <3>1. b \notin 1..g
      BY <1>1, <2>2
    <3>2. /\ a - g \in 1..Len(w) /\ e[a] = w[a - g]
          /\ b - g \in 1..Len(w) /\ e[b] = w[b - g] /\ a - g < b - g
      BY <1>1, <1>2, <1>3, <2>2, <3>1
    <3> QED
      BY <1>2, <3>2
  <2>3. CASE a \in 1..g /\ b \notin 1..g
    <3>1. e[a].t \in Nat /\ e[a].t < B
      BY <1>4, <2>3
    <3>2. b - g \in 1..Len(w) /\ e[b] = w[b - g]
      BY <1>3, <2>3
    <3>3. e[b].t \in Nat /\ ~(e[b].t + 1 < B) /\ \A p \in Pos : e[b].cells[p] = Drawn(p, e[b].t)
      BY <1>2, <1>9, <3>2
    <3>4. e[a].t < e[b].t \/ (e[a].t = e[b].t /\ e[b].t + 1 = B)
      <4>1. \A x, y \in Nat : x < B /\ ~(y + 1 < B) => x < y \/ (x = y /\ y + 1 = B)
        BY <1>1
      <4> QED
        BY <3>1, <3>3, <4>1
    <3>5. e[b].t + 1 = B => \A p \in Pos : e[b].cells[p] \in {NaN, Null}
      BY <1>6, <3>3
    <3> QED
      BY <3>4, <3>5
  <2> QED
    BY <2>1, <2>2, <2>3
<1>11. ShowsCells(ss2, e)
  <2> SUFFICES ASSUME NEW a \in 1..Len(e), NEW p \in Pos
               PROVE  e[a].cells[p] \in {Null, New(p, e[a].t)}
    BY DEF ShowsCells, New
  <2>1. CASE a \in 1..g
    <3>1. e[a].cells[p] \in {Null, Old(p, e[a].t)}
      BY <1>4, <2>1 DEF RowsOK, ShowsCells, Old
    <3> QED
      BY <1>4, <1>5, <2>1, <3>1
  <2>2. CASE a \notin 1..g
    <3>1. a - g \in 1..Len(w) /\ e[a] = w[a - g]
      BY <1>3, <2>2
    <3>2. e[a].t \in Nat /\ e[a].cells[p] = Drawn(p, e[a].t) /\ ~(e[a].t + 1 < B)
      BY <1>2, <1>9, <3>1
    <3>3. B <= e[a].t \/ e[a].t + 1 = B
      BY <1>1, <3>2
    <3> QED
      BY <1>6, <1>7, <3>2, <3>3
  <2> QED
    BY <2>1, <2>2
<1>12. ShowsAll(ss2, e)
  <2> SUFFICES ASSUME NEW t \in Nat, NEW p \in Pos, New(p, t) # Null
               PROVE  \E a \in 1..Len(e) : e[a].t = t /\ e[a].cells[p] = New(p, t)
    BY DEF ShowsAll, New
  <2>1. ASSUME Old(p, t) # Null, New(p, t) = Old(p, t), t < B
        PROVE  \E a \in 1..Len(e) : e[a].t = t /\ e[a].cells[p] = New(p, t)
    <3>1. PICK a \in 1..Len(d) : d[a].t = t /\ d[a].cells[p] = Old(p, t)
      BY <2>1 DEF RowsOK, ShowsAll, Old
    <3>2. a <= g
      BY <2>1, <3>1
    <3>3. a \in 1..g /\ a \in 1..Len(e)
      BY <1>1, <1>2, <1>3, <3>2
    <3> QED
      BY <1>4, <2>1, <3>1, <3>3
  <2>2. ASSUME Drawn(p, t) = New(p, t)
        PROVE  \E a \in 1..Len(e) : e[a].t = t /\ e[a].cells[p] = New(p, t)
    <3>1. PICK b \in 1..Len(w) : w[b].t = t
      BY <1>2, <2>2
    <3>2. w[b].cells[p] = New(p, t)
      BY <1>2, <2>2, <3>1
    <3>3. g + b \in 1..Len(e) /\ e[g + b] = w[b]
      BY <1>1, <1>2, <1>3
    <3> QED
      BY <3>1, <3>2, <3>3
  <2>3. CASE B <= t
    BY <1>6, <2>2, <2>3
  <2>4. CASE t + 1 < B
    <3>1. t < B
      BY <1>1, <2>4
    <3> QED
      BY <1>5, <2>1, <2>4, <3>1
  <2>5. CASE t + 1 = B
    <3>0. t < B
      BY <2>5
    <3>1. CASE GapAt(ss2, All, p, t)
      BY <1>6, <1>7, <2>2, <2>5, <3>1
    <3>2. CASE ~GapAt(ss2, All, p, t)
      <4>1. PointsAt(ss2, All, p, t) # {}
        BY <1>8, <3>2
      <4>2. New(p, t) = Old(p, t)
        BY <1>5, <3>0, <4>1
      <4> QED
        BY <2>1, <3>0, <4>2
    <3> QED
      BY <3>1, <3>2
  <2> QED
    BY <1>1, <2>3, <2>4, <2>5
<1>13. NoEmptyRow(e)
  <2> SUFFICES ASSUME NEW a \in 1..Len(e) PROVE \E p \in Pos : e[a].cells[p] # Null
    BY DEF NoEmptyRow
  <2>1. CASE a \in 1..g
    BY <1>4, <2>1 DEF RowsOK, NoEmptyRow
  <2>2. CASE a \notin 1..g
    <3>1. a - g \in 1..Len(w) /\ e[a] = w[a - g]
      BY <1>3, <2>2
    <3>2. PICK p \in Pos : Drawn(p, w[a - g].t) # Null
      BY <1>2, <3>1
    <3>3. e[a].cells[p] = Drawn(p, w[a - g].t)
      BY <1>2, <3>1
    <3> QED
      BY <3>2, <3>3
  <2> QED
    BY <2>1, <2>2
<1> QED
  BY <1>3, <1>10, <1>11, <1>12, <1>13 DEF RowsOK, e, w

-----------------------------------------------------------------------------
(***************************************************************************)
(* Cache: the steps.                                                       *)
(***************************************************************************)
CacheInv == appends \in Nat /\ SeriesOK(series) /\ RowsOK(series, data)

LEMMA CacheInitInv == Init => CacheInv
<1> SUFFICES ASSUME Init PROVE CacheInv
  OBVIOUS
<1>1. appends \in Nat /\ series = [p \in Pos |-> <<>>] /\ data = <<>>
  BY DEF Init
<1>2. SeriesOK(series)
  <2>1. \A p \in Pos : series[p] = <<>> /\ Len(series[p]) = 0
    BY <1>1
  <2>2. series \in [Pos -> Seq(Point)]
    <3> HIDE DEF Point
    <3> QED
      BY <1>1
  <2>3. \A p \in Pos : Rising(series[p], Len(series[p]))
    BY <2>1 DEF Rising
  <2> QED
    BY <2>2, <2>3 DEF SeriesOK
<1>3. \A t \in Nat, p \in Pos : CellAt(series, All, p, t) = Null
  <2> SUFFICES ASSUME NEW t \in Nat, NEW p \in Pos PROVE CellAt(series, All, p, t) = Null
    OBVIOUS
  <2>1. All[p] = 1 /\ Len(series[p]) = 0
    BY <1>1, AllIsFrom
  <2>2. PointsAt(series, All, p, t) = {} /\ ~GapAt(series, All, p, t)
    BY <2>1 DEF PointsAt, GapAt
  <2> QED
    BY <1>2, <2>2, AllIsFrom, CellIs
<1>4. data \in Seq(Row) /\ Len(data) = 0
  <2> HIDE DEF Row
  <2> QED
    BY <1>1
<1>5. RowsInOrder(data) /\ ShowsCells(series, data) /\ NoEmptyRow(data)
  BY <1>4 DEF RowsInOrder, ShowsCells, NoEmptyRow
<1>6. ShowsAll(series, data)
  BY <1>3 DEF ShowsAll
<1> QED
  BY <1>1, <1>2, <1>4, <1>5, <1>6 DEF CacheInv, RowsOK

\* The points of an append, by time; e is their value.
Labelled(T, e) ==
  [a \in 1..Len(Ascending(T)) |-> [t |-> Ascending(T)[a], v |-> e]]

LEMMA LabelledIs ==
  ASSUME NEW T \in SUBSET Time, NEW e \in Nat
  PROVE  /\ Labelled(T, e) \in Seq(Point)
         /\ Rising(Labelled(T, e), Len(Labelled(T, e)))
         /\ T # {} => Labelled(T, e) # <<>>
<1> DEFINE times == Ascending(T)
           n == Cardinality(T)
           s == Labelled(T, e)
<1>1. T \subseteq Nat /\ IsFiniteSet(T)
  BY CacheAssumption, FS_Subset
<1>2. /\ n \in Nat /\ times \in [1..n -> T] /\ Len(times) = n
      /\ Increasing(times, n) /\ \A x \in T : \E a \in 1..n : times[a] = x
  BY <1>1, AscendingIs
<1>3. s = [a \in 1..n |-> [t |-> times[a], v |-> e]]
  BY <1>2 DEF Labelled
<1> HIDE DEF times, n, s
<1>4. \A a \in 1..n : s[a] \in Point /\ s[a].t = times[a] /\ s[a].t \in Nat
  <2> SUFFICES ASSUME NEW a \in 1..n
               PROVE  s[a] \in Point /\ s[a].t = times[a] /\ s[a].t \in Nat
    OBVIOUS
  <2>1. times[a] \in T
    BY <1>2
  <2>2. times[a] \in Nat /\ times[a] \in Time
    BY <1>1, <2>1
  <2>3. s[a] = [t |-> times[a], v |-> e]
    BY <1>3
  <2> QED
    BY <2>2, <2>3 DEF Point
<1>5. Len(s) = n /\ s \in Seq(Point)
  <2>1. s \in [1..n -> Point]
    <3> HIDE DEF Point
    <3> QED
      BY <1>3, <1>4
  <2> HIDE DEF Point
  <2> QED
    BY <1>2, <2>1
<1>6. Rising(s, n)
  <2> SUFFICES ASSUME NEW p \in 1..n, NEW q \in 1..n, p <= q PROVE s[p].t <= s[q].t
    BY <1>2, <1>4 DEF Rising
  <2>1. CASE p = q
    BY <1>4, <2>1
  <2>2. CASE p < q
    <3>1. times[p] < times[q]
      BY <1>2, <2>2 DEF Increasing
    <3> QED
      BY <1>4, <3>1
  <2> QED
    BY <1>2, <2>1, <2>2
<1>7. ASSUME T # {} PROVE s # <<>>
  <2>1. PICK a \in 1..n : TRUE
    BY <1>2, <1>7
  <2>2. Len(s) # 0
    BY <1>2, <1>5, <2>1
  <2> QED
    BY <2>2
<1> QED
  BY <1>5, <1>6, <1>7 DEF s

BatchOK(batch) == SeriesOK(batch) /\ \E p \in Pos : batch[p] # <<>>

\* What an append is called with.
LEMMA SelectionIsBatch ==
  ASSUME NEW e \in Nat, NEW sel \in Selections
  PROVE  BatchOK([p \in Pos |-> Labelled(sel[p], e)])
<1> DEFINE batch == [p \in Pos |-> Labelled(sel[p], e)]
           D == {x \in Pos \X Time : x[2] \in sel[x[1]]}
<1>1. sel \in [Pos -> SUBSET Time] /\ Cardinality(D) \in 1..MaxBatch
  BY DEF Selections
<1>2. \A p \in Pos : /\ batch[p] \in Seq(Point) /\ Rising(batch[p], Len(batch[p]))
                     /\ sel[p] # {} => batch[p] # <<>>
  <2> HIDE DEF Point
  <2> QED
    BY <1>1, LabelledIs
<1>3. SeriesOK(batch)
  <2> HIDE DEF Point
  <2> QED
    BY <1>2 DEF SeriesOK
<1>4. D # {}
  <2> HIDE DEF D
  <2>1. Cardinality(D) # 0
    BY <1>1
  <2> QED
    BY <2>1, FS_EmptySet
<1>5. \E p \in Pos : sel[p] # {}
  BY <1>4
<1> QED
  BY <1>2, <1>3, <1>5 DEF BatchOK

LEMMA MinTIs ==
  ASSUME NEW batch, BatchOK(batch)
  PROVE  /\ MinT(batch) \in Nat \ {0}
         /\ \A p \in Pos : \A a \in 1..Len(batch[p]) : MinT(batch) <= batch[p][a].t
<1> DEFINE T == {batch[p][1].t : p \in {q \in Pos : batch[q] # <<>>}}
<1>1. \A p \in Pos : /\ Len(batch[p]) \in Nat /\ Rising(batch[p], Len(batch[p]))
                     /\ \A a \in 1..Len(batch[p]) : batch[p][a].t \in Nat /\ batch[p][a].t > 0
  BY PointOf DEF BatchOK
<1>2. \A p \in Pos : batch[p] # <<>> => 1 \in 1..Len(batch[p])
  <2> SUFFICES ASSUME NEW p \in Pos, batch[p] # <<>> PROVE 1 \in 1..Len(batch[p])
    OBVIOUS
  <2>1. batch[p] \in Seq(Point)
    BY DEF BatchOK, SeriesOK
  <2> HIDE DEF Point
  <2>2. Len(batch[p]) # 0
    BY <2>1
  <2> QED
    BY <1>1, <2>2
<1>3. T \subseteq Nat \ {0} /\ T # {}
  <2>1. \A p \in Pos : batch[p] # <<>> => batch[p][1].t \in Nat \ {0}
    BY <1>1, <1>2
  <2>2. T # {}
    BY DEF BatchOK
  <2> QED
    BY <2>1, <2>2
<1>4. MinT(batch) = Min(T)
  BY DEF MinT
<1>5. Min(T) \in T /\ \A x \in T : Min(T) <= x
  <2> HIDE DEF T
  <2> QED
    BY <1>3, LeastIsMin
<1>6. ASSUME NEW p \in Pos, NEW a \in 1..Len(batch[p]) PROVE Min(T) <= batch[p][a].t
  <2>1. 1 \in 1..Len(batch[p]) /\ batch[p] # <<>>
    <3>1. Len(batch[p]) # 0
      BY <1>1
    <3> QED
      BY <1>1, <3>1
  <2>2. batch[p][1].t \in T
    BY <2>1
  <2>3. batch[p][1].t <= batch[p][a].t
    BY <1>1, <2>1 DEF Rising
  <2> HIDE DEF T
  <2>4. Min(T) <= batch[p][1].t /\ Min(T) \in Nat
    BY <1>3, <1>5, <2>2
  <2>5. batch[p][1].t \in Nat /\ batch[p][a].t \in Nat
    BY <1>1, <2>1
  <2> QED
    BY <2>3, <2>4, <2>5
<1> QED
  BY <1>3, <1>4, <1>5, <1>6

\* Where the drawing of an append begins.
Kept(d, B) == IF d # <<>> /\ B <= Last(d).t THEN FirstIndex(d, B) - 1 ELSE Len(d)
Begins(ss, B) == [p \in Pos |-> FirstIndex(ss[p], B)]

\* The rows are by time.
LEMMA RowsRise ==
  ASSUME NEW d \in Seq(Row), RowsInOrder(d)
  PROVE  Rising(d, Len(d))
<1>1. Len(d) \in Nat
  <2> HIDE DEF Row
  <2> QED
    OBVIOUS
<1>2. \A a \in 1..Len(d) : d[a].t \in Nat
  BY RowOf
<1> SUFFICES ASSUME NEW p \in 1..Len(d), NEW q \in 1..Len(d), p <= q PROVE d[p].t <= d[q].t
  BY <1>1, <1>2 DEF Rising
<1>3. CASE p = q
  BY <1>2, <1>3
<1>4. CASE p < q
  <2>1. d[p].t < d[q].t \/ d[p].t = d[q].t
    BY <1>4 DEF RowsInOrder
  <2> QED
    BY <1>2, <2>1
<1> QED
  BY <1>1, <1>3, <1>4

LEMMA LastOf ==
  ASSUME NEW d \in Seq(Row), d # <<>>
  PROVE  Len(d) \in 1..Len(d) /\ Last(d) = d[Len(d)]
<1>1. Len(d) \in Nat /\ Len(d) # 0
  <2> HIDE DEF Row
  <2> QED
    OBVIOUS
<1> QED
  BY <1>1 DEF Last

\* The rows kept are those before B.
LEMMA KeptIs ==
  ASSUME NEW d \in Seq(Row), RowsInOrder(d), NEW B \in Nat
  PROVE  /\ Kept(d, B) \in 0..Len(d)
         /\ \A a \in 1..Len(d) : a <= Kept(d, B) <=> d[a].t < B
<1>1. Rising(d, Len(d)) /\ Len(d) \in Nat /\ \A a \in 1..Len(d) : d[a].t \in Nat
  BY RowsRise DEF Rising
<1>2. CASE d # <<>> /\ B <= Last(d).t
  <2>1. FirstIndex(d, B) \in 1..(Len(d) + 1)
        /\ \A a \in 1..Len(d) : d[a].t < B <=> a < FirstIndex(d, B)
    BY <1>1, FirstIndexIs
  <2>2. Kept(d, B) = FirstIndex(d, B) - 1
    BY <1>2 DEF Kept
  <2> QED
    BY <1>1, <2>1, <2>2
<1>3. CASE ~(d # <<>> /\ B <= Last(d).t)
  <2>1. Kept(d, B) = Len(d)
    BY <1>3 DEF Kept
  <2>2. ASSUME NEW a \in 1..Len(d) PROVE d[a].t < B
    <3>1. d # <<>>
      BY <2>2
    <3>2. Len(d) \in 1..Len(d) /\ Last(d) = d[Len(d)]
      BY <3>1, LastOf
    <3>3. d[a].t <= d[Len(d)].t
      BY <1>1, <3>2 DEF Rising
    <3> QED
      BY <1>1, <1>3, <3>1, <3>2, <3>3
  <2> QED
    BY <1>1, <2>1, <2>2
<1> QED
  BY <1>2, <1>3

\* Every point has a row of its time.
LEMMA PointHasRow ==
  ASSUME NEW ss, SeriesOK(ss), NEW d, ShowsAll(ss, d), NEW p \in Pos, NEW a \in 1..Len(ss[p])
  PROVE  \E b \in 1..Len(d) : d[b].t = ss[p][a].t
<1>1. ss[p][a].t \in Nat /\ All \in Froms /\ All[p] = 1
  BY PointOf, AllIsFrom
<1>2. PointsAt(ss, All, p, ss[p][a].t) # {}
  BY <1>1 DEF PointsAt
<1>3. CellAt(ss, All, p, ss[p][a].t) # Null
  BY <1>1, <1>2, CellIs
<1> QED
  BY <1>1, <1>3 DEF ShowsAll

\* In both branches of the code an append cuts the rows at minT and draws each
\* series from its first point at minT or later on.
LEMMA AppendIs ==
  ASSUME CacheInv, NEW batch, BatchOK(batch), AppendBatch(batch)
  PROVE  /\ Grown(series, series', MinT(batch), Begins(series, MinT(batch)))
         /\ data' = SubSeq(data, 1, Kept(data, MinT(batch)))
                      \o Draw(series', Begins(series, MinT(batch)))
         /\ appends' = appends + 1
<1> DEFINE B == MinT(batch)
           merged == [p \in Pos |-> MergeSingleSeries(series[p], batch[p])]
           from == [p \in Pos |-> IF Overlaps(B) THEN FirstIndex(series[p], B)
                                  ELSE Len(series[p]) + 1]
           kept == IF Overlaps(B) THEN SubSeq(data, 1, FirstIndex(data, B) - 1) ELSE data
<1>1. /\ series' = merged /\ data' = kept \o Draw(merged, from) /\ appends' = appends + 1
  BY DEF AppendBatch
<1>2. /\ B \in Nat \ {0}
      /\ \A p \in Pos : \A a \in 1..Len(batch[p]) : B <= batch[p][a].t
  BY MinTIs
<1> HIDE DEF B
<1>3. /\ SeriesOK(series) /\ SeriesOK(batch) /\ RowsOK(series, data)
      /\ data \in Seq(Row) /\ RowsInOrder(data) /\ ShowsAll(series, data)
  BY DEF CacheInv, RowsOK, BatchOK
<1>4. \A p \in Pos :
        /\ merged[p] \in Seq(Point) /\ Rising(merged[p], Len(merged[p]))
        /\ MergedFrom(series[p], merged[p], B, FirstIndex(series[p], B))
  <2> SUFFICES ASSUME NEW p \in Pos
               PROVE  /\ merged[p] \in Seq(Point) /\ Rising(merged[p], Len(merged[p]))
                      /\ MergedFrom(series[p], merged[p], B, FirstIndex(series[p], B))
    OBVIOUS
  <2>1. /\ series[p] \in Seq(Point) /\ Rising(series[p], Len(series[p]))
        /\ batch[p] \in Seq(Point) /\ Rising(batch[p], Len(batch[p]))
    BY <1>3 DEF SeriesOK
  <2>2. merged[p] = MergeSingleSeries(series[p], batch[p])
    OBVIOUS
  <2> HIDE DEF merged, Point
  <2>3. B \in Nat /\ \A a \in 1..Len(batch[p]) : B <= batch[p][a].t
    BY <1>2
  <2> QED
    BY <2>1, <2>2, <2>3, MergeSingleIs
<1>5. SeriesOK(merged)
  <2> HIDE DEF Point
  <2> QED
    BY <1>4 DEF SeriesOK
<1>6. \A p \in Pos : /\ FirstIndex(series[p], B) \in Nat \ {0}
                     /\ ~Overlaps(B) => FirstIndex(series[p], B) = Len(series[p]) + 1
  <2> SUFFICES ASSUME NEW p \in Pos
               PROVE  /\ FirstIndex(series[p], B) \in Nat \ {0}
                      /\ ~Overlaps(B) => FirstIndex(series[p], B) = Len(series[p]) + 1
    OBVIOUS
  <2> DEFINE f == FirstIndex(series[p], B)
             n == Len(series[p])
  <2>1. n \in Nat /\ f \in 1..(n + 1) /\ \A a \in 1..n : series[p][a].t < B <=> a < f
    BY <1>2, <1>3, PointOf, FirstIndexIs
  <2>2. ASSUME ~Overlaps(B), NEW a \in 1..n PROVE series[p][a].t < B
    <3>1. PICK b \in 1..Len(data) : data[b].t = series[p][a].t
      BY <1>3, PointHasRow
    <3>2. data # <<>> /\ ~(B <= Last(data).t)
      BY <2>2, <3>1 DEF Overlaps
    <3>3. Len(data) \in 1..Len(data) /\ Last(data) = data[Len(data)]
      BY <1>3, <3>2, LastOf
    <3>4. data[b].t <= data[Len(data)].t /\ data[Len(data)].t \in Nat /\ data[b].t \in Nat
      BY <1>3, <3>3, RowsRise DEF Rising
    <3> QED
      BY <1>2, <3>1, <3>2, <3>3, <3>4
  <2> HIDE DEF f, n
  <2>3. ASSUME ~Overlaps(B), f # n + 1 PROVE FALSE
    <3>1. f \in 1..n
      BY <2>1, <2>3
    <3>2. series[p][f].t < B
      BY <2>2, <2>3, <3>1
    <3> QED
      BY <2>1, <3>1, <3>2
  <2>4. f \in Nat \ {0} /\ (~Overlaps(B) => f = n + 1)
    BY <2>1, <2>3
  <2> QED
    BY <2>4 DEF f, n
<1>7. from = Begins(series, B) /\ Begins(series, B) \in Froms
  BY <1>6 DEF Begins, Froms
<1>8. kept = SubSeq(data, 1, Kept(data, B))
  <2>1. CASE Overlaps(B)
    BY <2>1 DEF Overlaps, Kept
  <2>2. CASE ~Overlaps(B)
    <3>1. kept = data /\ Kept(data, B) = Len(data)
      BY <2>2 DEF Overlaps, Kept
    <3> HIDE DEF Row
    <3>2. SubSeq(data, 1, Len(data)) = data
      BY <1>3
    <3> QED
      BY <3>1, <3>2
  <2> QED
    BY <2>1, <2>2
<1>9. Grown(series, series', B, Begins(series, B))
  <2>1. \A p \in Pos : MergedFrom(series[p], merged[p], B, Begins(series, B)[p])
    BY <1>4 DEF Begins
  <2> HIDE DEF merged
  <2> QED
    BY <1>1, <1>2, <1>3, <1>5, <1>7, <2>1 DEF Grown
<1> QED
  BY <1>1, <1>7, <1>8, <1>9 DEF B

LEMMA CacheStepInv == CacheInv /\ [Next]_vars => CacheInv'
<1> SUFFICES ASSUME CacheInv, [Next]_vars PROVE CacheInv'
  OBVIOUS
<1>0. CacheInv' <=> appends' \in Nat /\ SeriesOK(series') /\ RowsOK(series', data')
  BY DEF CacheInv, SeriesOK, RowsOK, ShowsCells, ShowsAll, CellAt, PointsAt, GapAt,
         PauseBefore, RowsInOrder, NoEmptyRow
<1>1. CASE Next
  <2>1. PICK sel \in Selections : AppendBatch([p \in Pos |-> Labelled(sel[p], appends + 1)])
    BY <1>1 DEF Next, Points, Labelled
  <2> DEFINE batch == [p \in Pos |-> Labelled(sel[p], appends + 1)]
             B == MinT(batch)
  <2>2. BatchOK(batch) /\ AppendBatch(batch)
    <3>1. appends + 1 \in Nat
      BY DEF CacheInv
    <3> QED
      BY <2>1, <3>1, SelectionIsBatch
  <2> HIDE DEF batch
  <2>3. /\ Grown(series, series', B, Begins(series, B))
        /\ data' = SubSeq(data, 1, Kept(data, B)) \o Draw(series', Begins(series, B))
        /\ appends' = appends + 1
    BY <2>2, AppendIs
  <2>4. B \in Nat
    BY <2>3 DEF Grown
  <2> HIDE DEF B
  <2>5. /\ Kept(data, B) \in 0..Len(data)
        /\ \A a \in 1..Len(data) : a <= Kept(data, B) <=> data[a].t < B
    BY <2>4, KeptIs DEF CacheInv, RowsOK
  <2>6. RowsOK(series', data')
    BY <2>3, <2>5, RowsGrow DEF CacheInv
  <2>7. SeriesOK(series') /\ appends' \in Nat
    BY <2>3 DEF Grown, CacheInv
  <2> QED
    BY <1>0, <2>6, <2>7
<1>2. CASE UNCHANGED vars
  <2>1. appends' = appends /\ series' = series /\ data' = data
    BY <1>2 DEF vars
  <2>2. appends' \in Nat /\ SeriesOK(series') /\ RowsOK(series', data')
    BY <2>1 DEF CacheInv
  <2> QED
    BY <1>0, <2>2
<1> QED
  BY <1>1, <1>2

\* The rows and the points stay as they are described, for any number of
\* series and times and however points are appended.
THEOREM CacheInvariance == Spec => []CacheInv
<1>1. Init => CacheInv
  BY CacheInitInv
<1>2. CacheInv /\ [Next]_vars => CacheInv'
  BY CacheStepInv
<1> QED
  BY <1>1, <1>2, PTL DEF Spec

\* Only gaps are drawn twice, for any number of series, times and appends.
THEOREM RepeatsAreGaps == Spec => []RepeatedRowsAreGaps
<1>1. CacheInv => RepeatedRowsAreGaps
  BY DEF CacheInv, RowsOK, RowsInOrder, RepeatedRowsAreGaps
<1> QED
  BY <1>1, CacheInvariance, PTL

\* The last row is at the newest point, for any number of series, times and
\* appends: a reconnect asks for what is later than all the browser has.
THEOREM LastIsNewest == Spec => []LastRowIsNewest
<1>1. ASSUME CacheInv PROVE LastRowIsNewest
  <2> DEFINE T == UNION {{series[p][a].t : a \in 1..Len(series[p])} : p \in Pos}
             z == data[Len(data)].t
  <2> SUFFICES ASSUME data # <<>> PROVE Last(data).t = Max(T)
    BY DEF LastRowIsNewest
  <2>1. /\ SeriesOK(series) /\ data \in Seq(Row) /\ Rising(data, Len(data)) /\ All \in Froms
        /\ ShowsCells(series, data) /\ ShowsAll(series, data) /\ NoEmptyRow(data)
    BY <1>1, RowsRise, AllIsFrom DEF CacheInv, RowsOK
  <2>2. Len(data) \in 1..Len(data) /\ Last(data).t = z /\ z \in Nat
    BY <2>1, LastOf, RowOf
  <2>3. ASSUME NEW p \in Pos, NEW a \in 1..Len(series[p])
        PROVE  series[p][a].t \in Nat /\ series[p][a].t <= z
    <3>1. PICK b \in 1..Len(data) : data[b].t = series[p][a].t
      BY <2>1, PointHasRow
    <3>2. data[b].t <= z /\ data[b].t \in Nat
      BY <2>1, <2>2 DEF Rising
    <3> QED
      BY <3>1, <3>2
  <2>4. z \in T
    <3>1. PICK p \in Pos : data[Len(data)].cells[p] # Null
      BY <2>1, <2>2 DEF NoEmptyRow
    <3>2. CellAt(series, All, p, z) # Null
      BY <2>1, <2>2, <3>1 DEF ShowsCells
    <3>3. All[p] = 1
      BY AllIsFrom
    <3>4. CASE PointsAt(series, All, p, z) # {}
      BY <3>3, <3>4 DEF PointsAt
    <3>5. CASE GapAt(series, All, p, z)
      <4>1. PICK a \in 1..Len(series[p]) : series[p][a].t = z + 1
        BY <3>3, <3>5 DEF GapAt
      <4> QED
        BY <2>2, <2>3, <4>1
    <3> QED
      BY <2>1, <2>2, <3>2, <3>4, <3>5, CellIs
  <2>5. T \subseteq Int /\ \A x \in T : x <= z
    BY <2>3
  <2> HIDE DEF T, z
  <2> QED
    BY <2>2, <2>4, <2>5, MaxIs
<1> QED
  BY <1>1, CacheInvariance, PTL

\* However points are appended, the chart shows what drawing all of them at
\* once would show: for any number of series, times and appends.
THEOREM AppendsLikeScratch == Spec => []DrawnFromScratch
<1>1. ASSUME CacheInv PROVE DrawnFromScratch
  <2> DEFINE T == {data[a].t : a \in 1..Len(data)}
             Cells(t, p) == {data[a].cells[p] : a \in {b \in 1..Len(data) : data[b].t = t}}
             Cell(t, p) ==
               CASE Cells(t, p) \ {NaN, Null} # {} -> CHOOSE x \in Cells(t, p) \ {NaN, Null} : TRUE
                 [] Cells(t, p) = {NaN} \/ Cells(t, p) = {NaN, Null} -> NaN
                 [] OTHER -> Null
             Shown(t, p) == CellAt(series, All, p, t)
             times == Ascending(RowTimes(series, All))
  <2>1. /\ SeriesOK(series) /\ data \in Seq(Row) /\ All \in Froms
        /\ ShowsCells(series, data) /\ ShowsAll(series, data) /\ NoEmptyRow(data)
    BY <1>1, AllIsFrom DEF CacheInv, RowsOK
  <2>2. /\ RowTimes(series, All) \subseteq Nat /\ IsFiniteSet(RowTimes(series, All))
        /\ \A t \in Nat : t \in RowTimes(series, All) <=> \E p \in Pos : Shown(t, p) # Null
    BY <2>1, RowTimesIs
  <2>3. \A a \in 1..Len(data) : data[a].t \in Nat
    BY <2>1, RowOf
  <2>4. \A a \in 1..Len(data), p \in Pos : data[a].cells[p] \in {Null, Shown(data[a].t, p)}
    BY <2>1 DEF ShowsCells
  <2>5. \A t \in Nat, p \in Pos :
          Shown(t, p) # Null => \E a \in 1..Len(data) : data[a].t = t /\ data[a].cells[p] = Shown(t, p)
    BY <2>1 DEF ShowsAll
  <2>6. \A t \in Nat, p \in Pos : Shown(t, p) \in Nat \cup {NaN, Null}
    BY <2>1, CellIs
  <2> HIDE DEF Shown
  <2>7. T = RowTimes(series, All)
    <3>1. ASSUME NEW a \in 1..Len(data) PROVE data[a].t \in RowTimes(series, All)
      <4>1. PICK p \in Pos : data[a].cells[p] # Null
        BY <2>1 DEF NoEmptyRow
      <4>2. Shown(data[a].t, p) # Null
        BY <2>4, <4>1
      <4> QED
        BY <2>2, <2>3, <4>2
    <3>2. ASSUME NEW t \in RowTimes(series, All) PROVE t \in T
      <4>1. t \in Nat
        BY <2>2
      <4>2. PICK p \in Pos : Shown(t, p) # Null
        BY <2>2, <4>1
      <4> QED
        BY <2>5, <4>1, <4>2
    <3> QED
      BY <3>1, <3>2
  <2>8. ASSUME NEW t \in Nat, NEW p \in Pos PROVE Cell(t, p) = Shown(t, p)
    <3>1. Cells(t, p) \subseteq {Null, Shown(t, p)}
      BY <2>4
    <3>2. Shown(t, p) # Null => Shown(t, p) \in Cells(t, p)
      BY <2>5
    <3>3. NaN # Null /\ NaN \notin Nat /\ Null \notin Nat
      BY CacheAssumption
    <3> HIDE DEF Cells
    <3>4. CASE Shown(t, p) \in Nat
      <4>1. Cells(t, p) \ {NaN, Null} = {Shown(t, p)}
        BY <3>1, <3>2, <3>3, <3>4
      <4> QED
        BY <4>1
    <3>5. CASE Shown(t, p) = NaN
      <4>1. Cells(t, p) \ {NaN, Null} = {}
        BY <3>1, <3>5
      <4>2. Cells(t, p) = {NaN} \/ Cells(t, p) = {NaN, Null}
        BY <3>1, <3>2, <3>3, <3>5
      <4> QED
        BY <3>5, <4>1, <4>2
    <3>6. CASE Shown(t, p) = Null
      <4>1. Cells(t, p) \ {NaN, Null} = {} /\ Cells(t, p) # {NaN} /\ Cells(t, p) # {NaN, Null}
        BY <3>1, <3>3, <3>6
      <4> QED
        BY <3>6, <4>1
    <3> QED
      BY <2>6, <3>4, <3>5, <3>6
  <2>9. \A e \in 1..Len(times) : times[e] \in Nat
    BY <2>2, AscendingIs
  <2>10. Collapsed = [e \in 1..Len(Ascending(T)) |->
                        [t |-> Ascending(T)[e], cells |-> [p \in Pos |-> Cell(Ascending(T)[e], p)]]]
    BY DEF Collapsed
  <2>11. Draw(series, All) =
           [e \in 1..Len(times) |->
              [t |-> times[e], cells |-> [p \in Pos |-> Shown(times[e], p)]]]
    BY DEF Draw, Shown
  <2> HIDE DEF T, Cell, times
  <2>12. \A e \in 1..Len(times) : [p \in Pos |-> Cell(times[e], p)] = [p \in Pos |-> Shown(times[e], p)]
    BY <2>8, <2>9
  <2>13. Collapsed = [e \in 1..Len(times) |->
                        [t |-> times[e], cells |-> [p \in Pos |-> Cell(times[e], p)]]]
    BY <2>7, <2>10 DEF times
  <2>14. Collapsed = Draw(series, All)
    BY <2>11, <2>12, <2>13
  <2> QED
    BY <2>14 DEF DrawnFromScratch, All
<1> QED
  BY <1>1, CacheInvariance, PTL

\* The page is told exactly the points in its window, however many there are.
THEOREM WindowIsDelimited == Spec => []IndicesDelimitWindow
<1>1. ASSUME CacheInv, NEW p \in Pos, NEW lo \in Time, NEW hi \in Time, lo <= hi
      PROVE  {q \in 1..Len(series[p]) : series[p][q].t \in lo..hi}
               = (Indices(series[p], lo, hi)[1] + 1)..Indices(series[p], lo, hi)[2]
  <2> DEFINE s == series[p]
             n == Len(s)
             ix == Indices(s, lo, hi)
  <2>1. n \in Nat /\ Rising(s, n) /\ \A a \in 1..n : s[a].t \in Nat
    BY <1>1, PointOf DEF CacheInv
  <2>2. lo \in Nat /\ hi \in Nat /\ hi + 1 \in Nat
    BY CacheAssumption
  <2>3. CASE s = <<>> \/ s[1].t > hi \/ Last(s).t < lo
    <3>1. ix[1] = -1 /\ ix[2] = -1
      BY <2>3 DEF Indices
    <3>2. ASSUME NEW a \in 1..n PROVE s[a].t \notin lo..hi
      <4>1. 1 \in 1..n /\ n \in 1..n /\ s # <<>> /\ Last(s) = s[n]
        BY <2>1 DEF Last
      <4>2. s[1].t <= s[a].t /\ s[a].t <= s[n].t
        BY <2>1, <4>1 DEF Rising
      <4> HIDE DEF s, n
      <4> QED
        BY <2>1, <2>2, <2>3, <4>1, <4>2
    <3> HIDE DEF s, n, ix
    <3> QED
      BY <3>1, <3>2 DEF s, n, ix
  <2>4. CASE ~(s = <<>> \/ s[1].t > hi \/ Last(s).t < lo)
    <3> DEFINE f == FirstIndex(s, lo)
               g == FirstIndex(s, hi + 1)
    <3>1. ix[1] = f - 1 /\ ix[2] = g - 1
      BY <2>4 DEF Indices
    <3>2. /\ f \in 1..(n + 1) /\ \A a \in 1..n : s[a].t < lo <=> a < f
          /\ g \in 1..(n + 1) /\ \A a \in 1..n : s[a].t < hi + 1 <=> a < g
      BY <2>1, <2>2, FirstIndexIs
    <3> HIDE DEF f, g, s, n, ix
    <3>3. \A a \in 1..n : s[a].t \in lo..hi <=> a \in f..(g - 1)
      BY <2>1, <2>2, <3>2
    <3>4. {q \in 1..n : s[q].t \in lo..hi} = f..(g - 1)
      BY <2>1, <3>2, <3>3
    <3>5. f = (f - 1) + 1
      BY <3>2
    <3> QED
      BY <3>1, <3>4, <3>5 DEF s, n, ix
  <2> QED
    BY <2>3, <2>4
<1>2. CacheInv => IndicesDelimitWindow
  BY <1>1 DEF IndicesDelimitWindow
<1> QED
  BY <1>2, CacheInvariance, PTL

-----------------------------------------------------------------------------
(***************************************************************************)
(* CacheQueue: the loop over the queue draws what Cache says.              *)
(***************************************************************************)
VARIABLES queue, first, drawing, rest

Q == INSTANCE CacheQueue

OverlapsIn(d, t) == d # <<>> /\ t <= Last(d).t

\* The operators of Cache as the loop's module sees them; the last two depend
\* on the fields between appends.

LEMMA SameCache ==
  /\ Q!C!Pos = Pos
  /\ Q!C!Selections = Selections
  /\ \A s, a : Q!C!PauseBefore(s, a) <=> PauseBefore(s, a)
  /\ \A s, t : Q!C!FirstIndex(s, t) = FirstIndex(s, t)
  /\ \A s, x : Q!C!MergeSingleSeries(s, x) = MergeSingleSeries(s, x)
  /\ \A ss, from : Q!C!Draw(ss, from) = Draw(ss, from)
  /\ \A batch : Q!C!MinT(batch) = MinT(batch)
  /\ \A t : Q!C!Overlaps(t) <=> OverlapsIn(rest.data, t)
  /\ \A T : Q!C!Points(T) = Labelled(T, rest.appends + 1)
<1>1. Q!C!Pos = Pos
  BY DEF Q!C!Pos, Pos
<1>0. \A S : Q!C!Cardinality(S) = Cardinality(S)
  BY DEF Q!C!Cardinality, Cardinality
<1>2. Q!C!Selections = Selections
  BY <1>0, <1>1 DEF Q!C!Selections, Selections
<1>3. \A s, a : Q!C!PauseBefore(s, a) <=> PauseBefore(s, a)
  BY DEF Q!C!PauseBefore, PauseBefore
<1>4. \A s, t : Q!C!FirstIndex(s, t) = FirstIndex(s, t)
  BY DEF Q!C!FirstIndex, FirstIndex
<1>5. \A s, x : Q!C!MergeSingleSeries(s, x) = MergeSingleSeries(s, x)
  <2>1. \A s, x : Q!C!StableMerge(s, x) = StableMerge(s, x)
    BY DEF Q!C!StableMerge, StableMerge, Q!C!Cardinality, Cardinality
  <2> QED
    BY <2>1 DEF Q!C!MergeSingleSeries, MergeSingleSeries
<1>6. \A T : Q!C!Ascending(T) = Ascending(T)
  BY DEF Q!C!Ascending, Ascending, Q!C!Cardinality, Cardinality
<1>7. \A ss, from : Q!C!Draw(ss, from) = Draw(ss, from)
  <2>1. \A ss, from, p, t : Q!C!PointsAt(ss, from, p, t) = PointsAt(ss, from, p, t)
    BY DEF Q!C!PointsAt, PointsAt
  <2>2. \A ss, from, p, t : Q!C!GapAt(ss, from, p, t) <=> GapAt(ss, from, p, t)
    BY <1>3 DEF Q!C!GapAt, GapAt
  <2>3. \A ss, from, p, t : Q!C!CellAt(ss, from, p, t) = CellAt(ss, from, p, t)
    BY DEF Q!C!CellAt, CellAt, Q!C!Max, Max, Q!C!PointsAt, PointsAt, Q!C!GapAt, GapAt,
           Q!C!PauseBefore, PauseBefore
  <2>4. \A ss, from : Q!C!RowTimes(ss, from) = RowTimes(ss, from)
    BY <1>1, <1>3 DEF Q!C!RowTimes, RowTimes
  <2> QED
    BY <1>1, <1>6, <2>3, <2>4 DEF Q!C!Draw, Draw
<1>8. \A batch : Q!C!MinT(batch) = MinT(batch)
  BY <1>1 DEF Q!C!MinT, MinT, Q!C!Min, Min
<1>9. \A t : Q!C!Overlaps(t) <=> OverlapsIn(rest.data, t)
  BY DEF Q!C!Overlaps, OverlapsIn, Q!C!Last, Last
<1>10. \A T : Q!C!Points(T) = Labelled(T, rest.appends + 1)
  BY <1>6 DEF Q!C!Points, Labelled
<1> QED
  BY <1>1, <1>2, <1>3, <1>4, <1>5, <1>7, <1>8, <1>9, <1>10

-----------------------------------------------------------------------------
(***************************************************************************)
(* The cells drawn so far: nxt[p] is the point of series p in the queue or *)
(* to be pushed next, and open the series whose gap before it is waiting.  *)
(***************************************************************************)
DoneAt(ss, from, nxt, p, t) == {a \in PointsAt(ss, from, p, t) : a < nxt[p]}

GapDone(ss, from, nxt, open, p, t) ==
  \E a \in from[p]..Len(ss[p]) :
    /\ a < nxt[p] \/ (a = nxt[p] /\ p \notin open)
    /\ PauseBefore(ss[p], a) /\ ss[p][a].t = t + 1

DoneCell(ss, from, nxt, open, p, t) ==
  IF DoneAt(ss, from, nxt, p, t) # {}
  THEN ss[p][Max(DoneAt(ss, from, nxt, p, t))].v
  ELSE IF GapDone(ss, from, nxt, open, p, t) THEN NaN ELSE Null

Ahead(ss, from, nxt, open) ==
  /\ SeriesOK(ss) /\ from \in Froms /\ nxt \in Froms /\ open \in SUBSET Pos
  /\ \A p \in Pos : from[p] <= nxt[p]
  /\ \A p \in open : nxt[p] <= Len(ss[p]) /\ PauseBefore(ss[p], nxt[p])

PointItem(ss, p, a) == [pos |-> p, t |-> ss[p][a].t, v |-> ss[p][a].v, i |-> a]
GapItem(ss, p, a) == [pos |-> p, t |-> ss[p][a].t - 1, v |-> NaN, i |-> 0]

Waits(ss, nxt, open, y) ==
  \/ \E p \in Pos : nxt[p] <= Len(ss[p]) /\ y = PointItem(ss, p, nxt[p])
  \/ \E p \in open : y = GapItem(ss, p, nxt[p])

\* x is drawn, and then the loop has reached nxt2 and open2.
Drawn(ss, from, nxt, open, nxt2, open2, x) ==
  \A p \in Pos, t \in Nat :
    DoneCell(ss, from, nxt2, open2, p, t)
      = IF p = x.pos /\ t = x.t THEN x.v ELSE DoneCell(ss, from, nxt, open, p, t)

\* Before the loop nothing is drawn.
LEMMA NothingDone ==
  ASSUME NEW ss, NEW from, NEW open, Ahead(ss, from, from, open),
         \A p \in Pos : from[p] <= Len(ss[p]) /\ PauseBefore(ss[p], from[p]) => p \in open
  PROVE  \A p \in Pos, t \in Nat : DoneCell(ss, from, from, open, p, t) = Null
<1> SUFFICES ASSUME NEW p \in Pos, NEW t \in Nat
             PROVE  DoneCell(ss, from, from, open, p, t) = Null
  OBVIOUS
<1>1. Len(ss[p]) \in Nat /\ from[p] \in Nat \ {0}
  BY PointOf DEF Ahead, Froms
<1>2. DoneAt(ss, from, from, p, t) = {}
  BY <1>1 DEF DoneAt, PointsAt
<1>3. ~GapDone(ss, from, from, open, p, t)
  BY <1>1 DEF GapDone
<1> QED
  BY <1>2, <1>3 DEF DoneCell

\* When the queue is empty everything is drawn.
LEMMA AllDone ==
  ASSUME NEW ss, NEW from, NEW nxt, NEW open, Ahead(ss, from, nxt, open),
         \A y : ~Waits(ss, nxt, open, y)
  PROVE  \A p \in Pos, t \in Nat : DoneCell(ss, from, nxt, open, p, t) = CellAt(ss, from, p, t)
<1> SUFFICES ASSUME NEW p \in Pos, NEW t \in Nat
             PROVE  DoneCell(ss, from, nxt, open, p, t) = CellAt(ss, from, p, t)
  OBVIOUS
<1>1. /\ Len(ss[p]) \in Nat /\ from[p] \in Nat \ {0} /\ nxt[p] \in Nat \ {0}
      /\ SeriesOK(ss) /\ from \in Froms
  BY PointOf DEF Ahead, Froms
<1>2. ~(nxt[p] <= Len(ss[p]))
  BY DEF Waits
<1>3. DoneAt(ss, from, nxt, p, t) = PointsAt(ss, from, p, t)
  BY <1>1, <1>2 DEF DoneAt, PointsAt
<1>4. GapDone(ss, from, nxt, open, p, t) <=> GapAt(ss, from, p, t)
  BY <1>1, <1>2 DEF GapDone, GapAt
<1> QED
  BY <1>1, <1>3, <1>4, CellIs DEF DoneCell

\* What is drawn is a number, a gap or nothing.
LEMMA DoneCellType ==
  ASSUME NEW ss, NEW from, NEW nxt, NEW open, Ahead(ss, from, nxt, open),
         NEW p \in Pos, NEW t \in Nat
  PROVE  DoneCell(ss, from, nxt, open, p, t) \in Nat \cup {NaN, Null}
<1> DEFINE at == DoneAt(ss, from, nxt, p, t)
           n == Len(ss[p])
<1>1. n \in Nat /\ (\A a \in 1..n : ss[p][a].v \in Nat) /\ from[p] \in Nat \ {0}
  BY PointOf DEF Ahead, Froms
<1>2. at \subseteq 1..n
  BY <1>1 DEF DoneAt, PointsAt
<1>3. CASE at # {}
  <2>1. Max(at) \in at
    <3>1. at \subseteq Nat /\ \A x \in at : x <= n
      BY <1>1, <1>2
    <3> HIDE DEF at, n
    <3> QED
      BY <1>1, <1>3, <3>1, GreatestNumber
  <2> QED
    BY <1>1, <1>2, <1>3, <2>1 DEF DoneCell
<1>4. CASE at = {}
  BY <1>4 DEF DoneCell
<1> QED
  BY <1>3, <1>4

\* A point is popped: its series goes on.
LEMMA PointDone ==
  ASSUME NEW ss, NEW from, NEW nxt, NEW open, Ahead(ss, from, nxt, open),
         NEW q \in Pos, nxt[q] <= Len(ss[q]), q \notin open,
         NEW nxt2, nxt2 = [nxt EXCEPT ![q] = nxt[q] + 1],
         NEW open2, open2 = IF nxt[q] + 1 <= Len(ss[q]) /\ PauseBefore(ss[q], nxt[q] + 1)
                            THEN open \cup {q} ELSE open
  PROVE  /\ Ahead(ss, from, nxt2, open2)
         /\ Drawn(ss, from, nxt, open, nxt2, open2, PointItem(ss, q, nxt[q]))
<1> DEFINE n == Len(ss[q])
           now == nxt[q]
<1>1. /\ n \in Nat /\ now \in Nat \ {0} /\ from[q] \in Nat \ {0} /\ from[q] <= now /\ now <= n
      /\ nxt \in [Pos -> Nat \ {0}] /\ open \in SUBSET Pos
  BY PointOf DEF Ahead, Froms
<1>2. /\ nxt2 \in Froms /\ nxt2[q] = now + 1 /\ \A p \in Pos : p # q => nxt2[p] = nxt[p]
      /\ open2 \in SUBSET Pos /\ \A p \in Pos : p # q => (p \in open2 <=> p \in open)
      /\ q \in open2 <=> now + 1 <= n /\ PauseBefore(ss[q], now + 1)
  BY <1>1 DEF Froms
<1> HIDE DEF now, n
<1>3. Ahead(ss, from, nxt2, open2)
  <2>1. \A p \in Pos : from[p] <= nxt2[p]
    <3>1. from[q] <= now + 1
      BY <1>1
    <3> QED
      BY <1>2, <3>1 DEF Ahead
  <2>2. \A p \in open2 : nxt2[p] <= Len(ss[p]) /\ PauseBefore(ss[p], nxt2[p])
    <3> SUFFICES ASSUME NEW p \in open2
                 PROVE  nxt2[p] <= Len(ss[p]) /\ PauseBefore(ss[p], nxt2[p])
      OBVIOUS
    <3>1. CASE p = q
      BY <1>2, <3>1 DEF n
    <3>2. CASE p # q
      BY <1>2, <3>2 DEF Ahead
    <3> QED
      BY <3>1, <3>2
  <2> QED
    BY <1>2, <2>1, <2>2 DEF Ahead
<1>4. ASSUME NEW p \in Pos, NEW t \in Nat, p # q
      PROVE  DoneCell(ss, from, nxt2, open2, p, t) = DoneCell(ss, from, nxt, open, p, t)
  <2>1. nxt2[p] = nxt[p] /\ (p \in open2 <=> p \in open)
    BY <1>2, <1>4
  <2>2. DoneAt(ss, from, nxt2, p, t) = DoneAt(ss, from, nxt, p, t)
    BY <2>1 DEF DoneAt
  <2>3. GapDone(ss, from, nxt2, open2, p, t) <=> GapDone(ss, from, nxt, open, p, t)
    BY <2>1 DEF GapDone
  <2> QED
    BY <2>2, <2>3 DEF DoneCell
<1>5. ASSUME NEW t \in Nat, t = ss[q][now].t
      PROVE  DoneCell(ss, from, nxt2, open2, q, t) = ss[q][now].v
  <2> DEFINE T == DoneAt(ss, from, nxt2, q, t)
  <2>1. T \subseteq Int /\ now \in T /\ \A x \in T : x <= now
    BY <1>1, <1>2, <1>5 DEF DoneAt, PointsAt, n
  <2> HIDE DEF T
  <2>2. Max(T) = now
    BY <2>1, MaxIs
  <2>3. T # {}
    BY <2>1
  <2> QED
    BY <2>2, <2>3 DEF T, DoneCell
<1>6. ASSUME NEW t \in Nat, t # ss[q][now].t
      PROVE  DoneCell(ss, from, nxt2, open2, q, t) = DoneCell(ss, from, nxt, open, q, t)
  <2>1. \A a \in Nat : a < now + 1 <=> a < now \/ a = now
    BY <1>1
  <2>2. from[q]..n \subseteq Nat
    BY <1>1
  <2>3. DoneAt(ss, from, nxt2, q, t) = DoneAt(ss, from, nxt, q, t)
    BY <1>2, <1>6, <2>1, <2>2 DEF DoneAt, PointsAt, now, n
  <2>4. GapDone(ss, from, nxt2, open2, q, t) <=> GapDone(ss, from, nxt, open, q, t)
    <3>1. ASSUME NEW a \in from[q]..n, PauseBefore(ss[q], a)
          PROVE  (a < nxt2[q] \/ (a = nxt2[q] /\ q \notin open2))
                   <=> (a < nxt[q] \/ (a = nxt[q] /\ q \notin open))
      <4>1. a \in Nat /\ a <= n
        BY <1>1
      <4>2. a = now + 1 => q \in open2
        BY <1>2, <3>1, <4>1
      <4> QED
        BY <1>2, <2>1, <4>1, <4>2 DEF now
    <3> QED
      BY <3>1 DEF GapDone, n
  <2> QED
    BY <2>3, <2>4 DEF DoneCell
<1>7. Drawn(ss, from, nxt, open, nxt2, open2, PointItem(ss, q, nxt[q]))
  BY <1>4, <1>5, <1>6 DEF Drawn, PointItem, now
<1> QED
  BY <1>3, <1>7

\* A gap is popped: the point behind it stays.
LEMMA GapPopped ==
  ASSUME NEW ss, NEW from, NEW nxt, NEW open, Ahead(ss, from, nxt, open),
         NEW q \in open, NEW open2, open2 = open \ {q}
  PROVE  /\ Ahead(ss, from, nxt, open2)
         /\ Drawn(ss, from, nxt, open, nxt, open2, GapItem(ss, q, nxt[q]))
<1> DEFINE n == Len(ss[q])
           now == nxt[q]
<1>1. /\ q \in Pos /\ n \in Nat /\ now \in 1..n /\ from[q] \in Nat \ {0} /\ from[q] <= now
      /\ PauseBefore(ss[q], now) /\ Rising(ss[q], n)
      /\ \A a \in 1..n : ss[q][a].t \in Nat /\ ss[q][a].t > 0
  BY PointOf DEF Ahead, Froms
<1>2. Ahead(ss, from, nxt, open2)
  BY DEF Ahead
<1> HIDE DEF now, n
<1>3. ASSUME NEW p \in Pos, NEW t \in Nat, p # q
      PROVE  DoneCell(ss, from, nxt, open2, p, t) = DoneCell(ss, from, nxt, open, p, t)
  <2>1. GapDone(ss, from, nxt, open2, p, t) <=> GapDone(ss, from, nxt, open, p, t)
    BY <1>3 DEF GapDone
  <2> QED
    BY <2>1 DEF DoneCell
<1>4. ASSUME NEW t \in Nat, t = ss[q][now].t - 1
      PROVE  DoneCell(ss, from, nxt, open2, q, t) = NaN
  <2>1. now > 1 /\ now - 1 \in 1..n /\ ss[q][now].t - ss[q][now - 1].t > MaxGap
    BY <1>1 DEF PauseBefore
  <2>2. ASSUME NEW a \in DoneAt(ss, from, nxt, q, t) PROVE FALSE
    <3>1. a \in from[q]..n /\ ss[q][a].t = t /\ a < now
      BY <2>2 DEF DoneAt, PointsAt, now, n
    <3>2. a \in 1..n /\ a <= now - 1
      BY <1>1, <3>1
    <3>3. ss[q][a].t <= ss[q][now - 1].t
      BY <1>1, <2>1, <3>2 DEF Rising
    <3>4. ss[q][now].t \in Nat /\ ss[q][now - 1].t \in Nat /\ MaxGap \in Nat /\ MaxGap >= 1
      BY <1>1, <2>1, CacheAssumption
    <3> QED
      BY <1>4, <2>1, <3>1, <3>3, <3>4
  <2>3. GapDone(ss, from, nxt, open2, q, t)
    <3>1. now \in from[q]..n /\ ss[q][now].t = t + 1
      BY <1>1, <1>4
    <3> QED
      BY <1>1, <3>1 DEF GapDone, now, n
  <2> QED
    BY <2>2, <2>3 DEF DoneCell
<1>5. ASSUME NEW t \in Nat, t # ss[q][now].t - 1
      PROVE  DoneCell(ss, from, nxt, open2, q, t) = DoneCell(ss, from, nxt, open, q, t)
  <2>1. t + 1 # ss[q][now].t
    BY <1>1, <1>5
  <2>2. GapDone(ss, from, nxt, open2, q, t) <=> GapDone(ss, from, nxt, open, q, t)
    BY <2>1 DEF GapDone, now, n
  <2> QED
    BY <2>2 DEF DoneCell
<1>6. Drawn(ss, from, nxt, open, nxt, open2, GapItem(ss, q, nxt[q]))
  BY <1>3, <1>4, <1>5 DEF Drawn, GapItem, now
<1> QED
  BY <1>2, <1>6

-----------------------------------------------------------------------------
(***************************************************************************)
(* The rows made so far, behind the base that were kept.                      *)
(***************************************************************************)
RowsMade(ss, from, nxt, open, base, d) ==
  /\ d \in Seq(Row) /\ base \in 0..Len(d)
  /\ \A a \in (base + 1)..Len(d) :
       /\ \A p \in Pos : d[a].cells[p] = DoneCell(ss, from, nxt, open, p, d[a].t)
       /\ \E p \in Pos : d[a].cells[p] # Null
  /\ \A a, b \in (base + 1)..Len(d) : a < b => d[a].t < d[b].t
  /\ \A t \in Nat, p \in Pos :
       DoneCell(ss, from, nxt, open, p, t) # Null => \E a \in (base + 1)..Len(d) : d[a].t = t

\* The row of x, when there is none of its time, and its cell, when there is.
RowFor(x) == [t |-> x.t, cells |-> [p \in Pos |-> IF p = x.pos THEN x.v ELSE Null]]
CellOf(d, x) == [d EXCEPT ![Len(d)].cells[x.pos] = x.v]

LEMMA RowAppended ==
  ASSUME NEW ss, NEW from, NEW nxt, NEW open, NEW nxt2, NEW open2, NEW x,
         Drawn(ss, from, nxt, open, nxt2, open2, x),
         x.pos \in Pos, x.t \in Nat, x.v \in Nat \cup {NaN},
         NEW base, NEW d, RowsMade(ss, from, nxt, open, base, d),
         \A a \in (base + 1)..Len(d) : d[a].t < x.t
  PROVE  /\ RowsMade(ss, from, nxt2, open2, base, Append(d, RowFor(x)))
         /\ Len(Append(d, RowFor(x))) = Len(d) + 1
         /\ \A a \in 1..Len(d) : Append(d, RowFor(x))[a] = d[a]
         /\ Append(d, RowFor(x))[Len(d) + 1].t = x.t
<1> DEFINE r == RowFor(x)
           e == Append(d, r)
           n == Len(d)
           Old(p, t) == DoneCell(ss, from, nxt, open, p, t)
           New(p, t) == DoneCell(ss, from, nxt2, open2, p, t)
<1>1. r \in Row /\ r.t = x.t /\ \A p \in Pos : r.cells[p] = IF p = x.pos THEN x.v ELSE Null
  BY DEF RowFor, Row
<1>2. NaN # Null /\ NaN \notin Nat /\ Null \notin Nat
  BY CacheAssumption
<1>3. d \in Seq(Row) /\ n \in Nat /\ base \in 0..n /\ base \in Nat
  <2> HIDE DEF Row
  <2> QED
    BY DEF RowsMade
<1> HIDE DEF r
<1>4. e \in Seq(Row) /\ Len(e) = n + 1 /\ (\A a \in 1..n : e[a] = d[a]) /\ e[n + 1] = r
  <2> HIDE DEF Row
  <2> QED
    BY <1>1, <1>3, AppendProperties
<1> HIDE DEF e
<1>5. /\ base \in 0..(n + 1)
      /\ \A a \in (base + 1)..(n + 1) : a = n + 1 \/ (a \in (base + 1)..n /\ e[a] = d[a])
      /\ \A a \in (base + 1)..n : a \in (base + 1)..(n + 1) /\ e[a] = d[a]
      /\ n + 1 \in (base + 1)..(n + 1)
      /\ \A a \in (base + 1)..n : a # n + 1 /\ a \in 1..n
      /\ \A a \in (base + 1)..(n + 1) : a > n => a = n + 1
  BY <1>3, <1>4
<1>6. ASSUME NEW t \in Nat, NEW p \in Pos
      PROVE  New(p, t) = IF p = x.pos /\ t = x.t THEN x.v ELSE Old(p, t)
  BY DEF Drawn
<1>7. ASSUME NEW a \in (base + 1)..n PROVE d[a].t \in Nat /\ d[a].t # x.t
  <2>1. d[a].t \in Nat
    BY <1>3, <1>5, RowOf
  <2> QED
    BY <2>1
<1>8. \A p \in Pos : Old(p, x.t) = Null
  <2> SUFFICES ASSUME NEW p \in Pos, Old(p, x.t) # Null PROVE FALSE
    OBVIOUS
  <2>1. PICK a \in (base + 1)..n : d[a].t = x.t
    BY DEF RowsMade
  <2> QED
    BY <1>7, <2>1
<1> HIDE DEF n, Old, New
<1>9. ASSUME NEW a \in (base + 1)..(n + 1)
      PROVE  /\ \A p \in Pos : e[a].cells[p] = New(p, e[a].t)
             /\ \E p \in Pos : e[a].cells[p] # Null
  <2>1. CASE a = n + 1
    <3>1. \A p \in Pos : r.cells[p] = New(p, x.t)
      BY <1>1, <1>6, <1>8
    <3>2. r.cells[x.pos] # Null
      BY <1>1, <1>2
    <3> QED
      BY <1>1, <1>4, <2>1, <3>1, <3>2
  <2>2. CASE a \in (base + 1)..n /\ e[a] = d[a]
    <3>1. d[a].t \in Nat /\ d[a].t # x.t
      BY <1>7, <2>2
    <3>2. /\ \A p \in Pos : d[a].cells[p] = Old(p, d[a].t)
          /\ \E p \in Pos : d[a].cells[p] # Null
      BY <2>2 DEF RowsMade, n, Old
    <3> QED
      BY <1>6, <2>2, <3>1, <3>2
  <2> QED
    BY <1>5, <2>1, <2>2
<1>10. ASSUME NEW a \in (base + 1)..(n + 1), NEW b \in (base + 1)..(n + 1), a < b
       PROVE  e[a].t < e[b].t
  <2>1. a \in (base + 1)..n /\ e[a] = d[a]
    BY <1>3, <1>10, <1>5
  <2>2. CASE b = n + 1
    BY <1>1, <1>4, <2>1, <2>2 DEF n
  <2>3. CASE b \in (base + 1)..n /\ e[b] = d[b]
    BY <1>10, <2>1, <2>3 DEF RowsMade, n
  <2> QED
    BY <1>5, <2>2, <2>3
<1>11. ASSUME NEW t \in Nat, NEW p \in Pos, New(p, t) # Null
       PROVE  \E a \in (base + 1)..(n + 1) : e[a].t = t
  <2>1. CASE t = x.t
    BY <1>1, <1>4, <1>5, <2>1
  <2>2. CASE t # x.t
    <3>1. Old(p, t) # Null
      BY <1>6, <1>11, <2>2
    <3>2. PICK a \in (base + 1)..n : d[a].t = t
      BY <3>1 DEF RowsMade, Old, n
    <3> QED
      BY <1>5, <3>2
  <2> QED
    BY <2>1, <2>2
<1>12. RowsMade(ss, from, nxt2, open2, base, e)
  <2> HIDE DEF Row
  <2> QED
    BY <1>4, <1>5, <1>9, <1>10, <1>11 DEF RowsMade, New
<1> QED
  BY <1>1, <1>4, <1>12 DEF e, r, n

LEMMA CellWritten ==
  ASSUME NEW ss, NEW from, NEW nxt, NEW open, NEW nxt2, NEW open2, NEW x,
         Drawn(ss, from, nxt, open, nxt2, open2, x),
         x.pos \in Pos, x.t \in Nat, x.v \in Nat \cup {NaN},
         NEW base, NEW d, RowsMade(ss, from, nxt, open, base, d), Len(d) # base, d[Len(d)].t = x.t
  PROVE  /\ RowsMade(ss, from, nxt2, open2, base, CellOf(d, x))
         /\ Len(CellOf(d, x)) = Len(d)
         /\ \A a \in 1..Len(d) : a # Len(d) => CellOf(d, x)[a] = d[a]
         /\ CellOf(d, x)[Len(d)].t = x.t
<1> DEFINE n == Len(d)
           e == CellOf(d, x)
           Old(p, t) == DoneCell(ss, from, nxt, open, p, t)
           New(p, t) == DoneCell(ss, from, nxt2, open2, p, t)
<1>1. NaN # Null /\ NaN \notin Nat /\ Null \notin Nat
  BY CacheAssumption
<1>2. d \in Seq(Row) /\ n \in Nat /\ base \in 0..n /\ base \in Nat
  <2> HIDE DEF Row
  <2> QED
    BY DEF RowsMade
<1>3. /\ n \in (base + 1)..n /\ n \in 1..n /\ \A a \in (base + 1)..n : a \in 1..n
  BY <1>2
<1>4. /\ d[n] \in Row
      /\ \A a \in 1..n : d[a].t \in Nat
  <2>1. d[n] \in Row
    <3> HIDE DEF Row
    <3> QED
      BY <1>2, <1>3
  <2> QED
    BY <1>2, <2>1, RowOf
<1> DEFINE r == [d[n] EXCEPT !.cells[x.pos] = x.v]
<1>5. /\ r \in Row /\ r.t = x.t
      /\ \A p \in Pos : r.cells[p] = IF p = x.pos THEN x.v ELSE d[n].cells[p]
  BY <1>4 DEF Row
<1> HIDE DEF r
<1>6. /\ e \in Seq(Row) /\ Len(e) = n /\ e[n] = r
      /\ \A a \in 1..n : a # n => e[a] = d[a]
  <2>1. e = [d EXCEPT ![n] = r]
    BY DEF r, CellOf
  <2> HIDE DEF e
  <2> HIDE DEF Row
  <2>2. d \in [1..n -> Row]
    BY <1>2
  <2>3. e \in [1..n -> Row] /\ e[n] = r /\ \A a \in 1..n : a # n => e[a] = d[a]
    BY <1>3, <1>5, <2>1, <2>2
  <2> QED
    BY <1>2, <2>3
<1>7. ASSUME NEW t \in Nat, NEW p \in Pos
      PROVE  New(p, t) = IF p = x.pos /\ t = x.t THEN x.v ELSE Old(p, t)
  BY DEF Drawn
<1> HIDE DEF e
<1>8. \A a \in 1..n : e[a].t = d[a].t
  BY <1>5, <1>6
<1> HIDE DEF n, e, Old, New
<1>9. /\ \A a, b \in (base + 1)..n : a < b => d[a].t < d[b].t
      /\ \A a \in (base + 1)..n : /\ \A p \in Pos : d[a].cells[p] = Old(p, d[a].t)
                               /\ \E p \in Pos : d[a].cells[p] # Null
      /\ \A t \in Nat, p \in Pos : Old(p, t) # Null => \E a \in (base + 1)..n : d[a].t = t
  BY DEF RowsMade, Old, n
<1>10. ASSUME NEW a \in (base + 1)..n
       PROVE  /\ \A p \in Pos : e[a].cells[p] = New(p, e[a].t)
              /\ \E p \in Pos : e[a].cells[p] # Null
  <2>1. CASE a = n
    <3>1. d[n].t = x.t
      BY DEF n
    <3>2. \A p \in Pos : d[n].cells[p] = Old(p, x.t)
      BY <1>3, <1>9, <3>1
    <3>3. \A p \in Pos : r.cells[p] = New(p, x.t)
      BY <1>5, <1>7, <3>2
    <3>4. r.cells[x.pos] # Null
      BY <1>1, <1>5
    <3> QED
      BY <1>5, <1>6, <2>1, <3>3, <3>4
  <2>2. CASE a # n
    <3>1. a < n /\ a \in 1..n
      BY <1>2, <1>3, <2>2
    <3>2. d[a].t < d[n].t /\ d[n].t = x.t /\ d[a].t \in Nat
      BY <1>3, <1>4, <1>9, <3>1 DEF n
    <3>3. e[a] = d[a] /\ d[a].t # x.t
      BY <1>6, <2>2, <3>1, <3>2
    <3> QED
      BY <1>7, <1>9, <3>2, <3>3
  <2> QED
    BY <2>1, <2>2
<1>11. \A a, b \in (base + 1)..n : a < b => e[a].t < e[b].t
  BY <1>3, <1>8, <1>9
<1>12. ASSUME NEW t \in Nat, NEW p \in Pos, New(p, t) # Null
       PROVE  \E a \in (base + 1)..n : e[a].t = t
  <2>1. CASE t = x.t
    <3>1. d[n].t = t
      BY <2>1 DEF n
    <3> QED
      BY <1>3, <1>8, <3>1
  <2>2. CASE t # x.t
    <3>1. PICK a \in (base + 1)..n : d[a].t = t
      BY <1>7, <1>9, <1>12, <2>2
    <3> QED
      BY <1>3, <1>8, <3>1
  <2> QED
    BY <2>1, <2>2
<1>13. RowsMade(ss, from, nxt2, open2, base, e)
  <2> HIDE DEF Row
  <2> QED
    BY <1>2, <1>6, <1>10, <1>11, <1>12 DEF RowsMade, New
<1> QED
  BY <1>5, <1>6, <1>13 DEF n, e

\* An increasing list of numbers, and one that has the members of another.
Listed(f, n) == n \in Nat /\ (\A a \in 1..n : f[a] \in Nat) /\ Increasing(f, n)
Covers(g, u, f, n) == \A a \in 1..n : \E b \in 1..u : g[b] = f[a]

\* Two increasing lists with the same members are the same.
LEMMA SameList ==
  ASSUME NEW f, NEW g, NEW n, NEW u, Listed(f, n), Listed(g, u),
         Covers(g, u, f, n), Covers(f, n, g, u)
  PROVE  n = u /\ \A a \in 1..n : f[a] = g[a]
<1> USE DEF Listed, Covers
<1> DEFINE Differ == {a \in 1..n : a > u \/ f[a] # g[a]}
<1>1. ASSUME NEW a \in Differ PROVE FALSE
  <2>1. Differ \subseteq Nat
    OBVIOUS
  <2> HIDE DEF Differ
  <2>0. Differ # {}
    BY <1>1
  <2>2. PICK c \in Differ : \A b \in Differ : c <= b
    BY <2>0, <2>1, LeastNumber
  <2> USE DEF Differ
  <2>3. c \in 1..n /\ (c > u \/ f[c] # g[c]) /\ \A b \in 1..n : b < c => b <= u /\ f[b] = g[b]
    <3>1. ASSUME NEW b \in 1..n, b < c PROVE b \notin Differ
      <4> HIDE DEF Differ
      <4> QED
        BY <2>1, <2>2, <3>1
    <3> QED
      BY <3>1
  <2> HIDE DEF Differ
  <2>4. PICK b \in 1..u : g[b] = f[c]
    BY <2>3
  <2>5. f[c] \in Nat /\ g[b] \in Nat
    BY <2>3
  <2>6. ~(b < c)
    <3>1. ASSUME b < c PROVE FALSE
      <4>1. b \in 1..n /\ f[b] = g[b]
        BY <2>3, <3>1
      <4>2. f[b] < f[c]
        BY <2>3, <3>1, <4>1 DEF Increasing
      <4> QED
        BY <2>4, <2>5, <4>1, <4>2
    <3> QED
      BY <3>1
  <2>7. c < b /\ c \in 1..u
    <3>1. c # b
      BY <2>3, <2>4
    <3> QED
      BY <2>3, <2>6, <3>1
  <2>8. g[c] < f[c] /\ g[c] \in Nat
    BY <2>4, <2>7 DEF Increasing
  <2>9. PICK e \in 1..n : f[e] = g[c]
    BY <2>7
  <2>10. CASE e < c
    <3>1. f[e] = g[e] /\ e \in 1..u
      BY <2>3, <2>7, <2>10
    <3>2. g[e] < g[c]
      BY <2>7, <2>10, <3>1 DEF Increasing
    <3> QED
      BY <2>8, <2>9, <3>1, <3>2
  <2>11. CASE e = c
    BY <2>5, <2>8, <2>9, <2>11
  <2>12. CASE c < e
    <3>1. f[c] < f[e]
      BY <2>3, <2>12 DEF Increasing
    <3> QED
      BY <2>5, <2>8, <2>9, <3>1
  <2> QED
    BY <2>3, <2>10, <2>11, <2>12
<1>2. \A a \in 1..n : a <= u /\ f[a] = g[a]
  BY <1>1
<1>3. n <= u
  BY <1>2
<1>4. ASSUME n < u PROVE FALSE
  <2>1. u \in 1..u
    BY <1>4
  <2>2. PICK a \in 1..n : f[a] = g[u]
    BY <2>1
  <2>3. a < u /\ a \in 1..u /\ g[a] = g[u]
    BY <1>2, <1>4, <2>2
  <2>4. g[a] < g[u]
    BY <2>1, <2>3 DEF Increasing
  <2> QED
    BY <2>1, <2>3, <2>4
<1>5. n = u
  BY <1>3, <1>4
<1> QED
  BY <1>2, <1>5

\* When every cell is drawn the rows are those of Draw.
AllDrawn(ss, from, nxt, open) ==
  \A p \in Pos, t \in Nat : DoneCell(ss, from, nxt, open, p, t) = CellAt(ss, from, p, t)

LEMMA RowsComplete ==
  ASSUME NEW ss, SeriesOK(ss), NEW from \in Froms, NEW nxt, NEW open,
         AllDrawn(ss, from, nxt, open), NEW base, NEW d, RowsMade(ss, from, nxt, open, base, d),
         NEW kept \in Seq(Row), base = Len(kept), \A a \in 1..base : d[a] = kept[a]
  PROVE  d = kept \o Draw(ss, from)
<1> DEFINE w == Draw(ss, from)
           n == Len(d)
           u == Len(w)
           Cell(p, t) == CellAt(ss, from, p, t)
           f == [a \in 1..(n - base) |-> d[base + a].t]
           g == [a \in 1..u |-> w[a].t]
<1>1. /\ d \in Seq(Row) /\ n \in Nat /\ base \in 0..n /\ base \in Nat
      /\ n - base \in Nat
  <2> HIDE DEF Row
  <2> QED
    BY DEF RowsMade
<1>2. /\ w \in Seq(Row) /\ u \in Nat
      /\ \A a, b \in 1..u : a < b => w[a].t < w[b].t
      /\ \A a \in 1..u : w[a].t \in RowTimes(ss, from)
      /\ \A a \in 1..u : \A p \in Pos : w[a].cells[p] = Cell(p, w[a].t)
      /\ \A t \in RowTimes(ss, from) : \E a \in 1..u : w[a].t = t
  <2>1. w \in Seq(Row)
    BY DrawIs
  <2>2. u \in Nat
    <3> HIDE DEF Row, w
    <3> QED
      BY <2>1
  <2> QED
    BY <2>1, <2>2, DrawIs
<1> HIDE DEF w
<1>3. \A t \in Nat : t \in RowTimes(ss, from) <=> \E p \in Pos : Cell(p, t) # Null
  BY RowTimesIs
<1>4. /\ \A a \in 1..(n - base) : base + a \in 1..n /\ base + a \in (base + 1)..n
      /\ \A a \in (base + 1)..n : a - base \in 1..(n - base) /\ base + (a - base) = a
  BY <1>1
<1>5. /\ \A a \in 1..n : d[a] \in Row /\ d[a].t \in Nat
      /\ \A a \in 1..u : w[a] \in Row /\ w[a].t \in Nat
  <2>1. /\ \A a \in 1..n : d[a] \in Row
        /\ \A a \in 1..u : w[a] \in Row
    <3> HIDE DEF Row, n, u
    <3> QED
      BY <1>1, <1>2 DEF n, u
  <2> QED
    BY <2>1, <1>1, <1>2, RowOf
<1>6. /\ \A a \in (base + 1)..n :
           /\ \A p \in Pos : d[a].cells[p] = Cell(p, d[a].t)
           /\ \E p \in Pos : d[a].cells[p] # Null
      /\ \A a, b \in (base + 1)..n : a < b => d[a].t < d[b].t
      /\ \A t \in Nat, p \in Pos : Cell(p, t) # Null => \E a \in (base + 1)..n : d[a].t = t
  <2>1. \A a \in (base + 1)..n : d[a].t \in Nat
    BY <1>1, <1>5
  <2> HIDE DEF Cell
  <2>2. \A p \in Pos, t \in Nat : DoneCell(ss, from, nxt, open, p, t) = Cell(p, t)
    BY DEF Cell, AllDrawn
  <2> QED
    BY <2>1, <2>2 DEF RowsMade
<1> HIDE DEF Cell, n, u
<1>7. /\ \A a \in 1..(n - base) : f[a] = d[base + a].t /\ f[a] \in Nat
      /\ \A a \in 1..u : g[a] = w[a].t /\ g[a] \in Nat
  BY <1>4, <1>5
<1>8. Increasing(f, n - base) /\ Increasing(g, u)
  <2>1. ASSUME NEW a \in 1..(n - base), NEW b \in 1..(n - base), a < b PROVE f[a] < f[b]
    <3>1. base + a < base + b
      BY <1>1, <2>1
    <3>2. d[base + a].t < d[base + b].t
      BY <1>4, <1>6, <3>1
    <3> QED
      BY <1>7, <3>2
  <2> QED
    BY <1>2, <1>7, <2>1 DEF Increasing
<1>9. ASSUME NEW a \in 1..(n - base) PROVE \E b \in 1..u : g[b] = f[a]
  <2>1. base + a \in (base + 1)..n /\ d[base + a].t \in Nat
    BY <1>4, <1>5
  <2>2. PICK p \in Pos : Cell(p, d[base + a].t) # Null
    BY <1>6, <2>1
  <2>3. d[base + a].t \in RowTimes(ss, from)
    BY <1>3, <2>1, <2>2
  <2> QED
    BY <1>2, <1>7, <2>3
<1>10. ASSUME NEW b \in 1..u PROVE \E a \in 1..(n - base) : f[a] = g[b]
  <2>1. PICK p \in Pos : Cell(p, w[b].t) # Null
    BY <1>2, <1>3, <1>5
  <2>2. PICK a \in (base + 1)..n : d[a].t = w[b].t
    BY <1>5, <1>6, <2>1
  <2>3. f[a - base] = g[b]
    BY <1>4, <1>7, <2>2
  <2> QED
    BY <1>4, <2>3
<1> HIDE DEF f, g
<1>11. n - base = u /\ \A a \in 1..u : f[a] = g[a]
  <2> DEFINE v == n - base
  <2>3. Listed(f, v) /\ Listed(g, u) /\ Covers(g, u, f, v) /\ Covers(f, v, g, u)
    BY <1>1, <1>2, <1>7, <1>8, <1>9, <1>10 DEF Listed, Covers
  <2> HIDE DEF v
  <2>4. v = u /\ \A a \in 1..v : f[a] = g[a]
    BY <2>3, SameList
  <2>1. n - base = u /\ \A a \in 1..(n - base) : f[a] = g[a]
    BY <2>4 DEF v
  <2> QED
    BY <2>1
<1>12. ASSUME NEW a \in 1..u PROVE d[base + a] = w[a]
  <2>1. a \in 1..(n - base) /\ base + a \in 1..n /\ base + a \in (base + 1)..n
    BY <1>4, <1>11
  <2>2. d[base + a].t = w[a].t
    BY <1>7, <1>11, <2>1
  <2>3. \A p \in Pos : d[base + a].cells[p] = w[a].cells[p]
    BY <1>2, <1>6, <2>1, <2>2
  <2>4. d[base + a] \in Row /\ w[a] \in Row
    BY <1>5, <2>1
  <2> QED
    BY <2>2, <2>3, <2>4 DEF Row
<1> DEFINE e == kept \o w
<1>13. e \in Seq(Row) /\ Len(e) = base + u /\ \A a \in 1..(base + u) :
         e[a] = IF a <= base THEN kept[a] ELSE w[a - base]
  <2> HIDE DEF Row
  <2>1. e \in Seq(Row) /\ Len(e) = Len(kept) + Len(w)
    BY <1>2, ConcatProperties
  <2>2. \A a \in 1..(Len(kept) + Len(w)) : e[a] = IF a <= Len(kept) THEN kept[a] ELSE w[a - Len(kept)]
    BY <1>2, ConcatProperties
  <2> QED
    BY <2>1, <2>2 DEF u
<1> HIDE DEF e
<1>14. n = base + u
  <2>1. n - base = u
    BY <1>11
  <2> QED
    BY <1>1, <1>2, <2>1
<1>15. \A a \in 1..n : d[a] = e[a]
  <2> SUFFICES ASSUME NEW a \in 1..n PROVE d[a] = e[a]
    OBVIOUS
  <2>1. CASE a <= base
    <3>1. a \in 1..base
      BY <1>1, <2>1
    <3> QED
      BY <1>13, <1>14, <2>1, <3>1
  <2>2. CASE base < a
    <3>1. a - base \in 1..u /\ base + (a - base) = a /\ ~(a <= base)
      BY <1>1, <1>2, <1>14, <2>2
    <3>2. d[a] = w[a - base]
      BY <1>12, <3>1
    <3> QED
      BY <1>13, <1>14, <3>1, <3>2
  <2> QED
    BY <1>1, <2>1, <2>2
<1>16. d = e
  <2>1. d \in [1..n -> Row] /\ e \in [1..n -> Row]
    <3> HIDE DEF Row
    <3> QED
      BY <1>1, <1>13, <1>14 DEF n
  <2>2. d = [a \in 1..n |-> d[a]] /\ e = [a \in 1..n |-> e[a]]
    <3> HIDE DEF Row
    <3> QED
      BY <2>1
  <2>3. [a \in 1..n |-> d[a]] = [a \in 1..n |-> e[a]]
    BY <1>15
  <2> QED
    BY <2>2, <2>3
<1> QED
  BY <1>16 DEF e, w

-----------------------------------------------------------------------------
(***************************************************************************)
(* The loop: what is true of its variables before every turn.              *)
(***************************************************************************)
Running(qu, d, fi, ss, from, kept, nxt, open) ==
  /\ Ahead(ss, from, nxt, open)
  /\ \A y : y \in qu <=> Waits(ss, nxt, open, y)
  /\ kept \in Seq(Row) /\ RowsMade(ss, from, nxt, open, Len(kept), d)
  /\ \A a \in 1..Len(kept) : d[a] = kept[a]
  /\ \A a \in (Len(kept) + 1)..Len(d) : \A y \in qu : d[a].t <= y.t
  /\ fi = (Len(d) = Len(kept))

\* What is pushed for a point.
LEMMA ItemsAre ==
  ASSUME NEW ss, NEW p, NEW a
  PROVE  Q!Items(ss, p, a) =
           IF a > Len(ss[p]) THEN {}
           ELSE {PointItem(ss, p, a)}
                \cup IF PauseBefore(ss[p], a) THEN {GapItem(ss, p, a)} ELSE {}
BY SameCache DEF Q!Items, PointItem, GapItem

\* The loop begins with the first point of every series and the gap before it.
LEMMA RunningBegins ==
  ASSUME NEW ss, SeriesOK(ss), NEW from \in Froms, NEW kept \in Seq(Row),
         NEW qu, qu = UNION {Q!Items(ss, p, from[p]) : p \in Pos}
  PROVE  \E open : Running(qu, kept, TRUE, ss, from, kept, from, open)
<1> DEFINE open == {p \in Pos : from[p] <= Len(ss[p]) /\ PauseBefore(ss[p], from[p])}
<1>1. \A p \in Pos : Len(ss[p]) \in Nat /\ from[p] \in Nat \ {0} /\ from[p] <= from[p]
                     /\ (from[p] > Len(ss[p]) <=> ~(from[p] <= Len(ss[p])))
  BY PointOf DEF Froms
<1>2. Ahead(ss, from, from, open)
  BY <1>1 DEF Ahead
<1>3. \A y : y \in qu <=> Waits(ss, from, open, y)
  <2> SUFFICES ASSUME NEW y PROVE y \in qu <=> Waits(ss, from, open, y)
    OBVIOUS
  <2>1. y \in qu <=> \E p \in Pos : y \in Q!Items(ss, p, from[p])
    OBVIOUS
  <2>2. \A p \in Pos : y \in Q!Items(ss, p, from[p]) <=>
                         /\ from[p] <= Len(ss[p])
                         /\ \/ y = PointItem(ss, p, from[p])
                            \/ PauseBefore(ss[p], from[p]) /\ y = GapItem(ss, p, from[p])
    BY <1>1, ItemsAre
  <2> QED
    BY <2>1, <2>2 DEF Waits
<1>4. \A p \in Pos, t \in Nat : DoneCell(ss, from, from, open, p, t) = Null
  BY <1>2, NothingDone
<1>5. Len(kept) \in Nat /\ Len(kept) \in 0..Len(kept) /\ (Len(kept) + 1)..Len(kept) = {}
  <2>1. Len(kept) \in Nat
    <3> HIDE DEF Row
    <3> QED
      OBVIOUS
  <2> QED
    BY <2>1
<1>6. RowsMade(ss, from, from, open, Len(kept), kept)
  <2> HIDE DEF Row, open
  <2> QED
    BY <1>4, <1>5 DEF RowsMade
<1>7. Running(qu, kept, TRUE, ss, from, kept, from, open)
  <2> HIDE DEF Row, open
  <2> QED
    BY <1>2, <1>3, <1>5, <1>6 DEF Running
<1> QED
  BY <1>7

\* interleave's callback, of the rows it is given.
WrittenTo(fi, d, x) ==
  IF fi \/ Last(d).t # x.t
  THEN Append(d, RowFor(x))
  ELSE CellOf(d, x)

LEMMA RowWritten ==
  ASSUME NEW qu, NEW d, NEW fi, NEW ss, NEW from, NEW kept, NEW nxt, NEW open,
         Running(qu, d, fi, ss, from, kept, nxt, open),
         NEW x \in qu, x.pos \in Pos, x.t \in Nat, x.v \in Nat \cup {NaN},
         NEW nxt2, NEW open2, Drawn(ss, from, nxt, open, nxt2, open2, x)
  PROVE  LET d2 == WrittenTo(fi, d, x)
         IN  /\ RowsMade(ss, from, nxt2, open2, Len(kept), d2)
             /\ Len(d2) # Len(kept)
             /\ \A a \in 1..Len(kept) : d2[a] = kept[a]
             /\ \A a \in (Len(kept) + 1)..Len(d2) : d2[a].t <= x.t
<1> DEFINE d2 == WrittenTo(fi, d, x)
           n == Len(d)
           base == Len(kept)
<1>1. /\ n \in Nat /\ base \in 0..n /\ base \in Nat /\ d \in Seq(Row)
      /\ RowsMade(ss, from, nxt, open, base, d)
      /\ fi = (n = base)
      /\ \A a \in 1..base : d[a] = kept[a]
      /\ \A a \in (base + 1)..n : d[a].t <= x.t
      /\ \A a, b \in (base + 1)..n : a < b => d[a].t < d[b].t
  <2> HIDE DEF Row
  <2> QED
    BY DEF Running, RowsMade
<1>2. /\ \A a \in 1..base : a \in 1..n
      /\ \A a \in (base + 1)..n : a \in 1..n /\ n # base /\ n \in (base + 1)..n /\ a <= n
      /\ n # base => n \in (base + 1)..n /\ n \notin 1..base
  BY <1>1
<1>3. \A a \in 1..n : d[a].t \in Nat
  BY <1>1, RowOf
<1>4. n # base => Last(d) = d[n]
  BY DEF Last
<1> HIDE DEF n, base
<1>5. CASE fi \/ Last(d).t # x.t
  <2>1. ASSUME NEW a \in (base + 1)..n PROVE d[a].t < x.t
    <3>1. n # base /\ d[n].t # x.t
      BY <1>1, <1>2, <1>4, <1>5
    <3>2. d[a].t <= d[n].t /\ d[n].t <= x.t /\ d[n].t \in Nat /\ d[a].t \in Nat
      <4>1. a = n \/ a < n
        BY <1>1, <1>2
      <4> QED
        BY <1>1, <1>2, <1>3, <4>1
    <3> QED
      BY <3>1, <3>2
  <2>2. /\ RowsMade(ss, from, nxt2, open2, base, Append(d, RowFor(x)))
        /\ Len(Append(d, RowFor(x))) = n + 1
        /\ \A a \in 1..n : Append(d, RowFor(x))[a] = d[a]
        /\ Append(d, RowFor(x))[n + 1].t = x.t
    BY <1>1, <2>1, RowAppended DEF n
  <2>3. d2 = Append(d, RowFor(x))
    BY <1>5 DEF WrittenTo
  <2> HIDE DEF d2
  <2>4. Len(d2) = n + 1 /\ n + 1 # base
    BY <1>1, <2>2, <2>3
  <2>5. \A a \in 1..base : d2[a] = kept[a]
    BY <1>1, <1>2, <2>2, <2>3
  <2>6. ASSUME NEW a \in (base + 1)..(n + 1) PROVE d2[a].t <= x.t
    <3>1. CASE a = n + 1
      BY <2>2, <2>3, <3>1
    <3>2. CASE a # n + 1
      <4>1. a \in (base + 1)..n
        BY <1>1, <3>2
      <4> QED
        BY <1>1, <1>2, <2>2, <2>3, <4>1
    <3> QED
      BY <3>1, <3>2
  <2> QED
    BY <2>2, <2>3, <2>4, <2>5, <2>6 DEF d2, base
<1>6. CASE ~(fi \/ Last(d).t # x.t)
  <2>1. n # base /\ d[n].t = x.t
    BY <1>1, <1>4, <1>6
  <2>2. d2 = CellOf(d, x)
    BY <1>6 DEF WrittenTo
  <2> HIDE DEF d2
  <2>3. /\ RowsMade(ss, from, nxt2, open2, base, d2)
        /\ Len(d2) = Len(d)
        /\ \A a \in 1..Len(d) : a # Len(d) => d2[a] = d[a]
        /\ d2[Len(d)].t = x.t
    <3>1. RowsMade(ss, from, nxt, open, base, d) /\ Len(d) # base /\ d[Len(d)].t = x.t
      BY <1>1, <2>1 DEF n
    <3> QED
      BY <2>2, <3>1, CellWritten
  <2>4. \A a \in 1..base : d2[a] = kept[a]
    BY <1>1, <1>2, <2>1, <2>3 DEF n
  <2>5. ASSUME NEW a \in (base + 1)..n PROVE d2[a].t <= x.t
    BY <1>1, <1>2, <1>3, <2>3 DEF n
  <2> QED
    BY <2>1, <2>3, <2>4, <2>5 DEF n, d2, base
<1> QED
  BY <1>5, <1>6

\* What follows x in the queue is not earlier than x.
LEMMA QueueLater ==
  ASSUME NEW ss, SeriesOK(ss), NEW q \in Pos, NEW a \in 1..Len(ss[q]), NEW y,
         y \in Q!Items(ss, q, a + 1)
  PROVE  ss[q][a].t <= y.t
<1> DEFINE n == Len(ss[q])
<1>1. n \in Nat /\ Rising(ss[q], n) /\ \A b \in 1..n : ss[q][b].t \in Nat
  BY PointOf
<1>2. ~(a + 1 > n)
  BY ItemsAre
<1>3. a + 1 \in 1..n /\ a + 1 > 1 /\ (a + 1) - 1 = a /\ a <= a + 1
  BY <1>1, <1>2
<1>4. ss[q][a].t <= ss[q][a + 1].t
  BY <1>1, <1>3 DEF Rising
<1>5. CASE y = PointItem(ss, q, a + 1)
  BY <1>4, <1>5 DEF PointItem
<1>6. CASE PauseBefore(ss[q], a + 1) /\ y = GapItem(ss, q, a + 1)
  <2>1. ss[q][a + 1].t - ss[q][a].t > MaxGap
    BY <1>3, <1>6 DEF PauseBefore
  <2>2. MaxGap \in Nat \ {0} /\ ss[q][a].t \in Nat /\ ss[q][a + 1].t \in Nat
    BY <1>1, <1>3, CacheAssumption
  <2>3. ss[q][a].t <= ss[q][a + 1].t - 1
    BY <2>1, <2>2
  <2> QED
    BY <1>6, <2>3 DEF GapItem
<1> QED
  BY <1>2, <1>5, <1>6, ItemsAre

\* A turn of the loop: the row is written, and what follows x is pushed.
LEMMA RunningPops ==
  ASSUME NEW qu, NEW d, NEW fi, NEW ss, NEW from, NEW kept, NEW nxt, NEW open,
         Running(qu, d, fi, ss, from, kept, nxt, open),
         NEW x \in qu, \A y \in qu : x.t <= y.t,
         NEW qu2, qu2 = (qu \ {x}) \cup IF x.i = 0 THEN {} ELSE Q!Items(ss, x.pos, x.i + 1)
  PROVE  \E nxt2, open2 :
           Running(qu2, WrittenTo(fi, d, x), FALSE, ss, from, kept, nxt2, open2)
<1> DEFINE d2 == WrittenTo(fi, d, x)
<1>1. /\ Ahead(ss, from, nxt, open) /\ SeriesOK(ss)
      /\ \A y : y \in qu <=> Waits(ss, nxt, open, y)
      /\ kept \in Seq(Row)
      /\ nxt \in [Pos -> Nat \ {0}] /\ open \in SUBSET Pos
  BY DEF Running, Ahead, Froms
<1>2. \A p \in Pos : /\ Len(ss[p]) \in Nat /\ nxt[p] \in Nat \ {0}
                     /\ \A a \in 1..Len(ss[p]) :
                          ss[p][a].t \in Nat /\ ss[p][a].t > 0 /\ ss[p][a].v \in Nat
  BY <1>1, PointOf
<1>3. ASSUME x.pos \in Pos, x.t \in Nat, x.v \in Nat \cup {NaN},
             NEW nxt2, NEW open2, Ahead(ss, from, nxt2, open2),
             Drawn(ss, from, nxt, open, nxt2, open2, x),
             \A y : y \in qu2 <=> Waits(ss, nxt2, open2, y),
             \A y \in qu2 : x.t <= y.t, \A y \in qu2 : y.t \in Nat
      PROVE  Running(qu2, d2, FALSE, ss, from, kept, nxt2, open2)
  <2>1. /\ RowsMade(ss, from, nxt2, open2, Len(kept), d2)
        /\ Len(d2) # Len(kept)
        /\ \A a \in 1..Len(kept) : d2[a] = kept[a]
        /\ \A a \in (Len(kept) + 1)..Len(d2) : d2[a].t <= x.t
    BY <1>3, RowWritten
  <2> HIDE DEF d2
  <2>2. /\ d2 \in Seq(Row) /\ Len(kept) \in Nat /\ Len(d2) \in Nat
        /\ \A a \in (Len(kept) + 1)..Len(d2) : a \in 1..Len(d2)
    <3>1. d2 \in Seq(Row)
      BY <2>1 DEF RowsMade
    <3> HIDE DEF Row
    <3>2. Len(kept) \in Nat /\ Len(d2) \in Nat
      BY <1>1, <3>1
    <3> QED
      BY <3>1, <3>2
  <2>3. ASSUME NEW a \in (Len(kept) + 1)..Len(d2), NEW y \in qu2 PROVE d2[a].t <= y.t
    <3>1. d2[a].t \in Nat
      BY <2>2, RowOf
    <3>2. d2[a].t <= x.t /\ x.t <= y.t /\ y.t \in Nat /\ x.t \in Nat
      BY <1>3, <2>1
    <3> QED
      BY <3>1, <3>2
  <2> HIDE DEF Row
  <2> QED
    BY <1>1, <1>3, <2>1, <2>3 DEF Running
<1>4. \A y : Waits(ss, nxt, open, y) => y.t \in Nat
  <2> SUFFICES ASSUME NEW y, Waits(ss, nxt, open, y) PROVE y.t \in Nat
    OBVIOUS
  <2>1. CASE \E p \in Pos : nxt[p] <= Len(ss[p]) /\ y = PointItem(ss, p, nxt[p])
    <3>1. PICK p \in Pos : nxt[p] <= Len(ss[p]) /\ y = PointItem(ss, p, nxt[p])
      BY <2>1
    <3>2. nxt[p] \in 1..Len(ss[p])
      BY <1>2, <3>1
    <3> QED
      BY <1>2, <3>1, <3>2 DEF PointItem
  <2>2. CASE \E p \in open : y = GapItem(ss, p, nxt[p])
    <3>1. PICK p \in open : y = GapItem(ss, p, nxt[p])
      BY <2>2
    <3>2. p \in Pos /\ nxt[p] \in 1..Len(ss[p])
      BY <1>1, <1>2 DEF Ahead
    <3>3. ss[p][nxt[p]].t \in Nat /\ ss[p][nxt[p]].t > 0
      BY <1>2, <3>2
    <3>4. ss[p][nxt[p]].t - 1 \in Nat
      BY <3>3
    <3> QED
      BY <3>1, <3>4 DEF GapItem
  <2> QED
    BY <2>1, <2>2 DEF Waits
<1>5. CASE \E p \in Pos : nxt[p] <= Len(ss[p]) /\ x = PointItem(ss, p, nxt[p])
  <2>1. PICK q \in Pos : nxt[q] <= Len(ss[q]) /\ x = PointItem(ss, q, nxt[q])
    BY <1>5
  <2> DEFINE now == nxt[q]
             nxt2 == [nxt EXCEPT ![q] = nxt[q] + 1]
             open2 == IF nxt[q] + 1 <= Len(ss[q]) /\ PauseBefore(ss[q], nxt[q] + 1)
                      THEN open \cup {q} ELSE open
  <2>2. now \in 1..Len(ss[q]) /\ now \in Nat \ {0} /\ ss[q][now].t \in Nat /\ ss[q][now].v \in Nat
    BY <1>2, <2>1
  <2>3. x.pos = q /\ x.t = ss[q][now].t /\ x.v = ss[q][now].v /\ x.i = now /\ x.i # 0
    BY <2>1, <2>2 DEF PointItem
  <2>4. q \notin open
    <3>1. ASSUME q \in open PROVE FALSE
      <4>1. GapItem(ss, q, now) \in qu
        BY <1>1, <3>1 DEF Waits
      <4>2. GapItem(ss, q, now).t = ss[q][now].t - 1
        BY DEF GapItem
      <4> QED
        BY <2>2, <2>3, <4>1, <4>2
    <3> QED
      BY <3>1
  <2>5. Ahead(ss, from, nxt2, open2) /\ Drawn(ss, from, nxt, open, nxt2, open2, x)
    BY <1>1, <2>1, <2>4, PointDone
  <2>6. /\ nxt2[q] = now + 1 /\ \A p \in Pos : p # q => nxt2[p] = nxt[p]
        /\ \A p \in Pos : p # q => (p \in open2 <=> p \in open)
        /\ q \in open2 <=> now + 1 <= Len(ss[q]) /\ PauseBefore(ss[q], now + 1)
        /\ open2 \in SUBSET Pos
    BY <1>1, <2>4
  <2> HIDE DEF nxt2, open2, now
  <2>7. now + 1 > Len(ss[q]) <=> ~(now + 1 <= Len(ss[q]))
    BY <1>2, <2>2
  <2>8. \A y : y \in Q!Items(ss, q, now + 1) <=>
                 \/ nxt2[q] <= Len(ss[q]) /\ y = PointItem(ss, q, nxt2[q])
                 \/ q \in open2 /\ y = GapItem(ss, q, nxt2[q])
    BY <2>6, <2>7, ItemsAre
  <2>9. \A y : y \in qu2 <=> (y \in qu /\ y # x) \/ y \in Q!Items(ss, q, now + 1)
    BY <2>3
  <2>10. \A y : Waits(ss, nxt2, open2, y) <=>
                  \/ y \in Q!Items(ss, q, now + 1)
                  \/ \E p \in Pos : p # q /\ nxt[p] <= Len(ss[p]) /\ y = PointItem(ss, p, nxt[p])
                  \/ \E p \in open : y = GapItem(ss, p, nxt[p])
    <3> SUFFICES ASSUME NEW y
                 PROVE  Waits(ss, nxt2, open2, y) <=>
                          \/ y \in Q!Items(ss, q, now + 1)
                          \/ \E p \in Pos : p # q /\ nxt[p] <= Len(ss[p]) /\ y = PointItem(ss, p, nxt[p])
                          \/ \E p \in open : y = GapItem(ss, p, nxt[p])
      OBVIOUS
    <3>1. (\E p \in Pos : nxt2[p] <= Len(ss[p]) /\ y = PointItem(ss, p, nxt2[p])) <=>
            \/ nxt2[q] <= Len(ss[q]) /\ y = PointItem(ss, q, nxt2[q])
            \/ \E p \in Pos : p # q /\ nxt[p] <= Len(ss[p]) /\ y = PointItem(ss, p, nxt[p])
      BY <2>6
    <3>2. (\E p \in open2 : y = GapItem(ss, p, nxt2[p])) <=>
            \/ q \in open2 /\ y = GapItem(ss, q, nxt2[q])
            \/ \E p \in open : y = GapItem(ss, p, nxt[p])
      BY <1>1, <2>4, <2>6
    <3> QED
      BY <2>8, <3>1, <3>2 DEF Waits
  <2>11. \A y : (y \in qu /\ y # x) <=>
                  \/ \E p \in Pos : p # q /\ nxt[p] <= Len(ss[p]) /\ y = PointItem(ss, p, nxt[p])
                  \/ \E p \in open : y = GapItem(ss, p, nxt[p])
    <3> SUFFICES ASSUME NEW y
                 PROVE  (y \in qu /\ y # x) <=>
                          \/ \E p \in Pos : p # q /\ nxt[p] <= Len(ss[p]) /\ y = PointItem(ss, p, nxt[p])
                          \/ \E p \in open : y = GapItem(ss, p, nxt[p])
      OBVIOUS
    <3>1. \A p \in Pos : PointItem(ss, p, nxt[p]).pos = p
      BY DEF PointItem
    <3>2. \A p \in open : GapItem(ss, p, nxt[p]).i = 0
      BY DEF GapItem
    <3>3. y \in qu <=> Waits(ss, nxt, open, y)
      BY <1>1
    <3>4. \A p \in open : GapItem(ss, p, nxt[p]) # x
      BY <2>3, <3>2
    <3>5. \A p \in Pos : PointItem(ss, p, nxt[p]) = x <=> p = q
      BY <2>1, <2>3, <3>1
    <3> QED
      BY <3>3, <3>4, <3>5 DEF Waits
  <2>12. \A y : y \in qu2 <=> Waits(ss, nxt2, open2, y)
    BY <2>9, <2>10, <2>11
  <2>13. \A y \in qu2 : x.t <= y.t
    <3>1. \A y \in Q!Items(ss, q, now + 1) : ss[q][now].t <= y.t
      BY <1>1, <2>2, QueueLater
    <3> QED
      BY <2>3, <2>9, <3>1
  <2>14. \A y \in qu2 : y.t \in Nat
    <3> SUFFICES ASSUME NEW y \in qu2 PROVE y.t \in Nat
      OBVIOUS
    <3>1. CASE y \in qu
      BY <1>1, <1>4, <3>1
    <3>2. CASE y \in Q!Items(ss, q, now + 1)
      <4>1. now + 1 <= Len(ss[q])
        BY <2>7, <3>2, ItemsAre
      <4>2. now + 1 \in 1..Len(ss[q])
        BY <1>2, <2>2, <4>1
      <4>3. ss[q][now + 1].t \in Nat /\ ss[q][now + 1].t > 0
        BY <1>2, <4>2
      <4>4. ss[q][now + 1].t - 1 \in Nat
        BY <4>3
      <4>5. y = PointItem(ss, q, now + 1) \/ y = GapItem(ss, q, now + 1)
        BY <3>2, ItemsAre
      <4> QED
        BY <4>3, <4>4, <4>5 DEF PointItem, GapItem
    <3> QED
      BY <2>9, <3>1, <3>2
  <2> QED
    BY <1>3, <2>2, <2>3, <2>5, <2>12, <2>13, <2>14
<1>6. CASE \E p \in open : x = GapItem(ss, p, nxt[p])
  <2>1. PICK q \in open : x = GapItem(ss, q, nxt[q])
    BY <1>6
  <2> DEFINE open2 == open \ {q}
  <2>2. x.pos = q /\ x.v = NaN /\ x.i = 0 /\ q \in Pos /\ x.t \in Nat
    BY <1>1, <1>4, <2>1 DEF GapItem
  <2>3. Ahead(ss, from, nxt, open2) /\ Drawn(ss, from, nxt, open, nxt, open2, x)
    BY <1>1, <2>1, GapPopped
  <2>4. qu2 = qu \ {x}
    BY <2>2
  <2>5. ASSUME NEW y PROVE y \in qu2 <=> Waits(ss, nxt, open2, y)
    <3>1. \A p \in open : GapItem(ss, p, nxt[p]).pos = p
      BY DEF GapItem
    <3>2. \A p \in Pos : PointItem(ss, p, nxt[p]).i = nxt[p] /\ nxt[p] # 0
      BY <1>2 DEF PointItem
    <3>3. \A p \in Pos : PointItem(ss, p, nxt[p]) # x
      BY <2>2, <3>2
    <3>4. \A p \in open : GapItem(ss, p, nxt[p]) = x <=> p = q
      BY <2>1, <2>2, <3>1
    <3>5. y \in qu2 <=> Waits(ss, nxt, open, y) /\ y # x
      BY <1>1, <2>4
    <3> QED
      BY <3>3, <3>4, <3>5 DEF Waits
  <2>6. \A y \in qu2 : x.t <= y.t /\ y.t \in Nat
    BY <1>1, <1>4, <2>4
  <2> HIDE DEF open2
  <2> QED
    BY <1>3, <2>2, <2>3, <2>5, <2>6
<1> QED
  BY <1>1, <1>5, <1>6 DEF Waits

-----------------------------------------------------------------------------
(***************************************************************************)
(* The loop draws what Cache says.                                         *)
(***************************************************************************)
BatchOf(sel, e) == [p \in Pos |-> Labelled(sel[p], e)]

\* What append had done before the loop; r has the fields when it was called.
BegunWith(r, ss, oc, ap, from, kept, batch) ==
  LET over == OverlapsIn(r.data, MinT(batch))
  IN  /\ ss = [p \in Pos |-> MergeSingleSeries(r.series[p], batch[p])]
      /\ from = [p \in Pos |-> IF over THEN FirstIndex(r.series[p], MinT(batch))
                               ELSE Len(r.series[p]) + 1]
      /\ kept = IF over THEN SubSeq(r.data, 1, FirstIndex(r.data, MinT(batch)) - 1)
                ELSE r.data
      /\ oc = IF over THEN r.overlapCount + 1 ELSE r.overlapCount
      /\ ap = r.appends + 1

Begun(r, ss, oc, ap, from, kept) ==
  /\ r.appends < MaxAppends
  /\ \E sel \in Selections :
       BegunWith(r, ss, oc, ap, from, kept, BatchOf(sel, r.appends + 1))

RestOK(r) ==
  /\ r.appends \in Nat /\ SeriesOK(r.series) /\ r.data \in Seq(Row)
  /\ r = [series |-> r.series, data |-> r.data,
          overlapCount |-> r.overlapCount, appends |-> r.appends]

LoopOK(r, ss, d, oc, qu, fi, dr, ap) ==
  /\ RestOK(r) /\ dr \in BOOLEAN
  /\ ~dr => qu = {} /\ ss = r.series /\ d = r.data /\ oc = r.overlapCount /\ ap = r.appends
  /\ dr => \E from, kept, nxt, open :
             Begun(r, ss, oc, ap, from, kept) /\ Running(qu, d, fi, ss, from, kept, nxt, open)

LoopInv == LoopOK(rest, series, data, overlapCount, queue, first, drawing, appends)

\* The first position found is one of the sequence or the one behind it.
LEMMA FirstIndexType ==
  ASSUME NEW s, Len(s) \in Nat, NEW t
  PROVE  FirstIndex(s, t) \in 1..(Len(s) + 1)
<1> DEFINE found == {a \in 1..Len(s) : s[a].t >= t}
<1>1. found \subseteq Nat /\ found \subseteq 1..Len(s)
  OBVIOUS
<1>2. CASE found = {}
  BY <1>2 DEF FirstIndex
<1>3. CASE found # {}
  <2>1. FirstIndex(s, t) = CHOOSE a \in found : \A b \in found : a <= b
    BY <1>3 DEF FirstIndex
  <2> HIDE DEF found
  <2>2. \E a \in found : \A b \in found : a <= b
    BY <1>1, <1>3, LeastNumber
  <2>3. FirstIndex(s, t) \in found
    BY <2>1, <2>2
  <2>4. FirstIndex(s, t) \in 1..Len(s)
    BY <1>1, <2>3
  <2> QED
    BY <2>4
<1> QED
  BY <1>2, <1>3

LEMMA BegunTypes ==
  ASSUME NEW r, RestOK(r), NEW ss, NEW oc, NEW ap, NEW from, NEW kept,
         Begun(r, ss, oc, ap, from, kept)
  PROVE  SeriesOK(ss) /\ from \in Froms /\ kept \in Seq(Row) /\ ap \in Nat
<1>1. r.appends + 1 \in Nat /\ SeriesOK(r.series) /\ r.data \in Seq(Row)
  BY DEF RestOK
<1>2. PICK sel \in Selections : BegunWith(r, ss, oc, ap, from, kept, BatchOf(sel, r.appends + 1))
  BY DEF Begun
<1> DEFINE batch == BatchOf(sel, r.appends + 1)
           B == MinT(batch)
           over == OverlapsIn(r.data, B)
<1>3. BatchOK(batch)
  BY <1>1, SelectionIsBatch DEF BatchOf
<1> HIDE DEF batch
<1>4. B \in Nat /\ \A p \in Pos : \A a \in 1..Len(batch[p]) : B <= batch[p][a].t
  BY <1>3, MinTIs
<1>5. /\ ss = [p \in Pos |-> MergeSingleSeries(r.series[p], batch[p])]
      /\ from = [p \in Pos |-> IF over THEN FirstIndex(r.series[p], B) ELSE Len(r.series[p]) + 1]
      /\ kept = IF over THEN SubSeq(r.data, 1, FirstIndex(r.data, B) - 1) ELSE r.data
      /\ ap = r.appends + 1
  BY <1>2 DEF BegunWith, batch
<1> HIDE DEF B, over
<1>6. SeriesOK(ss)
  <2>1. ASSUME NEW p \in Pos PROVE ss[p] \in Seq(Point) /\ Rising(ss[p], Len(ss[p]))
    <3>1. /\ r.series[p] \in Seq(Point) /\ Rising(r.series[p], Len(r.series[p]))
          /\ batch[p] \in Seq(Point) /\ Rising(batch[p], Len(batch[p]))
      BY <1>1, <1>3 DEF SeriesOK, BatchOK
    <3>2. ss[p] = MergeSingleSeries(r.series[p], batch[p])
      BY <1>5
    <3> HIDE DEF Point
    <3> QED
      BY <1>4, <3>1, <3>2, MergeSingleIs
  <2> HIDE DEF Point
  <2>2. ss \in [Pos -> Seq(Point)]
    BY <1>5, <2>1
  <2> QED
    BY <2>1, <2>2 DEF SeriesOK
<1>7. from \in Froms
  <2>1. ASSUME NEW p \in Pos
        PROVE  FirstIndex(r.series[p], B) \in Nat \ {0} /\ Len(r.series[p]) + 1 \in Nat \ {0}
    <3>1. Len(r.series[p]) \in Nat
      BY <1>1, PointOf
    <3> QED
      BY <3>1, FirstIndexType
  <2> QED
    BY <1>5, <2>1 DEF Froms
<1>8. kept \in Seq(Row)
  <2> HIDE DEF Row
  <2>1. Len(r.data) \in Nat
    BY <1>1
  <2>2. FirstIndex(r.data, B) - 1 \in 0..Len(r.data)
    BY <2>1, FirstIndexType
  <2>3. SubSeq(r.data, 1, FirstIndex(r.data, B) - 1) \in Seq(Row)
    BY <1>1, <2>1, <2>2
  <2> QED
    BY <1>1, <1>5, <2>3
<1> QED
  BY <1>1, <1>5, <1>6, <1>7, <1>8

\* What the loop leaves behind.
LEMMA LoopEnds ==
  ASSUME NEW r, NEW ss, NEW d, NEW oc, NEW fi, NEW ap, NEW from, NEW kept, NEW nxt, NEW open,
         RestOK(r), Begun(r, ss, oc, ap, from, kept),
         Running({}, d, fi, ss, from, kept, nxt, open)
  PROVE  d = kept \o Draw(ss, from) /\ d \in Seq(Row) /\ SeriesOK(ss) /\ ap \in Nat
<1>1. SeriesOK(ss) /\ from \in Froms /\ kept \in Seq(Row) /\ ap \in Nat
  BY BegunTypes
<1>2. /\ Ahead(ss, from, nxt, open) /\ \A y : ~Waits(ss, nxt, open, y)
      /\ RowsMade(ss, from, nxt, open, Len(kept), d)
      /\ \A a \in 1..Len(kept) : d[a] = kept[a]
  BY DEF Running
<1>3. \A p \in Pos, t \in Nat : DoneCell(ss, from, nxt, open, p, t) = CellAt(ss, from, p, t)
  BY <1>2, AllDone
<1>4. d = kept \o Draw(ss, from)
  <2> DEFINE base == Len(kept)
  <2>1. base = Len(kept) /\ RowsMade(ss, from, nxt, open, base, d)
        /\ \A a \in 1..base : d[a] = kept[a]
    BY <1>2
  <2>2. AllDrawn(ss, from, nxt, open)
    BY <1>3 DEF AllDrawn
  <2> HIDE DEF base
  <2> QED
    BY <1>1, <2>1, <2>2, RowsComplete
<1>5. d \in Seq(Row)
  BY <1>2 DEF RowsMade
<1> QED
  BY <1>1, <1>4, <1>5

LEMMA QueueInit == Q!Init => LoopInv /\ Q!C!Init
<1> SUFFICES ASSUME Q!Init PROVE LoopInv /\ Q!C!Init
  OBVIOUS
<1> DEFINE none == [p \in Pos |-> <<>>]
<1>1. /\ rest = [series |-> none, data |-> <<>>, overlapCount |-> 0, appends |-> 0]
      /\ series = rest.series /\ data = rest.data
      /\ overlapCount = 0 /\ appends = 0 /\ queue = {} /\ drawing = FALSE
  BY SameCache DEF Q!Init
<1> HIDE DEF none
<1>2. rest.series = none /\ rest.data = <<>> /\ rest.overlapCount = 0 /\ rest.appends = 0
  BY <1>1
<1>3. SeriesOK(none)
  <2>1. \A p \in Pos : none[p] = <<>> /\ Len(none[p]) = 0
    BY DEF none
  <2>2. none \in [Pos -> Seq(Point)]
    <3> HIDE DEF Point
    <3> QED
      BY DEF none
  <2>3. \A p \in Pos : Rising(none[p], Len(none[p]))
    BY <2>1 DEF Rising
  <2> QED
    BY <2>2, <2>3 DEF SeriesOK
<1>4. rest.data \in Seq(Row)
  <2> HIDE DEF Row
  <2> QED
    BY <1>2
<1>5. RestOK(rest)
  BY <1>1, <1>2, <1>3, <1>4 DEF RestOK
<1>6. LoopInv
  BY <1>1, <1>2, <1>5 DEF LoopInv, LoopOK
<1>7. Q!C!Init
  BY <1>2, SameCache DEF Q!C!Init, none
<1> QED
  BY <1>6, <1>7

\* What Begin does.
LEMMA BeginIs ==
  ASSUME LoopInv, NEW sel \in Selections, appends < MaxAppends,
         Q!Begin([p \in Q!C!Pos |-> Q!C!Points(sel[p])])
  PROVE  /\ rest' = rest /\ drawing' = TRUE /\ first' = TRUE
         /\ \E from : /\ Begun(rest, series', overlapCount', appends', from, data')
                      /\ queue' = UNION {Q!Items(series', p, from[p]) : p \in Pos}
<1> DEFINE batch == BatchOf(sel, rest.appends + 1)
           B == MinT(batch)
           over == OverlapsIn(rest.data, B)
           merged == [p \in Pos |-> MergeSingleSeries(rest.series[p], batch[p])]
           from == [p \in Pos |-> IF over THEN FirstIndex(rest.series[p], B)
                                  ELSE Len(rest.series[p]) + 1]
<1>1. [p \in Q!C!Pos |-> Q!C!Points(sel[p])] = batch
  BY SameCache DEF BatchOf
<1>2. Q!Begin(batch)
  BY <1>1
<1> HIDE DEF batch
<1>3. /\ ~drawing /\ drawing' = TRUE /\ first' = TRUE /\ appends' = appends + 1 /\ rest' = rest
      /\ series' = [p \in Q!C!Pos |-> Q!C!MergeSingleSeries(series[p], batch[p])]
      /\ data' = IF Q!C!Overlaps(Q!C!MinT(batch))
                 THEN SubSeq(data, 1, Q!C!FirstIndex(data, Q!C!MinT(batch)) - 1) ELSE data
      /\ overlapCount' = IF Q!C!Overlaps(Q!C!MinT(batch)) THEN overlapCount + 1 ELSE overlapCount
      /\ queue' = UNION {Q!Items([q \in Q!C!Pos |-> Q!C!MergeSingleSeries(series[q], batch[q])], p,
                           IF Q!C!Overlaps(Q!C!MinT(batch))
                           THEN Q!C!FirstIndex(series[p], Q!C!MinT(batch))
                           ELSE Len(series[p]) + 1) : p \in Q!C!Pos}
  BY <1>2 DEF Q!Begin
<1>4. /\ series = rest.series /\ data = rest.data /\ overlapCount = rest.overlapCount
      /\ appends = rest.appends
  BY <1>3 DEF LoopInv, LoopOK
<1>5. Q!C!Overlaps(Q!C!MinT(batch)) <=> over
  BY SameCache
<1>6. Q!C!MinT(batch) = B
  BY SameCache
<1>7. series' = merged
  BY <1>3, <1>4, SameCache
<1>8. data' = IF over THEN SubSeq(rest.data, 1, FirstIndex(rest.data, B) - 1) ELSE rest.data
  BY <1>3, <1>4, <1>5, <1>6, SameCache
<1>9. overlapCount' = IF over THEN rest.overlapCount + 1 ELSE rest.overlapCount
  BY <1>3, <1>4, <1>5
<1>10. queue' = UNION {Q!Items(series', p, from[p]) : p \in Pos}
  <2>1. queue' = UNION {Q!Items(series', p,
                          IF over THEN FirstIndex(rest.series[p], B)
                          ELSE Len(rest.series[p]) + 1) : p \in Pos}
    BY <1>3, <1>4, <1>5, <1>6, SameCache
  <2>2. \A p \in Pos : from[p] = IF over THEN FirstIndex(rest.series[p], B)
                                 ELSE Len(rest.series[p]) + 1
    OBVIOUS
  <2> HIDE DEF from
  <2> QED
    BY <2>1, <2>2
<1>11. BegunWith(rest, series', overlapCount', appends', from, data', batch)
  BY <1>3, <1>4, <1>7, <1>8, <1>9 DEF BegunWith
<1>12. Begun(rest, series', overlapCount', appends', from, data')
  <2> HIDE DEF from
  <2> QED
    BY <1>4, <1>11 DEF Begun, batch
<1> HIDE DEF from
<1> QED
  BY <1>3, <1>10, <1>12

\* What Pop does.
LEMMA PopIs ==
  ASSUME NEW x \in queue, Q!Pop(x)
  PROVE  /\ drawing /\ \A y \in queue : x.t <= y.t
         /\ data' = WrittenTo(first, data, x)
         /\ queue' = (queue \ {x}) \cup IF x.i = 0 THEN {} ELSE Q!Items(series, x.pos, x.i + 1)
         /\ first' = FALSE /\ series' = series /\ overlapCount' = overlapCount
         /\ drawing' = drawing /\ appends' = appends /\ rest' = rest
<1>1. Q!Written(x) = WrittenTo(first, data, x)
  BY SameCache DEF Q!Written, WrittenTo, RowFor, CellOf, Q!Last, Last
<1>2. \A y \in queue : x.t <= y.t
  BY DEF Q!Pop, Q!Earliest
<1> QED
  BY <1>1, <1>2 DEF Q!Pop, Q!Successors

\* At its end the loop has done what Cache.AppendBatch does.
LEMMA EndIs ==
  ASSUME LoopInv, Q!End
  PROVE  LoopInv' /\ Q!C!Next
<1>1. /\ drawing /\ queue = {} /\ drawing' = FALSE
      /\ rest' = [series |-> series, data |-> data,
                  overlapCount |-> overlapCount, appends |-> appends]
      /\ series' = series /\ data' = data /\ overlapCount' = overlapCount
      /\ queue' = queue /\ appends' = appends
  BY DEF Q!End
<1>2. /\ rest'.series = series /\ rest'.data = data
      /\ rest'.overlapCount = overlapCount /\ rest'.appends = appends
  BY <1>1
<1>3. PICK from, kept, nxt, open :
        /\ Begun(rest, series, overlapCount, appends, from, kept)
        /\ Running({}, data, first, series, from, kept, nxt, open)
  BY <1>1 DEF LoopInv, LoopOK
<1>4. RestOK(rest)
  BY DEF LoopInv, LoopOK
<1>5. /\ data = kept \o Draw(series, from) /\ data \in Seq(Row)
      /\ SeriesOK(series) /\ appends \in Nat
  BY <1>3, <1>4, LoopEnds
<1>6. LoopInv'
  <2>1. RestOK(rest')
    BY <1>1, <1>2, <1>5 DEF RestOK
  <2>2. LoopInv' <=> LoopOK(rest', series', data', overlapCount', queue', first', drawing', appends')
    BY DEF LoopInv
  <2> QED
    BY <1>1, <1>2, <2>1, <2>2 DEF LoopOK
<1>7. Q!C!Next
  <2>1. PICK sel \in Selections :
          BegunWith(rest, series, overlapCount, appends, from, kept, BatchOf(sel, rest.appends + 1))
    BY <1>3 DEF Begun
  <2> DEFINE batch == BatchOf(sel, rest.appends + 1)
  <2>2. [p \in Q!C!Pos |-> Q!C!Points(sel[p])] = batch
    BY SameCache DEF BatchOf
  <2> HIDE DEF batch
  <2> DEFINE B == MinT(batch)
             over == OverlapsIn(rest.data, B)
  <2>3. Q!C!MinT(batch) = B /\ (Q!C!Overlaps(B) <=> over)
    BY SameCache
  <2>4. /\ series = [p \in Pos |-> MergeSingleSeries(rest.series[p], batch[p])]
        /\ from = [p \in Pos |-> IF over THEN FirstIndex(rest.series[p], B)
                                 ELSE Len(rest.series[p]) + 1]
        /\ kept = IF over THEN SubSeq(rest.data, 1, FirstIndex(rest.data, B) - 1) ELSE rest.data
        /\ overlapCount = IF over THEN rest.overlapCount + 1 ELSE rest.overlapCount
        /\ appends = rest.appends + 1
    BY <2>1 DEF BegunWith, batch
  <2> HIDE DEF B, over
  <2>5. [p \in Q!C!Pos |-> Q!C!MergeSingleSeries(rest.series[p], batch[p])] = series
    BY <2>4, SameCache
  <2>6. [p \in Q!C!Pos |-> IF Q!C!Overlaps(B) THEN Q!C!FirstIndex(rest.series[p], B)
                           ELSE Len(rest.series[p]) + 1] = from
    BY <2>3, <2>4, SameCache
  <2>7. (IF Q!C!Overlaps(B) THEN SubSeq(rest.data, 1, Q!C!FirstIndex(rest.data, B) - 1)
         ELSE rest.data) = kept
    BY <2>3, <2>4, SameCache
  <2>8. Q!C!Draw(series, from) = Draw(series, from)
    BY SameCache
  <2>9. Q!C!AppendBatch(batch)
    BY <1>2, <1>5, <2>3, <2>4, <2>5, <2>6, <2>7, <2>8 DEF Q!C!AppendBatch
  <2>10. rest.appends < MaxAppends /\ sel \in Q!C!Selections
    BY <1>3, SameCache DEF Begun
  <2> QED
    BY <2>2, <2>9, <2>10 DEF Q!C!Next
<1> QED
  BY <1>6, <1>7

LEMMA QueueStep == LoopInv /\ [Q!Next]_(Q!vars) => LoopInv' /\ [Q!C!Next]_(Q!C!vars)
<1> SUFFICES ASSUME LoopInv, [Q!Next]_(Q!vars)
             PROVE  LoopInv' /\ [Q!C!Next]_(Q!C!vars)
  OBVIOUS
<1>0. LoopInv' <=> LoopOK(rest', series', data', overlapCount', queue', first', drawing', appends')
  BY DEF LoopInv
<1>1. rest' = rest => UNCHANGED Q!C!vars
  BY DEF Q!C!vars
<1>2. ASSUME NEW sel \in Q!C!Selections, appends < MaxAppends,
             Q!Begin([p \in Q!C!Pos |-> Q!C!Points(sel[p])])
      PROVE  LoopInv' /\ rest' = rest
  <2>1. sel \in Selections
    BY SameCache
  <2>2. /\ rest' = rest /\ drawing' = TRUE /\ first' = TRUE
        /\ \E from : /\ Begun(rest, series', overlapCount', appends', from, data')
                     /\ queue' = UNION {Q!Items(series', p, from[p]) : p \in Pos}
    BY <1>2, <2>1, BeginIs
  <2>3. PICK from : /\ Begun(rest, series', overlapCount', appends', from, data')
                    /\ queue' = UNION {Q!Items(series', p, from[p]) : p \in Pos}
    BY <2>2
  <2>4. RestOK(rest)
    BY DEF LoopInv, LoopOK
  <2>5. SeriesOK(series') /\ from \in Froms /\ data' \in Seq(Row)
    BY <2>3, <2>4, BegunTypes
  <2>6. \E open : Running(queue', data', TRUE, series', from, data', from, open)
    BY <2>3, <2>5, RunningBegins
  <2> QED
    BY <1>0, <2>2, <2>3, <2>4, <2>6 DEF LoopOK
<1>3. ASSUME NEW x \in queue, Q!Pop(x)
      PROVE  LoopInv' /\ rest' = rest
  <2>1. /\ drawing /\ \A y \in queue : x.t <= y.t
        /\ data' = WrittenTo(first, data, x)
        /\ queue' = (queue \ {x}) \cup IF x.i = 0 THEN {} ELSE Q!Items(series, x.pos, x.i + 1)
        /\ first' = FALSE /\ series' = series /\ overlapCount' = overlapCount
        /\ drawing' = drawing /\ appends' = appends /\ rest' = rest
    BY <1>3, PopIs
  <2>2. PICK from, kept, nxt, open :
          /\ Begun(rest, series, overlapCount, appends, from, kept)
          /\ Running(queue, data, first, series, from, kept, nxt, open)
    BY <2>1 DEF LoopInv, LoopOK
  <2>3. \E nxt2, open2 :
          Running(queue', WrittenTo(first, data, x), FALSE, series, from, kept, nxt2, open2)
    BY <2>1, <2>2, RunningPops
  <2>4. RestOK(rest) /\ drawing \in BOOLEAN
    BY DEF LoopInv, LoopOK
  <2> QED
    BY <1>0, <2>1, <2>2, <2>3, <2>4 DEF LoopOK
<1>4. ASSUME Q!End PROVE LoopInv' /\ Q!C!Next
  BY <1>4, EndIs
<1>5. ASSUME UNCHANGED Q!vars PROVE LoopInv' /\ rest' = rest
  <2>1. /\ series' = series /\ data' = data /\ overlapCount' = overlapCount /\ queue' = queue
        /\ first' = first /\ drawing' = drawing /\ appends' = appends /\ rest' = rest
    BY <1>5 DEF Q!vars
  <2> QED
    BY <1>0, <2>1 DEF LoopInv
<1> QED
  BY <1>1, <1>2, <1>3, <1>4, <1>5 DEF Q!Next

\* The loop over the queue implements Cache, in whatever order it takes the
\* items of equal time (mergeAndAddGaps and interleave of combine.ts).
THEOREM LoopDrawsLikeCache == Q!Spec => Q!DrawsLikeCache
<1>1. Q!Init => LoopInv /\ Q!C!Init
  BY QueueInit
<1>2. LoopInv /\ [Q!Next]_(Q!vars) => LoopInv' /\ [Q!C!Next]_(Q!C!vars)
  BY QueueStep
<1> QED
  BY <1>1, <1>2, PTL DEF Q!Spec, Q!DrawsLikeCache, Q!C!Spec
=============================================================================
