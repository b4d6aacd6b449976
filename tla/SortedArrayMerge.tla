-------------------------- MODULE SortedArrayMerge --------------------------
(***************************************************************************)
(* sortedArrayMerge of sorted_array_merge.ts, one turn of its loops at a   *)
(* time: the second array is merged into the first in place, from the last *)
(* position backwards.  The coordinates of a point move together, so a     *)
(* point [t, v] is one element.  Positions are from 1; the code's i, j and *)
(* k are one less.                                                         *)
(***************************************************************************)
EXTENDS ArrayOps, Integers

CONSTANTS
  MergeTime,   \* times of points
  MergeLen     \* bound: length of each array

ASSUME SortedArrayMergeAssumption == MergeTime \subseteq Nat /\ MergeLen \in Nat

VARIABLES
  arr1, arr2,   \* the arrays; arr1 has its new length from the start
  m,            \* the original length of arr1
  i, j, k,
  old           \* history: arr1 as it was passed

mergeVars == <<arr1, arr2, m, i, j, k, old>>

Sorted(s) == \A p, q \in DOMAIN s : p <= q => s[p].t <= s[q].t

\* A point's value says where it comes from.
Arrays(tag) ==
  LET Rising(n) == {f \in [1..n -> MergeTime] : \A p, q \in 1..n : p <= q => f[p] <= f[q]}
  IN  UNION {{[p \in 1..n |-> [t |-> ts[p], v |-> <<tag, p>>]] : ts \in Rising(n)} :
             n \in 0..MergeLen}

Unset == [t |-> 0, v |-> <<0, 0>>]

\* The merge proper starts when arr1 has been lengthened.
MergeInit ==
  /\ old \in Arrays(1) /\ arr2 \in Arrays(2)
  /\ m = Len(old)
  /\ arr1 = [p \in 1..(m + Len(arr2)) |-> IF p <= m THEN old[p] ELSE Unset]
  /\ i = m /\ j = Len(arr2) /\ k = m + Len(arr2)

-----------------------------------------------------------------------------
\* Rejected variant: moves a point of arr1 also behind one of equal time.
TakeFirstOfEqual ==
  /\ i > 0 /\ j > 0 /\ arr1[i].t >= arr2[j].t
  /\ arr1' = [arr1 EXCEPT ![k] = arr1[i]]
  /\ i' = i - 1 /\ k' = k - 1
  /\ UNCHANGED <<arr2, m, j, old>>

TakeFirst ==
  /\ i > 0 /\ j > 0 /\ arr1[i].t > arr2[j].t
  /\ arr1' = [arr1 EXCEPT ![k] = arr1[i]]
  /\ i' = i - 1 /\ k' = k - 1
  /\ UNCHANGED <<arr2, m, j, old>>

\* Rejected variant: without the second loop.
TakeSecondWhileFirst ==
  /\ j > 0 /\ i > 0 /\ arr1[i].t <= arr2[j].t
  /\ arr1' = [arr1 EXCEPT ![k] = arr2[j]]
  /\ j' = j - 1 /\ k' = k - 1
  /\ UNCHANGED <<arr2, m, i, old>>

\* The else branch of the first loop, and the second loop.
TakeSecond ==
  /\ j > 0 /\ (i > 0 => arr1[i].t <= arr2[j].t)
  /\ arr1' = [arr1 EXCEPT ![k] = arr2[j]]
  /\ j' = j - 1 /\ k' = k - 1
  /\ UNCHANGED <<arr2, m, i, old>>

MergeNext == TakeFirst \/ TakeSecond

MergeSpec == MergeInit /\ [][MergeNext]_mergeVars

-----------------------------------------------------------------------------
\* Both loops have ended: what is left of arr1 is in place.
MergeReturned == j = 0

\* The merge writes over no point it has yet to read, and what it leaves
\* behind is in the order of time.
InPlace ==
  /\ \A p \in 1..i : arr1[p] = old[p]
  /\ \A p, q \in (k + 1)..(m + Len(arr2)) : p <= q => arr1[p].t <= arr1[q].t

\* When it returns, arr1 holds every point of both arrays once, by time, the
\* points it had before those of equal time that are new: the later value
\* is the one Cache draws.
MergesStably == MergeReturned => arr1 = StableMerge(old, arr2)
-----------------------------------------------------------------------------
(***************************************************************************)
(* The invariant of the loops: beyond k the points are merged, and none of *)
(* those still to be merged is later than any of them.                     *)
(***************************************************************************)
MergePoint == [t : Nat, v : Nat \X Nat]

MergeIInv ==
  /\ m \in Nat /\ Len(arr2) \in Nat
  /\ old \in [1..m -> MergePoint] /\ Sorted(old)
  /\ arr2 \in [1..Len(arr2) -> MergePoint] /\ Sorted(arr2)
  /\ arr1 \in [1..(m + Len(arr2)) -> MergePoint]
  /\ i \in 0..m /\ j \in 0..Len(arr2) /\ k = i + j
  /\ InPlace
  /\ \A q \in (k + 1)..(m + Len(arr2)) :
       /\ \A p \in 1..i : old[p].t <= arr1[q].t
       /\ \A p \in 1..j : arr2[p].t <= arr1[q].t

\* What is merged is where the stable merge has it: of the points still to be
\* merged, none of arr1 is after one of arr2 that has been, and of those of
\* arr2 each is before all of arr1 that have been.
MergedSoFar ==
  /\ \A p \in 1..i, q \in (j + 1)..Len(arr2) : old[p].t <= arr2[q].t
  /\ \A p \in (i + 1)..m, q \in 1..j : arr2[q].t < old[p].t
  /\ \A q \in (k + 1)..(m + Len(arr2)) : arr1[q] = StableMerge(old, arr2)[q]

=============================================================================
