------------------------------ MODULE ArrayOps ------------------------------
(***************************************************************************)
(* What the two array helpers of the browser code compute.  Their arrays   *)
(* are sorted; the elements of a series are points [t, v].                 *)
(***************************************************************************)
EXTENDS Naturals, Sequences, FiniteSets

\* binarySearch: the first element at t or later, and the position after the
\* last if there is none.
FirstIndex(s, t) ==
  LET found == {i \in 1..Len(s) : s[i].t >= t}
  IN  IF found = {}
      THEN Len(s) + 1
      ELSE CHOOSE i \in found : \A j \in found : i <= j

\* The members of a set of numbers, the least first.
Ascending(S) ==
  [i \in 1..Cardinality(S) |->
     CHOOSE x \in S : Cardinality({y \in S : y < x}) = i - 1]

\* sortedArrayMerge: all points by time, and at the same time those of the
\* first array before those of the second.
StableMerge(s1, s2) ==
  LET Place1(i) == i + Cardinality({j \in 1..Len(s2) : s2[j].t < s1[i].t})
      Place2(j) == j + Cardinality({i \in 1..Len(s1) : s1[i].t <= s2[j].t})
  IN  [k \in 1..(Len(s1) + Len(s2)) |->
         IF \E i \in 1..Len(s1) : Place1(i) = k
         THEN s1[CHOOSE i \in 1..Len(s1) : Place1(i) = k]
         ELSE s2[CHOOSE j \in 1..Len(s2) : Place2(j) = k]]
=============================================================================
