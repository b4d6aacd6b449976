---------------------------- MODULE BinarySearch ----------------------------
(***************************************************************************)
(* binarySearch of binary_search.ts, one turn of its loop at a time.       *)
(* Positions are those of JavaScript, from 0.  Of the array and the        *)
(* comparator only the answers matter: accepts[p] is comparator(arr[p]),   *)
(* and as the array is sorted, accepts is FALSE up to some point and TRUE  *)
(* from there on.                                                          *)
(***************************************************************************)
EXTENDS Integers

CONSTANTS
  SearchLen,    \* bound: length of the array
  NotFound   \* the value for an array without an accepted element

ASSUME BinarySearchAssumption == SearchLen \in Nat /\ NotFound \in Int

VARIABLES
  len, accepts,          \* the call's arguments
  left, right, result    \* the local variables

searchVars == <<len, accepts, left, right, result>>

Monotone(a, n) == \A p, q \in 0..(n - 1) : p <= q /\ a[p] => a[q]

SearchInit ==
  /\ len \in 0..SearchLen
  /\ accepts \in [0..(len - 1) -> BOOLEAN] /\ Monotone(accepts, len)
  /\ left = 0 /\ right = len - 1 /\ result = NotFound

\* Math.floor
mid == (left + right) \div 2

SearchLeft ==
  /\ left <= right /\ accepts[mid]
  /\ result' = mid /\ right' = mid - 1
  /\ UNCHANGED <<len, accepts, left>>

\* Rejected variant: passes over the element after mid.
SearchRightTooFar ==
  /\ left <= right /\ ~accepts[mid]
  /\ left' = mid + 2
  /\ UNCHANGED <<len, accepts, right, result>>

SearchRight ==
  /\ left <= right /\ ~accepts[mid]
  /\ left' = mid + 1
  /\ UNCHANGED <<len, accepts, right, result>>

SearchNext == SearchLeft \/ SearchRight

SearchSpec == SearchInit /\ [][SearchNext]_searchVars

-----------------------------------------------------------------------------
SearchReturned == left > right

\* What Cache and Graph.onDraw take the result for: the first accepted
\* position, or the value given for none.
FindsFirst ==
  SearchReturned =>
    \/ /\ result \in 0..(len - 1) /\ accepts[result]
       /\ \A p \in 0..(result - 1) : ~accepts[p]
    \/ /\ result = NotFound
       /\ \A p \in 0..(len - 1) : ~accepts[p]

\* Each turn leaves less to search, so the loop ends, and it stays within
\* the array.
Narrows == [][right' - left' < right - left /\ mid \in 0..(len - 1)]_searchVars
-----------------------------------------------------------------------------
(***************************************************************************)
(* The invariant of the loop: no position before left is accepted, and the *)
(* result, once there is one, is the position after right.                 *)
(***************************************************************************)
SearchIInv ==
  /\ len \in Nat /\ accepts \in [0..(len - 1) -> BOOLEAN] /\ Monotone(accepts, len)
  /\ left \in 0..len /\ right \in -1..(len - 1) /\ left <= right + 1
  /\ \A p \in 0..(left - 1) : ~accepts[p]
  /\ \/ result = NotFound /\ right = len - 1
     \/ result = right + 1 /\ result < len /\ accepts[result]
=============================================================================
