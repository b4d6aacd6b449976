---------------------------- MODULE MCCacheLoops ----------------------------
(***************************************************************************)
(* Instances for TLC of the three loops that Cache models by what they     *)
(* compute: the binary search, the merge and the drawing.  They share no   *)
(* state, so each behaviour runs one of them and leaves the others where   *)
(* they begin.                                                             *)
(***************************************************************************)
EXTENDS CacheQueue, BinarySearch, SortedArrayMerge

VARIABLE loop

MCNotFound == -1

MCVars == <<loop, vars, searchVars, mergeVars>>

MCInit ==
  /\ loop \in {"search", "merge", "draw"}
  /\ Init /\ SearchInit /\ MergeInit
  /\ loop # "search" => len = 0
  /\ loop # "merge" => old = <<>> /\ arr2 = <<>>

MCNext ==
  /\ UNCHANGED loop
  /\ \/ loop = "search" /\ SearchNext /\ UNCHANGED <<vars, mergeVars>>
     \/ loop = "merge" /\ MergeNext /\ UNCHANGED <<vars, searchVars>>
     \/ loop = "draw" /\ Next /\ UNCHANGED <<searchVars, mergeVars>>

MCSpec == MCInit /\ [][MCNext]_MCVars
=============================================================================
