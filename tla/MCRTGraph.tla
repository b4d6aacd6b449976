----------------------------- MODULE MCRTGraph -----------------------------
(***************************************************************************)
(* Instances of RTGraph for TLC.  A browser uses its websockets one after  *)
(* the other, so they are interchangeable.                                 *)
(***************************************************************************)
EXTENDS RTGraph, TLC

CONSTANTS a, b

ShowsOne == <<a>>
ShowsTwice == <<a, a>>

NoDate == {{}}
AnyOrAll == {{}, Time}

ConnSymmetry == Permutations(Conn)
=============================================================================
