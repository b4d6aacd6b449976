------------------------------ MODULE MCClient ------------------------------
(***************************************************************************)
(* The instance of Client for TLC: clocks that agree, one that is behind   *)
(* and one that is ahead by more than MaxDelay.                            *)
(***************************************************************************)
EXTENDS Client

MCOffset == {-2, 0, 3}
=============================================================================
