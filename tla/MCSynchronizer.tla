--------------------------- MODULE MCSynchronizer ---------------------------
(***************************************************************************)
(* Instances for TLC of the two halves of synchronize.  They share nothing *)
(* but the charts, so each behaviour runs one of them.  The charts of a    *)
(* page begin with the same view, and the ranges of values are             *)
(* interchangeable: it does not matter which one the data has.             *)
(***************************************************************************)
EXTENDS Synchronizer

CONSTANT X

VARIABLES half, rows, sel, selBlock, pointed, drawn, selThrown

S == INSTANCE SyncSelection WITH block <- selBlock, thrown <- selThrown

SelectionsMatch == S!SelectionsMatch

selVars == <<rows, sel, selBlock, pointed, drawn, selThrown>>

MCInit ==
  /\ half \in {"zoom", "selection"}
  /\ Init /\ S!Init
  /\ half = "zoom" => \A c \in Chart : rows[c] = {}
  /\ \A c \in Chart : win[c] = win[1] /\ auto[c] = CHOOSE r \in YRange : TRUE
  /\ half = "selection" => win[1] = Null

MCNext ==
  /\ UNCHANGED half
  /\ \/ half = "zoom" /\ Next /\ UNCHANGED selVars
     \/ half = "selection" /\ S!Next /\ UNCHANGED vars

MCSpec == MCInit /\ [][MCNext]_<<half, vars, selVars>> /\ WF_vars(Step)
=============================================================================
