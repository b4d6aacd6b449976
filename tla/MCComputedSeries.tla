-------------------------- MODULE MCComputedSeries --------------------------
(***************************************************************************)
(* The instance of ComputedSeries for TLC.                                 *)
(***************************************************************************)
EXTENDS ComputedSeries

Fcn(kind, chained) == [kind |-> kind, chained |-> chained]

\* A gate keeps no window, so a chain makes no difference to it.
AllFunctions == {Fcn("avg", FALSE), Fcn("triangle", FALSE), Fcn("gate", FALSE),
                 Fcn("avg", TRUE)}

\* A day that begins after the first samples and ends before the last.
NoneOrOne == {NoDate, [first |-> 2, last |-> 4]}
=============================================================================
