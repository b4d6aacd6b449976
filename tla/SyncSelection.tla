---------------------------- MODULE SyncSelection ---------------------------
(***************************************************************************)
(* The selection half of synchronize (synchronizer.js): pointing at a row  *)
(* of one chart selects the rows of the same x in the others, and leaving  *)
(* the chart clears them.  The handlers run within one mouse event, so     *)
(* each event is one step; the calls they make of each other return at     *)
(* once, for they share a flag.  Meanwhile the charts get new data and     *)
(* scroll, and a chart that is drawn shows no selection.                   *)
(***************************************************************************)
EXTENDS Naturals

CONSTANTS
  N,         \* number of charts
  X,         \* times of rows
  Null,      \* no selection
  MayThrow   \* the page's highlight callbacks may throw

VARIABLES
  rows,      \* rows[c]: the times for which chart c has a row
  sel,       \* sel[c]: the row shown as selected (selPoints_ and lastRow_)
  block,     \* the flag of attachSelectionHandlers
  pointed,   \* history: the x that was copied last, Null after unhighlight
  drawn,     \* history: the charts that were drawn since then
  thrown     \* history: a callback threw

vars == <<rows, sel, block, pointed, drawn, thrown>>

Chart == 1..N

Init ==
  /\ rows \in [Chart -> SUBSET X]
  /\ sel = [c \in Chart |-> Null]
  /\ block = FALSE /\ pointed = Null /\ drawn = {} /\ thrown = FALSE

\* Rejected variant: the loop ends at c, as break instead of continue would.
ReachedBefore(c, throws) == {d \in Chart : d < c}

\* The charts the loop of chart c reaches: all others or, if the page's
\* callback for c throws, those that come before c.
Reached(c, throws) == {d \in Chart \ {c} : throws => d < c}

\* The handler's way through the loop and out of it.
Handler(throws) ==
  /\ throws => MayThrow
  /\ block' = throws
  /\ thrown' = (thrown \/ throws)

\* mouseMove_ and synchronizer_highlightCallback.  The callback is called
\* only if the row is another one than before.  A chart without a row at x
\* keeps what it shows.
Highlight(c, x) ==
  /\ x \in rows[c] /\ sel[c] # x
  /\ \/ /\ block
        /\ sel' = [sel EXCEPT ![c] = x]
        /\ UNCHANGED <<block, pointed, drawn, thrown>>
     \/ /\ ~block
        /\ \E throws \in BOOLEAN :
             /\ Handler(throws)
             /\ sel' = [d \in Chart |->
                          IF d = c \/ (d \in Reached(c, throws) /\ x \in rows[d])
                          THEN x ELSE sel[d]]
        /\ pointed' = x /\ drawn' = {}
  /\ UNCHANGED rows

\* mouseOut_ and synchronizer_unhighlightCallback.  If the callback throws,
\* mouseOut_ does not come to clear the chart's own selection.
Unhighlight(c) ==
  /\ \/ /\ block
        /\ sel' = [sel EXCEPT ![c] = Null]
        /\ UNCHANGED <<block, pointed, drawn, thrown>>
     \/ /\ ~block
        /\ \E throws \in BOOLEAN :
             /\ Handler(throws)
             /\ sel' = [d \in Chart |->
                          IF d \in Reached(c, throws) \/ (d = c /\ ~throws)
                          THEN Null ELSE sel[d]]
        /\ pointed' = Null /\ drawn' = {}
  /\ UNCHANGED rows

\* renderGraph_, after new data or because the window moved.
Draw(c, xs) ==
  /\ rows[c] \subseteq xs
  /\ rows' = [rows EXCEPT ![c] = xs]
  /\ sel' = [sel EXCEPT ![c] = Null]
  /\ drawn' = drawn \cup {c}
  /\ UNCHANGED <<block, pointed, thrown>>

Next ==
  \/ \E c \in Chart, x \in X : Highlight(c, x)
  \/ \E c \in Chart : Unhighlight(c)
  \/ \E c \in Chart, xs \in SUBSET X : Draw(c, xs)

Spec == Init /\ [][Next]_vars

-----------------------------------------------------------------------------
\* "Synchronize ... selections between a set of dygraphs": however moves of
\* the pointer, new data and redraws alternate, every chart shows what was
\* last pointed at, or none once the pointer has left.  Only a chart that
\* was drawn since shows none, and only one that has no row at that time may
\* keep another.  An exception in a callback of the page ends this, for the
\* flag then stays set.
SelectionsMatch ==
  ~thrown => /\ ~block
             /\ \A c \in Chart :
                  \/ sel[c] = pointed
                  \/ sel[c] = Null /\ c \in drawn
                  \/ pointed \in X /\ pointed \notin rows[c]
=============================================================================
