----------------------------- MODULE CacheQueue -----------------------------
(***************************************************************************)
(* How Cache.append draws (mergeAndAddGaps and interleave of combine.ts):  *)
(* a priority queue with at most one point of each series and the gap      *)
(* before it, from which items are popped by time and written into rows.   *)
(* Items of equal time come in any order, as tinyqueue promises none.      *)
(*                                                                         *)
(* Cache says in one step what the rows are in the end; this module shows  *)
(* that the loop gets there.                                               *)
(***************************************************************************)
EXTENDS SequencesExt

CONSTANTS NumSeries, Time, MaxGap, NaN, Null, MaxAppends, MaxBatch

VARIABLES
  series, data, overlapCount,   \* the fields of the cache
  queue,      \* the items in the queue; a gap has i = 0
  first,      \* interleave: no row made yet
  drawing,    \* append is running
  appends,    \* appends begun
  rest        \* history: the fields when no append was running

vars == <<series, data, overlapCount, queue, first, drawing, appends, rest>>

\* The cache as the graph sees it, between appends.
C == INSTANCE Cache WITH series <- rest.series, data <- rest.data,
       overlapCount <- rest.overlapCount, appends <- rest.appends

Init ==
  /\ rest = [series |-> [p \in C!Pos |-> <<>>], data |-> <<>>,
             overlapCount |-> 0, appends |-> 0]
  /\ series = rest.series /\ data = rest.data
  /\ overlapCount = 0 /\ appends = 0
  /\ queue = {} /\ first = TRUE /\ drawing = FALSE

\* What is pushed for point i of series p: the point, and the gap before it.
Items(ss, p, i) ==
  IF i > Len(ss[p]) THEN {}
  ELSE {[pos |-> p, t |-> ss[p][i].t, v |-> ss[p][i].v, i |-> i]}
       \cup IF C!PauseBefore(ss[p], i)
            THEN {[pos |-> p, t |-> ss[p][i].t - 1, v |-> NaN, i |-> 0]}
            ELSE {}

\* append up to the loop over the queue.
Begin(batch) ==
  LET minT   == C!MinT(batch)
      over   == C!Overlaps(minT)
      merged == [p \in C!Pos |-> C!MergeSingleSeries(series[p], batch[p])]
      from(p) == IF over THEN C!FirstIndex(series[p], minT) ELSE Len(series[p]) + 1
  IN
  /\ ~drawing /\ drawing' = TRUE
  /\ series' = merged
  /\ data' = IF over THEN SubSeq(data, 1, C!FirstIndex(data, minT) - 1) ELSE data
  /\ overlapCount' = IF over THEN overlapCount + 1 ELSE overlapCount
  /\ queue' = UNION {Items(merged, p, from(p)) : p \in C!Pos}
  /\ first' = TRUE
  /\ appends' = appends + 1
  /\ UNCHANGED rest

Earliest == {x \in queue : \A y \in queue : x.t <= y.t}

\* interleave's callback: the item goes to the row made last, if that is of
\* its time.
Written(x) ==
  IF first \/ Last(data).t # x.t
  THEN Append(data, [t |-> x.t,
                     cells |-> [p \in C!Pos |-> IF p = x.pos THEN x.v ELSE Null]])
  ELSE [data EXCEPT ![Len(data)].cells[x.pos] = x.v]

\* Rejected variant: pushes what follows without its gap.
SuccessorsWithoutGap(x) ==
  IF x.i = 0 THEN {} ELSE {y \in Items(series, x.pos, x.i + 1) : y.i # 0}

Successors(x) == IF x.i = 0 THEN {} ELSE Items(series, x.pos, x.i + 1)

Pop(x) ==
  /\ drawing /\ x \in Earliest
  /\ data' = Written(x)
  /\ first' = FALSE
  /\ queue' = (queue \ {x}) \cup Successors(x)
  /\ UNCHANGED <<series, overlapCount, drawing, appends, rest>>

End ==
  /\ drawing /\ queue = {}
  /\ drawing' = FALSE
  /\ rest' = [series |-> series, data |-> data,
              overlapCount |-> overlapCount, appends |-> appends]
  /\ UNCHANGED <<series, data, overlapCount, queue, first, appends>>

Next ==
  \/ /\ appends < MaxAppends
     /\ \E S \in C!Selections : Begin([p \in C!Pos |-> C!Points(S[p])])
  \/ \E x \in queue : Pop(x)
  \/ End

Spec == Init /\ [][Next]_vars

-----------------------------------------------------------------------------
\* The rows that the loop makes are those of Cache, whatever the order of
\* items of equal time.
DrawsLikeCache == C!Spec
=============================================================================
