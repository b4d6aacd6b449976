------------------------------- MODULE Cache -------------------------------
(***************************************************************************)
(* The chart data of a browser (class Cache of combine.ts): the points of  *)
(* every series, and the rows drawn from them, one column per series.      *)
(*                                                                         *)
(* An append merges its points into the series and then draws again: from  *)
(* the earliest new point on if that is not after the last row, and else   *)
(* just the new points.  Where a series pauses for more than MaxGap a gap  *)
(* is drawn, a NaN one millisecond before the series resumes.              *)
(*                                                                         *)
(* A point's value is the number of the append that brought it.            *)
(***************************************************************************)
EXTENDS ArrayOps, Integers, SequencesExt

CONSTANTS
  NumSeries,
  Time,         \* timestamps of the points
  MaxGap,
  NaN, Null,    \* a gap, and a cell that is not filled
  MaxAppends,   \* bound: number of appends
  MaxBatch      \* bound: points in one append

ASSUME CacheAssumption ==
  /\ NumSeries \in Nat
  /\ Time \subseteq Nat \ {0} /\ IsFiniteSet(Time)
  /\ MaxGap \in Nat \ {0}
  /\ NaN # Null /\ NaN \notin Nat /\ Null \notin Nat

VARIABLES
  series,        \* the points of each series
  data,          \* the rows
  overlapCount,  \* appends that made it draw old rows again
  appends        \* number of appends so far

vars == <<series, data, overlapCount, appends>>

Pos == 1..NumSeries

Init ==
  /\ series = [p \in Pos |-> <<>>]
  /\ data = <<>>
  /\ overlapCount = 0
  /\ appends = 0

-----------------------------------------------------------------------------
(***************************************************************************)
(* Drawing.  from[p] is the first point of series p that is drawn.         *)
(***************************************************************************)
PauseBefore(s, i) == i > 1 /\ s[i].t - s[i - 1].t > MaxGap

\* What the queue of mergeAndAddGaps yields for series p at time t: points,
\* and a gap before a point.
PointsAt(ss, from, p, t) == {i \in from[p]..Len(ss[p]) : ss[p][i].t = t}

GapAt(ss, from, p, t) ==
  \E i \in from[p]..Len(ss[p]) : PauseBefore(ss[p], i) /\ ss[p][i].t = t + 1

\* Of several points of a series at that time the last.
CellAt(ss, from, p, t) ==
  LET at == PointsAt(ss, from, p, t)
  IN  CASE at # {} -> ss[p][Max(at)].v
        [] at = {} /\ GapAt(ss, from, p, t) -> NaN
        [] OTHER -> Null

RowTimes(ss, from) ==
  UNION {{ss[p][i].t : i \in from[p]..Len(ss[p])}
         \cup {ss[p][i].t - 1 : i \in {q \in from[p]..Len(ss[p]) : PauseBefore(ss[p], q)}} :
         p \in Pos}

\* One row per time.
Draw(ss, from) ==
  LET times == Ascending(RowTimes(ss, from))
  IN  [k \in 1..Len(times) |->
         [t |-> times[k], cells |-> [p \in Pos |-> CellAt(ss, from, p, times[k])]]]

-----------------------------------------------------------------------------
\* The earliest time of a batch; the batch is not empty.
MinT(batch) == Min({batch[p][1].t : p \in {q \in Pos : batch[q] # <<>>}})

\* Variants the properties reject: an equal time is no overlap; nothing is.
OverlapsStrictly(minT) == data # <<>> /\ minT < Last(data).t
NeverOverlaps(minT)    == FALSE

Overlaps(minT) == data # <<>> /\ minT <= Last(data).t

MergeSingleSeries(existing, new) ==
  IF existing = <<>> THEN new ELSE StableMerge(existing, new)

\* append: batch[p] is what there is for series p, in the order of time.
AppendBatch(batch) ==
  LET minT    == MinT(batch)
      from    == [p \in Pos |-> IF Overlaps(minT)
                                THEN FirstIndex(series[p], minT)
                                ELSE Len(series[p]) + 1]
      kept    == IF Overlaps(minT)
                 THEN SubSeq(data, 1, FirstIndex(data, minT) - 1)
                 ELSE data
      merged  == [p \in Pos |-> MergeSingleSeries(series[p], batch[p])]
  IN
  /\ series' = merged
  /\ data' = kept \o Draw(merged, from)
  /\ overlapCount' = IF Overlaps(minT) THEN overlapCount + 1 ELSE overlapCount
  /\ appends' = appends + 1

\* Graph.update leaves empty messages out; the server leaves empty series
\* out, and sends every series by time.
Selections ==
  {S \in [Pos -> SUBSET Time] :
     Cardinality({x \in Pos \X Time : x[2] \in S[x[1]]}) \in 1..MaxBatch}

Points(S) ==
  LET times == Ascending(S)
  IN  [i \in 1..Len(times) |-> [t |-> times[i], v |-> appends + 1]]

Next ==
  /\ appends < MaxAppends
  /\ \E S \in Selections : AppendBatch([p \in Pos |-> Points(S[p])])

Spec == Init /\ [][Next]_vars

-----------------------------------------------------------------------------
(***************************************************************************)
(* Properties.                                                             *)
(***************************************************************************)
\* The rows with the same time as one: the cells that are filled, and of
\* those the points before the gaps.
Collapsed ==
  LET times == Ascending({data[i].t : i \in 1..Len(data)})
      Cells(t, p) == {data[i].cells[p] : i \in {j \in 1..Len(data) : data[j].t = t}}
      Cell(t, p) ==
        CASE Cells(t, p) \ {NaN, Null} # {} -> CHOOSE x \in Cells(t, p) \ {NaN, Null} : TRUE
          [] Cells(t, p) = {NaN} \/ Cells(t, p) = {NaN, Null} -> NaN
          [] OTHER -> Null
  IN  [k \in 1..Len(times) |->
         [t |-> times[k], cells |-> [p \in Pos |-> Cell(times[k], p)]]]

\* However the points came, in order, late, or twice, the chart shows what
\* drawing all of them at once would show.
DrawnFromScratch == Collapsed = Draw(series, [p \in Pos |-> 1])

\* The rows are in the order of time, and a row that repeats the time of
\* an earlier one shows nothing but gaps.
RepeatedRowsAreGaps ==
  \A i, j \in 1..Len(data) : i < j =>
    \/ data[i].t < data[j].t
    \/ data[i].t = data[j].t /\ \A p \in Pos : data[j].cells[p] \in {NaN, Null}

\* The last row, from which Graph.getLastTimestamp takes the time to resume
\* from after a reconnect, is at the newest of all points and not a gap.
LastRowIsNewest ==
  data # <<>> =>
    Last(data).t = Max(UNION {{series[p][i].t : i \in 1..Len(series[p])} : p \in Pos})

\* Rejected variant: stops before the points at the end of the window.
IndicesBefore(s, lo, hi) ==
  IF s = <<>> \/ s[1].t > hi \/ Last(s).t < lo
  THEN <<-1, -1>>
  ELSE <<FirstIndex(s, lo) - 1, FirstIndex(s, hi) - 1>>

\* Graph.onDraw: the positions, from 0, of the points in a window; -1 if the
\* series has none there.
Indices(s, lo, hi) ==
  IF s = <<>> \/ s[1].t > hi \/ Last(s).t < lo
  THEN <<-1, -1>>
  ELSE <<FirstIndex(s, lo) - 1, FirstIndex(s, hi + 1) - 1>>

\* The page is told exactly the points that its chart shows: those from the
\* first index up to the second are in the window and no others are.
IndicesDelimitWindow ==
  \A p \in Pos, lo, hi \in Time :
    LET ix == Indices(series[p], lo, hi)
    IN  lo <= hi => {q \in 1..Len(series[p]) : series[p][q].t \in lo..hi}
                      = (ix[1] + 1)..ix[2]

\* One row per time, as the soak test expects (combine.test.ts:205-219).
OneRowPerTime ==
  \A i, j \in 1..Len(data) : data[i].t = data[j].t => i = j
=============================================================================
