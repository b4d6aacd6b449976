--------------------------- MODULE ComputedSeries ---------------------------
(***************************************************************************)
(* A series computed for one subscription: a window of the samples of the  *)
(* last Duration (computed_series.go) and a function of it, avg, triangle  *)
(* or gate.  Its state lives as long as the connection; a new connection   *)
(* loads samples from the database (subscription.go, request.go): those    *)
(* since a Lookback before the time from which the browser wants results,  *)
(* or, if the request has a date, those of that day.                       *)
(*                                                                         *)
(* Between database and broker no sample is lost here; what may happen     *)
(* there is in RTGraph.  Values are integers, and an average is kept as    *)
(* its numerator and denominator.                                          *)
(***************************************************************************)
EXTENDS Integers, SequencesExt

CONSTANTS
  Functions,    \* the functions a request may name: their kind, and whether
                \*   they are part of a chain, which has no Lookback
  Dates,        \* the dates it may have: the first and the last time of a
                \*   day, NoDate for none
  NoDate,
  Duration,
  Target,       \* threshold of the gate
  SampleValue,
  MaxSampleTime, \* bound: time of a sample
  MaxSamples,   \* bound: number of samples
  MaxLate       \* bound: samples not later than the one before

ASSUME ComputedSeriesAssumption ==
  /\ Functions \subseteq [kind : {"avg", "triangle", "gate"}, chained : BOOLEAN]
  /\ Dates \subseteq [first : Nat, last : Nat] \cup {NoDate}
  /\ Duration \in Nat \ {0}
  /\ SampleValue \subseteq Int /\ Target \in Int
  /\ {MaxSampleTime, MaxSamples, MaxLate} \subseteq Nat

VARIABLES
  fcn, date,   \* the function and the date of the browser's request
  log,         \* all samples, as they came
  connected,
  start,       \* results are wanted from here on
  op,          \* the operator's fields: values, the window; sum and count
               \*   of FcnAvg; open of FcnGate
  out,         \* the results of this connection
  lastPoint,   \* newest result the browser has, 0 if none
  seen         \* history: the samples given to the operator

seriesVars == <<fcn, date, log, connected, start, op, out, lastPoint, seen>>

Fresh == [values |-> <<>>, sum |-> 0, count |-> 0, open |-> FALSE]

SeriesInit ==
  /\ fcn \in Functions /\ date \in Dates
  /\ log = <<>> /\ connected = FALSE /\ start = 0
  /\ op = Fresh /\ out = {} /\ lastPoint = 0 /\ seen = <<>>

-----------------------------------------------------------------------------
Total(numbers) == FoldLeft(LAMBDA acc, number : acc + number, 0, numbers)

Plain(s) == Total([n \in DOMAIN s |-> s[n].v])

\* FcnAvgWindow: the weight of a sample falls to 0 at the far end.
Weight(x, at) == x.t - (at - Duration)

Weights(s, at)  == Total([n \in DOMAIN s |-> Weight(s[n], at)])
Weighted(s, at) == Total([n \in DOMAIN s |-> s[n].v * Weight(s[n], at)])

\* Rejected variant: compares with <=, so loses the sample at the cutoff.
ExpiredAtCutoff(x, at) == x.t <= at - Duration

Expired(x, at) == x.t < at - Duration

\* removeOld stops at the first sample that is not old.
OldCount(s, at) ==
  Cardinality({n \in 1..Len(s) : \A q \in 1..n : Expired(s[q], at)})

\* Rejected variant: takes every expired sample off the sum, also one that
\* stays behind a fresh one.
PushForgettingAll(o, x) ==
  LET all == Append(o.values, x)
      n   == OldCount(all, x.t)
  IN  [o EXCEPT !.values = SubSeq(all, n + 1, Len(all)),
                !.sum    = @ + x.v - Total([q \in DOMAIN all |-> IF Expired(all[q], x.t) THEN all[q].v ELSE 0]),
                !.count  = @ + 1 - n]

\* AddValue, PushBack, removeOld with RemoveValue.
Push(o, x) ==
  LET all == Append(o.values, x)
      n   == OldCount(all, x.t)
  IN  [o EXCEPT !.values = SubSeq(all, n + 1, Len(all)),
                !.sum    = @ + x.v - Plain(SubSeq(all, 1, n)),
                !.count  = @ + 1 - n]

(***************************************************************************)
(* The functions, when x is the last sample of the window.                 *)
(***************************************************************************)
Result(x, num, den) == {[t |-> x.t, num |-> num, den |-> den]}

Average(o, x) == IF o.count <= 0 THEN {} ELSE Result(x, o.sum, o.count)

Triangle(o, x) ==
  IF Weights(o.values, x.t) = 0 THEN {}
  ELSE Result(x, Weighted(o.values, x.t), Weights(o.values, x.t))

Opened(o, x) == o.open \/ x.v > Target

Gate(o, x) == IF Opened(o, x) THEN Result(x, x.v, 1) ELSE {}

\* The operator afterwards, and the result if there is one.
Compute(o, x) ==
  [op  |-> IF fcn.kind = "gate" THEN [o EXCEPT !.open = Opened(o, x)] ELSE o,
   out |-> CASE fcn.kind = "avg"      -> Average(o, x)
             [] fcn.kind = "triangle" -> Triangle(o, x)
             [] fcn.kind = "gate"     -> Gate(o, x)]

\* Rejected variant: computes what is not wanted and leaves it out.
ProcessAll(done, x, from) ==
  LET computed == Compute(Push(done.op, x), x)
  IN  [op |-> computed.op,
       out |-> IF x.t < from THEN done.out ELSE done.out \cup computed.out]

\* ProcessNewValues: the operator and the results from a time on.
Process(done, x, from) ==
  LET pushed   == Push(done.op, x)
      computed == Compute(pushed, x)
  IN  IF x.t < from
      THEN [done EXCEPT !.op = pushed]
      ELSE [op |-> computed.op, out |-> done.out \cup computed.out]

ProcessNewValues(o, xs, from) ==
  FoldLeft(LAMBDA done, x : Process(done, x, from), [op |-> o, out |-> {}], xs)

\* The results go to the browser; its last row is at the newest of them.
Take(done, before) ==
  /\ op' = done.op
  /\ out' = before \cup done.out
  /\ lastPoint' = Max({lastPoint} \cup {r.t : r \in done.out})

\* Rejected variant: an operator that does not look back.
NoLookback == 0

Lookback == IF fcn.chained THEN 0 ELSE Duration

\* The database keeps the first sample of each time (model.go, writer.go).
Rows(s) == {s[n] : n \in {q \in 1..Len(s) : \A p \in 1..(q - 1) : s[p].t # s[q].t}}

\* ORDER BY timestamp
ByTime(S) ==
  [i \in 1..Cardinality(S) |->
     CHOOSE x \in S : Cardinality({y \in S : y.t < x.t}) = i - 1]

\* LoadDataWindow: the samples from a time on.
LoadDataWindow(from) == ByTime({x \in Rows(log) : x.t >= from})

\* LoadDate: the samples of the day, wherever results start.
LoadDate == ByTime({x \in Rows(log) : x.t \in date.first..date.last})

\* Rejected variant: a date does not make a difference.
LoadAlwaysWindow(from) == LoadDataWindow(from - Lookback)

\* getInitialData
Load(from) == IF date # NoDate THEN LoadDate ELSE LoadDataWindow(from - Lookback)

\* Request.Start
StartOf(windowStart) ==
  IF lastPoint # 0 /\ lastPoint + 1 > windowStart THEN lastPoint + 1 ELSE windowStart

\* NewSubscription and getInitialData; the request's window starts anywhere.
Connect(windowStart) ==
  /\ ~connected /\ connected' = TRUE
  /\ start' = StartOf(windowStart)
  /\ Take(ProcessNewValues(Fresh, Load(start'), start'), {})
  /\ seen' = Load(start')
  /\ UNCHANGED <<fcn, date, log>>

LateCount(s) == Cardinality({n \in 2..Len(s) : s[n].t <= s[n - 1].t})

\* A sample comes; produceAllSeries passes it to the operator.
Sample(x) ==
  /\ Len(log) < MaxSamples
  /\ log' = Append(log, x) /\ LateCount(log') <= MaxLate
  /\ IF connected
     THEN Take(ProcessNewValues(op, <<x>>, start), out) /\ seen' = Append(seen, x)
     ELSE UNCHANGED <<op, out, lastPoint, seen>>
  /\ UNCHANGED <<fcn, date, connected, start>>

\* The browser goes, and comes back with the newest result it has.
Disconnect ==
  /\ connected /\ connected' = FALSE
  /\ start' = 0 /\ op' = Fresh /\ out' = {} /\ seen' = <<>>
  /\ UNCHANGED <<fcn, date, log, lastPoint>>

SeriesNext ==
  \/ \E w \in 0..MaxSampleTime : Connect(w)
  \/ \E x \in [t : 1..MaxSampleTime, v : SampleValue] : Sample(x)
  \/ Disconnect

SeriesSpec == SeriesInit /\ [][SeriesNext]_seriesVars

-----------------------------------------------------------------------------
\* The running sum and count of FcnAvg are those of the samples in the
\* window, also when samples come out of order and leave late.
SumsMatchWindow == op.count = Len(op.values) /\ op.sum = Plain(op.values)

(***************************************************************************)
(* What a result should be: a function of the samples s of the last        *)
(* Duration, whichever connection they came on.                            *)
(***************************************************************************)
Until(s, x) == ByTime({y \in Rows(s) : y.t \in (x.t - Duration)..x.t})

Opens(s, from, x) ==
  \E n \in 1..Len(s) : s[n].t \in from..x.t /\ s[n].v > Target

Expected(s, from, x) ==
  CASE fcn.kind = "avg"      -> Result(x, Plain(Until(s, x)), Len(Until(s, x)))
    [] fcn.kind = "triangle" -> Result(x, Weighted(Until(s, x), x.t), Weights(Until(s, x), x.t))
    [] fcn.kind = "gate"     -> IF Opens(s, from, x) THEN Result(x, x.v, 1) ELSE {}

ExpectedAt(times) ==
  UNION {Expected(log, start, log[n]) : n \in {q \in 1..Len(log) : log[q].t \in times}}

\* Samples have come in the order of their times.
InOrder == LateCount(log) = 0

From(t) == t..MaxSampleTime

\* A request without a date: what a connection gets is a function of the
\* start it asks for and of all samples there are, those before the start
\* included, and not of which of them it has seen live, which it has loaded
\* and which came while there was no connection.  (A gate is open if a sample
\* since the start was over the threshold: a new start closes it.)
ResultsExact ==
  connected /\ InOrder /\ ~fcn.chained /\ date = NoDate =>
    out = ExpectedAt(From(start))

\* The times at which a window is full although nothing was loaded for it: a
\* Duration after the start and, in a request with a date, those of the day
\* that are a Duration after its beginning.
Filled ==
  IF date = NoDate
  THEN From(start + Duration)
  ELSE {t \in (date.first + Duration)..date.last : t >= start}

\* In a chain, or in a request with a date, results are those that all of the
\* samples give only once the window has filled.  A gate has no window; with
\* a date, it does not know of what was over the threshold before the day.
ExactOnceFilled ==
  connected /\ InOrder /\ (date # NoDate => fcn.kind # "gate") =>
    {r \in out : r.t \in Filled} = ExpectedAt(Filled)

-----------------------------------------------------------------------------
Samples == [t : 1..MaxSampleTime, v : SampleValue]

Operators == [values : Seq(Samples), sum : Int, count : Int, open : BOOLEAN]

Results == [t : 1..MaxSampleTime, num : Int, den : Int]

SeriesTypeOK ==
  /\ fcn \in Functions /\ date \in Dates
  /\ log \in Seq(Samples) /\ seen \in Seq(Samples)
  /\ connected \in BOOLEAN /\ start \in Nat
  /\ op \in Operators /\ out \subseteq Results
  /\ lastPoint \in 0..MaxSampleTime

(***************************************************************************)
(* The inductive invariant.  When samples come in order, the operator has  *)
(* made of the first k of the samples s that it was given what it should:  *)
(* its window is the part of them that has not expired, a gate is open if  *)
(* one of them since from was over the threshold, and the results are the  *)
(* ones that these samples give.  And it was given every sample of Span,   *)
(* the times that a connection loads and then hears of.                    *)
(***************************************************************************)
Windowed(values, s, k) ==
  \E b \in 1..(k + 1) :
    /\ values = SubSeq(s, b, k)
    /\ \A n \in 1..k : n < b <=> Expired(s[n], s[k].t)

OpenedSince(s, from, k) == \E n \in 1..k : s[n].t >= from /\ s[n].v > Target

Processed(done, s, from, k) ==
  /\ Windowed(done.op.values, s, k)
  /\ fcn.kind = "gate" => (done.op.open <=> OpenedSince(s, from, k))
  /\ done.out = UNION {Expected(s, from, s[n]) : n \in {q \in 1..k : s[q].t >= from}}

Span ==
  IF date = NoDate THEN (start - Lookback)..MaxSampleTime ELSE date.first..date.last

Rising(s) == \A i, j \in 1..Len(s) : i < j => s[i].t < s[j].t

SeenInOrder ==
  connected /\ InOrder =>
    /\ Rising(seen)
    /\ Rows(seen) \subseteq Rows(log)
    /\ {x \in Rows(log) : x.t \in Span} \subseteq Rows(seen)

ProcessedSeen ==
  connected /\ InOrder =>
    Processed([op |-> op, out |-> out], seen, start, Len(seen))

SeriesIInv ==
  /\ SeriesTypeOK /\ SumsMatchWindow
  /\ SeenInOrder /\ ProcessedSeen
  /\ \A r \in out : r.t >= start
=============================================================================
