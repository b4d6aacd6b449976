# rtgraph in TLA+

A specification of rtgraph, a Go server that collects time series and shows
them live in browsers: TLA+ modules for its parts, TLC configurations that
check them on small instances, and proofs for TLAPS. Paths below are relative
to the root of the repository.

## The system

A sample enters through `Graph.CreateValue` and is broadcast by the broker to
every subscriber: to `publishToDB`, which hands it to the database writer, to
one subscription per websocket, and to the Prometheus exporter. A browser opens
a websocket, sends a request, gets the server's clock, then a snapshot from the
database, then live data; when the websocket breaks it makes a new one and asks
for what is later than its last row.

| component | state | operations | talks to |
|---|---|---|---|
| broker (`broker/broker.go`) | set of subscribers, three request channels of one, a drop counter | `Start` (one goroutine), `Stop`, `Subscribe`, `Unsubscribe`, `Publish` | a channel of 1024 per subscriber |
| recorder (`database/writer.go`, `database.go`) | channel of 100 objects, the collected rows, the table | `Insert`, `Save`, `InsertValue`, `RunWriter` | SQLite, one transaction per tick; `errCh` |
| server (`graph.go`, `db_writer.go`, `server.go`) | none of its own but the goroutines' positions | `New`, `CreateValue`, `publishToDB`, `Subscribe`, handler of `/ws` | broker, recorder, subscriptions |
| subscription (`subscription/`) | operators, input series | `Request.Start`, `getInitialData`, `Run`, `produceAllSeries` | database, broker, handler over an unbuffered channel |
| browser client (`assets/rtgraph/src/graph.ts`) | websocket, cache, clocks | `connect`, `onmessage`, `onclose`, `reconnect`, `update` | server, cache |
| browser cache (`combine.ts`, `binary_search.ts`, `sorted_array_merge.ts`) | points per series, rows | `append` | the chart |
| computed series (`computed_series/`) | window of values, running sums, gate | `ProcessNewValues`, `Compute`, chains | subscription |
| synchronizer (`synchronizer.js`) | block flags, saved callbacks | attach, draw and highlight callbacks, detach | the charts |
| Prometheus export (`prom.go`) | map of gauges | one loop over a broker channel | broker, `errCh` |

What is hard: four kinds of goroutines meet at the broker in any order; the
snapshot is read while transactions commit and before the live channel is
registered; buffers fill and sends are dropped; a transaction fails and the
writer stops; a process ends between two ticks; websockets break with frames
on the way and goroutines stay behind; points arrive late, twice or at equal
times; callbacks of coupled charts call each other, and the page's in between.
`PROJECT.json` lists each of these at its line under "hazards", with the
properties that cover it.

What makes the parts correct:

- broker: messages in order, once, to those who were subscribed; nobody waits
  for a slow subscriber; the drop counter is exact; who left stays out;
- recorder: what is accepted is written in order, once, whole batches only; the
  first insert of a key wins; a failure or crash loses a suffix and nothing else;
- server, subscription, client: no sample twice in a browser; live data after
  the snapshot and complete up to counted drops; what can be lost between snapshot and live data is one
  unbroken stretch;
- cache: however points come, the rows show what drawing them all at once shows;
- client: one connection at a time, one scroll interval, a window that follows the
  server's clock, and a connection that works once the failures end;
- computed series: running sums that match the window, and results that are the
  ones all samples give, wherever what a connection loads fills the window;
- exporter: gauges follow what was received, and nothing but an unread error can
  hold it up;
- synchronizer: charts agree between events, the flag that stops the callbacks is
  exact, the page sees every window, every event ends.

## The modules

| module | models | lines of code |
|---|---|---|
| `Broker` | the broker and the calls of its users | `broker/broker.go` |
| `Store` | abstract: what the recorder promises | `database/writer.go:29-48` |
| `Recorder` | channel, `RunWriter`, transactions, crash | `database/writer.go`, `database.go:80-105` |
| `RTGraph` | server, subscriptions and browsers; instances of `Broker` and `Recorder` | `graph.go`, `db_writer.go`, `server.go`, `subscription/`, `graph.ts` |
| `Exporter` | Prometheus export; an instance of `Broker` | `prom.go` |
| `ComputedSeries` | windowed operators over the connections of a browser | `computed_series/`, `subscription/` |
| `Client` | websocket, timers and clocks of a graph in the browser | `graph.ts` |
| `Cache` | class `Cache`; abstract for `CacheQueue` | `combine.ts` |
| `CacheQueue` | the loop over the priority queue in `append` | `combine.ts` |
| `ArrayOps` | what the two array helpers compute | `binary_search.ts`, `sorted_array_merge.ts` |
| `BinarySearch`, `SortedArrayMerge` | the loops of the two helpers | the same |
| `Synchronizer` | the draw callbacks of coupled charts | `synchronizer.js` |
| `SyncSelection` | their highlight callbacks | `synchronizer.js` |
| `BrokerProofs`, `RecorderProofs`, `RTGraphProofs`, `ExporterProofs` | theorems about the module of that name | |
| `ConnectionProofs` | theorems about `Client` and `ComputedSeries` | |
| `CacheProofs` | theorems about `Cache`, `CacheQueue`, `BinarySearch` and `SortedArrayMerge` | |
| `SynchronizerProofs` | theorems about `Synchronizer` and `SyncSelection` | |
| `Lemmas` | what the proofs share about numbers, folds and sorted sequences | |
| `MCBroker`, `MCRecorder`, `MCRTGraph`, `MCExporter`, `MCComputedSeries`, `MCClient`, `MCCache`, `MCCacheLoops`, `MCSynchronizer` | instances for TLC | |

Definitions have the names of the code where they can. Definitions marked
"rejected variant" are not part of any specification: each is a definition of
the model with one plausible mistake in it (a missing guard, a send that blocks,
an off-by-one), kept to show that the properties notice the mistake.

### Broker

A Go channel is a sequence; a send that would block is an action that is not
enabled. `subs`, `msg`, `todo` are the local variables of `Start`: the map, the
message of the current `range` loop and the subscribers it has yet to reach.
Each case of the `select` is an action (`Exit`, `Register`, `Unregister`,
`TakeMessage`), each turn of the `range` loop is one (`Offer`), so that other
goroutines run in between. A subscriber's channel is everything that was sent
into it (`sent`) with a read position (`read`); `joined` and `left` remember
which message was the last when the subscriber was registered and deleted.
`SubCount` is the size of `subs` and needs no variable.

`Unsubscribe` needs `read[c] > 0`: the code calls it where a loop over the
channel is left, and the loops are left only from their bodies. That is the
reason, and the only one, why a leave cannot overtake its join; the variant
without it breaks `UnsubscribeIsFinal`.

### Recorder and Store

`Queue` is the send into `objects`; `Collect` and `Flush` / `FlushFails` are the
cases of the `select`; a transaction is one step because SQLite makes it one
for everybody who reads the table. `log` and `durable` are history: all objects
accepted (less what a crash lost) and how many of them are in the table.
`InsertValue` always returns nil, so the error path of `publishToDB` is dead.
`Store` is the promise without channel and batches, and the property
`ImplementsStore` says that the recorder keeps it, with the pending operations
mapped to `rows \o objects`.

### RTGraph

The steps of `Broker` and `Recorder` are used as they are through `INSTANCE`,
each in an action that leaves the rest alone. A sample is the number of its
`CreateValue` call. Per websocket `c`: `pc[c]` is where the goroutine of
`Graph.Subscribe` is, `out[c]` what it is about to send, `handler[c]` whether the
handler is in its loop, `frames[c]` what was written with `seen[c]` the browser's
position in it. `msgCh` is not buffered, so a send and the handler's write are
one step (`Send`) that needs the handler; `WireCap` is what the websocket takes
before a write blocks. After a failed write the handler is gone and the
goroutine waits in `Send` for ever, still registered: the code behaves so and so
does the model. `getInitialData` loads position by position, and transactions
commit in between. What a request asks for is `wanted[c]`: for a page with a
date (`date[v]`) the times of that date, on every connection; for any other the
times from its window's start or from after the newest point it has. Both kinds
get the same live data afterwards.

### Exporter

`Take`, `Report` and `Set` are the three places where the loop over the channel
can be; the broker's steps are those of `Broker`. The gauge of a name that is
refused is put into the map before it is registered and stays there, which is
why the error comes once. `ErrRoom` is how many errors `errCh` takes before a
send blocks: the buffer that the application gave it, and one more while
somebody receives. Nothing obliges the application to receive: the example
receives one error and ends.

### ComputedSeries

`op` holds the fields of one operator: the window of values, `FcnAvg`'s running
sum and count, `FcnGate`'s flag. `Connect` is a new operator, which is fed what
`getInitialData` loads (`Load`): what the database holds from a `Lookback` before
the start of the request on (`LoadDataWindow`) or, for a request with a date, the
samples of that day wherever results start (`LoadDate`), so that the window is
not full at the beginning of the day, nor for live data that do not follow on
it. `Sample` passes a live sample to the operator; `Disconnect` throws it away.
`seen` is history: the samples the operator was given. Of samples at
one time the database keeps the first (`Rows`: the time is part of the primary
key, and a conflict does nothing), while live all of them come. An average is
kept as numerator and denominator, so that no rounding hides a difference. Which
function is used, whether it stands in a chain (a chain has no `Lookback`,
`op_chain.go`), and which date the request has, if any, is chosen at the beginning
of a behaviour.

`ResultsExact` is for requests without a date and functions outside a chain,
`ExactOnceFilled` for the others, from the time on at which the window is full
(`Filled`). A gate remembers since when it is open: a reconnect, which starts
later, closes it, and `Expected` takes that from `start`. With a date it does not
know of what was over the threshold before the day, or between the day and the
live data, so this case is left out of `ExactOnceFilled`.

### Client

`phase[s]` is the `readyState` of the websocket made by the `s`-th `connect`,
`requested` the websockets that carried a request, `served` those the server has
read it from, `hello[s]` the server's first message while it is on the way. `Open`,
`Error`, `Close`, `ReceiveNow` and `ReceiveAnswer` are `onopen`, `onerror`,
`onclose` and `onmessage` for its two uses; `SendRequest` and `Reconnect` are the
timeouts that `onopen` and `reconnect` set. `ReadRequest` is the server's side
(`server.go:58-74`, `graph.go:97-99`): it waits for the request, takes the time
then, and sends it first, so nothing is received before a request was sent.
`Close` may follow `Error` or come alone. `now` is the server's clock,
`now + offset` the browser's; a user may set it (`Jump`). `RightEdge` is
`computeDateWindow`.

### Cache

`AppendBatch` is `append`: it detects an overlap with the last row, cuts the
rows, finds where to draw each series from, merges the points and draws. The
priority queue of `mergeAndAddGaps` is modelled by what it yields: all points
from the start positions on and a gap before each point that follows a pause,
by time. `PointsAt` and `GapAt` say what it yields of one series at one time,
`CellAt` what is left in the row of that time after all of it was written, and
`Draw` makes one row for each of the `RowTimes`. The first row drawn is always a
new one, even if the last row kept has the same time (`combine.ts:57`). The
value of a point is the number of the append that brought it, so that two points
at one time can be told apart. `Indices` are the ones that `onDraw` gives to the
page. Times are positive numbers, a finite set of them, `NaN` and `Null` no numbers
and not the same (`CacheAssumption`).

`CacheQueue` is the same `append` with its loop: `Begin` is what comes before it,
`Pop` takes one earliest item out of the queue, writes it into a row and pushes
what follows it in its series. Items of equal time come in any order, because
`tinyqueue` promises none. `DrawsLikeCache` says that it implements `Cache`, seen
between appends. `BinarySearch` and `SortedArrayMerge` have one action per turn of
their loop, with the arrays and indices of the code; `ArrayOps` has what `Cache`
takes them to compute.

### Synchronizer and SyncSelection

A chart is a dygraph. It keeps the window it shows (`win`) apart from the
`dateWindow` option it was last given (`opt`), and the value range likewise
(`yset`, `yopt`): a zoom by hand changes the first and not the second. Dygraphs
is a library, translated as it stands in the bundle `assets/rtgraph/dist/rtgraph.js`,
as far as `synchronizer.js` relies on it
(`updateOptions` draws at once and calls the draw callback, `getOption` returns the
option, `xAxisRange` the window shown).

An event (a window set, new data, a zoom, `synchronize`, `detach`) begins when
nothing is running. From then on the module takes the steps of the call on top
of `stack`: a draw callback (`"draw"`), the loop over the charts in it (`"loop"`),
the page's own callback (`"user"`), `detach` (`"detach"`). The stack is needed
because the callbacks call each other and the page's may set a window or throw
in the middle; an exception empties it and leaves `block` as it is.

In `SyncSelection` a mouse event is one step: its handlers call each other only
one level deep, as they share a flag. `Draw` is in it because a redraw takes a
chart's selection away; `drawn` is history, the charts redrawn since the pointer
last moved, so that `SelectionsMatch` can say of every other chart that has the
row that it selects it.

## The runs

| run | instance | checks |
|---|---|---|
| `broker` | 2 subscribers, buffers of 2, 4 messages, fair | `DeliveredInOrder`, `DropCountExact`, `UnsubscribeIsFinal`, `RequestsServed`, `StopEnds` |
| `recorder` | 2 keys, 2 values, channel of 2, 4 objects, 1 crash, fair | `PipelineIntact`, `TableHoldsWritten`, `ImplementsStore`, `EventuallyWritten` |
| `graph` | 1 browser, 2 websockets, 2 samples with times 1 or 2, buffers of 1 | `TypeOK`, `AtMostOnce`, `LiveAfterSnapshot`, `NothingLostInTransit` |
| `graph_live` | 2 series, one shown at two positions, a window from 2 or a date, 1 websocket, 2 samples, buffers of 1, fair | `SnapshotIsPrefix`, `FirstSampleRecorded`, `LiveDelivered`, `EventuallyRecorded` |
| `exporter` | 3 series, 2 of them refused, room for 1 error, another subscriber, 4 messages, fair | `GaugesFollow`, `ReportedOnce`, `EventuallyExported` |
| `computed` | average, weighted average, gate, average in a chain; requests without a date and for times 2..4; windows of 2, times 1..5, 4 samples, 1 of them late | `SumsMatchWindow`, `ResultsExact`, `ExactOnceFilled` |
| `client` | 3 websockets, 2 of which may fail; clocks 2 behind, equal, 3 ahead; delays up to 1; times 0..4; fair | `OneConnection`, `ScrollsOnce`, `WindowFollowsServer`, `MarkedWhileDown`, `EventuallySubscribed` |
| `cache` | 2 series, times 1..4, 3 appends of up to 2 points, gap over 1 | `DrawnFromScratch`, `RepeatedRowsAreGaps`, `LastRowIsNewest`, `IndicesDelimitWindow` |
| `cache_rows` | the same | `OneRowPerTime`, violated |
| `cache_loops` | search: arrays up to 12; merge: two arrays up to 4, times 1..3; queue: as `cache`, 2 appends | `FindsFirst`, `MergesStably`, `DrawsLikeCache` |
| `synchronizer` | 3 charts, 1 window and none, 2 value ranges, 4 events, 1 window set from a callback, exceptions, fair; selections: 2 times | `OneLoop`, `OnlyStaleDiffer`, `PageHasSeen`, `SelectionsMatch`, `EventsEnd` |
| `synchronizer_stale` | 2 charts, value ranges not coupled, no exceptions, 3 events | `Synchronized`, violated |

What the properties say is in the comment above each. Why the bounds are enough
for the questions asked:

- broker: with buffers of two and four messages a subscriber can be registered
  between any two messages, fall behind, drop, catch up, and leave;
- recorder: four objects are two in a batch and two behind it, and every pattern
  of insert and save on a key;
- RTGraph: with buffers of one every buffer fills; two samples are one on each
  side of every seam (load, registration, disconnect, flush), with equal, rising
  and falling times; two websockets are a connection and its successor. A window
  from 2 excludes time 1, a date of both times does not. `LiveDelivered` is
  about the way from the broker's channel to one browser: with one websocket and
  two samples no inbox overflows behind a recorder that has stopped, and no other
  subscription hangs. That the broker waits for no subscriber, whatever it
  does, is `RequestsServed` in `broker`, where subscribers stop receiving with full
  buffers. Larger instances of `graph_live` are beyond a run of minutes (5 messages
  give 2 million states and 2 websockets with 3 messages more than 10 million,
  on which liveness has to be decided);
- exporter: with room for one error the second refused series can hold the loop
  up while a message of the third, and the broker's drops, come behind it;
- computed: five times and a window of two leave a connection that starts with
  a full, a half and an empty window, and one that outlives its first window;
  the late sample is one that stays behind a fresh one in `removeOld`; the day
  begins after the first samples and ends before the last, and its last time is
  one at which the window is full;
- client: three websockets are one that fails before and one that fails after
  the server was heard, and the one that stays; both clock errors exceed the
  delay, so a window by the wrong clock is noticed;
- cache: three appends draw a gap, cut it, and draw again; times of 1..4 with
  gaps over 1 let a gap meet a point of the other series; two appends are enough
  for the queue, as the second finds any state that the drawing depends on;
- array loops: the search depends on nothing but length and first accepted
  position, and the proofs are for every length;
- synchronizer: three charts are the one drawn and one on either side of it in
  the loop; four events after the charts begin with the same view are
  `synchronize`, a window set, a zoom by hand, and the window set again, which is
  a case that goes wrong.

The larger values of the bounds are covered by proof for every invariant that a
passing run checks and for the two refinements.

`cache_loops` and `synchronizer` each run several state machines that share no
state: a variable chosen at the beginning (`loop`, `half`) says which of them a
behaviour runs, and the others stay where they begin. `computed` likewise chooses
its function and its date at the beginning.

`CHECK_DEADLOCK FALSE` stands in every configuration because every model may
stop: publications, websockets, crashes, appends, samples and events are
bounded, the loops of the cache end, a stopped broker serves nobody, a writer
that failed returns.

### Fairness

`Broker`: weak fairness of `Start` as a whole, nothing for its callers: the
goroutine runs, and which ready case `select` takes is open. `Recorder`: weak
fairness of collecting and of writing, because Go's `select` chooses at random
among ready cases and the ticker stays ready until it is served; that the ticker
is not starved is therefore assumed here and not shown. `RTGraph`: weak
fairness of every goroutine (the broker, `publishToDB`, `RunWriter`, each
subscription) and of the browser handling its messages. No fairness for
`CreateValue`, for connecting, and of course none for failures. `Exporter`: weak
fairness of the broker and of the loop, none for receiving errors. `Client`: weak
fairness of the events a browser is bound to raise (a timeout, the close event
after an error), of a server that is there being reached, and of the server
reading the request; the last websocket
does not fail, which is how "the failures end" is said. `Synchronizer`: weak
fairness of the step on top of the stack, because JavaScript runs an event to
completion; the page's callbacks return or throw. `ComputedSeries`, `Cache` and the
array loops have safety properties only.

### What the violated runs show

`cache_rows`: the rows may hold one time twice. A gap before a point at the
earliest new time `minT` is drawn at `minT - 1`, but the rows kept are those
before `minT`, so a row at `minT - 1` stays and another is added. A browser sees
it whenever two series get samples at the same time after a pause: the first
sample draws the gap, the second one draws it again. Every further sample at
that time adds one more row. The passing property `RepeatedRowsAreGaps` bounds
the damage: only gaps are repeated.

`synchronizer_stale`: between events, coupled charts may show different windows.
The loop skips a chart whose `dateWindow` option equals the window to copy, and
`getOption` returns what was last given to `updateOptions`, which a zoom by hand
leaves alone. Two charts were given the same window. The zoom of one is reset by
hand, so that it shows all of its data while its option stays as it was; then
`synchronize` couples them. When the other chart is drawn next, its callback finds
the option of the first equal to the window to copy and skips it, and the two
show different windows from then on. The passing property `OnlyStaleDiffer` says
that a stale option is the only way, as long as the page's callbacks set no
window of their own.

## What is proved

`BrokerProofs` proves for every finite set of channels, every buffer size of at
least one and every number of messages (`BrokerAssumption`):

- `TypeCorrectness`: `Spec => []TypeOK`
- `InOrderDelivery`: `Spec => []DeliveredInOrder`
- `ExactDropCount`: `Spec => []DropCountExact`
- `FinalUnsubscribe`: `Spec => []UnsubscribeIsFinal`

all from `Invariance`, `Spec => []IInv`. None of the properties is inductive
alone. `IInv` adds what they rest on: what the buffers of one can hold
(`BuffersConsistent`: the message in `publishCh` is the one after `msg`), that a
channel the goroutine has not registered yet has no past (`FreshHasNoPast`: this
is what makes `Register` harmless for the history and rules out the overtaking),
and that the messages a subscriber still waits for in the `range` loop are the
last ones (`SpansConsistent`). The proof has a lemma per action; for the drop
counter the argument is that only a drop changes the set of pairs of a
subscriber and a message it will miss, and that it adds exactly one pair
(`MissedUnchanged`, `DropIInv`).

`RecorderProofs` proves for every set of keys and values, every size of the
channel and every bound (`RecorderAssumption`):

- `Pipeline`: `Spec => []PipelineIntact`
- `Implementation`: `Spec => ImplementsStore`, that is `Spec => S!Spec`
- `TableContents`: `Spec => []TableHoldsWritten`
- `TypeCorrectness`: `Spec => []TypeOK`

The first inductive invariant is `PipelineIntact` with the types of every
variable but `table`. The two need each other: that a transaction does not write
more than was accepted (`durable <= Len(log)`) follows from `PipelineIntact`, and
that `PipelineIntact` survives the transaction from the lemma `RestOfRest` on what
is left of a sequence. In the refinement `Queue` is `Accept` (or, after the writer
has returned, a stutter), `Collect` is a stutter (`MoveHead`), `Flush` is
`Commit(Len(rows))` (`SplitConcat`), `FlushFails` is `Fail` and `Crash` is
`Restart`. For the table the invariant (`TableInv`) adds what a fold of operations
over it computes (`ReplayHolds`): a key has the value of its last save, or of its
first insert if there is none. That is an induction over the sequence; the
provers have none, so it is told as "take the shortest sequence for which it
fails" (`LeastNumber` in `Lemmas`, which rests on the well-foundedness of `<`).

`RTGraphProofs` proves for every set of series, every finite set of times and of
websockets, and buffers of every size of at least one (`RTGraphAssumption`) that
every step of `RTGraph` is a step of the broker or leaves it alone, and the same
of the recorder: `BrokerRefined`, `Spec => B!Spec`, and `RecorderRefined`,
`Spec => R!Spec`. What `BrokerProofs` and `RecorderProofs` show holds in `RTGraph`,
then. `FirstSampleKept`, `Spec => []FirstSampleRecorded`, combines both: the table
has for each key the first sample that the broker gave `publishToDB`.

and in the same generality what reaches a browser:

- `TypeCorrectness`: `Spec => []TypeOK`
- `NoneShownTwice`: `Spec => []AtMostOnce`
- `LiveIsNewer`: `Spec => []LiveAfterSnapshot`
- `TransitIsSafe`: `Spec => []NothingLostInTransit`
- `SnapshotHasNoGaps`: `Spec => []SnapshotIsPrefix`

from `Invariance`, `Spec => []IInv`. `IInv` has a part for every websocket and one
for every browser. `Stage` says what has been written to a websocket where its
goroutine is; `FrameOrigin` and `OutOrigin` say where an entry of a frame comes
from, a row of the table at the load or a message the broker sent; `SnapshotRows`
and `SnapshotGaps` say what a load finds of the table, and what it misses, while
transactions commit between the positions; `FramesDistinct` that no sample is in
two frames of a websocket; `SocketOK` and `CacheOrigin` that what a browser has is
what its websockets have delivered, `LogIsRead` that what is in the database was
received by `publishToDB` first. `NoneShownTwice` needs all of them: a browser
asks for what is later than its last row, and a message still on the way to the
database when the snapshot was loaded is one that the subscription was not sent
before. The proof takes the steps in two kinds: a step of one subscription leaves
the messages, the table and the other subscriptions alone; any other step leaves
the subscriptions alone and only adds messages and rows, which keeps what was
said about them.

`ExporterProofs` proves for every set of series, refused names and other
subscribers, and any `ErrRoom` (`ExporterAssumption`) `BrokerRefined`,
`Spec => B!Spec`; `GaugesShowNewest`, `Spec => []GaugesFollow`; and `ReportsOnce`,
`Spec => []ReportedOnce`. `GaugesFollow` speaks of the moments between messages; its
inductive form `GaugesBehind` says what the gauges are while the loop is at a
message: behind by that one, and 0 for the gauge that this message has made.
That a later message is a greater number, which makes it the newest, is the
broker's `DeliveredInOrder`.

`ConnectionProofs` proves for every number of websockets, every delay and every set
of clock errors (`ClientAssumption`) `SingleConnection`, `ServerTime`,
`SingleInterval` and `MarkedDown`, the four invariants of the run, from
`Invariance`, `Spec => []IInv`. `MarkedWhileDown` needs that a websocket is heard
only after it was open (`HeardWhenOpen`) and that a pending reconnect finds the
element marked (`MarkedToReconnect`); `WindowFollowsServer` needs that a message of
the server is under way only on a websocket that was opened, and that it is not
older than the delay while the websocket is open (`InTime`), which is what `Tick`
guarantees.

It also proves about `ComputedSeries`, for every `Duration` and `Target`, every set
of values, and logs of every length (`ComputedSeriesAssumption`):

- `WindowSums`: `SeriesSpec => []SumsMatchWindow`
- `SameResults`: `SeriesSpec => []ResultsExact`, for requests without a date
- `SameOnceFilled`: `SeriesSpec => []ExactOnceFilled`, in a chain or for any dates

from `SeriesInvariance`, `SeriesSpec => []SeriesIInv`. The two properties of the
results say nothing about what the operator remembers, and a next result depends
on it. The invariant says it in two steps, for samples that come in order.
`ProcessedSeen` is about the samples the operator was given, whatever they are:
its window is the part of them that has not expired (`Windowed`), a gate is open
if one of them since the start was over the threshold (`OpenedSince`), and the
results are those that these samples give. `SeenInOrder` is about which they are:
samples of the log, rising, and all of those in `Span`, the times that a connection
loads and then hears of. Where the window of a sample lies in `Span`, then, the
samples seen give what all samples give (`SpanResults`), and the two theorems
differ only in where that is.

`WindowStep` is the argument about `removeOld`: in order, what is expired is a
prefix. `ProcessedStep` is the body of the loop of `ProcessNewValues`; `Connect` is
the induction over it (`ConnectProcesses`), which `ProcessSteps` takes from the
definition of the fold and `LoadIs` starts from what is loaded, and `Sample` is one
more turn. That a result stays right as more samples come is `ProcessedGrows`, and
that the next sample keeps `SeenInOrder` is `LaterSeen`. `WindowSums` needs no
order: `PushKeepsSums` holds for any window, as the total of a sequence is that of
any prefix and of the rest (`PlainSplit`).

`SynchronizerProofs` proves for every number of charts of at least two, any
nesting of callbacks and any exceptions (`SynchronizerAssumption`):

- `TypeCorrectness` and `FlagIsExact`, `Spec => []OneLoop`. The two together are
  inductive. The proof speaks of a stack through `HasLoop` and `OneAtMost`; the
  lemma `Call` says what putting calls on top of a stack does to them, and each
  step is one use of it.
- `PageSeesAll`, `Spec => []PageHasSeen`. A window the page has not seen is one
  whose chart has a call on the stack that will tell it (`WillBeSeen`), unless a
  loop below will still copy over it; `ProperStack` says which calls can stand on
  which.
- `StaleOnly`, `Spec => []OnlyStaleDiffer`: the charts the loop has passed show
  what it copies, or kept it from being given it (`LoopCopies`).
- `SelectionsAgree`, `S!Spec => []SelectionsMatch`, from `SelectionInv`.

`CacheProofs` proves about the array loops, for arrays of every length:

- `FirstFound`: `SearchSpec => []FindsFirst`, from `SearchIInv` (what is left of the
  window is rejected, what is right of it accepted), and `LoopNarrows`: every turn
  leaves less to search and reads inside the array, so the loop ends.
- `MergedInPlace`, `ResultSorted`: the merge runs from the back into the grown
  array, and no element is written over before it is read; every point merged is
  not earlier than any that remains (`MergeIInv`; the lemma `Put` is the one step
  all branches of the loop take).
- `StablyMerged`: `MergeSpec => []MergesStably`. The result of the loop is the stable
  sort that `ArrayOps` promises to `Cache`, because a sequence is determined by
  being sorted, holding the same points, and keeping those of one time in order.

and about the cache, for any number of series, times and appends
(`CacheAssumption`):

- `AppendsLikeScratch`: `Spec => []DrawnFromScratch`
- `RepeatsAreGaps`: `Spec => []RepeatedRowsAreGaps`
- `LastIsNewest`: `Spec => []LastRowIsNewest`
- `WindowIsDelimited`: `Spec => []IndicesDelimitWindow`

from `CacheInvariance`, `Spec => []CacheInv`: each series is by time (`SeriesOK`), and
the rows are by time, each shows cells of its time or nothing, each cell that is
filled is shown by a row, and no row is empty (`RowsOK`). `DrawnFromScratch` alone
says nothing about the order of the rows, and without it what an append cuts off
cannot be known. Both branches of `append`, with and without an overlap, come to
the same: the rows before the earliest new time `minT` are kept and every series
is drawn from its first point at `minT` or later. A cell before `minT` is not
changed by new points from `minT` on, except that a gap may open at `minT - 1`,
and that one is drawn with them.

- `LoopDrawsLikeCache`: `Q!Spec => Q!DrawsLikeCache`, that is, `CacheQueue`
  implements `Cache`. `End` is `AppendBatch`, every other step a stutter. The loop's
  invariant (`LoopOK`) has three parts: what `append` did before the loop (`Begun`);
  the queue holds for each series its next point, and the gap before it if that
  is not yet drawn (`Ahead`, `Waits`); the rows behind those kept show exactly the cells of
  the items popped so far, and none is later than anything in the queue
  (`Running`). So an item popped goes into the last row if that has its time and
  into a new row otherwise, in whatever order items of equal time come.

What stays with TLC: liveness, as nothing here proves a property under fairness
(`RequestsServed`, `StopEnds`, `EventuallyWritten`, `LiveDelivered`,
`EventuallyRecorded`, `EventuallyExported`, `EventuallySubscribed`, `EventsEnd`). Not run,
because they are proved or part of what is: the type invariants of `Broker`,
`Client`, `Synchronizer`, `ComputedSeries` and the array loops, and that the merge works in place.

## What is not modelled

- The parser of expressions (a pure function of a string), and the operators
  without state (adding, comparing, converting). A chain is modelled with a
  windowed function at its head, not with a second one behind it.
- NaN and infinite values in running sums, and a `maxGapMs` of 0.
- A crash of the whole server in `RTGraph` (the recorder has one), `Stop` in it
  (the broker has one), and malformed requests.
- In `ComputedSeries`, a sample lost between snapshot and live data, or dropped by
  the broker: these are in `RTGraph`, for series without a function.
- Drawing and titles; the arrays a caller of `append` may reuse (`Cache` takes
  them by value); the argument checks of `synchronize`.
- What dygraphs does beyond what `synchronizer.js` relies on, and the library
  that ends a gauge after a timeout.
- The in-memory backend, which has no `LoadDate` and is not used; migrations and
  `CreateSeries`, which run before anything else.
- The generated msgpack code, the rest of the bundles in
  `assets/rtgraph/dist`, the example.

A sample lost between the load of a snapshot and the registration of its
subscriber, samples published before `publishToDB` is registered, and late
samples of a series that lags behind at a reconnect are lost in the code; after
an error frame the handler waits for ever. The models contain these behaviours,
and no property denies them.

## Plan

What is left, in this order:

1. A crash of the server in `RTGraph`: browsers reconnect to a server that holds
   what the recorder had written.
2. What a reconnect can lose, as a property of series that lag behind others.
3. Two windowed functions in one chain, and when the second has filled.
