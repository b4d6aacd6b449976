------------------------------ MODULE RTGraph ------------------------------
(***************************************************************************)
(* The server of package rtgraph and the browsers that watch it: samples   *)
(* enter through CreateValue, the broker hands them to the recorder and to *)
(* one subscription per websocket, and a browser that loses its websocket  *)
(* makes a new one and asks for what it has not got.                       *)
(*                                                                         *)
(* The broker and the recorder are modules Broker and Recorder, step for   *)
(* step.  A sample is known by the number of the CreateValue call that     *)
(* made it, which is also its value.  Requests are for a window or for a   *)
(* date, and of series without functions: the operator of each position is *)
(* the identity.                                                           *)
(***************************************************************************)
EXTENDS Naturals, SequencesExt

CONSTANTS
  Series, Time,   \* names and timestamps of the samples
  Shown,          \* the series a browser asks for, one per position
  WindowStart,    \* where the window of a request begins
  Dates,          \* the dates it may ask for instead: sets of times, {} for none
  Viewer,         \* the browsers
  Conn,           \* the websockets, and the broker channels made for them
  DbCh,           \* the broker channel of publishToDB
  WireCap,        \* frames a websocket holds before a write blocks
  InboxCap, BufSize, MaxPublish,
  NoConn

ASSUME RTGraphAssumption ==
  /\ Time \subseteq Nat \ {0} /\ IsFiniteSet(Time)
  /\ Shown \in Seq(Series)
  /\ WindowStart \in Nat
  /\ Dates \subseteq SUBSET Time
  /\ DbCh \notin Conn /\ NoConn \notin Conn
  /\ IsFiniteSet(Conn)
  /\ WireCap \in Nat \ {0} /\ InboxCap \in Nat \ {0} /\ BufSize \in Nat \ {0}
  /\ MaxPublish \in Nat

VARIABLES
  subCh, unsubCh, publishCh, stopCh, subs, msg, todo, exited, dropCount,
  published, made, gone, sent, read, joined, left,    \* as in Broker
  objects, rows, table, writer, log, durable, crashes,  \* as in Recorder
  samples,   \* history: samples[m] is what CreateValue call m was given
  dbHolds,   \* publishToDB: message received and not yet inserted (0: none)
  pc,        \* where the goroutine of Graph.Subscribe is
  wanted,    \* the times it was asked for
  pos,       \* getInitialData: the next position to load
  out,       \* the data it is about to send on msgCh
  handler,   \* the websocket handler is in its loop over msgCh
  link,      \* state of the websocket
  frames,    \* frames[c]: everything written to the websocket
  seen,      \* seen[c]: how much of it the browser has processed
  sock,      \* the browser's websocket
  got,       \* the samples in the browser's cache, as they came
  date       \* the date its page asks for

brokerVars   == <<subCh, unsubCh, publishCh, stopCh, subs, msg, todo, exited,
                  dropCount, published, made, gone, sent, read, joined, left>>
recorderVars == <<objects, rows, table, writer, log, durable, crashes>>
subVars      == <<pc, wanted, pos, out>>
wireVars     == <<handler, link, frames, seen>>
viewerVars   == <<sock, got, date>>
vars == <<brokerVars, recorderVars, samples, dbHolds, subVars, wireVars,
          viewerVars>>

B == INSTANCE Broker WITH Chan <- Conn \cup {DbCh}

R == INSTANCE Recorder WITH
       Key <- Series \X Time, Value <- 1..MaxPublish, Absent <- 0,
       MaxAccepted <- MaxPublish, MaxCrashes <- 0

Positions == 1..Len(Shown)

\* The primary key of a sample's row.
KeyOf(m) == <<samples[m].series, samples[m].time>>

\* The numbers of a set, the least first.
Ascending(S) ==
  LET n == Cardinality(S)
  IN  CHOOSE s \in [1..n -> S] : \A i, j \in 1..n : i < j => s[i] < s[j]

\* A value of the series at a position of the request.
Entry(p, m) == [pos |-> p, sample |-> m]

\* Where message m shows: the positions inputMap lists for its series.
EntriesOf(m) ==
  LET at == Ascending({p \in Positions : Shown[p] = samples[m].series})
  IN  [i \in 1..Len(at) |-> Entry(at[i], m)]

DataFrame(entries) == [kind |-> "data", entries |-> entries]
HelloFrame         == [kind |-> "now", entries |-> <<>>]
ErrorFrame         == [kind |-> "error", entries |-> <<>>]

Init ==
  /\ B!Init
  /\ R!Init
  /\ samples = <<>> /\ dbHolds = 0
  /\ pc = [c \in Conn |-> "none"]
  /\ wanted = [c \in Conn |-> {}]
  /\ pos = [c \in Conn |-> 1]
  /\ out = [c \in Conn |-> <<>>]
  /\ handler = [c \in Conn |-> FALSE]
  /\ link = [c \in Conn |-> "none"]
  /\ frames = [c \in Conn |-> <<>>]
  /\ seen = [c \in Conn |-> 0]
  /\ sock = [v \in Viewer |-> NoConn]
  /\ got = [v \in Viewer |-> <<>>]
  /\ date \in [Viewer -> Dates]

-----------------------------------------------------------------------------
(***************************************************************************)
(* Samples, the broker and the way to the database.                        *)
(***************************************************************************)
\* Rejected variant: the caller writes the sample to the database as well.
CreateAndRecord(s, t) ==
  /\ B!Publish
  /\ samples' = Append(samples, [series |-> s, time |-> t])
  /\ R!Insert(<<s, t>>, published + 1)
  /\ UNCHANGED <<dbHolds, subVars, wireVars, viewerVars>>

CreateValue(s, t) ==
  /\ B!Publish
  /\ samples' = Append(samples, [series |-> s, time |-> t])
  /\ UNCHANGED <<recorderVars, dbHolds, subVars, wireVars, viewerVars>>

\* The rest of Broker!Start is out of reach: nobody calls Stop, and no loop
\* over a broker channel ends.
BrokerStep ==
  /\ \/ B!Register
     \/ B!TakeMessage
     \/ \E c \in Conn \cup {DbCh} : B!Offer(c)
  /\ UNCHANGED <<recorderVars, samples, dbHolds, subVars, wireVars, viewerVars>>

\* New starts publishToDB and returns: samples can be published before the
\* broker knows of the channel.
DbSubscribe ==
  /\ B!Subscribe(DbCh)
  /\ UNCHANGED <<recorderVars, samples, dbHolds, subVars, wireVars, viewerVars>>

DbTake ==
  /\ dbHolds = 0
  /\ B!Receive(DbCh)
  /\ dbHolds' = sent[DbCh][read'[DbCh]]
  /\ UNCHANGED <<recorderVars, samples, subVars, wireVars, viewerVars>>

\* Rejected variant: does not wait for room in the channel.
DbInsertOrSkip ==
  /\ dbHolds # 0
  /\ \/ R!Insert(KeyOf(dbHolds), dbHolds)
     \/ Len(objects) = BufSize /\ UNCHANGED recorderVars
  /\ dbHolds' = 0
  /\ UNCHANGED <<brokerVars, samples, subVars, wireVars, viewerVars>>

DbInsert ==
  /\ dbHolds # 0
  /\ R!InsertValue(KeyOf(dbHolds), dbHolds)
  /\ dbHolds' = 0
  /\ UNCHANGED <<brokerVars, samples, subVars, wireVars, viewerVars>>

WriterStep ==
  /\ R!RunWriter
  /\ UNCHANGED <<brokerVars, samples, dbHolds, subVars, wireVars, viewerVars>>

-----------------------------------------------------------------------------
(***************************************************************************)
(* The browser.                                                            *)
(***************************************************************************)

\* The timestamp of the last row of the chart, 0 if there is none.
LastPoint(v) ==
  Max({samples[got[v][i].sample].time : i \in 1..Len(got[v])} \cup {0})

\* Rejected variant: from the last point itself.
StartAtLast(lastPoint) ==
  IF lastPoint > WindowStart THEN lastPoint ELSE WindowStart

\* Request.Start: from the point after the last one, if the window has it.
Start(lastPoint) ==
  IF lastPoint # 0 /\ lastPoint + 1 > WindowStart
  THEN lastPoint + 1
  ELSE WindowStart

\* The times a request asks for: a date as a whole, or else all from the
\* start on.
Window(v) ==
  IF date[v] # {} THEN date[v] ELSE {t \in Time : t >= Start(LastPoint(v))}

\* The handler of /ws up to its loop: it accepts, reads the request and lets
\* a goroutine serve it.
Accept(c, times) ==
  /\ link[c] = "none"
  /\ link' = [link EXCEPT ![c] = "open"]
  /\ handler' = [handler EXCEPT ![c] = TRUE]
  /\ pc' = [pc EXCEPT ![c] = "hello"]
  /\ wanted' = [wanted EXCEPT ![c] = times]

\* connect, and the request that is sent when the socket is open.
Connect(v, c) ==
  /\ sock[v] = NoConn
  /\ sock' = [sock EXCEPT ![v] = c]
  /\ Accept(c, Window(v))
  /\ UNCHANGED <<brokerVars, recorderVars, samples, dbHolds, pos, out,
                 frames, seen, got, date>>

\* onmessage: the samples go into the cache.  An error is shown and changes
\* nothing, and neither does the clock of the first frame.
OnMessage(v) ==
  LET c == sock[v] IN
  /\ c # NoConn
  /\ seen[c] < Len(frames[c])
  /\ seen' = [seen EXCEPT ![c] = @ + 1]
  /\ got' = [got EXCEPT ![v] = @ \o frames[c][seen[c] + 1].entries]
  /\ UNCHANGED <<brokerVars, recorderVars, samples, dbHolds, subVars,
                 handler, link, frames, sock, date>>

\* The connection breaks; what was on its way is lost.
OnClose(v) ==
  LET c == sock[v] IN
  /\ c # NoConn
  /\ sock' = [sock EXCEPT ![v] = NoConn]
  /\ link' = [link EXCEPT ![c] = "broken"]
  /\ UNCHANGED <<brokerVars, recorderVars, samples, dbHolds, subVars,
                 handler, frames, seen, got, date>>

-----------------------------------------------------------------------------
(***************************************************************************)
(* The goroutine of Graph.Subscribe.  msgCh is not buffered: a send waits  *)
(* for the handler, and the handler for the websocket.                     *)
(***************************************************************************)

\* Rejected variant: skips the frame when the websocket is slow.
SendOrSkip(c, frame) ==
  /\ handler[c]
  /\ \/ /\ link[c] = "open"
        /\ frames' = IF Len(frames[c]) - seen[c] < WireCap
                     THEN [frames EXCEPT ![c] = Append(@, frame)]
                     ELSE frames
        /\ UNCHANGED handler
     \/ /\ link[c] = "broken"
        /\ handler' = [handler EXCEPT ![c] = FALSE]
        /\ UNCHANGED frames
  /\ UNCHANGED <<link, seen>>

\* The handler takes the data and writes it, or fails to and returns.  From
\* then on nobody receives from msgCh.
Send(c, frame) ==
  /\ handler[c]
  /\ \/ /\ link[c] = "open"
        /\ Len(frames[c]) - seen[c] < WireCap
        /\ frames' = [frames EXCEPT ![c] = Append(@, frame)]
        /\ UNCHANGED handler
     \/ /\ link[c] = "broken"
        /\ handler' = [handler EXCEPT ![c] = FALSE]
        /\ UNCHANGED frames
  /\ UNCHANGED <<link, seen>>

Goto(c, from, to) ==
  /\ pc[c] = from
  /\ pc' = [pc EXCEPT ![c] = to]

SendHello(c) ==
  /\ Goto(c, "hello", "load")
  /\ Send(c, HelloFrame)
  /\ UNCHANGED <<brokerVars, recorderVars, samples, dbHolds, wanted, pos, out,
                 viewerVars>>

\* The rows of the series at a position, by timestamp (LoadDataWindow and
\* LoadDate).
Rows(p, times) ==
  LET at == Ascending({t \in times : table[<<Shown[p], t>>] # 0})
  IN  [i \in 1..Len(at) |-> Entry(p, table[<<Shown[p], at[i]>>])]

\* Rejected variant: leaves out the row at the start of the window.
LoadAfter(c) ==
  LET later == wanted[c] \ {t \in wanted[c] : \A u \in wanted[c] : t <= u}
  IN
  /\ pc[c] = "load"
  /\ pos[c] \in Positions
  /\ out' = [out EXCEPT ![c] = @ \o Rows(pos[c], later)]
  /\ pos' = [pos EXCEPT ![c] = @ + 1]
  /\ UNCHANGED <<brokerVars, recorderVars, samples, dbHolds, pc, wanted,
                 wireVars, viewerVars>>

\* One turn of the loop of getInitialData.
Load(c) ==
  /\ pc[c] = "load"
  /\ pos[c] \in Positions
  /\ out' = [out EXCEPT ![c] = @ \o Rows(pos[c], wanted[c])]
  /\ pos' = [pos EXCEPT ![c] = @ + 1]
  /\ UNCHANGED <<brokerVars, recorderVars, samples, dbHolds, pc, wanted,
                 wireVars, viewerVars>>

\* A request that cannot be parsed, or a query that fails.
Refuse(c) ==
  /\ Goto(c, "load", "error")
  /\ UNCHANGED <<brokerVars, recorderVars, samples, dbHolds, wanted, pos, out,
                 wireVars, viewerVars>>

SendError(c) ==
  /\ Goto(c, "error", "ended")
  /\ Send(c, ErrorFrame)
  /\ UNCHANGED <<brokerVars, recorderVars, samples, dbHolds, wanted, pos, out,
                 viewerVars>>

SendInitial(c) ==
  /\ Goto(c, "load", "join")
  /\ pos[c] > Len(Shown)
  /\ Send(c, DataFrame(out[c]))
  /\ out' = [out EXCEPT ![c] = <<>>]
  /\ UNCHANGED <<brokerVars, recorderVars, samples, dbHolds, wanted, pos,
                 viewerVars>>

Join(c) ==
  /\ Goto(c, "join", "live")
  /\ B!Subscribe(c)
  /\ UNCHANGED <<recorderVars, samples, dbHolds, wanted, pos, out, wireVars,
                 viewerVars>>

\* A message of a series nobody asked for is skipped.
TakeLive(c) ==
  LET entries == EntriesOf(sent[c][read'[c]]) IN
  /\ pc[c] = "live"
  /\ B!Receive(c)
  /\ IF entries = <<>>
     THEN UNCHANGED <<pc, out>>
     ELSE /\ pc' = [pc EXCEPT ![c] = "send"]
          /\ out' = [out EXCEPT ![c] = entries]
  /\ UNCHANGED <<recorderVars, samples, dbHolds, wanted, pos, wireVars,
                 viewerVars>>

SendLive(c) ==
  /\ Goto(c, "send", "live")
  /\ Send(c, DataFrame(out[c]))
  /\ out' = [out EXCEPT ![c] = <<>>]
  /\ UNCHANGED <<brokerVars, recorderVars, samples, dbHolds, wanted, pos,
                 viewerVars>>

Subscribe(c) ==
  \/ SendHello(c) \/ Load(c) \/ Refuse(c) \/ SendError(c)
  \/ SendInitial(c) \/ Join(c) \/ TakeLive(c) \/ SendLive(c)

-----------------------------------------------------------------------------
Next ==
  \/ \E s \in Series, t \in Time : CreateValue(s, t)
  \/ BrokerStep
  \/ DbSubscribe \/ DbTake \/ DbInsert
  \/ WriterStep
  \/ \E c \in Conn : Subscribe(c)
  \/ \E v \in Viewer : OnMessage(v) \/ OnClose(v)
  \/ \E v \in Viewer, c \in Conn : Connect(v, c)

Spec == Init /\ [][Next]_vars

\* Every goroutine runs and every open browser processes its messages; the
\* application need not publish, and websockets need not break or be
\* replaced.
Fairness ==
  /\ WF_vars(BrokerStep)
  /\ WF_vars(DbSubscribe \/ DbTake \/ DbInsert)
  /\ WF_vars(WriterStep)
  /\ \A c \in Conn : WF_vars(Subscribe(c))
  /\ \A v \in Viewer : WF_vars(OnMessage(v))

FairSpec == Spec /\ Fairness

-----------------------------------------------------------------------------
(***************************************************************************)
(* Properties.                                                             *)
(***************************************************************************)
Messages == 1..MaxPublish
Entries  == [pos : Positions, sample : Messages]
Frames   == [kind : {"data", "now", "error"}, entries : Seq(Entries)]

LocalTypeOK ==
  /\ samples \in Seq([series : Series, time : Time]) /\ Len(samples) = published
  /\ dbHolds \in 0..MaxPublish
  /\ pc \in [Conn -> {"none", "hello", "load", "error", "ended", "join",
                      "live", "send"}]
  /\ wanted \in [Conn -> SUBSET Time]
  /\ pos \in [Conn -> 1..(Len(Shown) + 1)]
  /\ out \in [Conn -> Seq(Entries)]
  /\ handler \in [Conn -> BOOLEAN]
  /\ link \in [Conn -> {"none", "open", "broken"}]
  /\ frames \in [Conn -> Seq(Frames)]
  /\ seen \in [Conn -> Nat] /\ \A c \in Conn : seen[c] <= Len(frames[c])
  /\ sock \in [Viewer -> Conn \cup {NoConn}]
  /\ got \in [Viewer -> Seq(Entries)]
  /\ date \in [Viewer -> Dates]

TypeOK == B!TypeOK /\ R!TypeOK /\ LocalTypeOK

\* No browser gets a sample twice at a position, over all the websockets it
\* ever makes for a window: not from the snapshot and the live data of one
\* connection, and not again after a reconnect.
AtMostOnce ==
  \A v \in Viewer : date[v] = {} => IsInjective(got[v])

\* On one websocket live data is newer, in the order of the CreateValue
\* calls, than all that was sent before: the snapshot and earlier live data.
\* The snapshot is the third frame at the latest, after the clock.
LiveAfterSnapshot ==
  \A c \in Conn : \A i, j \in 1..Len(frames[c]) :
    2 < j /\ i < j =>
      \A a \in B!Elems(frames[c][i].entries), b \in B!Elems(frames[c][j].entries) :
        a.sample < b.sample

\* A snapshot misses no recorded sample between two it holds: whatever row
\* of a series in the window it lacks is of a later sample than all of that
\* series it has.  What a browser can lose between the snapshot and the
\* registration is therefore one unbroken stretch of samples.
SnapshotIsPrefix ==
  \A c \in Conn, p \in Positions : Len(frames[c]) >= 2 =>
    LET Snapshot == {e.sample : e \in {f \in B!Elems(frames[c][2].entries) : f.pos = p}}
    IN  \A t \in wanted[c] :
          LET m == table[<<Shown[p], t>>] IN
          m # 0 /\ m \notin Snapshot => \A n \in Snapshot : n < m

\* While its handler runs, a subscription loses nothing the broker has put
\* into its channel: a sample of a series that is shown still waits in the
\* channel, or is being sent, or was written to the websocket.
NothingLostInTransit ==
  \A c \in Conn : handler[c] =>
    \A i \in 1..Len(sent[c]) :
      \A e \in B!Elems(EntriesOf(sent[c][i])) :
        \/ i > read[c]
        \/ e \in B!Elems(out[c])
        \/ \E f \in B!Elems(frames[c]) : e \in B!Elems(f.entries)

\* A sample the broker gave publishToDB is on its way or has its row, unless
\* a transaction failed; and the row of a key is the first such sample.
FirstSampleRecorded ==
  LET ToDb == sent[DbCh] IN
  \A i \in 1..Len(ToDb) :
    LET k == KeyOf(ToDb[i]) IN
    \/ i > read[DbCh]
    \/ dbHolds = ToDb[i]
    \/ \E j \in 1..Len(rows \o objects) : (rows \o objects)[j].value = ToDb[i]
    \/ writer = "returned"
    \/ table[k] = Min({m \in B!Elems(ToDb) : KeyOf(m) = k})

\* What the broker has put into the channel of a websocket reaches the
\* browser, or the websocket breaks: nothing between the two keeps it, before
\* the snapshot or after.
LiveDelivered ==
  \A v \in Viewer, c \in Conn, m \in Messages :
    sock[v] = c /\ m \in B!Elems(sent[c])
      ~> \/ sock[v] # c
         \/ m <= published /\ B!Elems(EntriesOf(m)) \subseteq B!Elems(got[v])

\* The key of every sample the broker has put into the channel of
\* publishToDB is in the table in the end, or RunWriter has given up.
EventuallyRecorded ==
  \A m \in Messages :
    m \in B!Elems(sent[DbCh])
      ~> writer = "returned" \/ (m <= published /\ table[KeyOf(m)] # 0)

-----------------------------------------------------------------------------
(***************************************************************************)
(* The inductive invariant behind the safety properties, apart from the    *)
(* invariants of the broker and the recorder.                              *)
(***************************************************************************)
\* Neither of the loops over a broker channel ends.
NobodyLeaves ==
  gone = {} /\ unsubCh = <<>> /\ \A c \in Conn \cup {DbCh} : left[c] = 0

\* The recorder has accepted what publishToDB has received, less the message
\* that it is about to insert.
Inserted == IF dbHolds = 0 THEN read[DbCh] ELSE read[DbCh] - 1

InsertOf(m) == [kind |-> "insert", key |-> KeyOf(m), value |-> m]

LogIsRead ==
  /\ dbHolds # 0 => read[DbCh] > 0 /\ dbHolds = sent[DbCh][read[DbCh]]
  /\ Len(log) = Inserted
  /\ \A i \in 1..Inserted : log[i] = InsertOf(sent[DbCh][i])

\* The frames a subscription has sent tell where its goroutine is, as long
\* as the handler takes them.
Stage(c) ==
  LET n == Len(frames[c]) IN
  /\ pc[c] = "none" <=> link[c] = "none"
  /\ c \in made <=> pc[c] \in {"live", "send"}
  /\ pc[c] = "none" => ~handler[c] /\ seen[c] = 0 /\ pos[c] = 1
  /\ pc[c] \in {"none", "hello"} => n = 0 /\ out[c] = <<>>
  /\ pc[c] \in {"load", "error"} => n <= 1 /\ (handler[c] => n = 1)
  /\ pc[c] \in {"join", "ended"} => n <= 2 /\ (handler[c] => n = 2)
  /\ pc[c] \in {"live", "send"} /\ handler[c] => n >= 2
  /\ pc[c] \in {"join", "live"} => out[c] = <<>>
  /\ n > 0 => frames[c][1].entries = <<>>

\* The newest sample a snapshot can have; and how many of the messages it has
\* received a subscription is done with.
Mark(c) == IF c \in subs THEN joined[c] ELSE msg
Done(c) == IF pc[c] = "send" THEN read[c] - 1 ELSE read[c]

\* What is in a frame: up to the second what the snapshot can have, from the
\* third on a message that was received.
FrameOrigin(c) ==
  \A i \in 1..Len(frames[c]) :
    \A e \in B!Elems(frames[c][i].entries) :
      IF i <= 2
      THEN e.sample <= Mark(c)
      ELSE \E n \in 1..Done(c) : e.sample = sent[c][n]

OutOrigin(c) ==
  IF pc[c] = "send"
  THEN read[c] > 0 /\ out[c] = EntriesOf(sent[c][read[c]])
  ELSE \A e \in B!Elems(out[c]) : e.sample <= Mark(c)

FramesDistinct(c) == \A i \in 1..Len(frames[c]) : IsInjective(frames[c][i].entries)

\* The snapshot, as far as it is made.
Snapshot(c) ==
  IF pc[c] = "load" THEN out[c]
  ELSE IF Len(frames[c]) >= 2 THEN frames[c][2].entries
  ELSE <<>>

SnapshotRows(c) ==
  /\ IsInjective(Snapshot(c))
  /\ \A e \in B!Elems(Snapshot(c)) :
       /\ e.sample <= msg
       /\ samples[e.sample].series = Shown[e.pos] /\ samples[e.sample].time \in wanted[c]
       /\ table[KeyOf(e.sample)] = e.sample
       /\ pc[c] = "load" => e.pos < pos[c]

SnapshotAt(c, p) == {e.sample : e \in {f \in B!Elems(Snapshot(c)) : f.pos = p}}

SnapshotGaps(c) ==
  \A p \in Positions : \A t \in wanted[c] :
    LET m == table[<<Shown[p], t>>] IN
    m # 0 /\ m \notin SnapshotAt(c, p) => \A n \in SnapshotAt(c, p) : n < m

\* A browser's websocket is open and its own, and what its cache has is old.
SocketOK(v) ==
  /\ sock[v] # NoConn => link[sock[v]] = "open"
  /\ \A w \in Viewer : sock[v] # NoConn /\ sock[w] = sock[v] => w = v
  /\ \A e \in B!Elems(got[v]) : e.sample <= msg

\* What the browser of a window has is a frame of its websocket, or older
\* than the websocket and outside of what that one was asked for.
CacheOrigin(v) ==
  date[v] = {} /\ sock[v] # NoConn =>
    \A e \in B!Elems(got[v]) :
      \/ \E i \in 1..seen[sock[v]] : e \in B!Elems(frames[sock[v]][i].entries)
      \/ samples[e.sample].time \notin wanted[sock[v]] /\ e.sample <= Mark(sock[v])

ConnInv(c) ==
  /\ Stage(c)
  /\ FrameOrigin(c) /\ OutOrigin(c) /\ FramesDistinct(c)
  /\ SnapshotRows(c) /\ SnapshotGaps(c)

ViewerInv(v) == SocketOK(v) /\ CacheOrigin(v)

IInv ==
  /\ LocalTypeOK /\ NobodyLeaves /\ LogIsRead
  /\ \A c \in Conn : ConnInv(c)
  /\ \A v \in Viewer : ViewerInv(v)
  /\ AtMostOnce /\ LiveAfterSnapshot /\ NothingLostInTransit
=============================================================================
